SPECIFICATION Spec
CONSTANTS
    Jobs = {j1}
    Stations = {s1, s2}
    Commands = {c1, c2, c3}
    Workers = {w1, w2}
    MaxEvents = 2
SYMMETRY Symmetry
INVARIANT TransactionalOutbox
INVARIANT VerdictMatchesTargets
PROPERTY FollowsLifecycle
CHECK_DEADLOCK FALSE
