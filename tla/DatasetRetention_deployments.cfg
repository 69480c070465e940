SPECIFICATION RetentionSpec
CONSTANTS
    j1 = j1
    j2 = j2
    w1 = w1
    c1 = c1
    c2 = c2
    o1 = o1
    Jobs = {j1, j2}
    Stations = {1}
    Targets <- AllStations
    Slug <- DistinctSlugs
    Workers = {w1}
    Deployments <- All
    Cleaners = {c1, c2}
    Operators = {o1}
    BatchSize = 2
INVARIANT RetentionTypeOK
INVARIANT VerdictIsHonest
INVARIANT CurrentIsLive
INVARIANT DeletedIsGone
