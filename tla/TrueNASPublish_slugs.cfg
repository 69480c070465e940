SPECIFICATION Spec
CONSTANTS
    j1 = j1
    j2 = j2
    w1 = w1
    w2 = w2
    Jobs = {j1, j2}
    Stations = {1, 2}
    Targets <- Selection
    Slug <- SameSlug
    Workers = {w1, w2}
    Deployments <- Plain
INVARIANT NoSharedDevice
