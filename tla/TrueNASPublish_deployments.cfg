SPECIFICATION FairSpec
CONSTANTS
    j1 = j1
    j2 = j2
    w1 = w1
    w2 = w2
    Jobs = {j1, j2}
    Stations = {1, 2}
    Targets <- Selection
    Slug <- DistinctSlugs
    Workers = {w1, w2}
    Deployments <- All
INVARIANT VerifiedIsMapped
PROPERTY JobSucceeds
