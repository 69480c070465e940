SPECIFICATION FairSpec
CONSTANTS
    Events = {1, 2}
    Relays = {r1, r2}
    BatchSize = 2
    MaxAttempts = 2
    LeaseFor = 2
    MaxDelayExp = 1
    MaxBatchTime = 3
    MaxStops = 1
INVARIANT NoSilentLoss
INVARIANT LeaseExclusive
PROPERTY OutcomeIsFinal
PROPERTY EventuallyResolved
CHECK_DEADLOCK FALSE
