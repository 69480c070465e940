SPECIFICATION Spec
CONSTANTS
    MaxCalls = 2
    RetryAttempts = 1
    MaxGarbage = 1
INVARIANTS
    NeverUnauthenticated
PROPERTIES
    ResultIsOwn
    EveryCallEnds
    ImplementsRemoteCall
CHECK_DEADLOCK FALSE
