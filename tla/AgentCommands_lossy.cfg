SPECIFICATION Spec
CONSTANTS
    MaxCommands = 2
    TTL = 20
    Lease = 3
    BatchSize = 2
    Interval = 1
    Timeout = 1
    Backoff = 0
    MaxAttempts = 2
    ClockAhead = 1
    MaxFaults = 1
    MaxRestarts = 1
    Tolerated = 1
INVARIANT AckedIsRefreshed
INVARIANT NoDuplicateAfterAck
INVARIANT DeliveredInTime
