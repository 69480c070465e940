SPECIFICATION Spec
CONSTANTS
    Executions = {"a1", "a2", "b1"}
    Stations = {"s1", "s2"}
    Jobs = {"a", "b"}
    JobOf <- MCJobOf
    Orders <- MCOrders
    MaxDeleted = 1
    None = "none"
INVARIANTS
    CurrentIsLastUpdate
    LostForAReason
PROPERTIES
    EveryPersistEnds
CHECK_DEADLOCK FALSE
