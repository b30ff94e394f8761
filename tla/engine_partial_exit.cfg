CONSTANTS
    Symbols = {s1}
    tick = tick
    api = api
    Threads <- MCEnterers
    Enterers <- MCEnterers
    MaxOrders = 2
    MaxQty = 2
    MaxCrashes = 0
    MaxFaults = 0
SPECIFICATION Spec
INVARIANT HeldIsRecorded
CHECK_DEADLOCK FALSE
