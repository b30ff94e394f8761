CONSTANTS
    Symbols = {s1}
    tick = tick
    api = api
    Threads <- MCEnterers
    Enterers <- MCEnterers
    MaxOrders = 3
    MaxQty = 1
    MaxCrashes = 0
    MaxFaults = 0
SPECIFICATION Spec
INVARIANT ExitNeverReverses
CHECK_DEADLOCK FALSE
