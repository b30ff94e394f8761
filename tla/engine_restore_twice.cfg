CONSTANTS
    Symbols = {s1}
    tick = tick
    api = api
    Threads <- MCThreads
    Enterers <- MCEnterers
    MaxOrders = 2
    MaxQty = 1
    MaxCrashes = 1
    MaxFaults = 0
SPECIFICATION Spec
PROPERTY SecondRestoreChangesNothing
CHECK_DEADLOCK FALSE
