CONSTANTS
    Symbols = {s1}
    tick = tick
    api = api
    Threads <- MCThreads
    Enterers <- MCEnterers
    MaxOrders = 3
    MaxQty = 2
    MaxCrashes = 1
    MaxFaults = 1
SPECIFICATION Spec
INVARIANTS TypeOK JournalTruthful NoLostOrder OneExitPerSymbol ThreeBooksAgree RiskIsDurable
PROPERTIES JournalSpec
CHECK_DEADLOCK FALSE
