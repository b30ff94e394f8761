CONSTANTS
    tick = tick
    api = api
    s1 = s1
    s2 = s2
    Symbols = {s1, s2}
    Threads <- MCThreads
    Enterers <- MCEnterers
    Prices = {2, 4}
    Quantities = {2}
    Margins = {5}
    Declared = {9}
    MaxOrdersPerMin = 1
    Window = 1
    Charges <- MCCharges
    StopAt <- MCStopAt
    TrailAt <- MCTrailAt
    Horizon = 2
    MaxEntries = 2
    MaxCrashes = 0
    MaxFaults = 0
SYMMETRY MCSymmetry
SPECIFICATION Spec
INVARIANTS SnapshotIsOneMoment
CHECK_DEADLOCK FALSE
