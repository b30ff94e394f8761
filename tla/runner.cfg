CONSTANTS
    nifty = nifty
    ce = ce
    pe = pe
    wing = wing
    Underlyings <- MCUnderlyings
    Contracts = {ce, pe}
    LegsOf <- Straddle
    Latched = TRUE
    BrokerStops = TRUE
    Horizon = 7
    MaxEntries = 3
    MaxHooks = 0
    MaxUnknown = 1
    MaxRestarts = 1
    MaxFaults = 1
SPECIFICATION MCSpec
ACTION_CONSTRAINT InScenario
INVARIANTS RecordsMatch NothingUntracked NoEntryOverPosition LatchesMatch
CHECK_DEADLOCK FALSE
