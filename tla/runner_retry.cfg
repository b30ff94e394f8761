CONSTANTS
    nifty = nifty
    ce = ce
    pe = pe
    wing = wing
    Underlyings <- MCUnderlyings
    Contracts = {ce, pe}
    LegsOf <- Straddle
    Latched = FALSE
    BrokerStops = FALSE
    Horizon = 1
    MaxEntries = 2
    MaxHooks = 0
    MaxUnknown = 0
    MaxRestarts = 0
    MaxFaults = 0
SPECIFICATION FairSpec
PROPERTY RetriesClose
CHECK_DEADLOCK FALSE
