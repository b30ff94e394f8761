CONSTANTS
    nifty = nifty
    ce = ce
    pe = pe
    wing = wing
    Underlyings <- MCUnderlyings
    Contracts = {wing, ce, pe}
    LegsOf <- Fly
    Latched = FALSE
    BrokerStops = FALSE
    Horizon = 1
    MaxEntries = 3
    MaxHooks = 0
    MaxUnknown = 0
    MaxRestarts = 0
    MaxFaults = 0
SPECIFICATION Spec
INVARIANT HedgesCover
CHECK_DEADLOCK FALSE
