CONSTANTS
    Symbols = {"index", "leg"}
    Subscribed = {"index"}
    StaleAge = 2
    MaxTrip = 1
    MaxLosses = 1
SPECIFICATION Spec
PROPERTY StopsDecide
CHECK_DEADLOCK FALSE
