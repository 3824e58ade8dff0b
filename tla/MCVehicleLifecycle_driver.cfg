SPECIFICATION MCSpec
CONSTANTS
    Vehicles = {v1}
    Fleets = {}
    Codes = {}
    Workers = {w1, w2}
    Groups <- DriversOnly
    SerialGroups <- Nothing
    MaxChanges = 0
    MayFail = FALSE
    None = None
INVARIANTS
    OneActiveDriver
SYMMETRY Symmetry
CHECK_DEADLOCK FALSE
