SPECIFICATION MCSpec
CONSTANTS
    Workers = {w1, w2}
    MayFail = TRUE
    None = None
    Messages = {1, 2, 3, 4}
    City = city
    Depot = depot
    Fences <- Grounds
    FencesAt <- Way
    Tracked = {1, 2, 4}
    OdoOf <- Kilometres
    Odometers = {0, 1}
    Codes = {P0562}
    CodesOf <- Troubles
    Faulty = {1}
    Drivers = {d1, d2}
    Speeding = {1, 2}
    Window = 2
    Alerts = {1, 2, 3}
    Ignored = {3}
    ToUser = {2}
    MaxNotes = 2
INVARIANTS
    Types
    LocationIsStored
    RecordsAreGrounded
    InOrderAgrees
    OdometerKeepsUp
PROPERTIES
    CrossingsAlternate
SYMMETRY Symmetry
CHECK_DEADLOCK FALSE
