SPECIFICATION MCSpec
CONSTANTS
    Commands = {c1, c2}
    Vehicles = {v1}
    VehicleOf <- MCVehicleOf
    Workers = {w1, w2}
    MaxRetries = 1
    MayFail = TRUE
    Sweeps = TRUE
    None = None
INVARIANTS
    TypeOK
    OutcomeIsReported
    AnnouncedIsRecorded
    AnnouncedIsNotPending
    RetriesBounded
PROPERTIES
    FinalAtRest
    ImplementsLedger
SYMMETRY Symmetry
CHECK_DEADLOCK FALSE
