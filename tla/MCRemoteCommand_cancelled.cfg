SPECIFICATION MCSpec
CONSTANTS
    Commands = {c1}
    Vehicles = {v1}
    VehicleOf <- MCVehicleOf
    Workers = {w1}
    MaxRetries = 1
    MayFail = FALSE
    Sweeps = FALSE
    None = None
PROPERTIES
    CancelledIsNotSent
CHECK_DEADLOCK FALSE
