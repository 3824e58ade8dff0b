SPECIFICATION MCSpec
CONSTANTS
    Workers = {w1, w2}
    Vehicles = {v1, v2}
    MayFail = FALSE
    None = None
    Commands = {c1}
    VehicleOf <- MCVehicleOf
    MaxRetries = 1
    Sweeps = FALSE
    Versions = {f1}
    Campaigns = {k1}
    Deployments = {d1, d2}
PROPERTIES
    OutcomeIsTold
    CallsComplete
CHECK_DEADLOCK FALSE
