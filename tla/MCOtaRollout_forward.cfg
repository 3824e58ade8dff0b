SPECIFICATION MCSpec
CONSTANTS
    Versions = {f1}
    Campaigns = {c1}
    FirmwareOf <- OneVersion
    Vehicles = {v1}
    Deployments = {d1}
    Workers = {w1, w2}
    Phases <- TwoPhases
    MaxUpdates = 1
    Entered = {f1}
    MayFail = FALSE
    None = None
PROPERTIES
    ProgressIsForward
CHECK_DEADLOCK FALSE
