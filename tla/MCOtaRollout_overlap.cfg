SPECIFICATION MCSpec
CONSTANTS
    Versions = {f1}
    Campaigns = {c1, c2}
    FirmwareOf <- OneVersion
    Vehicles = {v1, v2}
    Deployments = {d1, d2}
    Workers = {w1, w2}
    Phases <- OnePhase
    MaxUpdates = 1
    Entered = {f1}
    MayFail = TRUE
    None = None
INVARIANTS
    TypeOK
    OutcomeIsReported
    AnnouncedIsCounted
    AnnouncedIsRecorded
SYMMETRY Symmetry
CHECK_DEADLOCK FALSE
