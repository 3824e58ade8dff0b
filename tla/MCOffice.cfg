SPECIFICATION MCSpec
CONSTANTS
    Passwords = {p1, p2}
    Operator = r1
    Roles = {r1, r2}
    Sessions = {s1, s2}
    Tokens = {t1}
    Workers = {w1, w2}
    MaxAttempts = 2
    HistoryLimit = 1
    MaxHistory = 3
    MaxFailures = 2
    MayFail = TRUE
    None = None
    Keys = {k1, k2}
    KnownManager = TRUE
    MaxEvents = 2
    FlagKeys = {f1, f2}
    MaxWrites = 2
    Rows = {report1, report2}
    Schedules = {d1, d2}
    FleetIds = {g1, g2}
    MaxVehicles = 2
    MaxRollups = 2
    Threshold = 2
    MaxCalls = 5
INVARIANTS
    Types
    PasswordIsRecorded
    RevocationIsRecorded
    RecordsAreGrounded
    CallsAgree
    CalculationsAgree
PROPERTIES
    RevokedStaysOut
    NothingIsUndone
SYMMETRY Symmetry
CHECK_DEADLOCK FALSE
