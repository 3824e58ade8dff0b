SPECIFICATION MCSpec
CONSTANTS
    Vehicles = {v1}
    Fleets = {f1, f2}
    Codes = {p1, p2}
    Workers = {w1, w2}
    Groups <- ByColumns
    SerialGroups <- Together
    MaxChanges = 3
    MayFail = TRUE
    None = None
INVARIANTS
    TypeOK
    HistoryTellsCurrent
    HistoryIsGrounded
    AnnouncedIsRecorded
    PairedHasCode
PROPERTIES
    DeletedIsFrozen
    SerialAgrees
SYMMETRY Symmetry
CHECK_DEADLOCK FALSE
