SPECIFICATION MCSpec
CONSTANTS
    Trips = {t1, t2}
    Workers = {w1, w2}
    IdleTimeout = 2
    MaxSamples = 3
    Distances = {5}
    Stamps <- AllStamps
    Manual = TRUE
    MayFail = TRUE
    Modes = {TRUE, FALSE}
    None = None
INVARIANTS
    TypeOK
    CachedIsRecorded
    AnnouncedIsDone
    SamplesCovered
PROPERTIES
    ImplementsLedger
    AloneAgrees
SYMMETRY Symmetry
CHECK_DEADLOCK FALSE
