SPECIFICATION MCSpec
CONSTANTS
    Trips = {t1}
    Workers = {w1}
    IdleTimeout = 2
    MaxSamples = 3
    Distances = {}
    Stamps = {0}
    Manual = FALSE
    MayFail = FALSE
    Modes = {TRUE}
    None = None
PROPERTIES
    IdleEndsTrip
SYMMETRY Symmetry
CHECK_DEADLOCK FALSE
