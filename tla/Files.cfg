SPECIFICATION Spec
CONSTANTS
    NULL = NULL
    HAVE_PSI_INTERFACE = TRUE
    Threads = {t1, t2}
    Names = {n1, n2}
    Descriptors = {d1, d2}
    Streams = {s1}
    Size = 2
SYMMETRY Symmetry
INVARIANTS AttributionIsTrue WaitsMatchCalls StreamsNotLeaked BlockCountsTrue
