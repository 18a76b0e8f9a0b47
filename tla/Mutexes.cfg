SPECIFICATION Spec
CONSTANTS
    NULL = NULL
    HAVE_PSI_INTERFACE = TRUE
    Threads = {t1, t2, t3}
    Main = t1
    Mutexes = {m1}
    Conds = {c1}
    Ids = {7}
SYMMETRY Symmetry
INVARIANTS WaitsMatchCalls
PROPERTIES LedgerSpec
