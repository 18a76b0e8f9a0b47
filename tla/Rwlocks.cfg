SPECIFICATION Spec
CONSTANTS
    NULL = NULL
    HAVE_PSI_INTERFACE = TRUE
    Threads = {t1, t2, t3}
    Rwlocks = {r1}
    Prlocks = {p1}
SYMMETRY Symmetry
INVARIANTS ReadersNotOvercounted WriterExcludesReaders NoUseAfterDestroy
