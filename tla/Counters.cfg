SPECIFICATION FairSpec
CONSTANTS
    Threads = {t1, t2}
    Amounts = {1}
    Word = 3
    NULL = NULL
INVARIANTS InaccurateOnlyByRace
PROPERTIES AtomicSpec MutexGivenBack
