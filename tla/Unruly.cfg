SPECIFICATION Spec
CONSTANTS
    a = a  b = b  c = c  h = h  g = g
    Items = {a, b}
    Hosts = {h, g}
    HostOf <- TwoHosts
    MaxTries = 2
    MaxPerHost = 1
    InitialLimit = 2
    Limits = {0, 1}
    Priorities = {0}
    Denied = {}
    Malformed = {a}
    Ops = {"start", "pause", "pauseNext", "resume", "pauseAll", "resumeAll", "takeContent", "remove", "removeFailed", "removePaused", "removeAll", "clear", "reload", "loadNow", "changePriority"}
    Rules = {}
    MaxCalls = 3
INVARIANTS TypeOK HostBound FinishedHoldsNoConnection AnnouncedOnce
PROPERTIES OpensWithinLimit
CHECK_DEADLOCK FALSE
