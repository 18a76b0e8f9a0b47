SPECIFICATION Spec
CONSTANTS
    a = a  b = b  c = c  h = h  g = g
    Items = {a, b}
    Hosts = {h, g}
    HostOf <- OneHost
    MaxTries = 2
    MaxPerHost = 1
    InitialLimit = 1
    Limits = {0}
    Priorities = {0}
    Denied = {}
    Malformed = {}
    Ops = {"start", "takeContent", "removeFailed", "pauseNext", "resumeAll", "pauseAll", "removePaused"}
    Rules = {"noStaleKeys"}
    MaxCalls = 4
INVARIANTS NoIdleSlot
PROPERTIES EverythingSettles CompleteFollows
CHECK_DEADLOCK FALSE
