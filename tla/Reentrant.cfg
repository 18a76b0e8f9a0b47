SPECIFICATION Spec
CONSTANTS
    a = a  b = b  c = c  h = h  g = g
    Items = {a, b, c}
    Hosts = {h, g}
    HostOf <- OneHost
    MaxTries = 2
    MaxPerHost = 2
    InitialLimit = 2
    Limits = {0}
    Priorities = {0}
    Denied = {b}
    Malformed = {}
    Ops = {"start", "pause", "resume", "pauseAll", "resumeAll", "takeContent", "remove", "removeFailed", "clear", "reload", "loadNow"}
    Rules = {"noStaleKeys", "noForcedPending", "noReloadLoaded"}
    MaxCalls = 3
INVARIANTS ConnectionsAreTransfers ItemsLoadedCounts
PROPERTIES ForcedIsLoaded ImplementsDownloadQueue
SYMMETRY Symmetry
CHECK_DEADLOCK FALSE
