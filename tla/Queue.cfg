SPECIFICATION Spec
CONSTANTS
    a = a  b = b  c = c  h = h  g = g
    Items = {a, b, c}
    Hosts = {h, g}
    HostOf <- TwoHosts
    MaxTries = 2
    MaxPerHost = 1
    InitialLimit = 2
    Limits = {0, 1}
    Priorities = {0, 1}
    Denied = {c}
    Malformed = {}
    Ops = {"start", "changePriority", "pause", "pauseNext", "resume", "pauseAll", "resumeAll", "takeContent", "removeFailed"}
    Rules = {"noReentry", "noStaleKeys"}
    MaxCalls = 3
INVARIANTS FinishedMeansFinished
PROPERTIES OpensByPriority
CHECK_DEADLOCK FALSE
