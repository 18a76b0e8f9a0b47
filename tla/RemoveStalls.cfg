SPECIFICATION Spec
CONSTANTS
    a = a  b = b  c = c  h = h  g = g
    Items = {a, b}
    Hosts = {h, g}
    HostOf <- OneHost
    MaxTries = 2
    MaxPerHost = 1
    InitialLimit = 1
    Limits = {0}
    Priorities = {0}
    Denied = {}
    Malformed = {}
    Ops = {"start", "remove"}
    Rules = {"noReentry", "noStaleKeys"}
    MaxCalls = 3

PROPERTY EverythingSettles
CHECK_DEADLOCK FALSE
