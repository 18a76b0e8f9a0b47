SPECIFICATION Spec
CONSTANTS
    Byte = 8
    Size = 9
    Fields = 2
    Storable <- MCStorable
    SIZEOF_INT = 4
    Barrier = 5
    MaxLen = 13
    NsTick = 3
    UsecTicks = 2
    MsecTicks = 4
    SecTicks = 8
    LONG_MAX = 1
    ClockMax = 26
    SecMax = 2
    NsecMax = 27
    Askers = {a1, a2, a3}
    NoThread = NoThread
    Platforms = {"win", "posix", "rts", "cthreads", "darwin5", "dce", "hpux10", "dec"}
    Topics <- MCTopics
    DIG = 4
    Bits = 7
    MaxDepth = 3
    Buffers = {b1, b2}
    Libraries = {"daemon_example", "ftexample"}
    MaxPlugins = 2
    Codes = {0, 1, 255, 256, 258, 33144, 65280, 65535}
INVARIANTS
    NumbersReadBack
    TrimmedExactly
    DeadlinesTrue
    AssertionsExact
    VariablesFound
    ThreadCallsWork
    WidthsTrue
    NumbersTrue
    FunctionsKnown
    PluginsWork
    CharactersTrue
CHECK_DEADLOCK FALSE
