SPECIFICATION LiveSpec
CONSTANTS
    Process = {p1, p2, p3, p4}
    NULL = NULL
    MaxDepth = 3
    Seekers = {p1, p2}
    PipeUser = {p1, p2}
    BUF_CAPACITY = 3
    Modulus = 4
    Counts = {2}
    Client = {c1, c2}
    Server = {s1, s2}
    Nobody = Nobody
    Backlog = 1
    SockCapacity = 1
    SockWord = 4
    MaxSent = 1
    Sleeper = {z1}
    TicksPerSec = 3
    SleepRequests <- Naps
    MaxSec = 3
    Player = {w1, w2}
    ListEntries = 4
    OutputPages = 2
    TunePages = 2
    WritePages = 2
    Commands <- TypedCommands
    MaxPid = 7
    MaxFd = 7
    MaxPipe = 2
    MaxCommands = 1
    MaxFailures = 1
INVARIANTS
    MutualExclusion
    UnlockAsserts
    ClientsAreServedOnce
    NeverWakesEarly
    TuneIsPlayed
    PromptIsRestored
PROPERTIES
    ImplementsRecursiveLock
    SomebodyGetsItUnlessSought
    WhoWaitsIsServed
    PromptReturns
