SPECIFICATION KernelSpec
CONSTANTS
    Process = {i1, i2, p3}
    NULL = NULL
    BUF_CAPACITY = 3
    Modulus = 4
    Counts = {0, 2}
    InodeProcess = {i1, i2}
    MaxInode = 8
    PathNames <- UsedPaths
    MaxCalls = 2
    MaxAllocFails = 1
    FdProcess = {d1, d2}
    NoDesc = 0
    OPEN_MAX = 2
    MaxDesc = 3
    FileUser = {f1, f2}
    NoUser = NoUser
    PageBytes = 2
    MaxFrames = 2
    IoCounts = {1, 2}
    Lengths = {0, 1, 3}
    MaxOffset = 4
    DirName = {a, b, long}
    LongName = {long}
    RootItem = {cmdline, uptime}
    BufCapacity = 2
    MaxListPid = 5
    MaxCreated = 4
    IrqThread = {t1, t2, idle}
    IdleThread = idle
    IrqLine = {0, 1, 12}
    MaxCli = 2
    OpsUser = {u1, u2}
    OpsGroups = {{"dir", "reg"}, {"proc"}, {"random"}}
    NotOpen = NotOpen
    RandBits = 2
    ItemBytes = 2
    MaxVersion = 1
    MaxNumbers = 4
SYMMETRY KernelSymmetry
INVARIANTS
    TreeIsSound
    DescriptorsAreCounted
    OpenFilesAreSound
    ListingIsComplete
    LinesStayOpen
PROPERTIES
    PipeIsAStream
    ImplementsSparseFile
