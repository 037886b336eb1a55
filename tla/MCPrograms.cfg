SPECIFICATION ProgramSpec
CONSTANTS
    InputReader = {r1, r2}
    Nowhere = Nowhere
    RingSize = 4
    Motion <- MouseMotion
    PressedKey = {"altgr", "lshift", "up", "rctrl"}
    LineByte = {"a", "^C"}
    MaxInput = 4
    console_width = 3
    console_height = 2
    TAB_STOP = 2
    ConsoleByte = {"x", "esc", "[", "lf", "tab", "2", "3", "5", "7", "?", ";", "A", "C", "J", "K", "m", "l"}
    MaxParams = 3
    MaxBelow = 2
    MaxWritten = 6
    WordBytes = 2
    StackAlign = 4
    GuardBytes = 4
    StackSizes = {14, 18, 32}
    MaxArgs = 2
    MaxStrlen = 2
    SearchPaths <- ProgramSearches
    EditorByte = {"a", "esc", "[", "C", "D", "3", "~", "bs", "^U", "^D", "lf"}
    BUF_SIZE = 5
    EditorParams = 1
    terminal_width = 4
    prompt_len = 1
    MAX_ARGC = 3
    LineBytes = {"w", " ", ">", "|", "&", ";"}
    MaxLine = 5
    Nodes = {2, 20}
    PointerRange = 64
    MemSize = 6
    WordSize = 2
    MaxItems = 5
    MaxBuffer = 5
    StartYears = {2003, 2023, 2099}
    WalkDays = 75
    BufBytes = 2
    MaxInputBytes = 4
    FreadItem = 2
    SliceLen = 3
    MaxFrames = 2
    ImageWidth = 3
    ImageHeight = 2
    ViewWidth = 2
    ViewHeight = 2
    ImageColors <- Colors
    Hardware = {"bochs", "multiboot"}
    FbWidth = 3
    FbHeight = 3
    MultibootPitch = 4
    CursorWidth = 2
    CursorHeight = 2
    CursorMask <- Arrow
    CursorColor = "ink"
    CursorMotion <- Motions
    MaxMotions = 2
    WindowOps <- Painted
    Blank = "blank"
    PageWords = 4
    ArenaPages = 4
    MaxAlign = 2
    BlockSizes = {1, 2, 3, 7}
    MaxMallocs = 4
    HeapUser = {r1, r2}
    HeapPages = 5
    HeapFrames = 4
    MaxBlock = 2
INVARIANTS
    InputArrives
    ArgsArrive
    LinesAreUnderstood
    LibraryIsRight
    ContentsArriveWhole
    HeapIsPartitioned
SYMMETRY ReaderSymmetry
