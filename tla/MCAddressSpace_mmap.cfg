SPECIFICATION Spec
CONSTANTS
    NFrames = 9
    NDevice = 2
    NConsole = 1
    MaxRef = 3
    Space = {s1, s2}
    NoSpace = NoSpace
    NPages = 7
    TableSize = 4
    ImagePages = 1
    StackPages = 1
    Sizes = {1, 2}
    Kinds = {"shared", "framebuffer"}
    Calls = {"mmap", "munmap", "fork", "exit"}
SYMMETRY Symmetry
INVARIANTS
    RefCountsMatch
    PrivateFramesAreExclusive
    RangesStaySound
