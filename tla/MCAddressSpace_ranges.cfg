SPECIFICATION Spec
CONSTANTS
    NFrames = 8
    NDevice = 1
    NConsole = 1
    MaxRef = 3
    Space = {s1}
    NoSpace = NoSpace
    NPages = 7
    TableSize = 4
    ImagePages = 1
    StackPages = 1
    Sizes = {1, 2}
    Kinds = {"shared", "framebuffer"}
    Calls = {"mmap", "munmap"}
INVARIANT AssertRanges
