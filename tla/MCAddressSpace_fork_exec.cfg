SPECIFICATION FairSpec
CONSTANTS
    NFrames = 8
    NDevice = 1
    NConsole = 1
    MaxRef = 3
    Space = {s1, s2, s3, s4}
    NoSpace = NoSpace
    NPages = 4
    TableSize = 4
    ImagePages = 1
    StackPages = 1
    Sizes = {1}
    Kinds = {"shared"}
    Calls = {"fork", "exec"}
INVARIANTS
    FailuresGiveBack
PROPERTIES
    CallsReturn
