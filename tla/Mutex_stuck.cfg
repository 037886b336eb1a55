SPECIFICATION FairSpec
CONSTANTS
    Process = {p1, p2}
    NULL = NULL
    MaxDepth = 1
    Seekers = {p1}
PROPERTY SomebodyGetsIt
