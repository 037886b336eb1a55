SPECIFICATION FairSpec
CONSTANTS
    Workload = {"fork", "block", "kill", "waitpid"}
    MaxPid = 2
    WaitArgs <- AnyChild
    SetpgidArgs = {}
    Signals = {9}
    CrashSignals = {}
    ExitArgs = {0}
PROPERTY KilledProcessDies
