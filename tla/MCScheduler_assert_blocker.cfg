SPECIFICATION Spec
CONSTANTS
    Workload = {"fork", "waitpid", "exit"}
    MaxPid = 2
    WaitArgs <- AnyChild
    SetpgidArgs = {}
    Signals = {9}
    CrashSignals = {}
    ExitArgs = {0}
INVARIANT AssertShouldUnblock
