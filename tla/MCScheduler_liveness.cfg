SPECIFICATION FairSpec
CONSTANTS
    Workload = {"fork", "waitpid", "exit", "kill", "block"}
    MaxPid = 2
    WaitArgs <- AnyChild
    SetpgidArgs = {}
    Signals = {9}
    CrashSignals = {}
    ExitArgs = {1}
PROPERTIES
    QueuedRuns
    WaiterIsWoken
    SignalWakes
