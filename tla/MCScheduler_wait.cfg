SPECIFICATION Spec
CONSTANTS
    Workload = {"fork", "waitpid", "exit", "setpgid"}
    MaxPid = 3
    WaitArgs <- ChildOrGroup
    SetpgidArgs = {0}
    Signals = {}
    CrashSignals = {}
    ExitArgs = {1}
INVARIANTS
    TypeOK
    ReadyQueueSound
    NobodyIsLost
    SchedulerAsserts
    ZombieHasOneOwner
    NoOrphans
PROPERTIES
    OnlyZombiesAreReaped
