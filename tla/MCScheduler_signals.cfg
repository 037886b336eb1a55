SPECIFICATION Spec
CONSTANTS
    Workload = {"kill", "killpg", "setpgid", "fork", "yield", "block", "waitpid", "exit", "crash", "tty"}
    MaxPid = 2
    WaitArgs <- AnyChild
    SetpgidArgs = {0}
    Signals = {0, 9, 19}
    CrashSignals = {11}
    ExitArgs = {1}
INVARIANTS
    StaysSoundUnderSignals
PROPERTIES
    DeadIsFinal
