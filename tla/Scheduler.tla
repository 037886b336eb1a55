----------------------------- MODULE Scheduler -----------------------------
(***************************************************************************)
(* Processes on the one CPU of the Chaotix kernel: kernel/scheduler.c,     *)
(* kernel/process.c and kernel/syscall/process.c.                          *)
(*                                                                         *)
(* System calls run with interrupts enabled (their interrupt gate is a     *)
(* trap gate), so the timer may preempt a process between any two of their *)
(* steps; pc[p] is where process p is inside its system call.  What the    *)
(* code does between push_cli() and pop_cli() is one step.  A context      *)
(* switch runs with interrupts disabled: it is the steps of mode "scan"    *)
(* (one per process that unblock_processes() examines) and "deque", during *)
(* which nobody else moves.                                                *)
(*                                                                         *)
(* A process is named by its pid, and pids are never reused.               *)
(***************************************************************************)
EXTENDS Integers, Sequences

CONSTANTS
    Workload,      \* the kinds of requests that processes and consoles make
    MaxPid,        \* bound: the number of processes a behaviour may create
    WaitArgs,      \* the pid arguments of waitpid()
    SetpgidArgs,   \* the pgid arguments of setpgid()
    Signals,       \* the signal numbers that are sent
    CrashSignals,  \* the signal numbers that exceptions are mapped to
    ExitArgs       \* the arguments of exit()

Requests == {"kill", "killpg", "setpgid", "fork", "yield", "block", "waitpid",
             "exit", "crash", "tty"}

ASSUME WorkloadAssumption == Workload \subseteq Requests
ASSUME MaxPidAssumption == MaxPid \in Nat \ {0}
ASSUME WaitArgsAssumption == WaitArgs \subseteq Int
ASSUME SetpgidArgsAssumption == SetpgidArgs \subseteq Nat
ASSUME SignalsAssumption == Signals \subseteq 0 .. 31
ASSUME CrashSignalsAssumption == CrashSignals \subseteq {4, 8, 11}
ASSUME ExitArgsAssumption == ExitArgs \subseteq 0 .. 255

Proc == 1 .. MaxPid
InitProc == 1
Idle == 0          \* the idle process: never registered and never queued
NoProc == 0        \* the NULL pointer to a process

VARIABLES
    current,         \* the process that owns the CPU
    mode,            \* what the CPU is doing, or why the kernel has stopped
    scanned,         \* unblock_processes() is done with the pids up to this
    all_processes,   \* the list, which scheduler_register() keeps sorted
    ready_queue,     \* the nodes of the list, from its head
    looped,          \* the last node of ready_queue points to itself
    state, ppid, pgid, pending_signals, exit_status,
    pc,              \* where the process is inside its system call
    param,           \* what it waits for: a Selector
    waited,          \* waited_process of its struct waitpid_blocker
    armed,           \* its should_unblock is not NULL
    interrupted,     \* its blocker_was_interrupted
    target,          \* the struct process a kill() or fork() in flight holds
    event,           \* truth of the condition that non-waitpid blockers test
    raced            \* history: an interrupt hit a process inside the window
                     \* of scheduler_block() where it is not yet asleep

kernelVars == <<current, mode, scanned, all_processes, ready_queue, looped>>
procVars == <<state, ppid, pgid, pending_signals, exit_status>>
callVars == <<pc, param, waited, armed, interrupted, target>>
vars == <<kernelVars, procVars, callVars, event, raced>>

(* What a blocked process waits for: the exit of a process that a          *)
(* waitpid() selects, or the event of any other blocker.                   *)
Selector == [by : {"pid", "ppid", "pgid", "event"}, is : Nat]
Event == [by |-> "event", is |-> 0]

States == {"RUNNABLE", "RUNNING", "BLOCKED", "DYING", "DEAD"}
Unborn == "unborn"     \* no struct process has this pid yet
Freed == "freed"       \* sys_waitpid() has freed the struct process

Stops == {"init exited", "ASSERT should_unblock", "unimplemented signal",
          "use after free", "hung"}

PCs == {"user", "fork_register", "fork_enqueue", "kill_send", "setpgid_write",
        "check", "nohang", "set_state", "set_blocker", "block_yield",
        "block_return", "wait_return", "die", "sysret"}

KernelTypes ==
    /\ current \in Proc \cup {Idle}
    /\ mode \in {"run", "scan", "deque"} \cup Stops
    /\ scanned \in 0 .. MaxPid
    /\ all_processes \in SUBSET Proc
    /\ ready_queue \in Seq(Proc)
    /\ looped \in BOOLEAN
    /\ event \in BOOLEAN
    /\ raced \in BOOLEAN

ProcTypes ==
    /\ state \in [Proc -> States \cup {Unborn, Freed}]
    /\ ppid \in [Proc -> Proc]
    /\ pgid \in [Proc -> Nat]
    /\ pending_signals \in [Proc -> SUBSET Signals]
    /\ exit_status \in [Proc -> Nat]

CallTypes ==
    /\ pc \in [Proc -> PCs]
    /\ param \in [Proc -> Selector]
    /\ waited \in [Proc -> Proc \cup {NoProc}]
    /\ armed \in [Proc -> BOOLEAN]
    /\ interrupted \in [Proc -> BOOLEAN]
    /\ target \in [Proc -> Proc \cup {NoProc}]

TypeOK == KernelTypes /\ ProcTypes /\ CallTypes

(* The state that boot leaves: kernel_init has spawned init and exited, so *)
(* init, whose parent it was, has been adopted by init itself.             *)
Init ==
    /\ current = InitProc
    /\ mode = "run"
    /\ scanned = 0
    /\ all_processes = {InitProc}
    /\ ready_queue = <<>>
    /\ looped = FALSE
    /\ state = [p \in Proc |-> IF p = InitProc THEN "RUNNING" ELSE Unborn]
    /\ ppid = [p \in Proc |-> InitProc]
    /\ pgid = [p \in Proc |-> InitProc]
    /\ pending_signals = [p \in Proc |-> {}]
    /\ exit_status = [p \in Proc |-> 0]
    /\ pc = [p \in Proc |-> "user"]
    /\ param = [p \in Proc |-> Event]
    /\ waited = [p \in Proc |-> NoProc]
    /\ armed = [p \in Proc |-> FALSE]
    /\ interrupted = [p \in Proc |-> FALSE]
    /\ target = [p \in Proc |-> NoProc]
    /\ event = FALSE
    /\ raced = FALSE

-----------------------------------------------------------------------------
(* The ready queue.  scheduler_enqueue() clears the next pointer of the    *)
(* process and then walks to the tail.  A process that is already in the   *)
(* queue thereby cuts off all that was behind it, becomes the tail and is  *)
(* made its own successor; the walk does not end if another process is     *)
(* enqueued after that.                                                    *)

Queued(p) == \E i \in DOMAIN ready_queue : ready_queue[i] = p

CutBehind(p) == SubSeq(ready_queue, 1,
                       CHOOSE i \in DOMAIN ready_queue : ready_queue[i] = p)

(* Fault: the process is put at the head.                                  *)
PutFirst(p) == <<p>> \o ready_queue
PutLast(p) == Append(ready_queue, p)

scheduler_enqueue(p, next) ==
    \/ /\ ~Queued(p) /\ ~looped
       /\ ready_queue' = PutLast(p)
       /\ mode' = next
       /\ UNCHANGED looped
    \/ /\ ~Queued(p) /\ looped
       /\ mode' = "hung"
       /\ UNCHANGED <<ready_queue, looped>>
    \/ /\ Queued(p)
       /\ ready_queue' = CutBehind(p)
       /\ looped' = TRUE
       /\ mode' = next

(* Fault: the process is requeued whatever the caller asks for.            *)
YieldRequeues(requeue_current) ==
    scanned' = 0 /\ scheduler_enqueue(current, "scan")

(* scheduler_yield(): the process leaves the CPU, into the ready queue if  *)
(* it is requeued, and the context switch begins.                          *)
scheduler_yield(requeue_current) ==
    /\ scanned' = 0
    /\ IF requeue_current /\ current # Idle
       THEN scheduler_enqueue(current, "scan")
       ELSE mode' = "scan" /\ UNCHANGED <<ready_queue, looped>>

(* The CPU executes process p, which is at point l.                        *)
At(p, l) == mode = "run" /\ current = p /\ pc[p] = l
Goto(p, l) == pc' = [pc EXCEPT ![p] = l]

(* syscall_handler() lets only processes into a handler that are not DYING. *)
InUserland(p) == At(p, "user") /\ state[p] # "DYING"

-----------------------------------------------------------------------------
(* Signals.                                                                *)

(* The kernel panics on signals that stop or continue a process, which are *)
(* not implemented, and on signal 0, which has no disposition              *)
(* (process.c:307, 324).                                                   *)
DISP_IGN == {17, 23, 28}
DISP_STOP_CONT == {18, 19, 20, 21, 22}
Disposition(sig) == CASE sig \in DISP_IGN -> "ign"
                      [] sig \in DISP_STOP_CONT \cup {0} -> "unimplemented"
                      [] OTHER -> "term"

(* process_handle_pending_signals() of process p, whose pending signals    *)
(* are sigs: it takes them from the lowest to the highest, and each makes  *)
(* the process DYING with its own number as the exit status.               *)
HandlePendingSignals(p, sigs, states) ==
    \/ sigs = {} /\ state' = states /\ UNCHANGED exit_status
    \/ \E highest \in sigs :
          /\ \A sig \in sigs : sig <= highest
          /\ state' = [states EXCEPT ![p] = "DYING"]
          /\ exit_status' = [exit_status EXCEPT ![p] = highest]

(* Of the processes that get a signal, those that handle it at once: the   *)
(* others do when they get the CPU.  (Fault: a zombie handles it too.)     *)
HandledByZombies(ps) == {p \in ps : p = current \/ state[p] = "DEAD"}
HandledNow(ps) == ps \cap {current}

(* send_signal() to every process of the set ps, in pid order.             *)
send_signal(ps, sig) ==
    \/ /\ Disposition(sig) = "ign" \/ ps = {}
       /\ UNCHANGED <<state, exit_status, pending_signals, mode>>
    \/ /\ Disposition(sig) = "unimplemented" /\ ps # {}
       /\ mode' = "unimplemented signal"
       /\ UNCHANGED <<state, exit_status, pending_signals>>
    \/ /\ Disposition(sig) = "term" /\ ps # {}
       /\ pending_signals' =
              [p \in Proc |-> IF p \in HandledNow(ps) THEN {}
                              ELSE IF p \in ps THEN pending_signals[p] \cup {sig}
                              ELSE pending_signals[p]]
       /\ IF HandledNow(ps) = {} THEN UNCHANGED <<state, exit_status>>
          ELSE \E p \in HandledNow(ps) :
                 HandlePendingSignals(p, pending_signals[p] \cup {sig}, state)
       /\ UNCHANGED mode

InGroup(g) == {p \in all_processes : pgid[p] = g}

(* sys_kill() with pid > 0 finds the process and, interrupts being enabled *)
(* again, sends the signal through the pointer in a later step.            *)
sys_kill(p, t) ==
    /\ InUserland(p)
    /\ t \in all_processes
    /\ target' = [target EXCEPT ![p] = t]
    /\ Goto(p, "kill_send")
    /\ UNCHANGED <<kernelVars, procVars, param, waited, armed, interrupted,
                   event, raced>>

KillSend(p, sig) ==
    /\ At(p, "kill_send")
    /\ IF state[target[p]] = Freed
       THEN /\ mode' = "use after free"
            /\ UNCHANGED <<state, exit_status, pending_signals>>
       ELSE send_signal({target[p]}, sig)
    /\ target' = [target EXCEPT ![p] = NoProc]
    /\ Goto(p, "sysret")
    /\ UNCHANGED <<current, scanned, all_processes, ready_queue, looped,
                   ppid, pgid, param, waited, armed, interrupted, event, raced>>

(* sys_kill() of a group, or with pid = -1 of everyone but init, holds     *)
(* interrupts off from the first process to the last.                      *)
KillMany(p, ps, sig) ==
    /\ InUserland(p)
    /\ send_signal(ps, sig)
    /\ Goto(p, "sysret")
    /\ UNCHANGED <<current, scanned, all_processes, ready_queue, looped,
                   ppid, pgid, param, waited, armed, interrupted, target,
                   event, raced>>

sys_kill_group(p, g, sig) == KillMany(p, InGroup(g), sig)
sys_kill_all(p, sig) == KillMany(p, all_processes \ {InitProc}, sig)

(* sys_setpgid() finds the process in the same way, and writes the group   *)
(* through the pointer in a later step.                                    *)
sys_setpgid(p, t) ==
    /\ InUserland(p)
    /\ t \in all_processes
    /\ target' = [target EXCEPT ![p] = t]
    /\ Goto(p, "setpgid_write")
    /\ UNCHANGED <<kernelVars, procVars, param, waited, armed, interrupted,
                   event, raced>>

SetpgidWrite(p, g) ==
    /\ At(p, "setpgid_write")
    /\ IF state[target[p]] = Freed
       THEN mode' = "use after free" /\ UNCHANGED pgid
       ELSE /\ pgid' = [pgid EXCEPT ![target[p]] = IF g = 0 THEN target[p] ELSE g]
            /\ UNCHANGED mode
    /\ target' = [target EXCEPT ![p] = NoProc]
    /\ Goto(p, "sysret")
    /\ UNCHANGED <<current, scanned, all_processes, ready_queue, looped,
                   state, ppid, pending_signals, exit_status, param,
                   waited, armed, interrupted, event, raced>>

-----------------------------------------------------------------------------
(* fork(), sched_yield().                                                  *)

Unused == {c \in Proc : state[c] = Unborn}

(* sys_fork() up to the call of scheduler_register(): pids are given out   *)
(* in order, and the child is a copy of the parent.                        *)
sys_fork(p) ==
    /\ InUserland(p)
    /\ \E c \in Unused :
          /\ \A d \in Unused : c <= d
          /\ state' = [state EXCEPT ![c] = "RUNNABLE"]
          /\ ppid' = [ppid EXCEPT ![c] = p]
          /\ pgid' = [pgid EXCEPT ![c] = pgid[p]]
          /\ target' = [target EXCEPT ![p] = c]
    /\ Goto(p, "fork_register")
    /\ UNCHANGED <<kernelVars, pending_signals, exit_status, param, waited,
                   armed, interrupted, event, raced>>

(* An allocation after the pid was drawn fails: ENOMEM, and the struct     *)
(* process is leaked.                                                      *)
ForkFails(p) ==
    /\ At(p, "fork_register")
    /\ target' = [target EXCEPT ![p] = NoProc]
    /\ Goto(p, "sysret")
    /\ UNCHANGED <<kernelVars, procVars, param, waited, armed, interrupted,
                   event, raced>>

(* scheduler_register() makes the child visible with interrupts off, and   *)
(* enqueues it afterwards.                                                 *)
scheduler_register(p) ==
    /\ At(p, "fork_register")
    /\ all_processes' = all_processes \cup {target[p]}
    /\ Goto(p, "fork_enqueue")
    /\ UNCHANGED <<current, mode, scanned, ready_queue, looped, procVars, param,
                   waited, armed, interrupted, target, event, raced>>

ForkEnqueue(p) ==
    /\ At(p, "fork_enqueue")
    /\ scheduler_enqueue(target[p], "run")
    /\ target' = [target EXCEPT ![p] = NoProc]
    /\ Goto(p, "sysret")
    /\ UNCHANGED <<current, scanned, all_processes, procVars, param, waited,
                   armed, interrupted, event, raced>>

sys_sched_yield(p) ==
    /\ InUserland(p)
    /\ Goto(p, "sysret")
    /\ scheduler_yield(TRUE)
    /\ UNCHANGED <<current, all_processes, procVars, param, waited, armed,
                   interrupted, target, event, raced>>

-----------------------------------------------------------------------------
(* Blocking.                                                               *)

(* The processes that waitpid_should_unblock() looks for.                  *)
Targets(sel) ==
    {t \in all_processes : CASE sel.by = "pid" -> t = sel.is
                             [] sel.by = "ppid" -> ppid[t] = sel.is
                             [] sel.by = "pgid" -> pgid[t] = sel.is
                             [] OTHER -> FALSE}
(* Those of them that waitpid() can take.  (Fault: Targets itself.)        *)
Zombies(sel) == {t \in Targets(sel) : state[t] = "DEAD"}

(* should_unblock(): waitpid_should_unblock() holds when a target is dead  *)
(* or when there is no target at all; any other blocker tests its event.   *)
should_unblock(p) ==
    IF param[p] = Event THEN event
    ELSE Zombies(param[p]) # {} \/ Targets(param[p]) = {}

(* Fault: the zombie stays in the list.                                    *)
StillListed(z) == all_processes
Unlisted(z) == all_processes \ {z}

(* The effect of a should_unblock() that holds: the first dead target      *)
(* leaves the list and is handed to the waiter.                            *)
TakeZombie(p) ==
    LET zombies == Zombies(param[p]) IN
    IF param[p] # Event /\ zombies # {}
    THEN \E z \in zombies : /\ \A y \in zombies : z <= y
                            /\ all_processes' = Unlisted(z)
                            /\ waited' = [waited EXCEPT ![p] = z]
    ELSE UNCHANGED <<all_processes, waited>>

(* The struct waitpid_blocker that sys_waitpid() fills in: waitpid(0) is   *)
(* about the group that the caller is in at this moment.                   *)
SelectorKeepsSign(p, pid) == [by |-> "pgid", is |-> pid]   \* fault
WaitSelector(p, pid) ==
    CASE pid < -1 -> [by |-> "pgid", is |-> -pid]
      [] pid = -1 -> [by |-> "ppid", is |-> p]
      [] pid = 0 -> [by |-> "pgid", is |-> pgid[p]]
      [] OTHER -> [by |-> "pid", is |-> pid]

sys_waitpid(p, pid, nohang) ==
    /\ InUserland(p)
    /\ param' = [param EXCEPT ![p] = WaitSelector(p, pid)]
    /\ Goto(p, IF nohang THEN "nohang" ELSE "check")
    /\ UNCHANGED <<kernelVars, procVars, waited, armed, interrupted, target,
                   event, raced>>

(* Any other system call that blocks: sleeping, or reading or writing a    *)
(* pipe, a socket, a terminal.                                             *)
BlockOnEvent(p) ==
    /\ InUserland(p)
    /\ Goto(p, "check")
    /\ UNCHANGED <<kernelVars, procVars, param, waited, armed, interrupted,
                   target, event, raced>>

(* waitpid() with WNOHANG calls waitpid_should_unblock() once and returns  *)
(* ECHILD when it does not hold.                                           *)
WaitNohang(p) ==
    /\ At(p, "nohang")
    /\ \/ /\ should_unblock(p)
          /\ TakeZombie(p)
          /\ Goto(p, "wait_return")
          /\ UNCHANGED param
       \/ /\ ~should_unblock(p)
          /\ Goto(p, "sysret")
          /\ param' = [param EXCEPT ![p] = Event]
          /\ UNCHANGED <<all_processes, waited>>
    /\ UNCHANGED <<current, mode, scanned, ready_queue, looped, procVars, armed,
                   interrupted, target, event, raced>>

(* Where sys_waitpid(), or any other caller, goes on after scheduler_block. *)
AfterBlock(p) == IF param[p] = Event THEN "sysret" ELSE "wait_return"

(* scheduler_block(), in the steps between which it can be preempted: the  *)
(* test, the assignment of the state, that of the blocker, and the yield.  *)
BlockCheck(p) ==
    /\ At(p, "check")
    /\ \/ /\ should_unblock(p)
          /\ TakeZombie(p)
          /\ Goto(p, AfterBlock(p))
       \/ /\ ~should_unblock(p)
          /\ Goto(p, "set_state")
          /\ UNCHANGED <<all_processes, waited>>
    /\ UNCHANGED <<current, mode, scanned, ready_queue, looped, procVars, param,
                   armed, interrupted, target, event, raced>>

BlockSetState(p) ==
    /\ At(p, "set_state")
    /\ state' = [state EXCEPT ![p] = "BLOCKED"]
    /\ Goto(p, "set_blocker")
    /\ UNCHANGED <<kernelVars, ppid, pgid, pending_signals, exit_status, param,
                   waited, armed, interrupted, target, event, raced>>

BlockSetBlocker(p) ==
    /\ At(p, "set_blocker")
    /\ armed' = [armed EXCEPT ![p] = TRUE]
    /\ interrupted' = [interrupted EXCEPT ![p] = FALSE]
    /\ Goto(p, "block_yield")
    /\ UNCHANGED <<kernelVars, procVars, param, waited, target, event, raced>>

BlockYield(p) ==
    /\ At(p, "block_yield")
    /\ Goto(p, "block_return")
    /\ scheduler_yield(FALSE)
    /\ UNCHANGED <<current, all_processes, procVars, param, waited, armed,
                   interrupted, target, event, raced>>

(* Back on the CPU: EINTR, or what the process waited for has happened.    *)
BlockReturn(p) ==
    /\ At(p, "block_return")
    /\ \/ /\ interrupted[p]
          /\ Goto(p, "sysret")
          /\ param' = [param EXCEPT ![p] = Event]
       \/ /\ ~interrupted[p]
          /\ Goto(p, AfterBlock(p))
          /\ UNCHANGED param
    /\ UNCHANGED <<kernelVars, procVars, waited, armed, interrupted, target,
                   event, raced>>

(* The end of sys_waitpid(): ECHILD without a process, or else the process *)
(* is freed.  scheduler_unregister() comes first; its loop does not end if *)
(* it finds the process, which ZombieHasOneOwner excludes.                 *)
WaitReturn(p) ==
    /\ At(p, "wait_return")
    /\ state' = IF waited[p] = NoProc THEN state
                ELSE [state EXCEPT ![waited[p]] = Freed]
    /\ waited' = [waited EXCEPT ![p] = NoProc]
    /\ param' = [param EXCEPT ![p] = Event]
    /\ Goto(p, "sysret")
    /\ UNCHANGED <<kernelVars, ppid, pgid, pending_signals, exit_status, armed,
                   interrupted, target, event, raced>>

-----------------------------------------------------------------------------
(* Death.                                                                  *)

(* process_exit(), and process_crash_in_userland() with a signal number.   *)
BeginExit(p, status) ==
    /\ exit_status' = [exit_status EXCEPT ![p] = status]
    /\ Goto(p, "die")
    /\ UNCHANGED <<kernelVars, state, ppid, pgid, pending_signals, param, waited,
                   armed, interrupted, target, event, raced>>

sys_exit(p, status) == InUserland(p) /\ BeginExit(p, status * 256)
process_crash_in_userland(p, signum) == At(p, "user") /\ BeginExit(p, signum)

(* The children of p are adopted by init.  (Fault: they are not.)          *)
KeptByParent(p) == ppid
Adopted(p) == [q \in Proc |-> IF q \in all_processes /\ ppid[q] = p
                              THEN InitProc ELSE ppid[q]]

(* die(): while the process tears down its memory and its files interrupts *)
(* are on (it is at "die"); the rest runs with interrupts off.             *)
die(p) ==
    /\ At(p, "die")
    /\ \/ /\ p = InitProc
          /\ mode' = "init exited"
          /\ UNCHANGED <<scanned, ready_queue, looped, state, ppid>>
       \/ /\ p # InitProc
          /\ ppid' = Adopted(p)
          /\ state' = [state EXCEPT ![p] = "DEAD"]
          /\ scheduler_yield(FALSE)
    /\ UNCHANGED <<current, all_processes, pgid, pending_signals, exit_status,
                   callVars, event, raced>>

(* process_die_if_needed() as a system call begins or ends.                *)
process_die_if_needed(p) ==
    /\ \/ At(p, "user") /\ state[p] = "DYING"
       \/ At(p, "sysret")
    /\ Goto(p, IF state[p] = "DYING" THEN "die" ELSE "user")
    /\ UNCHANGED <<kernelVars, procVars, param, waited, armed, interrupted,
                   target, event, raced>>

-----------------------------------------------------------------------------
(* Interrupts, and the context switch.                                     *)

InWindow(p) == pc[p] \in {"set_state", "set_blocker", "block_yield"}
Interrupts == raced' = (raced \/ (current # Idle /\ InWindow(current)))

(* The interrupt of a console: tty_maybe_send_signal() for the foreground  *)
(* group, on top of whatever the CPU was executing.                        *)
TtySignal(g, sig) ==
    /\ mode = "run"
    /\ InGroup(g) # {}
    /\ send_signal(InGroup(g), sig)
    /\ Interrupts
    /\ UNCHANGED <<current, scanned, all_processes, ready_queue, looped,
                   ppid, pgid, callVars, event>>

(* scheduler_tick(): the timer preempts the process, or lets it die when   *)
(* it was killed and has not entered the kernel since.                     *)
scheduler_tick ==
    /\ mode = "run"
    /\ Interrupts
    /\ \/ /\ current # Idle /\ pc[current] = "user" /\ state[current] = "DYING"
          /\ Goto(current, "die")
          /\ UNCHANGED <<scanned, mode, ready_queue, looped>>
       \/ /\ ~(current # Idle /\ pc[current] = "user" /\ state[current] = "DYING")
          /\ scheduler_yield(TRUE)
          /\ UNCHANGED pc
    /\ UNCHANGED <<current, all_processes, procVars, param, waited, armed,
                   interrupted, target, event>>

(* What a non-waitpid blocker waits for comes and goes.                    *)
EventChanges ==
    /\ mode = "run"
    /\ event' = ~event
    /\ UNCHANGED <<kernelVars, procVars, callVars, raced>>

(* What is left for unblock_processes() to examine.  (Fault: it starts     *)
(* with the second process of the list.)                                   *)
UnscannedButFirst ==
    {p \in all_processes : p > scanned /\ p # InitProc /\ state[p] = "BLOCKED"}
Unscanned == {p \in all_processes : p > scanned /\ state[p] = "BLOCKED"}

(* A process is woken by a signal or by what it waits for.                 *)
WakesUpButForSignals(p) == pending_signals[p] = {} /\ should_unblock(p)  \* fault
WakesUp(p) == pending_signals[p] # {} \/ should_unblock(p)

UnblockUnqueued(p) ==                                                    \* fault
    /\ armed' = [armed EXCEPT ![p] = FALSE]
    /\ interrupted' = [interrupted EXCEPT ![p] = pending_signals[p] # {}]
    /\ state' = [state EXCEPT ![p] = "RUNNING"]
    /\ UNCHANGED <<mode, ready_queue, looped>>

UnblockKeepsBlocker(p) ==                                                \* fault
    /\ interrupted' = [interrupted EXCEPT ![p] = pending_signals[p] # {}]
    /\ state' = [state EXCEPT ![p] = "RUNNING"]
    /\ scheduler_enqueue(p, "scan")
    /\ UNCHANGED armed

Unblock(p) ==
    /\ armed' = [armed EXCEPT ![p] = FALSE]
    /\ interrupted' = [interrupted EXCEPT ![p] = pending_signals[p] # {}]
    /\ state' = [state EXCEPT ![p] = "RUNNING"]
    /\ scheduler_enqueue(p, "scan")

(* One iteration of unblock_processes(): the next BLOCKED process.         *)
unblock_processes(p) ==
    /\ mode = "scan"
    /\ p \in Unscanned /\ \A q \in Unscanned : p <= q
    /\ scanned' = p
    /\ \/ /\ ~armed[p]
          /\ mode' = "ASSERT should_unblock"
          /\ UNCHANGED <<all_processes, ready_queue, looped, state, waited,
                         armed, interrupted>>
       \/ /\ armed[p] /\ WakesUp(p)
          /\ IF pending_signals[p] = {} THEN TakeZombie(p)
             ELSE UNCHANGED <<all_processes, waited>>
          /\ Unblock(p)
       \/ /\ armed[p] /\ ~WakesUp(p)
          /\ UNCHANGED <<mode, all_processes, ready_queue, looped, state, waited,
                         armed, interrupted>>
    /\ UNCHANGED <<current, ppid, pgid, pending_signals, exit_status, pc, param,
                   target, event, raced>>

UnblockDone ==
    /\ mode = "scan"
    /\ Unscanned = {}
    /\ mode' = "deque"
    /\ UNCHANGED <<current, scanned, all_processes, ready_queue, looped,
                   procVars, callVars, event, raced>>

(* scheduler_deque(): the head of the queue; a node that is its own        *)
(* successor stays in it.                                                  *)
scheduler_deque ==
    IF ready_queue = <<>>
    THEN current' = Idle /\ UNCHANGED <<ready_queue, looped>>
    ELSE /\ current' = Head(ready_queue)
         /\ IF looped /\ Len(ready_queue) = 1
            THEN looped' = FALSE /\ UNCHANGED ready_queue
            ELSE ready_queue' = Tail(ready_queue) /\ UNCHANGED looped

(* The rest of switch_to_next_process(): the process gets the CPU and its  *)
(* pending signals are delivered.  That it is not dead, which the code     *)
(* asserts, is part of SchedulerAsserts.                                   *)
switch_to_next_process ==
    /\ mode = "deque"
    /\ scheduler_deque
    /\ mode' = "run"
    /\ \/ /\ current' = Idle
          /\ UNCHANGED <<state, exit_status, pending_signals>>
       \/ /\ current' # Idle
          /\ HandlePendingSignals(current', pending_signals[current'],
                 IF state[current'] = "RUNNABLE"
                 THEN [state EXCEPT ![current'] = "RUNNING"] ELSE state)
          /\ pending_signals' = [pending_signals EXCEPT ![current'] = {}]
    /\ UNCHANGED <<scanned, all_processes, ppid, pgid, callVars, event, raced>>

(* PANIC() halts the CPU, and an endless loop with interrupts off keeps it. *)
Halted == mode \in Stops /\ UNCHANGED vars

-----------------------------------------------------------------------------
KernelStep(p) ==
    \/ \E sig \in Signals : KillSend(p, sig)
    \/ \E g \in SetpgidArgs : SetpgidWrite(p, g)
    \/ ForkFails(p) \/ scheduler_register(p) \/ ForkEnqueue(p)
    \/ WaitNohang(p) \/ BlockCheck(p) \/ BlockSetState(p) \/ BlockSetBlocker(p)
    \/ BlockYield(p) \/ BlockReturn(p) \/ WaitReturn(p)
    \/ die(p) \/ process_die_if_needed(p)

Syscall(p) ==
    \/ "kill" \in Workload /\ \E t \in Proc : sys_kill(p, t)
    \/ /\ "killpg" \in Workload
       /\ \E sig \in Signals : \/ sys_kill_all(p, sig)
                               \/ \E g \in Proc : sys_kill_group(p, g, sig)
    \/ "setpgid" \in Workload /\ \E t \in Proc : sys_setpgid(p, t)
    \/ "fork" \in Workload /\ sys_fork(p)
    \/ "yield" \in Workload /\ sys_sched_yield(p)
    \/ "block" \in Workload /\ BlockOnEvent(p)
    \/ /\ "waitpid" \in Workload
       /\ \E pid \in WaitArgs, nohang \in BOOLEAN : sys_waitpid(p, pid, nohang)
    \/ "exit" \in Workload /\ \E status \in ExitArgs : sys_exit(p, status)
    \/ /\ "crash" \in Workload
       /\ \E sig \in CrashSignals : process_crash_in_userland(p, sig)

ContextSwitch ==
    \/ \E p \in Proc : unblock_processes(p)
    \/ UnblockDone
    \/ switch_to_next_process

Next ==
    \/ \E p \in Proc : KernelStep(p) \/ Syscall(p)
    \/ "tty" \in Workload /\ \E g \in Proc, sig \in Signals : TtySignal(g, sig)
    \/ scheduler_tick
    \/ "block" \in Workload /\ EventChanges
    \/ ContextSwitch
    \/ Halted

Spec == Init /\ [][Next]_vars

(* The processor keeps executing: a context switch runs to its end, the    *)
(* timer keeps ticking, and a process that is given the CPU again and      *)
(* again gets on with its system call.                                     *)
Fairness ==
    /\ WF_vars(ContextSwitch)
    /\ WF_vars(scheduler_tick)
    /\ \A p \in Proc : SF_vars(KernelStep(p))

FairSpec == Spec /\ Fairness

-----------------------------------------------------------------------------
Stopped == mode \in Stops
Runnable(p) == state[p] \in {"RUNNABLE", "RUNNING", "DYING"}

(* The process has been chosen to run, or is being put into the queue.     *)
OnItsWay(p) ==
    \/ p = current /\ mode = "run"
    \/ Queued(p)
    \/ \E q \in Proc : pc[q] = "fork_enqueue" /\ target[q] = p

(* As long as no interrupt hit the window of scheduler_block(), the ready  *)
(* queue is a well-formed list of processes that can run, each in it once, *)
(* and scheduler_deque() cannot meet a dead one.                           *)
ReadyQueueSound ==
    ~raced =>
        /\ ~looped
        /\ \A i, j \in DOMAIN ready_queue :
              ready_queue[i] = ready_queue[j] => i = j
        /\ \A i \in DOMAIN ready_queue :
              ready_queue[i] \in all_processes /\ Runnable(ready_queue[i])

(* As long as no interrupt hit that window, the scheduler loses nobody:    *)
(* every process that could run has the CPU or is in the queue.            *)
NobodyIsLost ==
    ~raced /\ ~Stopped =>
        \A p \in all_processes : Runnable(p) => OnItsWay(p)

(* What the scheduler asserts: scheduler_block() finds no blocker left     *)
(* over, scheduler_enqueue() gets and scheduler_deque() returns no process *)
(* that is dead, even after an interrupt hit the window.                   *)
SchedulerAsserts ==
    ~Stopped =>
        /\ \A p \in Proc : pc[p] \in {"check", "set_state"} => ~armed[p]
        /\ \A p \in Proc : pc[p] = "fork_enqueue" => state[target[p]] # "DEAD"
        /\ mode = "deque" /\ ready_queue # <<>> =>
              state[Head(ready_queue)] \notin {"DEAD", Freed}

(* A sleeping process has a blocker to wake it and an awake one has none,  *)
(* as long as no interrupt hit the window.                                 *)
BlockersMatchStates ==
    ~raced => \A p \in all_processes :
        state[p] = "BLOCKED" /\ p # current <=> armed[p] /\ p # current

(* A zombie that waitpid() took out of the list belongs to one waiter:     *)
(* scheduler_unregister() does not find it (its loop would not end) and    *)
(* kfree() gets it once.                                                   *)
ZombieHasOneOwner ==
    \A p \in Proc : waited[p] # NoProc =>
        /\ state[waited[p]] = "DEAD"
        /\ waited[p] \notin all_processes
        /\ \A q \in Proc : waited[q] = waited[p] => q = p

(* Signals that land anywhere, also between the statements of a system     *)
(* call or during the teardown of die(), leave the ready queue whole,      *)
(* nobody in the queue twice or missing from it, no assertion of the       *)
(* scheduler failed, every sleeper with its blocker, and each zombie with  *)
(* one owner (process.c:164, :327, scheduler.c:97, :132).                  *)
StaysSoundUnderSignals ==
    /\ TypeOK /\ ReadyQueueSound /\ NobodyIsLost
    /\ SchedulerAsserts /\ BlockersMatchStates /\ ZombieHasOneOwner

(* A process in the list always has a parent that is still alive, so that  *)
(* its end can be waited for.                                              *)
NoOrphans ==
    ~Stopped => \A p \in all_processes :
        /\ ppid[p] \in all_processes
        /\ state[ppid[p]] # "DEAD"

(* Nothing happens to a dead process but that it is freed, and the status  *)
(* that waitpid() reports is the one it died with, whatever is still sent  *)
(* to it.                                                                  *)
DeadIsFinal ==
    [][\A p \in Proc : state[p] = "DEAD" =>
          /\ state'[p] \in {"DEAD", Freed}
          /\ exit_status'[p] = exit_status[p]]_vars

(* A process leaves the list only as a zombie, and is freed only by the    *)
(* waitpid() that took it out.                                             *)
OnlyZombiesAreReaped ==
    [][/\ \A p \in all_processes \ all_processes' : state[p] = "DEAD"
       /\ \A p \in Proc : state[p] # Freed /\ state'[p] = Freed =>
             state[p] = "DEAD" /\ \E q \in Proc : waited[q] = p]_vars

(* Round robin: a queued process gets the CPU.                             *)
QueuedRuns ==
    \A p \in Proc : Queued(p) ~> (current = p \/ raced \/ Stopped)

Asleep(p) == state[p] = "BLOCKED" /\ pc[p] = "block_return"

(* No lost wakeup: a process asleep in waitpid() is woken once a target of *)
(* it is dead, unless another waiter takes that zombie.                    *)
WaiterIsWoken ==
    \A p, z \in Proc :
        (Asleep(p) /\ z \in Zombies(param[p]))
            ~> (~Asleep(p) \/ z \notin all_processes \/ raced \/ Stopped)

(* A signal wakes a sleeping process.                                      *)
SignalWakes ==
    \A p \in Proc : (Asleep(p) /\ pending_signals[p] # {})
                        ~> (~Asleep(p) \/ raced \/ Stopped)

(* unblock_processes() states ASSERT(it->should_unblock).                  *)
AssertShouldUnblock == mode # "ASSERT should_unblock"

(* A process that SIGKILL was sent to dies (or the kernel stops), even     *)
(* when no interrupt hit the window.                                       *)
KilledProcessDies ==
    \A p \in Proc : (state[p] # "DEAD" /\ 9 \in pending_signals[p])
                        ~> (state[p] \in {"DEAD", Freed} \/ raced \/ Stopped)
=============================================================================
