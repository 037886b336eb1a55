------------------------------- MODULE MCLive -------------------------------
(***************************************************************************)
(* Small instances of what processes wait for: the mutex, pipes, sockets,  *)
(* the clock, the sound card, and the shell, which waits for its children. *)
(* A behaviour is one of exactly one component, named by `part'; the       *)
(* variables of the others stay as they are at the beginning.  The         *)
(* components share no variable.                                           *)
(***************************************************************************)
EXTENDS Mutex, Sockets, Clock, Sound, ShellRun

CONSTANTS PipeUser, BUF_CAPACITY, Modulus, Counts

VARIABLES buf, bufHolder, num_readers, num_writers, access, pipePc, count, sent, received

Pipes == INSTANCE Fifo WITH Process <- PipeUser, holder <- bufHolder, pc <- pipePc

pipeVars == <<buf, bufHolder, num_readers, num_writers, access, pipePc, count, sent,
              received>>

VARIABLE part

In(p) == part = p

-----------------------------------------------------------------------------
(* Values for the constants.                                               *)
Exec(prog) == [type |-> "execute", prog |-> prog]
Pipe(l, r) == [type |-> "pipe", left |-> l, right |-> r]
Both(l, r) == [type |-> "juxtaposition", left |-> l, right |-> r]
TypedCommands ==
    {Pipe(Exec("src"), Exec("true")),
     Pipe(Exec("true"), Pipe(Exec("src"), Exec("die"))),
     Pipe(Exec("src"), Pipe(Exec("true"), Exec("cat"))),
     Both([type |-> "background", inner |-> Pipe(Exec("src"), Exec("true"))], Exec("missing")),
     [type |-> "redirect", from |-> Pipe(Exec("true"), Exec("cat"))],
     Exec("cd"),
     Both(Exec("exit"), Exec("true"))}

Naps == {[sec |-> 0, nsec |-> 1], [sec |-> 1, nsec |-> 1]}
-----------------------------------------------------------------------------
LiveInit ==
    /\ part \in {"mutex", "fifo", "sockets", "clock", "sound", "shell"}
    /\ Init /\ Pipes!Init /\ SocketsInit /\ ClockInit /\ ShellInit
    /\ SoundInit /\ (~In("sound") => \A w \in Player : player[w].left = 1)

liveVars == <<part, vars, pipeVars, sockVars, clockVars, soundVars, shellVars>>

(* The other parts use up their bounds; mutex and pipes go on for ever.    *)
Finished == part \notin {"mutex", "fifo"} /\ UNCHANGED liveVars

LiveNext ==
    /\ UNCHANGED part
    /\ \/ In("mutex") /\ Next
             /\ UNCHANGED <<pipeVars, sockVars, clockVars, soundVars,
                           shellVars>>
       \/ In("fifo") /\ Pipes!Next
             /\ UNCHANGED <<vars, sockVars, clockVars, soundVars,
                           shellVars>>
       \/ In("sockets") /\ SocketsNext
             /\ UNCHANGED <<vars, pipeVars, clockVars, soundVars,
                           shellVars>>
       \/ In("clock") /\ ClockNext
             /\ UNCHANGED <<vars, pipeVars, sockVars, soundVars,
                           shellVars>>
       \/ In("sound") /\ SoundNext
             /\ UNCHANGED <<vars, pipeVars, sockVars, clockVars,
                           shellVars>>
       \/ In("shell") /\ ShellNext
             /\ UNCHANGED <<vars, pipeVars, sockVars, clockVars,
                           soundVars>>
       \/ Finished

(* What is strongly fair in Mutex and in Fifo: taking the lock that p      *)
(* waits for.  PipeUser is a subset of Process, so that one formula serves *)
(* both parts; in a pipe p waits for one of the two at a time.             *)
TakesLock(p) ==
    \/ In("mutex") /\ Acquire(p, "lock", "lock_test") /\ UNCHANGED pipeVars
    \/ /\ In("fifo") /\ p \in PipeUser
       /\ Pipes!ReadLock(p) \/ Pipes!WriteLock(p)
       /\ UNCHANGED vars

(* The fairness of each component, for the behaviours of that component.   *)
LiveFairness ==
    /\ \A p \in Process : /\ WF_vars(In("mutex") /\ Step(p))
                          /\ WF_vars(In("mutex") /\ mutex_unlock(p))
    /\ \A p \in PipeUser : WF_pipeVars(In("fifo") /\ Pipes!Step(p))
    /\ \A p \in Process : SF_<<vars, pipeVars>>(TakesLock(p))
    /\ \A c \in Client : WF_sockVars(In("sockets") /\ ConnectGoesOn(c))
    /\ \A s \in Server : /\ WF_sockVars(In("sockets") /\ AcceptGoesOn(s))
                         /\ WF_sockVars(In("sockets") /\ AcceptUnblocks(s))
    /\ WF_clockVars(In("clock") /\ PitHandler)
    /\ \A z \in Sleeper : /\ WF_clockVars(In("clock") /\ WakeUp(z))
                          /\ WF_clockVars(In("clock") /\ SleepDeadline(z))
    /\ WF_soundVars(In("sound") /\ DmaCompletes)
    /\ WF_soundVars(In("sound") /\ SoundIrqHandler)
    /\ \A w \in Player : WF_soundVars(In("sound") /\ WriteStep(w))
    /\ WF_shellVars(In("shell") /\ CommandDone)
    /\ WF_shellVars(In("shell") /\ InitSpawns)
    /\ \A p \in Pid : WF_shellVars(In("shell") /\ ShellStep(p))

LiveSpec == LiveInit /\ [][LiveNext]_liveVars /\ LiveFairness

-----------------------------------------------------------------------------
(* Who waits is served: a reader or writer of a pipe goes on when there is *)
(* data or room or nobody at the other end (fifo.c:64, :102), a client     *)
(* that connects is accepted (unix_socket.c:160), a sleeper wakes up       *)
(* (syscall/time.c), a writer to the sound card finds room again           *)
(* (ac97.c:175).                                                           *)
WhoWaitsIsServed == /\ Pipes!EndOfPipeWakes /\ Pipes!DataWakes /\ WaitingIsAccepted
                    /\ SleeperWakes /\ WriterIsWoken

(* At the prompt the shell has its own descriptors and the terminal again  *)
(* (sh.c:632, 655, 572).                                                   *)
PromptIsRestored == In("shell") => DescriptorsRestored /\ PromptOwnsTerminal
=============================================================================
