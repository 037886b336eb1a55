-------------------------- MODULE SchedulerProofs --------------------------
(* The safety of the scheduler for every number of processes and every     *)
(* workload: a zombie has one owner, the dead stay dead, and the           *)
(* scheduler's assertions about dead processes hold, whether or not an     *)
(* interrupt has hit the window of scheduler_block(); everyone has a       *)
(* parent; and as long as no interrupt hit that window, the ready queue is *)
(* sound and nobody is lost.                                               *)
EXTENDS Scheduler, TLAPS

New(p) == state[p] \in {Unborn, "RUNNABLE"}
Awake(p) == state[p] \in {"RUNNING", "BLOCKED", "DYING"}
Alive(p) == Awake(p) \/ state[p] = "RUNNABLE"
Running(p) == mode = "run" /\ current = p
Forking(p) == pc[p] \in {"fork_register", "fork_enqueue"}
Tail_ == ready_queue[Len(ready_queue)]

(* A child that fork() has not enqueued yet: nobody else has got hold of   *)
(* it, so it is what fork() made it.                                       *)
Embryos ==
    \A p \in Proc : Forking(p) =>
        /\ target[p] \in Proc
        /\ state[target[p]] = "RUNNABLE"
        /\ ~Queued(target[p])
        /\ target[p] # current
        /\ pc[p] = "fork_register" => target[p] \notin all_processes
        /\ \A q \in Proc : Forking(q) /\ target[q] = target[p] => q = p

Listed == \A p \in all_processes : state[p] \in States

QueueOnce ==
    \A i, j \in DOMAIN ready_queue : ready_queue[i] = ready_queue[j] => i = j

(* Who is in the queue or on the CPU is not dead.                          *)
QueueAlive ==
    \A p \in Proc : /\ Queued(p) => Alive(p)
                    /\ Running(p) => Awake(p)

(* Who has never had the CPU has made no call.                             *)
Fresh == \A p \in Proc : New(p) => pc[p] = "user"

(* A process that was enqueued twice has been unblocked between its tick   *)
(* and its yield, and it has that yield still before it.                   *)
Residue(p) == pc[p] = "block_yield" /\ armed[p] = FALSE /\ state[p] # "BLOCKED"

Loop ==
    /\ looped = TRUE => ready_queue # <<>> /\ Residue(Tail_)
    /\ \A p \in Proc : Running(p) /\ Queued(p) => looped = FALSE /\ Residue(p)

(* Who gets the CPU with its blocker set has not yielded yet.              *)
Armed ==
    \A p \in Proc : armed[p] = TRUE =>
        /\ pc[p] \in {"block_yield", "block_return"}
        /\ Queued(p) \/ Running(p) => pc[p] = "block_yield"

Inv == /\ TypeOK /\ Embryos /\ Listed /\ QueueOnce /\ QueueAlive /\ Fresh /\ Loop
       /\ Armed /\ ZombieHasOneOwner

-----------------------------------------------------------------------------
(* What scheduler_enqueue() does to the queue.                             *)
LEMMA EnqueueFacts ==
    ASSUME ready_queue \in Seq(Proc), looped \in BOOLEAN, QueueOnce,
           looped = TRUE => ready_queue # <<>>,
           NEW p \in Proc, NEW m, scheduler_enqueue(p, m)
    PROVE  /\ ready_queue' \in Seq(Proc) /\ looped' \in BOOLEAN
           /\ mode' \in {m, "hung"}
           /\ QueueOnce'
           /\ \A q \in Proc : Queued(q)' => Queued(q) \/ q = p
           /\ ~Queued(p) => /\ looped' = looped
                            /\ looped' = TRUE => ready_queue' = ready_queue
           /\ Queued(p) => ready_queue' # <<>> /\ Tail_' = p
<1>1. CASE ~Queued(p) /\ ~looped
      <2>1. ready_queue' = Append(ready_queue, p) /\ mode' = m /\ looped' = looped
            BY <1>1 DEF scheduler_enqueue, PutLast
      <2>2. looped' = FALSE
            BY <1>1, <2>1
      <2>3. QueueOnce'
            BY <1>1, <2>1 DEF QueueOnce, Queued
      <2>4. \A q \in Proc : Queued(q)' => Queued(q) \/ q = p
            BY <2>1 DEF Queued
      <2>5. ready_queue' \in Seq(Proc)
            BY <2>1
      <2>6. QED
            BY <1>1, <2>1, <2>2, <2>3, <2>4, <2>5
<1>2. CASE ~Queued(p) /\ looped
      <2>1. UNCHANGED <<ready_queue, looped>> /\ mode' = "hung"
            BY <1>2 DEF scheduler_enqueue
      <2>2. QED
            BY <1>2, <2>1 DEF QueueOnce, Queued
<1>3. CASE Queued(p)
      <2>1. looped' = TRUE /\ mode' = m /\ ready_queue' = CutBehind(p)
            BY <1>3 DEF scheduler_enqueue
      <2> DEFINE k == CHOOSE i \in DOMAIN ready_queue : ready_queue[i] = p
      <2>2. k \in DOMAIN ready_queue /\ ready_queue[k] = p
            BY <1>3 DEF Queued
      <2>3. k \in 1 .. Len(ready_queue)
            BY <2>2
      <2> HIDE DEF k
      <2>4. ready_queue' = SubSeq(ready_queue, 1, k)
            BY <2>1 DEF CutBehind, k
      <2>5. /\ ready_queue' \in Seq(Proc) /\ Len(ready_queue') = k
            /\ \A i \in 1 .. k : ready_queue'[i] = ready_queue[i]
            BY <2>3, <2>4
      <2>6. DOMAIN ready_queue' = 1 .. k /\ DOMAIN ready_queue = 1 .. Len(ready_queue)
            BY <2>5
      <2>7. QueueOnce'
            BY <2>3, <2>5, <2>6 DEF QueueOnce
      <2>8. \A q \in Proc : Queued(q)' => Queued(q)
            BY <2>3, <2>5, <2>6 DEF Queued
      <2>9. ready_queue' # <<>> /\ Tail_' = p
            BY <2>2, <2>3, <2>5 DEF Tail_
      <2>10. QED
            BY <1>3, <2>1, <2>5, <2>7, <2>8, <2>9
<1>4. QED
      BY <1>1, <1>2, <1>3

(* What scheduler_deque() does to it.                                      *)
LEMMA DequeFacts ==
    ASSUME ready_queue \in Seq(Proc), looped \in BOOLEAN, QueueOnce,
           looped = TRUE => ready_queue # <<>>, scheduler_deque
    PROVE  /\ ready_queue' \in Seq(Proc) /\ looped' \in BOOLEAN
           /\ QueueOnce'
           /\ current' \in Proc \cup {Idle}
           /\ \A q \in Proc : Queued(q)' => Queued(q)
           /\ \A q \in Proc : q = current' =>
                  /\ Queued(q)
                  /\ Queued(q)' => looped = TRUE /\ looped' = FALSE /\ Tail_ = q
           /\ looped' = TRUE => looped = TRUE /\ ready_queue' # <<>> /\ Tail_' = Tail_
<1>1. CASE ready_queue = <<>>
      <2>1. current' = Idle /\ ready_queue' = <<>> /\ looped' = FALSE
            BY <1>1 DEF scheduler_deque
      <2>2. Idle \notin Proc
            BY MaxPidAssumption DEF Proc, Idle
      <2>3. QED
            BY <1>1, <2>1, <2>2 DEF QueueOnce, Queued
<1>2. CASE ready_queue # <<>>
      <2>1. /\ current' = ready_queue[1] /\ Len(ready_queue) > 0
            /\ IF looped /\ Len(ready_queue) = 1
               THEN looped' = FALSE /\ UNCHANGED ready_queue
               ELSE ready_queue' = Tail(ready_queue) /\ UNCHANGED looped
            BY <1>2 DEF scheduler_deque
      <2>2. current' \in Proc /\ Queued(current')
            BY <2>1, <1>2 DEF Queued
      <2>4. CASE looped = TRUE /\ Len(ready_queue) = 1
            <3>1. ready_queue' = ready_queue
                  BY <2>1, <2>4
            <3>2. looped' = FALSE
                  BY <2>1, <2>4
            <3>3. Tail_ = current'
                  BY <2>1, <2>4 DEF Tail_
            <3>4. QED
                  BY <2>2, <2>4, <3>1, <3>2, <3>3 DEF QueueOnce, Queued
      <2>5. CASE ~(looped = TRUE /\ Len(ready_queue) = 1)
            <3>1. ready_queue' = Tail(ready_queue) /\ looped' = looped
                  BY <2>1, <2>5
            <3>2. /\ ready_queue' \in Seq(Proc)
                  /\ Len(ready_queue') = Len(ready_queue) - 1
                  /\ \A i \in 1 .. Len(ready_queue) - 1 :
                        ready_queue'[i] = ready_queue[i + 1]
                  BY <3>1, <1>2
            <3>3. /\ DOMAIN ready_queue' = 1 .. Len(ready_queue) - 1
                  /\ DOMAIN ready_queue = 1 .. Len(ready_queue)
                  /\ Len(ready_queue) \in Nat
                  BY <3>2
            <3>4. QueueOnce'
                  <4>1. SUFFICES ASSUME NEW i \in 1 .. Len(ready_queue) - 1,
                                        NEW j \in 1 .. Len(ready_queue) - 1,
                                        ready_queue'[i] = ready_queue'[j]
                        PROVE  i = j
                        BY <3>3 DEF QueueOnce
                  <4>2. ready_queue[i + 1] = ready_queue[j + 1]
                        BY <4>1, <3>2
                  <4>3. i + 1 \in DOMAIN ready_queue /\ j + 1 \in DOMAIN ready_queue
                        BY <3>3
                  <4>4. i + 1 = j + 1
                        BY <4>2, <4>3 DEF QueueOnce
                  <4>5. QED
                        BY <4>4, <3>3
            <3>5. \A q \in Proc : Queued(q)' => Queued(q)
                  BY <3>2, <3>3 DEF Queued
            <3>6. \A q \in Proc : q = current' => ~Queued(q)'
                  <4>1. SUFFICES ASSUME NEW i \in 1 .. Len(ready_queue) - 1,
                                        ready_queue'[i] = current'
                        PROVE  FALSE
                        BY <3>3 DEF Queued
                  <4>2. ready_queue[i + 1] = ready_queue[1]
                        BY <4>1, <3>2, <2>1
                  <4>3. i + 1 \in DOMAIN ready_queue /\ 1 \in DOMAIN ready_queue
                        BY <3>3
                  <4>4. i + 1 = 1
                        BY <4>2, <4>3 DEF QueueOnce
                  <4>5. QED
                        BY <4>4, <3>3
            <3>7. looped' \in BOOLEAN
                  BY <3>1
            <3>8. ASSUME looped' = TRUE
                  PROVE looped = TRUE /\ Len(ready_queue) > 1
                  BY <2>1, <2>5, <3>1, <3>3, <3>8
            <3>9. ASSUME looped' = TRUE
                  PROVE ready_queue' # <<>> /\ Tail_' = Tail_
                  BY <3>8, <3>9, <3>2, <3>3 DEF Tail_
            <3>10. QED
                  BY <2>2, <3>2, <3>4, <3>5, <3>6, <3>7, <3>8, <3>9
      <2>6. QED
            BY <2>4, <2>5
<1>3. QED
      BY <1>1, <1>2

-----------------------------------------------------------------------------
(* The pids, and what is not one.                                          *)
LEMMA ProcFacts == Proc \subseteq Nat /\ Idle \notin Proc /\ InitProc \in Proc /\ NoProc \notin Proc
  BY MaxPidAssumption DEF Proc, Idle, InitProc, NoProc

(* Boot leaves a state with the invariant.                                 *)
LEMMA InitInv == Init => Inv
<1> SUFFICES ASSUME Init PROVE Inv
    OBVIOUS
<1> USE ProcFacts DEF Init
<1>1. TypeOK
      <2>1. KernelTypes
            <3>1. ready_queue \in Seq(Proc)
                  OBVIOUS
            <3>2. scanned \in 0 .. MaxPid
                  BY MaxPidAssumption
            <3>3. QED
                  BY <3>1, <3>2 DEF KernelTypes
      <2>2. ProcTypes
            BY DEF ProcTypes, States
      <2>3. CallTypes
            BY DEF CallTypes, PCs, Selector, Event
      <2>4. QED
            BY <2>1, <2>2, <2>3 DEF TypeOK
<1>2. Embryos
      BY DEF Embryos, Forking
<1>3. Listed
      BY DEF Listed, States
<1>4. QueueOnce
      BY DEF QueueOnce
<1>5. QueueAlive
      BY DEF QueueAlive, Queued, Running, Awake
<1>6. Loop
      BY DEF Loop, Queued
<1>7. Armed
      BY DEF Armed
<1>8. ZombieHasOneOwner
      BY DEF ZombieHasOneOwner
<1>9. Fresh
      BY DEF Fresh
<1>10. QED
      BY <1>1, <1>2, <1>3, <1>4, <1>5, <1>6, <1>7, <1>8, <1>9 DEF Inv
-----------------------------------------------------------------------------
(* What the parts of the actions do.                                       *)

(* process_handle_pending_signals() kills its process or does nothing.     *)
LEMMA HandleFacts ==
    ASSUME NEW p \in Proc, NEW sigs \in SUBSET Signals,
           NEW states \in [Proc -> States \cup {Unborn, Freed}],
           exit_status \in [Proc -> Nat], HandlePendingSignals(p, sigs, states)
    PROVE  /\ state' \in [Proc -> States \cup {Unborn, Freed}]
           /\ exit_status' \in [Proc -> Nat]
           /\ \A q \in Proc : q # p => /\ state'[q] = states[q]
                                       /\ exit_status'[q] = exit_status[q]
           /\ state'[p] \in {states[p], "DYING"}
<1>1. CASE sigs = {} /\ state' = states /\ UNCHANGED exit_status
      BY <1>1
<1>2. CASE \E highest \in sigs :
              /\ state' = [states EXCEPT ![p] = "DYING"]
              /\ exit_status' = [exit_status EXCEPT ![p] = highest]
      <2>1. PICK h \in sigs :
              /\ state' = [states EXCEPT ![p] = "DYING"]
              /\ exit_status' = [exit_status EXCEPT ![p] = h]
            BY <1>2
      <2>2. h \in Nat
            BY SignalsAssumption
      <2>3. QED
            BY <2>1, <2>2 DEF States
<1>3. QED
      BY <1>1, <1>2 DEF HandlePendingSignals

(* send_signal() kills nobody but the process on the CPU.                  *)
LEMMA SendFacts ==
    ASSUME ProcTypes, mode = "run", current \in Proc \cup {Idle},
           NEW ps, current \in ps => current \in Proc,
           NEW sig \in Signals, send_signal(ps, sig)
    PROVE  /\ state' \in [Proc -> States \cup {Unborn, Freed}]
           /\ exit_status' \in [Proc -> Nat]
           /\ pending_signals' \in [Proc -> SUBSET Signals]
           /\ mode' \in {"run", "unimplemented signal"}
           /\ \A q \in Proc : q # current => /\ state'[q] = state[q]
                                             /\ exit_status'[q] = exit_status[q]
           /\ \A q \in Proc : state'[q] \in {state[q], "DYING"}
<1>1. CASE UNCHANGED <<state, exit_status, pending_signals>>
      BY <1>1 DEF send_signal, ProcTypes
<1>2. CASE /\ pending_signals' =
              [p \in Proc |-> IF p \in HandledNow(ps) THEN {}
                              ELSE IF p \in ps THEN pending_signals[p] \cup {sig}
                              ELSE pending_signals[p]]
           /\ IF HandledNow(ps) = {} THEN UNCHANGED <<state, exit_status>>
              ELSE \E p \in HandledNow(ps) :
                     HandlePendingSignals(p, pending_signals[p] \cup {sig}, state)
           /\ UNCHANGED mode
      <2>1. pending_signals' \in [Proc -> SUBSET Signals]
            BY <1>2 DEF ProcTypes
      <2>2. CASE HandledNow(ps) = {}
            BY <1>2, <2>1, <2>2 DEF ProcTypes
      <2>3. CASE HandledNow(ps) # {}
            <3>1. PICK p \in HandledNow(ps) :
                     HandlePendingSignals(p, pending_signals[p] \cup {sig}, state)
                  BY <1>2, <2>3
            <3>2. p = current /\ p \in Proc
                  BY DEF HandledNow
            <3>3. pending_signals[p] \cup {sig} \in SUBSET Signals
                  BY <3>2 DEF ProcTypes
            <3>4. /\ state \in [Proc -> States \cup {Unborn, Freed}]
                  /\ exit_status \in [Proc -> Nat]
                  BY DEF ProcTypes
            <3>5. /\ state' \in [Proc -> States \cup {Unborn, Freed}]
                  /\ exit_status' \in [Proc -> Nat]
                  /\ \A q \in Proc : q # p => /\ state'[q] = state[q]
                                              /\ exit_status'[q] = exit_status[q]
                  /\ state'[p] \in {state[p], "DYING"}
                  BY <3>1, <3>2, <3>3, <3>4, HandleFacts
            <3>6. QED
                  BY <1>2, <2>1, <3>2, <3>5
      <2>4. QED
            BY <2>2, <2>3
<1>3. QED
      BY <1>1, <1>2 DEF send_signal
(* waitpid_should_unblock() takes at most one process out of the list, a   *)
(* dead one, and hands it to its caller.                                   *)
LEMMA TakeFacts ==
    ASSUME all_processes \in SUBSET Proc, waited \in [Proc -> Proc \cup {NoProc}],
           NEW p \in Proc, TakeZombie(p)
    PROVE  /\ all_processes' \in SUBSET Proc
           /\ waited' \in [Proc -> Proc \cup {NoProc}]
           /\ all_processes' \subseteq all_processes
           /\ \A q \in all_processes \ all_processes' : state[q] = "DEAD"
           /\ \A q \in Proc : q # p => waited'[q] = waited[q]
           /\ \/ UNCHANGED <<all_processes, waited>>
              \/ /\ waited'[p] \in all_processes \ all_processes'
                 /\ state[waited'[p]] = "DEAD"
<1>1. CASE UNCHANGED <<all_processes, waited>>
      BY <1>1
<1>2. CASE \E z \in Zombies(param[p]) :
              /\ all_processes' = Unlisted(z)
              /\ waited' = [waited EXCEPT ![p] = z]
      <2>1. PICK z \in Zombies(param[p]) :
              /\ all_processes' = all_processes \ {z}
              /\ waited' = [waited EXCEPT ![p] = z]
            BY <1>2 DEF Unlisted
      <2>2. z \in all_processes /\ state[z] = "DEAD"
            BY DEF Zombies, Targets
      <2>3. QED
            BY <2>1, <2>2
<1>3. QED
      BY <1>1, <1>2 DEF TakeZombie

(* So what it takes has one owner.                                         *)
LEMMA TakeOwns ==
    ASSUME all_processes \in SUBSET Proc, waited \in [Proc -> Proc \cup {NoProc}],
           ZombieHasOneOwner, NEW p \in Proc, TakeZombie(p),
           \A q \in Proc : state[q] = "DEAD" => state'[q] = "DEAD"
    PROVE  ZombieHasOneOwner'
<1>1. /\ all_processes' \subseteq all_processes
      /\ \A q \in Proc : q # p => waited'[q] = waited[q]
      /\ waited' \in [Proc -> Proc \cup {NoProc}]
      /\ \/ UNCHANGED <<all_processes, waited>>
         \/ /\ waited'[p] \in all_processes \ all_processes'
            /\ state[waited'[p]] = "DEAD"
      BY TakeFacts
<1>2. SUFFICES ASSUME NEW q \in Proc, waited'[q] # NoProc
      PROVE  /\ state'[waited'[q]] = "DEAD"
             /\ waited'[q] \notin all_processes'
             /\ \A r \in Proc : waited'[r] = waited'[q] => r = q
      BY DEF ZombieHasOneOwner
<1>3. CASE UNCHANGED <<all_processes, waited>>
      BY <1>1, <1>2, <1>3 DEF ZombieHasOneOwner
<1>4. CASE /\ waited'[p] \in all_processes \ all_processes'
           /\ state[waited'[p]] = "DEAD"
      <2>1. \A r \in Proc : r # p => waited'[r] \notin all_processes
            BY <1>1, ProcFacts DEF ZombieHasOneOwner
      <2>2. CASE q = p
            BY <1>1, <1>4, <2>1, <2>2
      <2>3. CASE q # p
            BY <1>1, <1>2, <1>4, <2>1, <2>3 DEF ZombieHasOneOwner
      <2>4. QED
            BY <2>2, <2>3
<1>5. QED
      BY <1>1, <1>3, <1>4

-----------------------------------------------------------------------------
(* A step of process p that neither yields nor touches the queue keeps     *)
(* what the invariant says about the queue.                                *)
LEMMA QueueKept ==
    ASSUME Inv, TypeOK', NEW p \in Proc, Running(p), pc[p] # "block_yield",
           UNCHANGED <<current, ready_queue, looped>>,
           \A q \in Proc : q # p => /\ pc'[q] = pc[q]
                                    /\ armed'[q] = armed[q]
                                    /\ Alive(q) => state'[q] = state[q]
                                    /\ New(q)' => New(q),
           Awake(p)',
           armed'[p] = TRUE => pc'[p] = "block_yield"
    PROVE  QueueOnce' /\ QueueAlive' /\ Fresh' /\ Loop' /\ Armed'
<1>1. \A q \in Proc : Queued(q)' <=> Queued(q)
      BY DEF Queued
<1>2. \A q \in Proc : Running(q)' => q = p
      BY DEF Running
<1>3. ~Queued(p)
      BY DEF Inv, Loop, Residue
<1>4. \A q \in Proc : Queued(q) => q # p /\ Alive(q)
      BY <1>3 DEF Inv, QueueAlive
<1>5. QueueOnce'
      BY DEF Inv, QueueOnce
<1>6. QueueAlive'
      BY <1>1, <1>2, <1>4 DEF QueueAlive, Alive, Awake
<1>7. Loop'
      <2>1. ASSUME looped' = TRUE PROVE ready_queue' # <<>> /\ Residue(Tail_)'
            <3>1. ready_queue # <<>> /\ Residue(Tail_) /\ Tail_' = Tail_
                  BY <2>1 DEF Inv, Loop, Tail_
            <3>2. Tail_ \in Proc /\ Queued(Tail_)
                  BY <3>1 DEF Inv, TypeOK, KernelTypes, Tail_, Queued
            <3>3. QED
                  BY <3>1, <3>2, <1>4 DEF Residue
      <2>2. QED
            BY <2>1, <1>1, <1>2, <1>3, <1>4 DEF Inv, Loop
<1>8. Armed'
      BY <1>1, <1>2, <1>3 DEF Inv, Armed
<1>9. Fresh'
      BY DEF Inv, Fresh, New, Awake, Unborn
<1>10. QED
      BY <1>5, <1>6, <1>7, <1>8, <1>9

(* If it changes no other process either, and is not a fork, it keeps the  *)
(* rest of it.                                                             *)
LEMMA OthersKept ==
    ASSUME Inv, TypeOK', NEW p \in Proc, Running(p),
           UNCHANGED <<current, ready_queue, all_processes, waited>>,
           \A q \in Proc : q # p => /\ pc'[q] = pc[q]
                                    /\ target'[q] = target[q]
                                    /\ state'[q] = state[q],
           Awake(p)', ~Forking(p)'
    PROVE  Embryos' /\ Listed' /\ ZombieHasOneOwner'
<1>1. \A q \in Proc : Queued(q)' <=> Queued(q)
      BY DEF Queued
<1>2. Awake(p) /\ current = p
      BY DEF Inv, QueueAlive, Running
<1>3. \A q \in Proc : Forking(q)' => Forking(q) /\ q # p
      BY DEF Forking
<1>4. Embryos'
      BY <1>1, <1>2, <1>3 DEF Inv, Embryos, Forking
<1>5. Listed'
      BY <1>2 DEF Inv, Listed, Awake, States, TypeOK, KernelTypes
<1>6. ZombieHasOneOwner'
      <2>1. \A q \in Proc : waited[q] # NoProc => waited[q] \in Proc /\ waited[q] # p
            BY <1>2 DEF Inv, ZombieHasOneOwner, Awake, TypeOK, CallTypes
      <2>2. QED
            BY <2>1 DEF Inv, ZombieHasOneOwner
<1>7. QED
      BY <1>4, <1>5, <1>6
(* Both together.                                                          *)
LEMMA SimpleStep ==
    ASSUME Inv, TypeOK', NEW p \in Proc, Running(p), pc[p] # "block_yield",
           UNCHANGED <<current, ready_queue, looped, all_processes, waited>>,
           \A q \in Proc : q # p => /\ pc'[q] = pc[q]
                                    /\ armed'[q] = armed[q]
                                    /\ target'[q] = target[q]
                                    /\ state'[q] = state[q],
           Awake(p)', ~Forking(p)',
           armed'[p] = TRUE => pc'[p] = "block_yield"
    PROVE  Inv'
<1>1. QueueOnce' /\ QueueAlive' /\ Fresh' /\ Loop' /\ Armed'
      <2>1. \A q \in Proc : q # p => /\ Alive(q) => state'[q] = state[q]
                                     /\ New(q)' => New(q)
            BY DEF New
      <2>2. QED
            BY <2>1, QueueKept
<1>2. Embryos' /\ Listed' /\ ZombieHasOneOwner'
      BY OthersKept
<1>3. QED
      BY <1>1, <1>2 DEF Inv

(* A process on the CPU is alive, and has a blocker only when it is about  *)
(* to yield.                                                               *)
LEMMA RunFacts ==
    ASSUME Inv, NEW p \in Proc, mode = "run", current = p
    PROVE  /\ Running(p) /\ Awake(p)
           /\ pc[p] # "block_yield" => armed[p] = FALSE
<1>1. Running(p)
      BY DEF Running
<1>2. Awake(p)
      BY <1>1 DEF Inv, QueueAlive
<1>3. armed[p] \in BOOLEAN
      BY DEF Inv, TypeOK, CallTypes
<1>4. armed[p] = TRUE => pc[p] = "block_yield"
      BY <1>1 DEF Inv, Armed
<1>5. QED
      BY <1>1, <1>2, <1>3, <1>4

-----------------------------------------------------------------------------
(* Signals.                                                                *)
LEMMA SignalSteps ==
    ASSUME Inv, NEW p \in Proc,
           \/ \E t \in Proc : sys_kill(p, t)
           \/ \E sig \in Signals : KillSend(p, sig)
           \/ \E sig \in Signals, ps \in SUBSET Proc : KillMany(p, ps, sig)
           \/ \E t \in Proc : sys_setpgid(p, t)
           \/ \E g \in SetpgidArgs : SetpgidWrite(p, g)
    PROVE  Inv'
<1>1. ASSUME NEW t \in Proc, sys_kill(p, t) PROVE Inv'
      <2>1. Running(p) /\ Awake(p) /\ pc[p] = "user" /\ armed[p] = FALSE
            BY <1>1, RunFacts DEF sys_kill, InUserland, At
      <2>2. TypeOK'
            BY <1>1 DEF sys_kill, Goto, Inv, TypeOK, KernelTypes, ProcTypes, CallTypes,
                        kernelVars, procVars, PCs
      <2>3. QED
            BY <1>1, <2>1, <2>2, SimpleStep
               DEF sys_kill, Goto, Inv, TypeOK, CallTypes, kernelVars, procVars, Awake, Forking
<1>2. ASSUME NEW sig \in Signals, KillSend(p, sig) PROVE Inv'
      <2>1. /\ Running(p) /\ Awake(p) /\ pc[p] = "kill_send" /\ armed[p] = FALSE
            /\ current = p /\ mode = "run"
            BY <1>2, RunFacts DEF KillSend, At
      <2>2. /\ state' \in [Proc -> States \cup {Unborn, Freed}]
            /\ exit_status' \in [Proc -> Nat]
            /\ pending_signals' \in [Proc -> SUBSET Signals]
            /\ mode' \in {"run", "scan", "deque"} \cup Stops
            /\ \A q \in Proc : q # p => state'[q] = state[q]
            /\ Awake(p)'
            <3>1. CASE state[target[p]] = Freed
                  BY <1>2, <2>1, <3>1 DEF KillSend, Inv, TypeOK, ProcTypes, Stops, Awake
            <3>2. CASE state[target[p]] # Freed
                  <4>1. send_signal({target[p]}, sig)
                        BY <1>2, <3>2 DEF KillSend
                  <4>2. ProcTypes /\ current \in Proc \cup {Idle}
                        BY DEF Inv, TypeOK, KernelTypes
                  <4>3. QED
                        BY <2>1, <4>1, <4>2, SendFacts DEF Stops, Awake
            <3>3. QED
                  BY <3>1, <3>2
      <2>3. TypeOK'
            BY <1>2, <2>1, <2>2 DEF KillSend, Goto, Inv, TypeOK, KernelTypes, ProcTypes,
                                    CallTypes, PCs
      <2>4. QED
            BY <1>2, <2>1, <2>2, <2>3, SimpleStep
               DEF KillSend, Goto, Inv, TypeOK, CallTypes, Forking
<1>3. ASSUME NEW sig \in Signals, NEW ps \in SUBSET Proc, KillMany(p, ps, sig) PROVE Inv'
      <2>1. /\ Running(p) /\ Awake(p) /\ pc[p] = "user" /\ armed[p] = FALSE
            /\ current = p /\ mode = "run"
            BY <1>3, RunFacts DEF KillMany, InUserland, At
      <2>2. /\ state' \in [Proc -> States \cup {Unborn, Freed}]
            /\ exit_status' \in [Proc -> Nat]
            /\ pending_signals' \in [Proc -> SUBSET Signals]
            /\ mode' \in {"run", "scan", "deque"} \cup Stops
            /\ \A q \in Proc : q # p => state'[q] = state[q]
            /\ Awake(p)'
            <3>1. ProcTypes /\ current \in Proc \cup {Idle} /\ send_signal(ps, sig)
                  BY <1>3 DEF Inv, TypeOK, KernelTypes, KillMany
            <3>2. QED
                  BY <2>1, <3>1, SendFacts DEF Stops, Awake
      <2>3. TypeOK'
            BY <1>3, <2>1, <2>2 DEF KillMany, Goto, Inv, TypeOK, KernelTypes, ProcTypes,
                                    CallTypes, PCs
      <2>4. QED
            BY <1>3, <2>1, <2>2, <2>3, SimpleStep
               DEF KillMany, Goto, Inv, TypeOK, CallTypes, Forking
<1>4. ASSUME NEW t \in Proc, sys_setpgid(p, t) PROVE Inv'
      <2>1. Running(p) /\ Awake(p) /\ pc[p] = "user" /\ armed[p] = FALSE
            BY <1>4, RunFacts DEF sys_setpgid, InUserland, At
      <2>2. TypeOK'
            BY <1>4 DEF sys_setpgid, Goto, Inv, TypeOK, KernelTypes, ProcTypes, CallTypes,
                        kernelVars, procVars, PCs
      <2>3. QED
            BY <1>4, <2>1, <2>2, SimpleStep
               DEF sys_setpgid, Goto, Inv, TypeOK, CallTypes, kernelVars, procVars, Awake,
                   Forking
<1>5. ASSUME NEW g \in SetpgidArgs, SetpgidWrite(p, g) PROVE Inv'
      <2>1. /\ Running(p) /\ Awake(p) /\ pc[p] = "setpgid_write" /\ armed[p] = FALSE
            /\ current = p /\ mode = "run"
            BY <1>5, RunFacts DEF SetpgidWrite, At
      <2>2. /\ mode' \in {"run"} \cup Stops
            /\ pgid' \in [Proc -> Nat]
            <3>1. /\ target[p] \in Proc \cup {NoProc}
                  /\ g \in SetpgidArgs
                  /\ pgid \in [Proc -> Nat]
                  BY DEF Inv, TypeOK, CallTypes, ProcTypes
            <3>2. g \in Nat /\ target[p] \in Nat
                  <4>1. g \in Nat
                        BY <3>1, SetpgidArgsAssumption
                  <4>2. CASE target[p] \in Proc
                        BY <4>2, <4>1, ProcFacts, Zenon
                  <4>3. CASE target[p] = NoProc
                        BY <4>3, <4>1 DEF NoProc
                  <4>4. QED
                        BY <3>1, <4>2, <4>3
            <3>3. CASE state[target[p]] = Freed
                  BY <1>5, <2>1, <3>1, <3>3 DEF SetpgidWrite, Stops
            <3>4. CASE state[target[p]] # Freed
                  BY <1>5, <2>1, <3>1, <3>2, <3>4 DEF SetpgidWrite
            <3>5. QED
                  BY <3>3, <3>4
      <2>3. TypeOK'
            BY <1>5, <2>1, <2>2 DEF SetpgidWrite, Goto, Inv, TypeOK, KernelTypes, ProcTypes,
                                    CallTypes, PCs
      <2>4. QED
            BY <1>5, <2>1, <2>2, <2>3, SimpleStep
               DEF SetpgidWrite, Goto, Inv, TypeOK, CallTypes, Awake, Forking
<1>6. QED
      BY <1>1, <1>2, <1>3, <1>4, <1>5

(* Calls that wait or end, up to the point where they yield.               *)
LEMMA CallSteps ==
    ASSUME Inv, NEW p \in Proc,
           \/ ForkFails(p)
           \/ \E pid \in WaitArgs, nohang \in BOOLEAN : sys_waitpid(p, pid, nohang)
           \/ BlockOnEvent(p) \/ BlockSetState(p) \/ BlockSetBlocker(p) \/ BlockReturn(p)
           \/ \E status \in Nat : (At(p, "user") /\ BeginExit(p, status))
           \/ process_die_if_needed(p)
    PROVE  Inv'
<1> USE DEF Goto, Inv, TypeOK, KernelTypes, ProcTypes, CallTypes, PCs, kernelVars, procVars
<1>1. ASSUME ForkFails(p) PROVE Inv'
      <2>1. Running(p) /\ Awake(p) /\ pc[p] # "block_yield" /\ armed[p] = FALSE
            BY <1>1, RunFacts DEF ForkFails, InUserland, At
      <2>2. TypeOK'
            BY <1>1 DEF ForkFails
      <2>3. QED
            BY <1>1, <2>1, <2>2, SimpleStep DEF ForkFails, Awake, Forking
<1>2. ASSUME NEW pid \in WaitArgs, NEW nohang \in BOOLEAN, sys_waitpid(p, pid, nohang) PROVE Inv'
      <2>1. Running(p) /\ Awake(p) /\ pc[p] # "block_yield" /\ armed[p] = FALSE
            BY <1>2, RunFacts DEF sys_waitpid, InUserland, At
      <2>2. TypeOK'
            <3>1. WaitSelector(p, pid) \in Selector
                  <4>1. pid \in Int /\ pgid[p] \in Nat /\ p \in Nat
                        BY WaitArgsAssumption, ProcFacts
                  <4>2. QED
                        BY <4>1 DEF WaitSelector, Selector
            <3>2. QED
                  BY <1>2, <3>1 DEF sys_waitpid
      <2>3. QED
            BY <1>2, <2>1, <2>2, SimpleStep DEF sys_waitpid, Awake, Forking
<1>3. ASSUME BlockOnEvent(p) PROVE Inv'
      <2>1. Running(p) /\ Awake(p) /\ pc[p] # "block_yield" /\ armed[p] = FALSE
            BY <1>3, RunFacts DEF BlockOnEvent, InUserland, At
      <2>2. TypeOK'
            BY <1>3 DEF BlockOnEvent
      <2>3. QED
            BY <1>3, <2>1, <2>2, SimpleStep DEF BlockOnEvent, Awake, Forking
<1>4. ASSUME BlockSetState(p) PROVE Inv'
      <2>1. Running(p) /\ Awake(p) /\ pc[p] # "block_yield" /\ armed[p] = FALSE
            BY <1>4, RunFacts DEF BlockSetState, InUserland, At
      <2>2. TypeOK'
            BY <1>4 DEF BlockSetState, States
      <2>3. QED
            BY <1>4, <2>1, <2>2, SimpleStep DEF BlockSetState, Awake, Forking
<1>5. ASSUME BlockSetBlocker(p) PROVE Inv'
      <2>1. Running(p) /\ Awake(p) /\ pc[p] # "block_yield" /\ armed[p] = FALSE
            BY <1>5, RunFacts DEF BlockSetBlocker, InUserland, At
      <2>2. TypeOK'
            BY <1>5 DEF BlockSetBlocker
      <2>3. QED
            BY <1>5, <2>1, <2>2, SimpleStep DEF BlockSetBlocker, Awake, Forking
<1>6. ASSUME BlockReturn(p) PROVE Inv'
      <2>1. Running(p) /\ Awake(p) /\ pc[p] # "block_yield" /\ armed[p] = FALSE
            BY <1>6, RunFacts DEF BlockReturn, InUserland, At
      <2>2. TypeOK'
            <3>1. param' \in [Proc -> Selector] /\ pc' \in [Proc -> PCs]
                  <4>1. CASE Goto(p, "sysret") /\ param' = [param EXCEPT ![p] = Event]
                        BY <4>1 DEF Event, Selector
                  <4>2. CASE Goto(p, AfterBlock(p)) /\ UNCHANGED param
                        BY <4>2 DEF AfterBlock
                  <4>3. QED
                        BY <1>6, <4>1, <4>2 DEF BlockReturn
            <3>2. QED
                  BY <1>6, <3>1 DEF BlockReturn
      <2>3. QED
            BY <1>6, <2>1, <2>2, SimpleStep DEF BlockReturn, Awake, Forking, AfterBlock
<1>7. ASSUME NEW status \in Nat, At(p, "user"), BeginExit(p, status) PROVE Inv'
      <2>1. Running(p) /\ Awake(p) /\ pc[p] # "block_yield" /\ armed[p] = FALSE
            BY <1>7, RunFacts DEF BeginExit, InUserland, At
      <2>2. TypeOK'
            BY <1>7 DEF BeginExit
      <2>3. QED
            BY <1>7, <2>1, <2>2, SimpleStep DEF BeginExit, Awake, Forking
<1>8. ASSUME process_die_if_needed(p) PROVE Inv'
      <2>1. Running(p) /\ Awake(p) /\ pc[p] # "block_yield" /\ armed[p] = FALSE
            BY <1>8, RunFacts DEF process_die_if_needed, InUserland, At
      <2>2. TypeOK'
            BY <1>8 DEF process_die_if_needed
      <2>3. QED
            BY <1>8, <2>1, <2>2, SimpleStep DEF process_die_if_needed, Awake, Forking
<1>9. QED
      BY <1>1, <1>2, <1>3, <1>4, <1>5, <1>6, <1>7, <1>8

(* fork(): a child is nobody else's until it is enqueued.                  *)
LEMMA ForkStep == ASSUME Inv, NEW p \in Proc, sys_fork(p) PROVE Inv'
<1> USE DEF Goto, Inv, TypeOK, KernelTypes, ProcTypes, CallTypes, PCs, kernelVars
<1>1. Running(p) /\ Awake(p) /\ pc[p] = "user" /\ armed[p] = FALSE /\ current = p
      BY RunFacts DEF sys_fork, InUserland, At
<1>2. PICK c \in Proc : /\ state[c] = Unborn
                        /\ state' = [state EXCEPT ![c] = "RUNNABLE"]
                        /\ ppid' = [ppid EXCEPT ![c] = p]
                        /\ pgid' = [pgid EXCEPT ![c] = pgid[p]]
                        /\ target' = [target EXCEPT ![p] = c]
      BY DEF sys_fork, Unused
<1>3. TypeOK'
      BY <1>2 DEF sys_fork, States
<1>4. c # p /\ ~Alive(c) /\ ~Queued(c) /\ c \notin all_processes
      BY <1>1, <1>2 DEF Awake, Alive, QueueAlive, Listed, States, Unborn
<1>5. QueueOnce' /\ QueueAlive' /\ Fresh' /\ Loop' /\ Armed'
      <2>1. \A q \in Proc : q # p => /\ pc'[q] = pc[q]
                                     /\ armed'[q] = armed[q]
                                     /\ Alive(q) => state'[q] = state[q]
                                     /\ New(q)' => New(q)
            BY <1>2, <1>4 DEF sys_fork, New
      <2>2. Awake(p)' /\ armed'[p] = FALSE
            BY <1>1, <1>2, <1>4 DEF sys_fork, Awake
      <2>3. UNCHANGED <<current, ready_queue, looped>>
            BY DEF sys_fork
      <2> HIDE DEF Goto, Inv, TypeOK, KernelTypes, ProcTypes, CallTypes, PCs, kernelVars
      <2>4. QED
            BY <1>1, <1>3, <2>1, <2>2, <2>3, QueueKept
<1>6. Embryos'
      <2>1. \A q \in Proc : Queued(q)' <=> Queued(q)
            BY DEF sys_fork, Queued
      <2>2. \A q \in Proc : Forking(q)' => q = p \/ Forking(q)
            BY DEF sys_fork, Forking
      <2>3. \A q \in Proc : Forking(q) => target[q] # c /\ q # p
            BY <1>1, <1>2 DEF Embryos, Forking, Unborn
      <2>4. UNCHANGED <<current, all_processes>>
            BY DEF sys_fork
      <2>5. pc' = [pc EXCEPT ![p] = "fork_register"]
            BY DEF sys_fork
      <2>6. \A q \in Proc : q # p => pc'[q] = pc[q] /\ target'[q] = target[q]
            BY <1>2, <2>5
      <2>7. target'[p] = c /\ state'[c] = "RUNNABLE"
            BY <1>2
      <2>8. \A q \in Proc : q # c => state'[q] = state[q]
            BY <1>2
      <2>9. \A q \in Proc : Forking(q)' /\ q # p => target'[q] # c
            BY <2>2, <2>3, <2>6
      <2>10. SUFFICES ASSUME NEW q \in Proc, Forking(q)'
             PROVE  /\ target'[q] \in Proc
                    /\ state'[target'[q]] = "RUNNABLE"
                    /\ ~Queued(target'[q])
                    /\ target'[q] # current
                    /\ pc'[q] = "fork_register" => target'[q] \notin all_processes
                    /\ \A r \in Proc : Forking(r)' /\ target'[r] = target'[q] => r = q
            BY <2>1, <2>4 DEF Embryos, Queued
      <2>11. CASE q = p
            BY <1>1, <1>4, <2>7, <2>9, <2>11
      <2>12. CASE q # p
            <3>1. Forking(q) /\ target'[q] = target[q] /\ pc'[q] = pc[q] /\ target[q] # c
                  BY <2>2, <2>3, <2>6, <2>10, <2>12
            <3>2. \A r \in Proc : Forking(r)' /\ target'[r] = target[q] => r = q
                  BY <2>2, <2>6, <2>7, <3>1 DEF Embryos
            <3>3. QED
                  BY <3>1, <3>2, <2>8 DEF Embryos
      <2>13. QED
            BY <2>11, <2>12
<1>7. Listed'
      BY <1>2, <1>4 DEF sys_fork, Listed, States
<1>8. ZombieHasOneOwner'
      BY <1>2 DEF sys_fork, ZombieHasOneOwner, Unborn
<1>9. QED
      BY <1>3, <1>5, <1>6, <1>7, <1>8

(* scheduler_register() lists a child that nobody else has.                *)
LEMMA RegisterStep == ASSUME Inv, NEW p \in Proc, scheduler_register(p) PROVE Inv'
<1> USE DEF Goto, Inv, TypeOK, KernelTypes, ProcTypes, CallTypes, PCs, procVars
<1>1. /\ Running(p) /\ Awake(p) /\ pc[p] = "fork_register" /\ armed[p] = FALSE
      /\ current = p
      BY RunFacts DEF scheduler_register, At
<1>2. /\ Forking(p) /\ target[p] \in Proc /\ state[target[p]] = "RUNNABLE"
      /\ ~Queued(target[p]) /\ target[p] # current
      BY <1>1 DEF Forking, Embryos
<1>3. TypeOK'
      BY <1>2 DEF scheduler_register
<1>4. QueueOnce' /\ QueueAlive' /\ Fresh' /\ Loop' /\ Armed'
      BY <1>1, <1>3, QueueKept DEF scheduler_register, Awake, New
<1>5. Embryos'
      <2>1. \A q \in Proc : Queued(q)' <=> Queued(q)
            BY DEF scheduler_register, Queued
      <2>2. \A q \in Proc : Forking(q)' <=> Forking(q)
            BY <1>1 DEF scheduler_register, Forking
      <2>3. UNCHANGED <<current, target, state>> /\ all_processes' = all_processes \cup {target[p]}
            BY DEF scheduler_register
      <2>4. \A q \in Proc : pc'[q] = "fork_register" => q # p /\ pc[q] = "fork_register"
            BY DEF scheduler_register
      <2>5. \A q \in Proc : pc'[q] = "fork_register" => Forking(q) /\ target[q] # target[p]
            BY <1>2, <2>4 DEF Embryos, Forking
      <2>6. QED
            BY <2>1, <2>2, <2>3, <2>4, <2>5 DEF Embryos
<1>6. Listed'
      BY <1>2 DEF scheduler_register, Listed, States
<1>7. ZombieHasOneOwner'
      BY <1>2 DEF scheduler_register, ZombieHasOneOwner
<1>8. QED
      BY <1>3, <1>4, <1>5, <1>6, <1>7

(* The tests of waitpid() and scheduler_block(), which may take a zombie.  *)
LEMMA TestSteps ==
    ASSUME Inv, NEW p \in Proc, WaitNohang(p) \/ BlockCheck(p)
    PROVE  Inv'
<1>1. /\ Running(p) /\ Awake(p) /\ pc[p] \in {"nohang", "check"} /\ armed[p] = FALSE
      BY RunFacts DEF WaitNohang, BlockCheck, At
<1>2. /\ UNCHANGED <<current, mode, scanned, ready_queue, looped, state, ppid, pgid,
                     pending_signals, exit_status, armed, interrupted, target, event,
                     raced>>
      /\ TakeZombie(p) \/ UNCHANGED <<all_processes, waited>>
      BY DEF WaitNohang, BlockCheck, procVars
<1>3. /\ all_processes \in SUBSET Proc
      /\ waited \in [Proc -> Proc \cup {NoProc}]
      BY DEF Inv, TypeOK, KernelTypes, CallTypes
<1>4. /\ all_processes' \in SUBSET Proc
      /\ waited' \in [Proc -> Proc \cup {NoProc}]
      /\ all_processes' \subseteq all_processes
      BY <1>2, <1>3, TakeFacts
<1>5. /\ param' \in [Proc -> Selector]
      /\ \E l \in {"wait_return", "sysret", "set_state"} : pc' = [pc EXCEPT ![p] = l]
      BY DEF WaitNohang, BlockCheck, AfterBlock, Goto, Inv, TypeOK, CallTypes, Event, Selector
<1>6. /\ pc' \in [Proc -> PCs] /\ pc'[p] \in {"wait_return", "sysret", "set_state"}
      /\ \A q \in Proc : q # p => pc'[q] = pc[q]
      BY <1>5 DEF Inv, TypeOK, CallTypes, PCs
<1>7. TypeOK'
      BY <1>2, <1>4, <1>5, <1>6 DEF Inv, TypeOK, KernelTypes, ProcTypes, CallTypes
<1>8. QueueOnce' /\ QueueAlive' /\ Fresh' /\ Loop' /\ Armed'
      BY <1>1, <1>2, <1>6, <1>7, QueueKept DEF Awake, New
<1>9. Embryos'
      <2>1. \A q \in Proc : Queued(q)' <=> Queued(q)
            BY <1>2 DEF Queued
      <2>2. \A q \in Proc : Forking(q)' => Forking(q) /\ pc'[q] = pc[q]
            BY <1>6 DEF Forking
      <2>3. QED
            BY <1>2, <1>4, <2>1, <2>2 DEF Inv, Embryos
<1>10. Listed'
      BY <1>2, <1>4 DEF Inv, Listed
<1>11. ZombieHasOneOwner'
      <2>1. CASE UNCHANGED <<all_processes, waited>>
            BY <1>2, <2>1 DEF Inv, ZombieHasOneOwner
      <2>2. CASE TakeZombie(p)
            BY <1>2, <1>3, <2>2, TakeOwns DEF Inv
      <2>3. QED
            BY <1>2, <2>1, <2>2
<1>12. QED
      BY <1>7, <1>8, <1>9, <1>10, <1>11 DEF Inv

(* The end of waitpid() frees the zombie that it owns.                     *)
LEMMA WaitReturnStep == ASSUME Inv, NEW p \in Proc, WaitReturn(p) PROVE Inv'
<1> DEFINE z == waited[p]
<1>1. /\ Running(p) /\ Awake(p) /\ pc[p] = "wait_return" /\ armed[p] = FALSE
      BY RunFacts DEF WaitReturn, At
<1>2. /\ UNCHANGED <<current, mode, scanned, all_processes, ready_queue, looped, ppid,
                     pgid, pending_signals, exit_status, armed, interrupted, target,
                     event, raced>>
      /\ waited' = [waited EXCEPT ![p] = NoProc]
      /\ pc' = [pc EXCEPT ![p] = "sysret"]
      /\ param' = [param EXCEPT ![p] = Event]
      /\ state' = IF z = NoProc THEN state ELSE [state EXCEPT ![z] = Freed]
      BY DEF WaitReturn, kernelVars, Goto
<1>3. z # NoProc => /\ z \in Proc /\ state[z] = "DEAD" /\ z \notin all_processes
                    /\ \A q \in Proc : waited[q] = z => q = p
      BY DEF Inv, ZombieHasOneOwner, TypeOK, CallTypes
<1> HIDE DEF z
<1>4. /\ state' \in [Proc -> States \cup {Unborn, Freed}]
      /\ \A q \in Proc : state'[q] = state[q] \/ (q = z /\ state[q] = "DEAD" /\ state'[q] = Freed)
      BY <1>2, <1>3 DEF Inv, TypeOK, ProcTypes
<1>5. TypeOK'
      <2>1. /\ waited' \in [Proc -> Proc \cup {NoProc}]
            /\ pc' \in [Proc -> PCs]
            /\ param' \in [Proc -> Selector]
            BY <1>2 DEF Inv, TypeOK, CallTypes, PCs, Event, Selector
      <2>2. QED
            BY <1>2, <1>4, <2>1 DEF Inv, TypeOK, KernelTypes, ProcTypes, CallTypes
<1>6. /\ \A q \in Proc : q # p => pc'[q] = pc[q]
      /\ pc'[p] = "sysret"
      BY <1>2 DEF Inv, TypeOK, CallTypes
<1>7. QueueOnce' /\ QueueAlive' /\ Fresh' /\ Loop' /\ Armed'
      <2>1. \A q \in Proc : /\ Alive(q) => state'[q] = state[q]
                            /\ New(q)' => New(q)
            BY <1>4 DEF Alive, Awake, New, Unborn, Freed
      <2>2. Awake(p)'
            BY <1>1, <1>4 DEF Awake
      <2>3. QED
            BY <1>1, <1>2, <1>5, <1>6, <2>1, <2>2, QueueKept
<1>8. Embryos'
      <2>1. \A q \in Proc : Queued(q)' <=> Queued(q)
            BY <1>2 DEF Queued
      <2>2. \A q \in Proc : Forking(q)' => Forking(q) /\ pc'[q] = pc[q]
            BY <1>6 DEF Forking
      <2>3. \A q \in Proc : state[q] = "RUNNABLE" => state'[q] = "RUNNABLE"
            BY <1>4
      <2>4. QED
            BY <1>2, <2>1, <2>2, <2>3 DEF Inv, Embryos
<1>9. Listed'
      BY <1>2, <1>3, <1>4 DEF Inv, Listed, TypeOK, KernelTypes, ProcTypes
<1>10. ZombieHasOneOwner'
      <2>1. SUFFICES ASSUME NEW q \in Proc, waited'[q] # NoProc
            PROVE  /\ state'[waited'[q]] = "DEAD"
                   /\ waited'[q] \notin all_processes'
                   /\ \A r \in Proc : waited'[r] = waited'[q] => r = q
            BY DEF ZombieHasOneOwner
      <2>2. /\ q # p /\ waited'[q] = waited[q] /\ waited[q] \in Proc
            /\ \A r \in Proc : waited'[r] = waited[q] => r # p /\ waited[r] = waited[q]
            BY <1>2, <2>1 DEF Inv, TypeOK, CallTypes
      <2>3. waited[q] # z
            BY <1>3, <2>1, <2>2
      <2>4. QED
            BY <1>2, <1>4, <2>1, <2>2, <2>3 DEF Inv, ZombieHasOneOwner
<1>11. QED
      BY <1>5, <1>7, <1>8, <1>9, <1>10 DEF Inv

-----------------------------------------------------------------------------
(* A step in which process p leaves the CPU or is woken up keeps the       *)
(* invariant if the place in the queue that it leaves p is in order.       *)
LEMMA LeaveStep ==
    ASSUME Inv, TypeOK', QueueOnce', ZombieHasOneOwner', NEW p \in Proc,
           mode' # "run", current' = current, all_processes' \subseteq all_processes,
           \A q \in Proc : q # p => /\ pc'[q] = pc[q]
                                    /\ armed'[q] = armed[q]
                                    /\ target'[q] = target[q]
                                    /\ state'[q] = state[q],
           Forking(p)' => Forking(p) /\ pc'[p] = pc[p] /\ target'[p] = target[p],
           ~New(p)', state'[p] \in States,
           \A q \in Proc : Forking(q) => target[q] # p,
           \A q \in Proc : Queued(q)' => Queued(q) \/ q = p,
           Queued(p)' => Alive(p)',
           armed'[p] = TRUE => /\ pc'[p] \in {"block_yield", "block_return"}
                               /\ Queued(p)' => pc'[p] = "block_yield",
           looped' = TRUE =>
               \/ ready_queue' # <<>> /\ Tail_' = p /\ Residue(p)'
               \/ looped = TRUE /\ ready_queue' = ready_queue /\ ~Queued(p)
    PROVE  Inv'
<1>1. \A q \in Proc : ~Running(q)'
      BY DEF Running
<1>2. \A q \in Proc : Forking(q)' => /\ Forking(q) /\ pc'[q] = pc[q]
                                     /\ target'[q] = target[q] /\ target[q] # p
      BY DEF Forking
<1>3. Embryos'
      BY <1>2 DEF Inv, Embryos
<1>4. Listed'
      BY DEF Inv, Listed, TypeOK, KernelTypes
<1>5. QueueAlive'
      <2>1. \A q \in Proc : Queued(q)' => Alive(q)'
            BY DEF Inv, QueueAlive, Alive, Awake
      <2>2. QED
            BY <1>1, <2>1 DEF QueueAlive
<1>6. Fresh'
      BY DEF Inv, Fresh, New
<1>7. Loop'
      <2>1. ASSUME looped' = TRUE PROVE ready_queue' # <<>> /\ Residue(Tail_)'
            <3>1. CASE ready_queue' # <<>> /\ Tail_' = p /\ Residue(p)'
                  BY <3>1 DEF Residue
            <3>2. CASE looped = TRUE /\ ready_queue' = ready_queue /\ ~Queued(p)
                  <4>1. ready_queue # <<>> /\ Residue(Tail_) /\ Tail_' = Tail_
                        BY <3>2 DEF Inv, Loop, Tail_
                  <4>2. Tail_ \in Proc /\ Queued(Tail_)
                        BY <4>1 DEF Inv, TypeOK, KernelTypes, Tail_, Queued
                  <4>3. Tail_ # p
                        BY <4>2, <3>2
                  <4>4. QED
                        BY <3>2, <4>1, <4>2, <4>3 DEF Residue
            <3>3. QED
                  BY <2>1, <3>1, <3>2
      <2>2. QED
            BY <1>1, <2>1 DEF Loop
<1>8. Armed'
      BY <1>1 DEF Inv, Armed
<1>9. QED
      BY <1>3, <1>4, <1>5, <1>6, <1>7, <1>8 DEF Inv

(* Steps in which a process yields.                                        *)
LEMMA RequeueStep ==
    ASSUME Inv, NEW p \in Proc, Running(p), TypeOK', scheduler_enqueue(p, "scan"),
           UNCHANGED <<current, all_processes, state, armed, target, waited>>,
           \A q \in Proc : q # p => pc'[q] = pc[q],
           pc'[p] = pc[p] \/ (pc[p] = "user" /\ pc'[p] = "sysret")
    PROVE  Inv'
<1>1. ready_queue \in Seq(Proc) /\ looped \in BOOLEAN /\ QueueOnce
      /\ (looped = TRUE => ready_queue # <<>>)
      BY DEF Inv, TypeOK, KernelTypes, Loop
<1>2. /\ mode' \in {"scan", "hung"}
      /\ QueueOnce'
      /\ \A q \in Proc : Queued(q)' => Queued(q) \/ q = p
      /\ ~Queued(p) => /\ looped' = looped
                       /\ looped' = TRUE => ready_queue' = ready_queue
      /\ Queued(p) => ready_queue' # <<>> /\ Tail_' = p
      BY <1>1, EnqueueFacts
<1>3. mode' # "run"
      BY <1>2
<1>4. Awake(p) /\ current = p
      BY DEF Inv, QueueAlive, Running
<1>5. Awake(p)' /\ Alive(p)' /\ ~New(p)' /\ state'[p] \in States
      BY <1>4 DEF Awake, Alive, New, States, Unborn
<1>6. \A q \in Proc : Forking(q) => target[q] # p
      BY <1>4 DEF Inv, Embryos
<1>7. Forking(p)' => Forking(p) /\ pc'[p] = pc[p]
      BY DEF Forking
<1>8. ZombieHasOneOwner'
      BY DEF Inv, ZombieHasOneOwner
<1>9. Queued(p) => Residue(p) /\ Residue(p)'
      BY DEF Inv, Loop, Residue
<1>10. armed'[p] = TRUE => pc'[p] = "block_yield"
      BY DEF Inv, Armed
<1>11. looped' = TRUE =>
               \/ ready_queue' # <<>> /\ Tail_' = p /\ Residue(p)'
               \/ looped = TRUE /\ ready_queue' = ready_queue /\ ~Queued(p)
      BY <1>2, <1>9
<1>12. QED
      BY <1>2, <1>3, <1>5, <1>6, <1>7, <1>8, <1>10, <1>11, LeaveStep

(* Steps that change nothing but where the CPU is.                         *)
LEMMA QuietStep ==
    ASSUME Inv, TypeOK', mode' \in {mode} \cup ({"scan", "deque"} \cup Stops),
           UNCHANGED <<current, all_processes, ready_queue, looped, state, pc, waited,
                       armed, target>>
    PROVE  Inv'
<1>1. \A q \in Proc : (Queued(q)' <=> Queued(q)) /\ (Running(q)' => Running(q))
      BY DEF Queued, Running, Stops
<1>2. Tail_' = Tail_ /\ \A q \in Proc : (Residue(q)' <=> Residue(q))
      BY DEF Tail_, Residue
<1>3. Embryos' /\ Listed' /\ QueueOnce' /\ Fresh'
      BY <1>1 DEF Inv, Embryos, Listed, QueueOnce, Fresh, Forking, New
<1>4. QueueAlive' /\ Armed' /\ ZombieHasOneOwner'
      BY <1>1 DEF Inv, QueueAlive, Armed, ZombieHasOneOwner, Alive, Awake
<1>5. Loop'
      <2>1. looped' = TRUE => ready_queue' # <<>> /\ Residue(Tail_)'
            BY <1>2 DEF Inv, Loop, Residue
      <2>2. QED
            BY <1>1, <1>2, <2>1 DEF Inv, Loop
<1>6. QED
      BY <1>3, <1>4, <1>5 DEF Inv

(* What scheduler_yield() does to the CPU and the queue.                   *)
LEMMA YieldTypes ==
    ASSUME Inv, scheduler_yield(TRUE) \/ scheduler_yield(FALSE)
    PROVE  /\ scanned' \in 0 .. MaxPid /\ mode' \in {"scan", "hung"}
           /\ ready_queue' \in Seq(Proc) /\ looped' \in BOOLEAN
           /\ scheduler_yield(FALSE) \/ current = Idle =>
                  mode' = "scan" /\ UNCHANGED <<ready_queue, looped>>
<1>1. /\ ready_queue \in Seq(Proc) /\ looped \in BOOLEAN /\ QueueOnce
      /\ looped = TRUE => ready_queue # <<>>
      /\ current # Idle => current \in Proc
      BY DEF Inv, TypeOK, KernelTypes, Loop
<1>2. scanned' \in 0 .. MaxPid
      BY MaxPidAssumption DEF scheduler_yield
<1>3. CASE scheduler_yield(FALSE) \/ current = Idle
      BY <1>1, <1>2, <1>3 DEF scheduler_yield
<1>4. CASE ~scheduler_yield(FALSE) /\ current # Idle
      <2>1. current \in Proc /\ scheduler_enqueue(current, "scan")
            BY <1>1, <1>4 DEF scheduler_yield
      <2>2. QED
            BY <1>1, <1>2, <1>4, <2>1, EnqueueFacts
<1>5. QED
      BY <1>3, <1>4

(* sched_yield() requeues its caller.                                      *)
LEMMA SchedYieldStep == ASSUME Inv, NEW p \in Proc, sys_sched_yield(p) PROVE Inv'
<1>1. Running(p) /\ pc[p] = "user" /\ current = p /\ p # Idle
      BY ProcFacts DEF sys_sched_yield, InUserland, At, Running
<1>2. scheduler_yield(TRUE) /\ scheduler_enqueue(p, "scan")
      BY <1>1 DEF sys_sched_yield, scheduler_yield
<1>3. /\ scanned' \in 0 .. MaxPid /\ mode' \in {"scan", "hung"}
      /\ ready_queue' \in Seq(Proc) /\ looped' \in BOOLEAN
      BY <1>2, YieldTypes
<1>4. TypeOK'
      BY <1>3 DEF sys_sched_yield, Inv, TypeOK, KernelTypes, ProcTypes, CallTypes, Goto, PCs,
                  procVars, Stops
<1>5. /\ \A q \in Proc : q # p => pc'[q] = pc[q]
      /\ pc'[p] = "sysret"
      /\ UNCHANGED <<current, all_processes, state, armed, target, waited>>
      BY DEF sys_sched_yield, Inv, TypeOK, CallTypes, Goto, procVars
<1>6. QED
      BY <1>1, <1>2, <1>4, <1>5, RequeueStep

(* scheduler_block() leaves the CPU, whether or not it is queued.          *)
LEMMA BlockYieldStep == ASSUME Inv, NEW p \in Proc, BlockYield(p) PROVE Inv'
<1>1. Running(p) /\ pc[p] = "block_yield" /\ current = p
      BY DEF BlockYield, At, Running
<1>2. scheduler_yield(FALSE)
      BY DEF BlockYield
<1>3. /\ scanned' \in 0 .. MaxPid /\ mode' = "scan"
      /\ UNCHANGED <<ready_queue, looped>>
      BY <1>2, YieldTypes
<1>4. TypeOK'
      BY <1>3 DEF BlockYield, Inv, TypeOK, KernelTypes, ProcTypes, CallTypes, Goto, PCs, procVars
<1>5. /\ \A q \in Proc : q # p => pc'[q] = pc[q]
      /\ pc'[p] = "block_return"
      /\ UNCHANGED <<current, all_processes, state, armed, target, waited>>
      BY DEF BlockYield, Inv, TypeOK, CallTypes, Goto, procVars
<1>6. Awake(p) /\ (Queued(p) => looped = FALSE /\ armed[p] = FALSE)
      BY <1>1 DEF Inv, QueueAlive, Loop, Residue
<1>7. Alive(p)' /\ ~New(p)' /\ state'[p] \in States
      BY <1>5, <1>6 DEF Awake, Alive, New, States, Unborn
<1>8. \A q \in Proc : Forking(q) => target[q] # p
      BY <1>1 DEF Inv, Embryos
<1>9. QueueOnce' /\ ZombieHasOneOwner'
      BY <1>3, <1>5 DEF Inv, QueueOnce, ZombieHasOneOwner
<1>10. \A q \in Proc : Queued(q)' <=> Queued(q)
      BY <1>3 DEF Queued
<1>11. ~Forking(p)'
      BY <1>5 DEF Forking
<1>12. looped' = TRUE => looped = TRUE /\ ready_queue' = ready_queue /\ ~Queued(p)
      BY <1>3, <1>6
<1>13. armed'[p] = TRUE => ~Queued(p)'
      BY <1>5, <1>6, <1>10
<1>14. QED
      BY <1>3, <1>4, <1>5, <1>7, <1>8, <1>9, <1>10, <1>11, <1>12, <1>13, LeaveStep

(* die(): who dies is not in the queue.                                    *)
LEMMA DieStep == ASSUME Inv, NEW p \in Proc, die(p) PROVE Inv'
<1>1. /\ Running(p) /\ pc[p] = "die" /\ current = p /\ Awake(p) /\ armed[p] = FALSE
      /\ mode = "run"
      BY RunFacts DEF die, At
<1>2. UNCHANGED <<current, all_processes, pgid, pending_signals, exit_status, pc, param,
                  waited, armed, interrupted, target, event, raced>>
      BY DEF die, callVars
<1>3. CASE /\ mode' = "init exited"
           /\ UNCHANGED <<scanned, ready_queue, looped, state, ppid>>
      <2>1. TypeOK'
            BY <1>2, <1>3 DEF Inv, TypeOK, KernelTypes, ProcTypes, CallTypes, Stops
      <2>2. QED
            BY <1>2, <1>3, <2>1, QuietStep DEF Stops
<1>4. CASE /\ ppid' = Adopted(p)
           /\ state' = [state EXCEPT ![p] = "DEAD"]
           /\ scheduler_yield(FALSE)
      <2>1. /\ scanned' \in 0 .. MaxPid /\ mode' = "scan"
            /\ UNCHANGED <<ready_queue, looped>>
            BY <1>4, YieldTypes
      <2>2. ppid' \in [Proc -> Proc] /\ state' \in [Proc -> States \cup {Unborn, Freed}]
            BY <1>4, ProcFacts DEF Adopted, Inv, TypeOK, ProcTypes, States
      <2>3. TypeOK'
            BY <1>2, <2>1, <2>2 DEF Inv, TypeOK, KernelTypes, ProcTypes, CallTypes
      <2>4. ~Queued(p)
            BY <1>1 DEF Inv, Loop, Residue
      <2>5. /\ \A q \in Proc : q # p => state'[q] = state[q]
            /\ state'[p] = "DEAD"
            BY <1>4 DEF Inv, TypeOK, ProcTypes
      <2>6. ~New(p)' /\ state'[p] \in States /\ ~Forking(p)'
            BY <1>1, <1>2, <2>5 DEF New, States, Unborn, Forking
      <2>7. \A q \in Proc : Forking(q) => target[q] # p
            BY <1>1 DEF Inv, Embryos
      <2>8. QueueOnce'
            BY <2>1 DEF Inv, QueueOnce
      <2>9. ZombieHasOneOwner'
            BY <1>2, <2>5 DEF Inv, ZombieHasOneOwner, TypeOK, CallTypes
      <2>10. \A q \in Proc : Queued(q)' <=> Queued(q)
            BY <2>1 DEF Queued
      <2>11. QED
            BY <1>1, <1>2, <2>1, <2>3, <2>4, <2>5, <2>6, <2>7, <2>8, <2>9, <2>10, LeaveStep
<1>5. QED
      BY <1>3, <1>4 DEF die

(* The history variable stays a truth value.                               *)
LEMMA InterruptsType == ASSUME Inv, Interrupts PROVE raced' \in BOOLEAN
  BY DEF Interrupts

(* The timer requeues a process wherever it is in its call.                *)
LEMMA TickStep == ASSUME Inv, scheduler_tick PROVE Inv'
<1>1. /\ mode = "run" /\ raced' \in BOOLEAN
      /\ UNCHANGED <<current, all_processes, state, ppid, pgid, pending_signals, exit_status,
                     param, waited, armed, interrupted, target, event>>
      BY InterruptsType DEF scheduler_tick, procVars
<1>2. CASE /\ current # Idle /\ pc[current] = "user" /\ Goto(current, "die")
           /\ UNCHANGED <<scanned, mode, ready_queue, looped>>
      <2>1. PICK p \in Proc : p = current
            BY <1>2 DEF Inv, TypeOK, KernelTypes
      <2>2. Running(p) /\ Awake(p) /\ pc[p] = "user" /\ armed[p] = FALSE
            BY <1>1, <1>2, <2>1, RunFacts
      <2>3. pc' = [pc EXCEPT ![p] = "die"]
            BY <1>2, <2>1 DEF Goto
      <2>4. TypeOK'
            BY <1>1, <1>2, <2>3 DEF Inv, TypeOK, KernelTypes, ProcTypes, CallTypes, PCs
      <2>5. /\ \A q \in Proc : q # p => pc'[q] = pc[q]
            /\ ~Forking(p)' /\ Awake(p)'
            BY <1>1, <2>2, <2>3 DEF Inv, TypeOK, CallTypes, Forking, Awake
      <2>6. QED
            BY <1>1, <1>2, <2>2, <2>4, <2>5, SimpleStep
<1>3. CASE scheduler_yield(TRUE) /\ UNCHANGED pc
      <2>1. /\ scanned' \in 0 .. MaxPid /\ mode' \in {"scan", "hung"}
            /\ ready_queue' \in Seq(Proc) /\ looped' \in BOOLEAN
            /\ current = Idle => mode' = "scan" /\ UNCHANGED <<ready_queue, looped>>
            BY <1>3, YieldTypes
      <2>2. TypeOK'
            BY <1>1, <1>3, <2>1 DEF Inv, TypeOK, KernelTypes, ProcTypes, CallTypes, Stops
      <2>3. CASE current = Idle
            BY <1>1, <1>3, <2>1, <2>2, <2>3, QuietStep
      <2>4. CASE current # Idle
            <3>1. PICK p \in Proc : p = current
                  BY <2>4 DEF Inv, TypeOK, KernelTypes
            <3>2. Running(p) /\ scheduler_enqueue(p, "scan")
                  BY <1>1, <1>3, <2>4, <3>1 DEF Running, scheduler_yield
            <3>3. QED
                  BY <1>1, <1>3, <2>2, <3>2, RequeueStep
      <2>5. QED
            BY <2>3, <2>4
<1>4. QED
      BY <1>2, <1>3 DEF scheduler_tick

(* What blockers wait for is not in the invariant.                         *)
LEMMA EventStep == ASSUME Inv, EventChanges PROVE Inv'
<1>1. event' \in BOOLEAN /\ UNCHANGED <<kernelVars, procVars, callVars, raced>>
      BY DEF EventChanges
<1>2. TypeOK'
      BY <1>1 DEF Inv, TypeOK, KernelTypes, ProcTypes, CallTypes, kernelVars, procVars, callVars
<1>3. QED
      BY <1>1, <1>2, QuietStep DEF kernelVars, procVars, callVars

(* The end of unblock_processes().                                         *)
LEMMA DoneStep == ASSUME Inv, UnblockDone PROVE Inv'
<1>1. TypeOK'
      BY DEF UnblockDone, Inv, TypeOK, KernelTypes, ProcTypes, CallTypes, procVars, callVars
<1>2. QED
      BY <1>1, QuietStep DEF UnblockDone, procVars, callVars

(* Nothing happens.                                                        *)
LEMMA HaltedStep == ASSUME Inv, UNCHANGED vars PROVE Inv'
<1>1. TypeOK'
      BY DEF vars, Inv, TypeOK, KernelTypes, ProcTypes, CallTypes, kernelVars, procVars, callVars
<1>2. QED
      BY <1>1, QuietStep DEF vars, kernelVars, procVars, callVars

(* The interrupt of a console may hit a process anywhere.                  *)
LEMMA TtyStep ==
    ASSUME Inv, NEW g \in Proc, NEW sig \in Signals, TtySignal(g, sig)
    PROVE  Inv'
<1>1. /\ mode = "run" /\ raced' \in BOOLEAN /\ ProcTypes /\ current \in Proc \cup {Idle}
      /\ UNCHANGED <<current, scanned, all_processes, ready_queue, looped, ppid, pgid, pc,
                     param, waited, armed, interrupted, target, event>>
      BY InterruptsType DEF TtySignal, callVars, Inv, TypeOK, KernelTypes
<1>2. send_signal(InGroup(g), sig) /\ (current \in InGroup(g) => current \in Proc)
      BY DEF TtySignal, InGroup, Inv, TypeOK, KernelTypes
<1>3. /\ state' \in [Proc -> States \cup {Unborn, Freed}]
      /\ exit_status' \in [Proc -> Nat]
      /\ pending_signals' \in [Proc -> SUBSET Signals]
      /\ mode' \in {"run", "unimplemented signal"}
      /\ \A q \in Proc : q # current => state'[q] = state[q]
      /\ \A q \in Proc : state'[q] \in {state[q], "DYING"}
      BY <1>1, <1>2, SendFacts
<1>4. TypeOK'
      BY <1>1, <1>3 DEF Inv, TypeOK, KernelTypes, ProcTypes, CallTypes, Stops
<1>5. \A q \in Proc : /\ Queued(q)' <=> Queued(q)
                      /\ Running(q)' => Running(q)
                      /\ Forking(q)' <=> Forking(q)
      BY <1>1 DEF Queued, Running, Forking
<1>6. \A q \in Proc : q = current => Awake(q) /\ Awake(q)'
      BY <1>1, <1>3 DEF Inv, QueueAlive, Running, Awake
<1>7. Embryos' /\ QueueOnce'
      BY <1>1, <1>3, <1>5 DEF Inv, Embryos, QueueOnce
<1>8. Listed' /\ Fresh'
      BY <1>1, <1>3, <1>6 DEF Inv, Listed, Fresh, New, States, TypeOK, KernelTypes, Awake, Unborn
<1>9. QueueAlive' /\ Armed'
      BY <1>1, <1>3, <1>5, <1>6 DEF Inv, QueueAlive, Armed, Alive, Awake
<1>10. Loop'
      <2>1. \A q \in Proc : Residue(q) => Residue(q)'
            BY <1>1, <1>3 DEF Residue
      <2>2. ASSUME looped' = TRUE PROVE ready_queue' # <<>> /\ Residue(Tail_)'
            <3>1. ready_queue # <<>> /\ Residue(Tail_) /\ Tail_' = Tail_
                  BY <1>1, <2>2 DEF Inv, Loop, Tail_
            <3>2. Tail_ \in Proc
                  BY <3>1 DEF Inv, TypeOK, KernelTypes, Tail_
            <3>3. QED
                  BY <1>1, <2>1, <3>1, <3>2 DEF Residue
      <2>3. QED
            BY <1>1, <1>5, <2>1, <2>2 DEF Inv, Loop
<1>11. ZombieHasOneOwner'
      <2>1. \A q \in Proc : state[q] = "DEAD" => state'[q] = "DEAD"
            BY <1>3, <1>6 DEF Awake
      <2>2. \A q \in Proc : waited[q] # NoProc => waited[q] \in Proc
            BY DEF Inv, TypeOK, CallTypes
      <2>3. QED
            BY <1>1, <2>1, <2>2 DEF Inv, ZombieHasOneOwner
<1>12. QED
      BY <1>4, <1>7, <1>8, <1>9, <1>10, <1>11 DEF Inv

(* One iteration of unblock_processes().                                   *)
LEMMA UnblockStep == ASSUME Inv, NEW p \in Proc, unblock_processes(p) PROVE Inv'
<1>1. /\ mode = "scan" /\ state[p] = "BLOCKED" /\ p \in all_processes
      /\ scanned' \in 0 .. MaxPid
      /\ UNCHANGED <<current, ppid, pgid, pending_signals, exit_status, pc, param, target,
                     event, raced>>
      <2>1. p \in 0 .. MaxPid
            BY DEF Proc
      <2>2. QED
            BY <2>1 DEF unblock_processes, Unscanned
<1>2. CASE /\ mode' \in {mode, "ASSERT should_unblock"}
           /\ UNCHANGED <<all_processes, ready_queue, looped, state, waited, armed, interrupted>>
      <2>1. TypeOK'
            BY <1>1, <1>2 DEF Inv, TypeOK, KernelTypes, ProcTypes, CallTypes, Stops
      <2>2. QED
            BY <1>1, <1>2, <2>1, QuietStep DEF Stops
<1>3. CASE /\ armed[p]
           /\ IF pending_signals[p] = {} THEN TakeZombie(p)
              ELSE UNCHANGED <<all_processes, waited>>
           /\ Unblock(p)
      <2>1. /\ armed' = [armed EXCEPT ![p] = FALSE]
            /\ state' = [state EXCEPT ![p] = "RUNNING"]
            /\ scheduler_enqueue(p, "scan")
            BY <1>3 DEF Unblock
      <2>2. interrupted' \in [Proc -> BOOLEAN]
            BY <1>3, Zenon DEF Unblock, Inv, TypeOK, CallTypes
      <2>3. /\ ready_queue \in Seq(Proc) /\ looped \in BOOLEAN /\ QueueOnce
            /\ looped = TRUE => ready_queue # <<>>
            /\ all_processes \in SUBSET Proc /\ waited \in [Proc -> Proc \cup {NoProc}]
            BY DEF Inv, TypeOK, KernelTypes, CallTypes, Loop
      <2>4. /\ mode' \in {"scan", "hung"}
            /\ ready_queue' \in Seq(Proc) /\ looped' \in BOOLEAN
            /\ QueueOnce'
            /\ \A q \in Proc : Queued(q)' => Queued(q) \/ q = p
            /\ ~Queued(p) => /\ looped' = looped
                             /\ looped' = TRUE => ready_queue' = ready_queue
            /\ Queued(p) => ready_queue' # <<>> /\ Tail_' = p
            BY <2>1, <2>3, EnqueueFacts
      <2>5. /\ state'[p] = "RUNNING" /\ armed'[p] = FALSE
            /\ \A q \in Proc : q # p => state'[q] = state[q] /\ armed'[q] = armed[q]
            BY <2>1 DEF Inv, TypeOK, ProcTypes, CallTypes
      <2>6. /\ all_processes' \in SUBSET Proc
            /\ waited' \in [Proc -> Proc \cup {NoProc}]
            /\ all_processes' \subseteq all_processes
            BY <1>3, <2>3, TakeFacts
      <2>7. ZombieHasOneOwner'
            <3>1. \A q \in Proc : state[q] = "DEAD" => state'[q] = "DEAD"
                  BY <1>1, <2>5
            <3>2. CASE TakeZombie(p)
                  BY <2>3, <3>1, <3>2, TakeOwns DEF Inv
            <3>3. CASE UNCHANGED <<all_processes, waited>>
                  BY <3>1, <3>3 DEF Inv, ZombieHasOneOwner, TypeOK, CallTypes
            <3>4. QED
                  BY <1>3, <3>2, <3>3
      <2>8. TypeOK'
            <3>1. /\ state' \in [Proc -> States \cup {Unborn, Freed}]
                  /\ armed' \in [Proc -> BOOLEAN]
                  BY <2>1 DEF Inv, TypeOK, ProcTypes, CallTypes, States
            <3>2. QED
                  BY <1>1, <2>2, <2>4, <2>6, <3>1
                     DEF Inv, TypeOK, KernelTypes, ProcTypes, CallTypes, Stops
      <2>9. armed[p] = TRUE
            BY <1>3 DEF Inv, TypeOK, CallTypes
      <2>10. Queued(p) => Residue(p)'
            BY <1>1, <2>5, <2>9 DEF Inv, Armed, Residue
      <2>11. looped' = TRUE =>
               \/ ready_queue' # <<>> /\ Tail_' = p /\ Residue(p)'
               \/ looped = TRUE /\ ready_queue' = ready_queue /\ ~Queued(p)
            BY <2>4, <2>10
      <2>12. \A q \in Proc : Forking(q) => target[q] # p
            BY <1>1 DEF Inv, Embryos
      <2>13. ~New(p)' /\ Alive(p)' /\ state'[p] \in States /\ (Forking(p)' => Forking(p))
            BY <1>1, <2>5 DEF New, Alive, Awake, States, Unborn, Forking
      <2>14. mode' # "run"
            BY <2>4
      <2>15. QED
            BY <1>1, <2>4, <2>5, <2>6, <2>7, <2>8, <2>11, <2>12, <2>13, <2>14, LeaveStep
<1>4. QED
      BY <1>2, <1>3 DEF unblock_processes

(* The next process gets the CPU.                                          *)
LEMMA SwitchStep == ASSUME Inv, switch_to_next_process PROVE Inv'
<1>1. /\ ready_queue \in Seq(Proc) /\ looped \in BOOLEAN /\ QueueOnce
      /\ looped = TRUE => ready_queue # <<>>
      BY DEF Inv, TypeOK, KernelTypes, Loop
<1>2. /\ mode = "deque" /\ mode' = "run" /\ scheduler_deque
      /\ UNCHANGED <<scanned, all_processes, ppid, pgid, pc, param, waited, armed, interrupted,
                     target, event, raced>>
      BY DEF switch_to_next_process, callVars
<1>3. /\ ready_queue' \in Seq(Proc) /\ looped' \in BOOLEAN
      /\ QueueOnce'
      /\ current' \in Proc \cup {Idle}
      /\ \A q \in Proc : Queued(q)' => Queued(q)
      /\ \A q \in Proc : q = current' =>
             /\ Queued(q)
             /\ Queued(q)' => looped = TRUE /\ looped' = FALSE /\ Tail_ = q
      /\ looped' = TRUE => looped = TRUE /\ ready_queue' # <<>> /\ Tail_' = Tail_
      BY <1>1, <1>2, DequeFacts
<1>4. /\ state' \in [Proc -> States \cup {Unborn, Freed}]
      /\ exit_status' \in [Proc -> Nat]
      /\ pending_signals' \in [Proc -> SUBSET Signals]
      /\ \A q \in Proc : q # current' => state'[q] = state[q]
      /\ \A q \in Proc : q = current' =>
             \/ state'[q] \in {state[q], "DYING"} /\ state[q] # "RUNNABLE"
             \/ state'[q] \in {"RUNNING", "DYING"} /\ state[q] = "RUNNABLE"
      <2>1. CASE current' = Idle /\ UNCHANGED <<state, exit_status, pending_signals>>
            BY <2>1, ProcFacts DEF Inv, TypeOK, ProcTypes
      <2>2. CASE /\ current' # Idle
                 /\ HandlePendingSignals(current', pending_signals[current'],
                       IF state[current'] = "RUNNABLE"
                       THEN [state EXCEPT ![current'] = "RUNNING"] ELSE state)
                 /\ pending_signals' = [pending_signals EXCEPT ![current'] = {}]
            <3>1. PICK p \in Proc : p = current'
                  BY <1>3, <2>2
            <3> DEFINE states == IF state[p] = "RUNNABLE"
                                 THEN [state EXCEPT ![p] = "RUNNING"] ELSE state
            <3>2. /\ HandlePendingSignals(p, pending_signals[p], states)
                  /\ pending_signals' = [pending_signals EXCEPT ![p] = {}]
                  BY <2>2, <3>1
            <3>3. /\ states \in [Proc -> States \cup {Unborn, Freed}]
                  /\ pending_signals[p] \in SUBSET Signals
                  /\ pending_signals' \in [Proc -> SUBSET Signals]
                  /\ exit_status \in [Proc -> Nat]
                  /\ \A q \in Proc : q # p => states[q] = state[q]
                  /\ state[p] = "RUNNABLE" => states[p] = "RUNNING"
                  /\ state[p] # "RUNNABLE" => states[p] = state[p]
                  BY <3>2 DEF Inv, TypeOK, ProcTypes, States
            <3> HIDE DEF states
            <3>4. /\ state' \in [Proc -> States \cup {Unborn, Freed}]
                  /\ exit_status' \in [Proc -> Nat]
                  /\ \A q \in Proc : q # p => state'[q] = states[q]
                  /\ state'[p] \in {states[p], "DYING"}
                  BY <3>2, <3>3, HandleFacts
            <3>5. QED
                  BY <3>1, <3>3, <3>4
      <2>3. QED
            BY <2>1, <2>2 DEF switch_to_next_process
<1>5. TypeOK'
      BY <1>2, <1>3, <1>4 DEF Inv, TypeOK, KernelTypes, ProcTypes, CallTypes
<1>6. \A q \in Proc : /\ Running(q)' => q = current'
                      /\ Forking(q)' <=> Forking(q)
      BY <1>2 DEF Running, Forking
<1>7. \A q \in Proc : q = current' => Alive(q) /\ Awake(q)' /\ Queued(q)
      BY <1>3, <1>4 DEF Inv, QueueAlive, Alive, Awake
<1>8. Embryos'
      BY <1>2, <1>3, <1>4, <1>6 DEF Inv, Embryos
<1>9. Listed' /\ Fresh'
      BY <1>2, <1>4, <1>7 DEF Inv, Listed, Fresh, New, States, TypeOK, KernelTypes, Awake, Unborn
<1>10. QueueAlive'
      BY <1>3, <1>4, <1>6, <1>7 DEF Inv, QueueAlive, Alive, Awake
<1>11. Armed'
      BY <1>2, <1>3, <1>6, <1>7 DEF Inv, Armed
<1>12. Loop'
      <2>1. \A q \in Proc : Residue(q) => Residue(q)'
            BY <1>2, <1>4 DEF Residue
      <2>2. looped = TRUE => Tail_ \in Proc /\ Residue(Tail_)
            BY DEF Inv, Loop, TypeOK, KernelTypes, Tail_
      <2>3. ASSUME looped' = TRUE PROVE ready_queue' # <<>> /\ Residue(Tail_)'
            <3>1. looped = TRUE /\ ready_queue' # <<>> /\ Tail_' = Tail_
                  BY <1>3, <2>3
            <3>2. QED
                  BY <2>1, <2>2, <3>1 DEF Residue
      <2>4. ASSUME NEW q \in Proc, Running(q)', Queued(q)'
            PROVE  looped' = FALSE /\ Residue(q)'
            BY <1>3, <1>6, <2>1, <2>2, <2>4
      <2>5. QED
            BY <2>3, <2>4 DEF Loop
<1>13. ZombieHasOneOwner'
      <2>1. \A q \in Proc : state[q] = "DEAD" => state'[q] = "DEAD"
            BY <1>4, <1>7 DEF Alive, Awake
      <2>2. \A q \in Proc : waited[q] # NoProc => waited[q] \in Proc
            BY DEF Inv, TypeOK, CallTypes
      <2>3. QED
            BY <1>2, <2>1, <2>2 DEF Inv, ZombieHasOneOwner
<1>14. QED
      BY <1>3, <1>5, <1>8, <1>9, <1>10, <1>11, <1>12, <1>13 DEF Inv

(* The child of a fork() enters the queue.                                 *)
LEMMA ForkEnqueueStep == ASSUME Inv, NEW p \in Proc, ForkEnqueue(p) PROVE Inv'
<1> DEFINE c == target[p]
<1>1. /\ Running(p) /\ Awake(p) /\ pc[p] = "fork_enqueue" /\ armed[p] = FALSE
      /\ current = p /\ mode = "run"
      BY RunFacts DEF ForkEnqueue, At
<1>2. /\ c \in Proc /\ state[c] = "RUNNABLE" /\ ~Queued(c) /\ c # p
      /\ \A q \in Proc : Forking(q) /\ target[q] = c => q = p
      BY <1>1 DEF Inv, Embryos, Forking
<1>3. /\ scheduler_enqueue(c, "run")
      /\ target' = [target EXCEPT ![p] = NoProc]
      /\ pc' = [pc EXCEPT ![p] = "sysret"]
      /\ UNCHANGED <<current, scanned, all_processes, state, ppid, pgid, pending_signals,
                     exit_status, param, waited, armed, interrupted, event, raced>>
      BY DEF ForkEnqueue, Goto, procVars
<1> HIDE DEF c
<1>4. /\ ready_queue \in Seq(Proc) /\ looped \in BOOLEAN /\ QueueOnce
      /\ looped = TRUE => ready_queue # <<>>
      BY DEF Inv, TypeOK, KernelTypes, Loop
<1>5. /\ ready_queue' \in Seq(Proc) /\ looped' \in BOOLEAN
      /\ mode' \in {"run", "hung"}
      /\ QueueOnce'
      /\ \A q \in Proc : Queued(q)' => Queued(q) \/ q = c
      /\ looped' = looped
      /\ looped' = TRUE => ready_queue' = ready_queue
      BY <1>2, <1>3, <1>4, EnqueueFacts
<1>6. TypeOK'
      BY <1>3, <1>5 DEF Inv, TypeOK, KernelTypes, ProcTypes, CallTypes, PCs, Stops
<1>7. /\ \A q \in Proc : q # p => pc'[q] = pc[q] /\ target'[q] = target[q]
      /\ pc'[p] = "sysret"
      BY <1>3 DEF Inv, TypeOK, CallTypes
<1>8. \A q \in Proc : /\ Running(q)' => q = p
                      /\ Forking(q)' => Forking(q) /\ q # p /\ target[q] # c
      BY <1>1, <1>2, <1>3, <1>7 DEF Running, Forking
<1>9. ~Queued(p)'
      BY <1>1, <1>2, <1>5 DEF Inv, Loop, Residue
<1>10. Embryos'
      BY <1>3, <1>5, <1>7, <1>8 DEF Inv, Embryos
<1>11. Listed' /\ ZombieHasOneOwner'
      BY <1>3 DEF Inv, Listed, ZombieHasOneOwner
<1>12. Fresh'
      BY <1>1, <1>3, <1>7 DEF Inv, Fresh, New, Awake, Unborn
<1>13. QueueAlive'
      BY <1>1, <1>2, <1>3, <1>5, <1>8 DEF Inv, QueueAlive, Alive, Awake
<1>14. Armed'
      <2>1. pc[c] = "user"
            BY <1>2 DEF Inv, Fresh, New
      <2>2. \A q \in Proc : armed'[q] = TRUE => q # p /\ q # c
            BY <1>1, <1>3, <2>1, <1>2 DEF Inv, Armed
      <2>3. QED
            BY <1>3, <1>5, <1>7, <1>8, <2>2 DEF Inv, Armed
<1>15. Loop'
      <2>1. ASSUME looped' = TRUE PROVE ready_queue' # <<>> /\ Residue(Tail_)'
            <3>1. ready_queue # <<>> /\ Residue(Tail_) /\ Tail_' = Tail_ /\ ready_queue' = ready_queue
                  BY <1>5, <2>1 DEF Inv, Loop, Tail_
            <3>2. Tail_ \in Proc /\ Tail_ # p
                  BY <1>1, <3>1 DEF Inv, TypeOK, KernelTypes, Tail_, Residue
            <3>3. QED
                  BY <1>3, <1>7, <3>1, <3>2 DEF Residue
      <2>2. QED
            BY <1>8, <1>9, <2>1 DEF Loop
<1>16. QED
      BY <1>5, <1>6, <1>10, <1>11, <1>12, <1>13, <1>14, <1>15 DEF Inv

-----------------------------------------------------------------------------
(* Every step keeps the invariant.                                         *)
LEMMA NextInv == ASSUME Inv, Next PROVE Inv'
<1>1. ASSUME NEW p \in Proc, KernelStep(p) PROVE Inv'
      BY <1>1, SignalSteps, CallSteps, RegisterStep, ForkEnqueueStep, TestSteps, BlockYieldStep,
         WaitReturnStep, DieStep DEF KernelStep
<1>2. ASSUME NEW p \in Proc, Syscall(p) PROVE Inv'
      <2>1. CASE \E t \in Proc : sys_kill(p, t)
            BY <2>1, SignalSteps
      <2>2. CASE \E sig \in Signals : \/ sys_kill_all(p, sig)
                                      \/ \E g \in Proc : sys_kill_group(p, g, sig)
            <3>1. /\ all_processes \ {InitProc} \in SUBSET Proc
                  /\ \A g \in Proc : InGroup(g) \in SUBSET Proc
                  BY DEF Inv, TypeOK, KernelTypes, InGroup
            <3>2. \E sig \in Signals, ps \in SUBSET Proc : KillMany(p, ps, sig)
                  BY <2>2, <3>1 DEF sys_kill_all, sys_kill_group
            <3>3. QED
                  BY <3>2, SignalSteps
      <2>3. CASE \E t \in Proc : sys_setpgid(p, t)
            BY <2>3, SignalSteps
      <2>4. CASE sys_fork(p) \/ sys_sched_yield(p)
            BY <2>4, ForkStep, SchedYieldStep
      <2>5. CASE BlockOnEvent(p)
                 \/ \E pid \in WaitArgs, nohang \in BOOLEAN : sys_waitpid(p, pid, nohang)
            BY <2>5, CallSteps
      <2>6. CASE \/ \E status \in ExitArgs : sys_exit(p, status)
                 \/ \E sig \in CrashSignals : process_crash_in_userland(p, sig)
            <3>1. /\ \A status \in ExitArgs : status * 256 \in Nat
                  /\ \A sig \in CrashSignals : sig \in Nat
                  BY ExitArgsAssumption, CrashSignalsAssumption
            <3>2. \E status \in Nat : At(p, "user") /\ BeginExit(p, status)
                  BY <2>6, <3>1 DEF sys_exit, InUserland, process_crash_in_userland
            <3>3. QED
                  BY <3>2, CallSteps
      <2>7. QED
            BY <1>2, <2>1, <2>2, <2>3, <2>4, <2>5, <2>6 DEF Syscall
<1>3. CASE \E g \in Proc, sig \in Signals : TtySignal(g, sig)
      BY <1>3, TtyStep
<1>4. CASE scheduler_tick \/ EventChanges
      BY <1>4, TickStep, EventStep
<1>5. CASE ContextSwitch
      BY <1>5, UnblockStep, DoneStep, SwitchStep DEF ContextSwitch
<1>6. CASE Halted
      BY <1>6, HaltedStep DEF Halted
<1>7. QED
      BY <1>1, <1>2, <1>3, <1>4, <1>5, <1>6 DEF Next

(* The invariant holds in every reachable state, for any number of         *)
(* processes and any workload.                                             *)
THEOREM Invariance == Spec => []Inv
<1>1. Inv /\ [Next]_vars => Inv'
      BY NextInv, HaltedStep
<1>2. QED
      BY <1>1, InitInv, PTL DEF Spec

(* Every variable keeps its type.                                          *)
THEOREM TypeCorrect == Spec => []TypeOK
<1>1. Inv => TypeOK
      BY DEF Inv
<1>2. QED
      BY <1>1, Invariance, PTL

(* A zombie that waitpid() took out of the list belongs to one waiter, so  *)
(* that kfree() gets it once and scheduler_unregister() does not find it.  *)
THEOREM ZombieOwned == Spec => []ZombieHasOneOwner
<1>1. Inv => ZombieHasOneOwner
      BY DEF Inv
<1>2. QED
      BY <1>1, Invariance, PTL

(* The assertions of scheduler_block(), scheduler_enqueue() and            *)
(* scheduler_deque() hold: no blocker is left over, nobody dead is         *)
(* enqueued or dequeued.                                                   *)
THEOREM SchedulerAssertsHold == Spec => []SchedulerAsserts
<1>1. Inv => SchedulerAsserts
      <2>1. SUFFICES ASSUME Inv PROVE SchedulerAsserts
            OBVIOUS
      <2>2. ASSUME NEW p \in Proc, pc[p] \in {"check", "set_state"} PROVE ~armed[p]
            BY <2>1, <2>2 DEF Inv, Armed, TypeOK, CallTypes
      <2>3. ASSUME NEW p \in Proc, pc[p] = "fork_enqueue" PROVE state[target[p]] # "DEAD"
            BY <2>1, <2>3 DEF Inv, Embryos, Forking
      <2>4. ASSUME ready_queue # <<>> PROVE state[Head(ready_queue)] \notin {"DEAD", Freed}
            <3>1. Head(ready_queue) \in Proc /\ Queued(Head(ready_queue))
                  BY <2>1, <2>4 DEF Inv, TypeOK, KernelTypes, Queued
            <3>2. QED
                  BY <2>1, <3>1 DEF Inv, QueueAlive, Alive, Awake, Freed
      <2>5. QED
            BY <2>2, <2>3, <2>4 DEF SchedulerAsserts
<1>2. QED
      BY <1>1, Invariance, PTL

-----------------------------------------------------------------------------
(* What a step may do to the dead and to the list.                         *)
DeadKept ==
    \A p \in Proc : state[p] = "DEAD" => /\ state'[p] \in {"DEAD", Freed}
                                         /\ exit_status'[p] = exit_status[p]
ZombiesReaped ==
    /\ \A p \in all_processes \ all_processes' : state[p] = "DEAD"
    /\ \A p \in Proc : state[p] # Freed /\ state'[p] = Freed =>
          state[p] = "DEAD" /\ \E q \in Proc : waited[q] = p

(* A process on the CPU changes nobody's fate but its own.                 *)
LEMMA FateOfOthers ==
    ASSUME Inv, mode = "run", all_processes \subseteq all_processes',
           \A q \in Proc : q # current => /\ state'[q] \in {state[q], "RUNNABLE"}
                                          /\ state'[q] = state[q] \/ state[q] = Unborn
                                          /\ exit_status'[q] = exit_status[q],
           \A q \in Proc : q = current => state'[q] # Freed
    PROVE  DeadKept /\ ZombiesReaped
<1>1. \A q \in Proc : q = current => Awake(q)
      BY DEF Inv, QueueAlive, Running
<1>2. QED
      BY <1>1 DEF DeadKept, ZombiesReaped, Awake, Unborn, Freed

(* A signal kills nobody but the process on the CPU.                       *)
LEMMA FateSignals ==
    ASSUME Inv, mode = "run", UNCHANGED all_processes,
           NEW ps, current \in ps => current \in Proc,
           NEW sig \in Signals, send_signal(ps, sig)
    PROVE  DeadKept /\ ZombiesReaped
<1>1. ProcTypes /\ current \in Proc \cup {Idle}
      BY DEF Inv, TypeOK, KernelTypes
<1>2. /\ \A q \in Proc : q # current => /\ state'[q] = state[q]
                                        /\ exit_status'[q] = exit_status[q]
      /\ \A q \in Proc : state'[q] \in {state[q], "DYING"}
      BY <1>1, SendFacts
<1>3. \A q \in Proc : q = current => state'[q] # Freed
      BY <1>2 DEF Inv, QueueAlive, Running, Awake, Freed
<1>4. QED
      BY <1>2, <1>3, FateOfOthers

(* No system call begins with an effect on the dead.                       *)
LEMMA FateSyscall == ASSUME Inv, NEW p \in Proc, Syscall(p) PROVE DeadKept /\ ZombiesReaped
<1>1. ASSUME NEW sig \in Signals, NEW ps \in SUBSET Proc, KillMany(p, ps, sig)
      PROVE DeadKept /\ ZombiesReaped
      BY <1>1, FateSignals DEF KillMany, InUserland, At
<1>2. ASSUME NEW status, mode = "run", current = p, BeginExit(p, status)
      PROVE DeadKept /\ ZombiesReaped
      <2>1. /\ \A q \in Proc : q # p => exit_status'[q] = exit_status[q]
            /\ UNCHANGED <<state, all_processes>>
            BY <1>2 DEF BeginExit, kernelVars, Inv, TypeOK, ProcTypes
      <2>2. state[p] # Freed
            BY <1>2, RunFacts DEF Awake, Freed
      <2>3. QED
            BY <1>2, <2>1, <2>2, FateOfOthers
<1>3. CASE UNCHANGED <<state, exit_status, all_processes>>
      BY <1>3 DEF DeadKept, ZombiesReaped
<1>4. CASE sys_fork(p)
      <2>1. PICK c \in Proc : /\ state[c] = Unborn
                              /\ state' = [state EXCEPT ![c] = "RUNNABLE"]
            BY <1>4 DEF sys_fork, Unused
      <2>2. UNCHANGED <<all_processes, exit_status>>
            BY <1>4 DEF sys_fork, kernelVars
      <2>3. QED
            BY <2>1, <2>2 DEF DeadKept, ZombiesReaped, Unborn, Freed, Inv, TypeOK, ProcTypes
<1>5. CASE \E sig \in Signals : \/ sys_kill_all(p, sig)
                                \/ \E g \in Proc : sys_kill_group(p, g, sig)
      <2>1. /\ all_processes \ {InitProc} \in SUBSET Proc
            /\ \A g \in Proc : InGroup(g) \in SUBSET Proc
            BY DEF Inv, TypeOK, KernelTypes, InGroup
      <2>2. QED
            BY <1>1, <1>5, <2>1 DEF sys_kill_all, sys_kill_group
<1>6. CASE \/ \E status \in ExitArgs : sys_exit(p, status)
           \/ \E sig \in CrashSignals : process_crash_in_userland(p, sig)
      BY <1>2, <1>6 DEF sys_exit, InUserland, At, process_crash_in_userland
<1>7. QED
      BY <1>3, <1>4, <1>5, <1>6
         DEF Syscall, sys_kill, sys_setpgid, sys_sched_yield, BlockOnEvent, sys_waitpid,
             kernelVars, procVars

(* Only the end of waitpid() frees, and only the zombie that it has.       *)
LEMMA FateKernelStep == ASSUME Inv, NEW p \in Proc, KernelStep(p) PROVE DeadKept /\ ZombiesReaped
<1>1. CASE UNCHANGED <<state, exit_status>> /\ all_processes \subseteq all_processes'
      BY <1>1 DEF DeadKept, ZombiesReaped
<1>2. ASSUME NEW sig \in Signals, KillSend(p, sig) PROVE DeadKept /\ ZombiesReaped
      <2>1. CASE state[target[p]] = Freed
            BY <1>2, <2>1 DEF KillSend, DeadKept, ZombiesReaped
      <2>2. CASE state[target[p]] # Freed
            BY <1>2, <2>2, FateSignals DEF KillSend, At
      <2>3. QED
            BY <2>1, <2>2
<1>3. CASE WaitNohang(p) \/ BlockCheck(p)
      <2>1. /\ UNCHANGED <<state, exit_status>>
            /\ TakeZombie(p) \/ UNCHANGED all_processes
            BY <1>3 DEF WaitNohang, BlockCheck, procVars
      <2>2. /\ all_processes \in SUBSET Proc
            /\ waited \in [Proc -> Proc \cup {NoProc}]
            BY DEF Inv, TypeOK, KernelTypes, CallTypes
      <2>3. \A q \in all_processes \ all_processes' : state[q] = "DEAD"
            BY <2>1, <2>2, TakeFacts
      <2>4. QED
            BY <2>1, <2>3 DEF DeadKept, ZombiesReaped
<1>4. CASE BlockSetState(p)
      <2>1. /\ mode = "run" /\ current = p /\ state' = [state EXCEPT ![p] = "BLOCKED"]
            /\ UNCHANGED <<exit_status, all_processes>>
            BY <1>4 DEF BlockSetState, At, kernelVars
      <2>2. /\ \A q \in Proc : q # p => state'[q] = state[q]
            /\ state'[p] # Freed
            BY <2>1 DEF Inv, TypeOK, ProcTypes, Freed
      <2>3. QED
            BY <2>1, <2>2, FateOfOthers
<1>5. CASE WaitReturn(p)
      <2>1. /\ UNCHANGED <<all_processes, exit_status>>
            /\ state' = IF waited[p] = NoProc THEN state
                        ELSE [state EXCEPT ![waited[p]] = Freed]
            BY <1>5 DEF WaitReturn, kernelVars
      <2>2. waited[p] # NoProc => waited[p] \in Proc /\ state[waited[p]] = "DEAD"
            BY DEF Inv, ZombieHasOneOwner, TypeOK, CallTypes
      <2>3. \A q \in Proc : state'[q] = state[q] \/ (state'[q] = Freed /\ q = waited[p])
            BY <2>1, <2>2 DEF Inv, TypeOK, ProcTypes
      <2>4. QED
            BY <2>1, <2>2, <2>3, ProcFacts DEF DeadKept, ZombiesReaped
<1>6. CASE die(p)
      <2>1. /\ mode = "run" /\ current = p
            /\ state' \in {state, [state EXCEPT ![p] = "DEAD"]}
            /\ UNCHANGED <<exit_status, all_processes>>
            BY <1>6 DEF die, At
      <2>2. /\ \A q \in Proc : q # p => state'[q] = state[q]
            /\ state'[p] # Freed
            BY <2>1, RunFacts DEF Inv, TypeOK, ProcTypes, Freed, Awake
      <2>3. QED
            BY <2>1, <2>2, FateOfOthers
<1>7. QED
      BY <1>1, <1>2, <1>3, <1>4, <1>5, <1>6
         DEF KernelStep, SetpgidWrite, ForkFails, scheduler_register, ForkEnqueue,
             BlockSetBlocker, BlockYield, BlockReturn, process_die_if_needed, kernelVars, procVars

(* A context switch wakes and runs the living.                             *)
LEMMA FateSwitch ==
    ASSUME Inv, ContextSwitch
    PROVE  DeadKept /\ ZombiesReaped
<1>1. ASSUME NEW p \in Proc, unblock_processes(p) PROVE DeadKept /\ ZombiesReaped
      <2>1. /\ UNCHANGED exit_status /\ state[p] = "BLOCKED"
            /\ state' \in {state, [state EXCEPT ![p] = "RUNNING"]}
            /\ TakeZombie(p) \/ UNCHANGED all_processes
            BY <1>1 DEF unblock_processes, Unscanned, Unblock
      <2>2. /\ all_processes \in SUBSET Proc
            /\ waited \in [Proc -> Proc \cup {NoProc}]
            BY DEF Inv, TypeOK, KernelTypes, CallTypes
      <2>3. \A q \in all_processes \ all_processes' : state[q] = "DEAD"
            BY <2>1, <2>2, TakeFacts
      <2>4. \A q \in Proc : state'[q] = state[q] \/ (q = p /\ state'[q] = "RUNNING")
            BY <2>1 DEF Inv, TypeOK, ProcTypes
      <2>5. QED
            BY <2>1, <2>3, <2>4 DEF DeadKept, ZombiesReaped, Freed
<1>2. CASE UnblockDone
      BY <1>2 DEF UnblockDone, procVars, DeadKept, ZombiesReaped
<1>3. CASE switch_to_next_process
      <2>1. /\ ready_queue \in Seq(Proc) /\ looped \in BOOLEAN /\ QueueOnce
            /\ looped = TRUE => ready_queue # <<>>
            BY DEF Inv, TypeOK, KernelTypes, Loop
      <2>2. scheduler_deque /\ UNCHANGED all_processes
            BY <1>3 DEF switch_to_next_process
      <2>3. /\ current' \in Proc \cup {Idle}
            /\ \A q \in Proc : q = current' => Queued(q)
            BY <2>1, <2>2, DequeFacts
      <2>4. CASE UNCHANGED <<state, exit_status>>
            BY <2>2, <2>4 DEF DeadKept, ZombiesReaped
      <2>5. CASE /\ current' # Idle
                 /\ HandlePendingSignals(current', pending_signals[current'],
                       IF state[current'] = "RUNNABLE"
                       THEN [state EXCEPT ![current'] = "RUNNING"] ELSE state)
            <3>1. PICK p \in Proc : p = current'
                  BY <2>3, <2>5
            <3> DEFINE states == IF state[p] = "RUNNABLE"
                                 THEN [state EXCEPT ![p] = "RUNNING"] ELSE state
            <3>2. HandlePendingSignals(p, pending_signals[p], states)
                  BY <2>5, <3>1
            <3>3. Alive(p)
                  BY <2>3, <3>1 DEF Inv, QueueAlive
            <3>4. /\ states \in [Proc -> States \cup {Unborn, Freed}]
                  /\ pending_signals[p] \in SUBSET Signals
                  /\ exit_status \in [Proc -> Nat]
                  /\ \A q \in Proc : q # p => states[q] = state[q]
                  /\ states[p] \notin {"DEAD", Freed}
                  BY <3>3 DEF Inv, TypeOK, ProcTypes, States, Alive, Awake, Freed
            <3> HIDE DEF states
            <3>5. /\ \A q \in Proc : q # p => /\ state'[q] = states[q]
                                              /\ exit_status'[q] = exit_status[q]
                  /\ state'[p] \in {states[p], "DYING"}
                  BY <3>2, <3>4, HandleFacts
            <3>6. state[p] # "DEAD" /\ state'[p] # Freed
                  BY <3>3, <3>4, <3>5 DEF Alive, Awake, Freed
            <3>7. QED
                  BY <2>2, <3>4, <3>5, <3>6 DEF DeadKept, ZombiesReaped
      <2>6. QED
            BY <1>3, <2>4, <2>5 DEF switch_to_next_process
<1>4. QED
      BY <1>1, <1>2, <1>3 DEF ContextSwitch

(* All steps together.                                                     *)
LEMMA Fate == ASSUME Inv, [Next]_vars PROVE DeadKept /\ ZombiesReaped
<1>1. CASE \E p \in Proc : KernelStep(p) \/ Syscall(p)
      BY <1>1, FateKernelStep, FateSyscall
<1>2. ASSUME NEW g \in Proc, NEW sig \in Signals, TtySignal(g, sig)
      PROVE  DeadKept /\ ZombiesReaped
      <2>1. current \in InGroup(g) => current \in Proc
            BY DEF InGroup, Inv, TypeOK, KernelTypes
      <2>2. QED
            BY <1>2, <2>1, FateSignals DEF TtySignal
<1>3. CASE UNCHANGED <<state, exit_status, all_processes>>
      BY <1>3 DEF DeadKept, ZombiesReaped
<1>4. CASE scheduler_tick \/ EventChanges \/ Halted \/ UNCHANGED vars
      BY <1>3, <1>4
         DEF scheduler_tick, EventChanges, Halted, vars, kernelVars, procVars
<1>5. CASE ContextSwitch
      BY <1>5, FateSwitch
<1>6. QED
      BY <1>1, <1>2, <1>4, <1>5 DEF Next

(* A dead process stays dead until it is freed, and keeps the status that  *)
(* waitpid() will report, whatever is still sent to it.                    *)
THEOREM TheDeadStayDead == Spec => DeadIsFinal
<1>1. Inv /\ [Next]_vars =>
          [\A p \in Proc : state[p] = "DEAD" => /\ state'[p] \in {"DEAD", Freed}
                                                /\ exit_status'[p] = exit_status[p]]_vars
      BY Fate DEF DeadKept
<1>2. QED
      BY <1>1, Invariance, PTL DEF Spec, DeadIsFinal

(* Only zombies leave the list of processes, and only the waitpid() that   *)
(* took a zombie out frees it.                                             *)
THEOREM ReapedByTheirOwner == Spec => OnlyZombiesAreReaped
<1>1. Inv /\ [Next]_vars =>
          [/\ \A p \in all_processes \ all_processes' : state[p] = "DEAD"
           /\ \A p \in Proc : state[p] # Freed /\ state'[p] = Freed =>
                 state[p] = "DEAD" /\ \E q \in Proc : waited[q] = p]_vars
      BY Fate DEF ZombiesReaped
<1>2. QED
      BY <1>1, Invariance, PTL DEF Spec, OnlyZombiesAreReaped

-----------------------------------------------------------------------------
(* Order among the living.                                                 *)

(* Who is in the list, and whose child everyone is.                        *)
InitLives == InitProc \in all_processes /\ state[InitProc] # "DEAD"
GoersListed == \A p \in Proc : Queued(p) \/ Running(p) => p \in all_processes
ChildrenListed ==
    \A p \in Proc : /\ pc[p] = "fork_register" => ppid[target[p]] = p
                    /\ pc[p] = "fork_enqueue" => target[p] \in all_processes
Parented ==
    \A p \in all_processes : ppid[p] \in all_processes /\ state[ppid[p]] # "DEAD"
Family == InitLives /\ GoersListed /\ ChildrenListed /\ Parented

(* A process is BLOCKED from the second step of scheduler_block() until    *)
(* it is woken, and has its blocker from the third.                        *)
InBed(p) ==
    /\ state[p] = "BLOCKED" <=> \/ pc[p] \in {"set_blocker", "block_yield"}
                                \/ pc[p] = "block_return" /\ armed[p] = TRUE
    /\ armed[p] = TRUE <=> \/ pc[p] = "block_yield"
                           \/ pc[p] = "block_return" /\ state[p] = "BLOCKED"

Unlost == ~Stopped => \A p \in all_processes : Runnable(p) => OnItsWay(p)

Calm ==
    raced = FALSE =>
        /\ looped = FALSE
        /\ \A p \in Proc : InBed(p)
        /\ \A p \in Proc : InWindow(p) => Running(p)
        /\ \A p \in Proc : Queued(p) => state[p] # "BLOCKED"
        /\ Unlost
Orderly == Family /\ Calm

-----------------------------------------------------------------------------
(* A step that neither forks nor dies keeps every child with a parent, if  *)
(* who goes to the queue or to the CPU is in the list.                     *)
LEMMA FamilyKept ==
    ASSUME Inv, Inv', DeadKept, ZombiesReaped, Family,
           \A q \in Proc : Queued(q)' \/ Running(q)' => q \in all_processes,
           all_processes' \subseteq all_processes, UNCHANGED ppid,
           \A q \in Proc : state'[q] = "DEAD" => state[q] = "DEAD",
           \A q \in Proc : Forking(q)' => pc'[q] = pc[q] /\ target'[q] = target[q]
    PROVE  Family'
<1>1. \A q \in all_processes : state[q] # "DEAD" => q \in all_processes'
      BY DEF ZombiesReaped
<1>2. InitLives'
      BY <1>1, ProcFacts DEF Family, InitLives
<1>3. GoersListed'
      <2>1. \A q \in Proc : Queued(q)' \/ Running(q)' => state'[q] \notin {"DEAD", Freed}
            BY DEF Inv, QueueAlive, Alive, Awake, Freed
      <2>2. \A q \in Proc : Queued(q)' \/ Running(q)' => state[q] # "DEAD"
            BY <2>1 DEF DeadKept
      <2>3. QED
            BY <1>1, <2>2 DEF GoersListed
<1>4. ChildrenListed'
      <2>1. SUFFICES ASSUME NEW p \in Proc, Forking(p)'
                     PROVE  /\ pc'[p] = "fork_register" => ppid'[target'[p]] = p
                            /\ pc'[p] = "fork_enqueue" => target'[p] \in all_processes'
            BY DEF ChildrenListed, Forking
      <2>2. /\ pc'[p] = pc[p] /\ target'[p] = target[p] /\ Forking(p)
            BY <2>1 DEF Forking
      <2>3. state[target[p]] = "RUNNABLE"
            BY <2>2 DEF Inv, Embryos
      <2>4. QED
            BY <1>1, <2>2, <2>3 DEF Family, ChildrenListed
<1>5. Parented'
      <2>1. \A q \in all_processes : ppid[q] \in Proc
            BY DEF Inv, TypeOK, KernelTypes, ProcTypes
      <2>2. QED
            BY <1>1, <2>1 DEF Family, Parented
<1>6. QED
      BY <1>2, <1>3, <1>4, <1>5 DEF Family

(* What a calm state says of the process on the CPU.                       *)
LEMMA CalmFacts ==
    ASSUME Inv, Family, Calm, raced = FALSE, NEW p \in Proc, Running(p)
    PROVE  /\ ~Queued(p) /\ p \in all_processes /\ InBed(p)
           /\ \A q \in Proc : q # p => ~InWindow(q)
<1>1. InBed(p)
      BY DEF Calm
<1>2. ~Queued(p)
      BY <1>1 DEF Inv, Loop, Residue, InBed
<1>3. \A q \in Proc : q # p => ~InWindow(q)
      BY DEF Calm, Running
<1>4. QED
      BY <1>1, <1>2, <1>3 DEF Family, GoersListed

(* A step of the process p on the CPU that leaves the queue alone keeps    *)
(* the others where they are.                                              *)
LEMMA CalmKept ==
    ASSUME Inv, Family, Calm, NEW p \in Proc, Running(p),
           pc[p] = "fork_enqueue" => pc'[p] = pc[p] /\ target'[p] = target[p],
           raced' = FALSE => raced = FALSE,
           UNCHANGED <<current, ready_queue, looped>>,
           mode' \in {"run"} \cup Stops, InWindow(p)' => mode' = "run",
           \A q \in Proc : q # p =>
               /\ pc'[q] = pc[q] /\ armed'[q] = armed[q] /\ target'[q] = target[q]
               /\ \/ state'[q] = state[q]
                  \/ /\ q \notin all_processes' /\ ~Queued(q)
                     /\ state[q] # "BLOCKED" /\ state'[q] # "BLOCKED",
           \A q \in all_processes' \ all_processes :
               pc'[p] = "fork_enqueue" /\ target'[p] = q,
           all_processes' \subseteq Proc,
           raced = FALSE /\ InBed(p) => InBed(p)'
    PROVE  Calm'
<1> SUFFICES ASSUME raced' = FALSE PROVE Calm'
    BY DEF Calm
<1>1. /\ raced = FALSE /\ ~Queued(p) /\ InBed(p)
      /\ \A q \in Proc : q # p => ~InWindow(q)
      BY CalmFacts
<1>2. looped' = FALSE
      BY <1>1 DEF Calm
<1>3. ASSUME NEW q \in Proc PROVE InBed(q)'
      BY <1>1 DEF Calm, InBed
<1>4. ASSUME NEW q \in Proc, InWindow(q)' PROVE Running(q)'
      BY <1>1, <1>4 DEF InWindow, Running
<1>5. \A q \in Proc : Queued(q)' <=> Queued(q)
      BY DEF Queued
<1>6. ASSUME NEW q \in Proc, Queued(q)' PROVE state'[q] # "BLOCKED"
      BY <1>1, <1>5, <1>6 DEF Calm
<1>7. Unlost'
      <2>1. SUFFICES ASSUME ~Stopped', NEW q \in all_processes', Runnable(q)'
                     PROVE  OnItsWay(q)'
            BY DEF Unlost
      <2>2. mode' = "run"
            BY <2>1 DEF Stopped
      <2>3. CASE q = p
            BY <2>2, <2>3 DEF OnItsWay, Running
      <2>4. CASE q # p /\ q \in all_processes
            <3>1. q \in Proc /\ Runnable(q)
                  BY <2>1, <2>4 DEF Runnable
            <3>2. OnItsWay(q)
                  BY <1>1, <2>4, <3>1 DEF Calm, Unlost, Stopped, Stops, Running
            <3>3. CASE q = current /\ mode = "run"
                  BY <2>4, <3>3 DEF Running
            <3>4. CASE Queued(q)
                  BY <1>5, <3>1, <3>4 DEF OnItsWay
            <3>5. ASSUME NEW r \in Proc, pc[r] = "fork_enqueue", target[r] = q
                  PROVE  OnItsWay(q)'
                  BY <3>5 DEF OnItsWay
            <3>6. QED
                  BY <3>2, <3>3, <3>4, <3>5 DEF OnItsWay
      <2>5. CASE q \notin all_processes
            BY <2>1, <2>5 DEF OnItsWay
      <2>6. QED
            BY <2>3, <2>4, <2>5
<1>8. QED
      BY <1>2, <1>3, <1>4, <1>6, <1>7 DEF Calm

(* So it keeps the whole, unless it forks.                                 *)
LEMMA OrderKept ==
    ASSUME Inv, Inv', DeadKept, ZombiesReaped, Orderly, NEW p \in Proc, Running(p),
           ~Forking(p)', pc[p] # "fork_enqueue",
           UNCHANGED <<raced, current, ready_queue, looped, ppid>>,
           all_processes' \subseteq all_processes,
           mode' \in {"run"} \cup Stops, InWindow(p)' => mode' = "run",
           \A q \in Proc : q # p =>
               /\ pc'[q] = pc[q] /\ armed'[q] = armed[q] /\ target'[q] = target[q]
               /\ \/ state'[q] = state[q]
                  \/ state[q] = "DEAD" /\ q \notin all_processes' /\ state'[q] = Freed,
           state'[p] # "DEAD",
           raced = FALSE /\ InBed(p) => InBed(p)'
    PROVE  Orderly'
<1>1. \A q \in Proc : Queued(q)' <=> Queued(q)
      BY DEF Queued
<1>2. \A q \in Proc : Running(q)' => q = p
      BY DEF Running
<1>3. Family'
      <2>1. \A q \in Proc : Queued(q)' \/ Running(q)' => q \in all_processes
            BY <1>1, <1>2 DEF Orderly, Family, GoersListed
      <2>2. \A q \in Proc : state'[q] = "DEAD" => state[q] = "DEAD"
            BY DEF Freed
      <2>3. \A q \in Proc : Forking(q)' => pc'[q] = pc[q] /\ target'[q] = target[q]
            OBVIOUS
      <2>4. QED
            BY <2>1, <2>2, <2>3, FamilyKept DEF Orderly
<1>4. Calm'
      <2>1. \A q \in Proc : q # p =>
               \/ state'[q] = state[q]
               \/ /\ q \notin all_processes' /\ ~Queued(q)
                  /\ state[q] # "BLOCKED" /\ state'[q] # "BLOCKED"
            BY DEF Inv, QueueAlive, Alive, Awake, Freed
      <2>2. all_processes' \subseteq Proc
            BY DEF Inv, TypeOK, KernelTypes
      <2>3. \A q \in all_processes' \ all_processes :
               pc'[p] = "fork_enqueue" /\ target'[p] = q
            OBVIOUS
      <2>4. QED
            BY <2>1, <2>2, <2>3, CalmKept DEF Orderly
<1>5. QED
      BY <1>3, <1>4 DEF Orderly

-----------------------------------------------------------------------------
(* The steps of a system call that neither fork nor yield.                 *)
LEMMA OrderOfSignals ==
    ASSUME Inv, Inv', DeadKept, ZombiesReaped, Orderly, NEW p \in Proc,
           \/ \E t \in Proc : sys_kill(p, t)
           \/ \E sig \in Signals : KillSend(p, sig)
           \/ \E sig \in Signals, ps \in SUBSET Proc : KillMany(p, ps, sig)
           \/ \E t \in Proc : sys_setpgid(p, t)
           \/ \E g \in SetpgidArgs : SetpgidWrite(p, g)
    PROVE  Orderly'
<1>1. ASSUME NEW l \in {"kill_send", "setpgid_write", "sysret"},
             mode = "run", current = p, pc[p] \in {"user", "kill_send", "setpgid_write"},
             Goto(p, l),
             mode' \in {"run"} \cup Stops,
             \A q \in Proc : q # p => state'[q] = state[q] /\ target'[q] = target[q],
             state'[p] \in {state[p], "DYING"},
             UNCHANGED <<raced, current, ready_queue, looped, ppid, all_processes, armed>>
      PROVE  Orderly'
      <2>1. Running(p) /\ Awake(p)
            BY <1>1, RunFacts
      <2>2. pc'[p] = l /\ \A q \in Proc : q # p => pc'[q] = pc[q]
            BY <1>1 DEF Goto, Inv, TypeOK, CallTypes
      <2>3. ~Forking(p)' /\ ~InWindow(p)'
            BY <2>2 DEF Forking, InWindow
      <2>4. state'[p] # "DEAD"
            BY <1>1, <2>1 DEF Awake
      <2>5. InBed(p) => InBed(p)'
            BY <1>1, <2>2 DEF InBed
      <2>6. QED
            BY <1>1, <2>1, <2>2, <2>3, <2>4, <2>5, OrderKept
<1>2. ASSUME NEW t \in Proc, sys_kill(p, t) PROVE Orderly'
      <2>1. \A q \in Proc : q # p => target'[q] = target[q]
            BY <1>2 DEF sys_kill, Inv, TypeOK, CallTypes
      <2>2. QED
            BY <1>1, <1>2, <2>1 DEF sys_kill, InUserland, At, kernelVars, procVars
<1>3. ASSUME NEW sig \in Signals, KillSend(p, sig) PROVE Orderly'
      <2>1. mode = "run" /\ current = p /\ pc[p] = "kill_send"
            BY <1>3 DEF KillSend, At
      <2>2. /\ \A q \in Proc : q # p => state'[q] = state[q]
            /\ state'[p] \in {state[p], "DYING"}
            /\ mode' \in {"run"} \cup Stops
            <3>1. CASE state[target[p]] = Freed
                  BY <1>3, <3>1 DEF KillSend, Stops
            <3>2. CASE state[target[p]] # Freed
                  <4>1. send_signal({target[p]}, sig)
                        BY <1>3, <3>2 DEF KillSend
                  <4>2. ProcTypes /\ current \in Proc \cup {Idle}
                        BY DEF Inv, TypeOK, KernelTypes
                  <4>3. QED
                        BY <2>1, <4>1, <4>2, SendFacts DEF Stops
            <3>3. QED
                  BY <3>1, <3>2
      <2>3. \A q \in Proc : q # p => target'[q] = target[q]
            BY <1>3 DEF KillSend, Inv, TypeOK, CallTypes
      <2>4. QED
            BY <1>1, <1>3, <2>1, <2>2, <2>3 DEF KillSend
<1>4. ASSUME NEW sig \in Signals, NEW ps \in SUBSET Proc, KillMany(p, ps, sig)
      PROVE  Orderly'
      <2>1. mode = "run" /\ current = p /\ pc[p] = "user" /\ send_signal(ps, sig)
            BY <1>4 DEF KillMany, InUserland, At
      <2>2. ProcTypes /\ current \in Proc \cup {Idle}
            BY DEF Inv, TypeOK, KernelTypes
      <2>3. /\ \A q \in Proc : q # p => state'[q] = state[q]
            /\ state'[p] \in {state[p], "DYING"}
            /\ mode' \in {"run"} \cup Stops
            BY <2>1, <2>2, SendFacts DEF Stops
      <2>4. QED
            BY <1>1, <1>4, <2>1, <2>3 DEF KillMany
<1>5. ASSUME NEW t \in Proc, sys_setpgid(p, t) PROVE Orderly'
      <2>1. \A q \in Proc : q # p => target'[q] = target[q]
            BY <1>5 DEF sys_setpgid, Inv, TypeOK, CallTypes
      <2>2. QED
            BY <1>1, <1>5, <2>1 DEF sys_setpgid, InUserland, At, kernelVars, procVars
<1>6. ASSUME NEW g \in SetpgidArgs, SetpgidWrite(p, g) PROVE Orderly'
      <2>1. mode = "run" /\ current = p /\ pc[p] = "setpgid_write"
            BY <1>6 DEF SetpgidWrite, At
      <2>2. mode' \in {"run"} \cup Stops
            BY <1>6, <2>1 DEF SetpgidWrite, Stops
      <2>3. \A q \in Proc : q # p => target'[q] = target[q]
            BY <1>6 DEF SetpgidWrite, Inv, TypeOK, CallTypes
      <2>4. QED
            BY <1>1, <1>6, <2>1, <2>2, <2>3 DEF SetpgidWrite
<1>7. QED
      BY <1>2, <1>3, <1>4, <1>5, <1>6

LEMMA OrderOfCalls ==
    ASSUME Inv, Inv', DeadKept, ZombiesReaped, Orderly, NEW p \in Proc,
           \/ ForkFails(p)
           \/ \E pid \in WaitArgs, nohang \in BOOLEAN : sys_waitpid(p, pid, nohang)
           \/ BlockOnEvent(p) \/ WaitNohang(p) \/ BlockCheck(p)
           \/ BlockSetState(p) \/ BlockSetBlocker(p) \/ BlockReturn(p) \/ WaitReturn(p)
           \/ \E status : (At(p, "user") /\ BeginExit(p, status))
           \/ process_die_if_needed(p)
    PROVE  Orderly'
<1> USE DEF At, InUserland, kernelVars, procVars
<1>1. ASSUME NEW l \in PCs \ {"fork_register", "fork_enqueue"},
             mode = "run", mode' = "run", current = p, Goto(p, l),
             pc[p] \notin {"fork_enqueue", "block_yield"},
             UNCHANGED <<raced, current, ready_queue, looped, ppid>>,
             all_processes' \subseteq all_processes,
             \A q \in Proc : q # p =>
               /\ armed'[q] = armed[q] /\ target'[q] = target[q]
               /\ \/ state'[q] = state[q]
                  \/ state[q] = "DEAD" /\ q \notin all_processes' /\ state'[q] = Freed,
             state'[p] # "DEAD",
             raced = FALSE /\ InBed(p) => InBed(p)'
      PROVE  Orderly'
      <2>1. Running(p)
            BY <1>1, RunFacts
      <2>2. pc'[p] = l /\ \A q \in Proc : q # p => pc'[q] = pc[q]
            BY <1>1 DEF Goto, Inv, TypeOK, CallTypes
      <2>3. ~Forking(p)'
            BY <2>2 DEF Forking
      <2>4. QED
            BY <1>1, <2>1, <2>2, <2>3, OrderKept
<1>2. ASSUME mode = "run", current = p
      PROVE  state[p] \in {"RUNNING", "BLOCKED", "DYING"}
      BY <1>2, RunFacts DEF Awake
<1>3. ASSUME NEW l \in PCs \ {"fork_register", "fork_enqueue", "set_blocker",
                              "block_yield", "block_return"},
             mode = "run", mode' = "run", current = p, Goto(p, l),
             pc[p] \notin {"fork_enqueue", "set_blocker", "block_yield"},
             UNCHANGED <<raced, current, ready_queue, looped, ppid, armed>>,
             all_processes' \subseteq all_processes,
             \A q \in Proc : q # p =>
               /\ target'[q] = target[q]
               /\ \/ state'[q] = state[q]
                  \/ state[q] = "DEAD" /\ q \notin all_processes' /\ state'[q] = Freed,
             state'[p] = state[p]
      PROVE  Orderly'
      <2>1. pc'[p] = l
            BY <1>3 DEF Goto, Inv, TypeOK, CallTypes
      <2>2. armed[p] = FALSE
            BY <1>3, RunFacts
      <2>3. InBed(p) => InBed(p)'
            BY <1>3, <2>1, <2>2 DEF InBed
      <2>4. QED
            BY <1>1, <1>2, <1>3, <2>3
<1>4. CASE ForkFails(p)
      <2>1. \A q \in Proc : q # p => target'[q] = target[q]
            BY <1>4 DEF ForkFails, Inv, TypeOK, CallTypes
      <2>2. QED
            BY <1>3, <1>4, <2>1 DEF ForkFails, PCs
<1>5. ASSUME NEW pid \in WaitArgs, NEW nohang \in BOOLEAN, sys_waitpid(p, pid, nohang)
      PROVE  Orderly'
      <2>1. PICK l \in {"nohang", "check"} : Goto(p, l)
            BY <1>5 DEF sys_waitpid
      <2>2. QED
            BY <1>3, <1>5, <2>1 DEF sys_waitpid, PCs
<1>6. CASE BlockOnEvent(p)
      BY <1>3, <1>6 DEF BlockOnEvent, PCs
<1>7. CASE WaitNohang(p) \/ BlockCheck(p)
      <2>1. PICK l \in {"wait_return", "sysret", "set_state"} : Goto(p, l)
            BY <1>7 DEF WaitNohang, BlockCheck, AfterBlock
      <2>2. all_processes' \subseteq all_processes
            BY <1>7, TakeFacts
               DEF WaitNohang, BlockCheck, Inv, TypeOK, KernelTypes, CallTypes
      <2>3. QED
            BY <1>3, <1>7, <2>1, <2>2 DEF WaitNohang, BlockCheck, PCs
<1>8. CASE BlockSetState(p)
      <2>1. /\ state'[p] = "BLOCKED" /\ pc'[p] = "set_blocker"
            /\ \A q \in Proc : q # p => state'[q] = state[q]
            BY <1>8 DEF BlockSetState, Goto, Inv, TypeOK, ProcTypes, CallTypes
      <2>2. armed'[p] = FALSE
            BY <1>8, RunFacts DEF BlockSetState
      <2>3. InBed(p)'
            BY <2>1, <2>2 DEF InBed
      <2>4. QED
            BY <1>1, <1>8, <2>1, <2>3 DEF BlockSetState, PCs
<1>9. CASE BlockSetBlocker(p)
      <2>1. /\ armed'[p] = TRUE /\ pc'[p] = "block_yield"
            /\ \A q \in Proc : q # p => armed'[q] = armed[q]
            BY <1>9 DEF BlockSetBlocker, Goto, Inv, TypeOK, CallTypes
      <2>2. InBed(p) => InBed(p)'
            BY <1>9, <2>1 DEF InBed, BlockSetBlocker
      <2>3. QED
            BY <1>1, <1>2, <1>9, <2>1, <2>2 DEF BlockSetBlocker, PCs
<1>10. CASE BlockReturn(p)
      <2>1. PICK l \in {"wait_return", "sysret"} : Goto(p, l)
            BY <1>10 DEF BlockReturn, AfterBlock
      <2>2. QED
            BY <1>3, <1>10, <2>1 DEF BlockReturn, PCs
<1>11. CASE WaitReturn(p)
      <2>1. waited[p] # NoProc => /\ waited[p] \in Proc /\ state[waited[p]] = "DEAD"
                                  /\ waited[p] \notin all_processes
            BY DEF Inv, ZombieHasOneOwner, TypeOK, CallTypes
      <2>2. state[p] # "DEAD"
            BY <1>2, <1>11 DEF WaitReturn
      <2>3. /\ state'[p] = state[p]
            /\ \A q \in Proc : q # p =>
                  \/ state'[q] = state[q]
                  \/ state[q] = "DEAD" /\ q \notin all_processes /\ state'[q] = Freed
            BY <1>11, <2>1, <2>2 DEF WaitReturn, Inv, TypeOK, ProcTypes
      <2>4. QED
            BY <1>3, <1>11, <2>3 DEF WaitReturn, PCs
<1>12. ASSUME NEW status, At(p, "user"), BeginExit(p, status) PROVE Orderly'
      BY <1>3, <1>12 DEF BeginExit, PCs
<1>13. CASE process_die_if_needed(p)
      <2>1. PICK l \in {"die", "user"} : Goto(p, l)
            BY <1>13 DEF process_die_if_needed
      <2>2. QED
            BY <1>3, <1>13, <2>1 DEF process_die_if_needed, PCs
<1>14. QED
      BY <1>4, <1>5, <1>6, <1>7, <1>8, <1>9, <1>10, <1>11, <1>12, <1>13

-----------------------------------------------------------------------------
(* fork().                                                                 *)
LEMMA OrderOfFork ==
    ASSUME Inv, Inv', Orderly, NEW p \in Proc, sys_fork(p)
    PROVE  Orderly'
<1> USE DEF Inv, TypeOK, KernelTypes, ProcTypes, CallTypes
<1>1. /\ Running(p) /\ pc[p] = "user" /\ mode = "run" /\ current = p
      /\ UNCHANGED <<kernelVars, armed, raced>>
      BY RunFacts DEF sys_fork, InUserland, At
<1>2. PICK c \in Proc : /\ state[c] = Unborn
                        /\ state' = [state EXCEPT ![c] = "RUNNABLE"]
                        /\ ppid' = [ppid EXCEPT ![c] = p]
                        /\ target' = [target EXCEPT ![p] = c]
      BY DEF sys_fork, Unused
<1>3. pc'[p] = "fork_register" /\ \A q \in Proc : q # p => pc'[q] = pc[q]
      BY DEF sys_fork, Goto
<1>4. c \notin all_processes /\ ~Queued(c) /\ c # p
      BY <1>1, <1>2 DEF Listed, States, Unborn, QueueAlive, Alive, Awake
<1>5. /\ \A q \in Proc : q # c => state'[q] = state[q] /\ ppid'[q] = ppid[q]
      /\ state'[c] = "RUNNABLE" /\ ppid'[c] = p
      /\ \A q \in Proc : q # p => target'[q] = target[q]
      /\ target'[p] = c
      BY <1>2
<1>6. /\ \A q \in Proc : Queued(q)' <=> Queued(q)
      /\ \A q \in Proc : Running(q)' <=> Running(q)
      BY <1>1 DEF Queued, Running, kernelVars
<1>7. Family'
      <2>1. InitLives'
            BY <1>1, <1>4, <1>5, ProcFacts DEF Orderly, Family, InitLives, kernelVars
      <2>2. GoersListed'
            BY <1>1, <1>6 DEF Orderly, Family, GoersListed, kernelVars
      <2>3. ChildrenListed'
            <3>1. SUFFICES ASSUME NEW q \in Proc, Forking(q)'
                     PROVE  /\ pc'[q] = "fork_register" => ppid'[target'[q]] = q
                            /\ pc'[q] = "fork_enqueue" => target'[q] \in all_processes'
                  BY DEF ChildrenListed, Forking
            <3>2. CASE q = p
                  BY <1>3, <1>5, <3>2
            <3>3. CASE q # p
                  <4>1. target[q] \in Proc /\ target[q] # c
                        BY <1>2, <1>3, <3>1, <3>3 DEF Embryos, Forking, Unborn
                  <4>2. ppid'[target'[q]] = ppid[target[q]]
                        BY <1>5, <3>3, <4>1
                  <4>3. /\ pc[q] = "fork_register" => ppid[target[q]] = q
                        /\ pc[q] = "fork_enqueue" => target[q] \in all_processes
                        BY DEF Orderly, Family, ChildrenListed
                  <4>4. QED
                        BY <1>1, <1>3, <1>5, <3>3, <4>2, <4>3 DEF kernelVars
            <3>4. QED
                  BY <3>2, <3>3
      <2>4. Parented'
            BY <1>1, <1>4, <1>5 DEF Orderly, Family, Parented, kernelVars
      <2>5. QED
            BY <2>1, <2>2, <2>3, <2>4 DEF Family
<1>8. Calm'
      <2>1. \A q \in Proc : q # p =>
               /\ pc'[q] = pc[q] /\ armed'[q] = armed[q] /\ target'[q] = target[q]
               /\ \/ state'[q] = state[q]
                  \/ /\ q \notin all_processes' /\ ~Queued(q)
                     /\ state[q] # "BLOCKED" /\ state'[q] # "BLOCKED"
            BY <1>1, <1>2, <1>3, <1>4, <1>5 DEF kernelVars, Unborn
      <2>2. InBed(p) => InBed(p)'
            BY <1>1, <1>3, <1>4, <1>5 DEF InBed
      <2>3. ~InWindow(p)'
            BY <1>3 DEF InWindow
      <2>4. QED
            BY <1>1, <2>1, <2>2, <2>3, CalmKept DEF Orderly, kernelVars
<1>9. QED
      BY <1>7, <1>8 DEF Orderly

LEMMA OrderOfRegister ==
    ASSUME Inv, Inv', Orderly, NEW p \in Proc, scheduler_register(p)
    PROVE  Orderly'
<1> USE DEF Inv, TypeOK, KernelTypes, ProcTypes, CallTypes
<1>1. /\ Running(p) /\ Awake(p) /\ pc[p] = "fork_register" /\ mode = "run" /\ current = p
      /\ UNCHANGED <<current, mode, ready_queue, looped, procVars, armed, target, raced>>
      /\ all_processes' = all_processes \cup {target[p]}
      BY RunFacts DEF scheduler_register, At
<1>2. pc'[p] = "fork_enqueue" /\ \A q \in Proc : q # p => pc'[q] = pc[q]
      BY DEF scheduler_register, Goto
<1>3. /\ target[p] \in Proc /\ ppid[target[p]] = p /\ p \in all_processes
      /\ state[p] # "DEAD"
      BY <1>1 DEF Embryos, Forking, Orderly, Family, ChildrenListed, GoersListed, Awake
<1>4. /\ \A q \in Proc : Queued(q)' <=> Queued(q)
      /\ \A q \in Proc : Running(q)' <=> Running(q)
      BY <1>1 DEF Queued, Running
<1>5. Family'
      <2>1. InitLives'
            BY <1>1 DEF Orderly, Family, InitLives, procVars
      <2>2. GoersListed'
            BY <1>1, <1>4 DEF Orderly, Family, GoersListed
      <2>3. ChildrenListed'
            BY <1>1, <1>2 DEF Orderly, Family, ChildrenListed, procVars
      <2>4. Parented'
            BY <1>1, <1>3 DEF Orderly, Family, Parented, procVars
      <2>5. QED
            BY <2>1, <2>2, <2>3, <2>4 DEF Family
<1>6. Calm'
      <2>1. InBed(p) => InBed(p)'
            BY <1>1, <1>2 DEF InBed, procVars
      <2>2. ~InWindow(p)'
            BY <1>2 DEF InWindow
      <2>3. QED
            BY <1>1, <1>2, <1>3, <2>1, <2>2, CalmKept DEF Orderly, procVars
<1>7. QED
      BY <1>5, <1>6 DEF Orderly

(* As long as the queue is a list, scheduler_enqueue() appends to it.      *)
LEMMA EnqueueAppends ==
    ASSUME ready_queue \in Seq(Proc), looped = FALSE, NEW p \in Proc, ~Queued(p),
           NEW m, scheduler_enqueue(p, m)
    PROVE  /\ looped' = FALSE /\ mode' = m
           /\ \A q \in Proc : Queued(q)' <=> Queued(q) \/ q = p
<1>1. ready_queue' = Append(ready_queue, p) /\ mode' = m /\ looped' = FALSE
      BY DEF scheduler_enqueue, PutLast
<1>2. QED
      BY <1>1 DEF Queued

LEMMA OrderOfForkEnqueue ==
    ASSUME Inv, Inv', DeadKept, ZombiesReaped, Orderly, NEW p \in Proc, ForkEnqueue(p)
    PROVE  Orderly'
<1> USE DEF Inv, TypeOK, KernelTypes, ProcTypes, CallTypes
<1>1. /\ Running(p) /\ pc[p] = "fork_enqueue" /\ mode = "run" /\ current = p
      /\ UNCHANGED <<current, all_processes, procVars, armed, raced>>
      /\ scheduler_enqueue(target[p], "run")
      BY RunFacts DEF ForkEnqueue, At
<1>2. /\ pc'[p] = "sysret" /\ target'[p] = NoProc
      /\ \A q \in Proc : q # p => pc'[q] = pc[q] /\ target'[q] = target[q]
      BY DEF ForkEnqueue, Goto
<1>3. /\ target[p] \in Proc /\ target[p] \in all_processes /\ target[p] # p
      /\ state[target[p]] = "RUNNABLE" /\ ~Queued(target[p])
      BY <1>1 DEF Embryos, Forking, Orderly, Family, ChildrenListed
<1>4. Family'
      <2>1. /\ mode' \in {"run", "hung"}
            /\ \A q \in Proc : Queued(q)' => Queued(q) \/ q = target[p]
            BY <1>1, <1>3, EnqueueFacts DEF Loop
      <2>2. \A q \in Proc : Queued(q)' \/ Running(q)' => q \in all_processes
            BY <1>1, <1>3, <2>1 DEF Orderly, Family, GoersListed, Running
      <2>3. \A q \in Proc : Forking(q)' => pc'[q] = pc[q] /\ target'[q] = target[q]
            BY <1>2 DEF Forking
      <2>4. QED
            BY <1>1, <2>2, <2>3, FamilyKept DEF Orderly, procVars
<1>5. ASSUME raced' = FALSE PROVE Calm'
      <2>1. /\ raced = FALSE /\ ~Queued(p) /\ InBed(p) /\ looped = FALSE
            /\ \A q \in Proc : q # p => ~InWindow(q)
            BY <1>1, <1>5, CalmFacts DEF Orderly, Calm
      <2>2. /\ looped' = FALSE /\ mode' = "run"
            /\ \A q \in Proc : Queued(q)' <=> Queued(q) \/ q = target[p]
            BY <1>1, <1>3, <2>1, EnqueueAppends
      <2>3. ASSUME NEW q \in Proc PROVE InBed(q)'
            BY <1>1, <1>2, <2>1 DEF Orderly, Calm, InBed, procVars
      <2>4. ASSUME NEW q \in Proc, InWindow(q)' PROVE Running(q)'
            BY <1>2, <2>1, <2>4 DEF InWindow
      <2>5. ASSUME NEW q \in Proc, Queued(q)' PROVE state'[q] # "BLOCKED"
            BY <1>1, <1>3, <2>1, <2>2, <2>5 DEF Orderly, Calm, procVars
      <2>6. Unlost'
            <3>1. SUFFICES ASSUME NEW q \in all_processes, Runnable(q)
                           PROVE  OnItsWay(q)'
                  BY <1>1 DEF Unlost, Runnable, procVars
            <3>2. q \in Proc /\ OnItsWay(q)
                  BY <1>1, <2>1, <3>1 DEF Orderly, Calm, Unlost, Stopped, Stops
            <3>3. CASE q = current \/ Queued(q)
                  BY <1>1, <2>2, <3>2, <3>3 DEF OnItsWay
            <3>4. ASSUME NEW r \in Proc, pc[r] = "fork_enqueue", target[r] = q
                  PROVE  OnItsWay(q)'
                  BY <1>2, <2>2, <3>2, <3>4 DEF OnItsWay
            <3>5. QED
                  BY <3>2, <3>3, <3>4 DEF OnItsWay
      <2>7. QED
            BY <2>2, <2>3, <2>4, <2>5, <2>6 DEF Calm
<1>6. QED
      BY <1>4, <1>5 DEF Orderly, Calm

-----------------------------------------------------------------------------
(* A process that is requeued as it leaves the CPU is found in the queue.  *)
LEMMA OrderOfRequeue ==
    ASSUME Inv, Inv', DeadKept, ZombiesReaped, Orderly, NEW p \in Proc, Running(p),
           raced' = FALSE => raced = FALSE /\ ~InWindow(p),
           scheduler_enqueue(p, "scan"),
           UNCHANGED <<current, all_processes, state, ppid, armed, target>>,
           \A q \in Proc : q # p => pc'[q] = pc[q],
           pc'[p] = pc[p] \/ (pc[p] = "user" /\ pc'[p] = "sysret")
    PROVE  Orderly'
<1> USE DEF Inv, TypeOK, KernelTypes, ProcTypes, CallTypes
<1>1. Family'
      <2>1. /\ mode' \in {"scan", "hung"}
            /\ \A q \in Proc : Queued(q)' => Queued(q) \/ q = p
            BY EnqueueFacts DEF Loop
      <2>2. \A q \in Proc : Queued(q)' \/ Running(q)' => q \in all_processes
            BY <2>1 DEF Orderly, Family, GoersListed, Running
      <2>3. \A q \in Proc : Forking(q)' => pc'[q] = pc[q] /\ target'[q] = target[q]
            BY DEF Forking
      <2>4. QED
            BY <2>2, <2>3, FamilyKept DEF Orderly
<1>2. ASSUME raced' = FALSE PROVE Calm'
      <2>1. /\ raced = FALSE /\ ~Queued(p) /\ InBed(p) /\ looped = FALSE
            /\ \A q \in Proc : ~InWindow(q)
            BY <1>2, CalmFacts DEF Orderly, Calm
      <2>2. state[p] # "BLOCKED"
            BY <2>1 DEF InBed, InWindow, Armed
      <2>3. /\ looped' = FALSE /\ mode' = "scan"
            /\ \A q \in Proc : Queued(q)' <=> Queued(q) \/ q = p
            BY <2>1, EnqueueAppends
      <2>4. ASSUME NEW q \in Proc PROVE InBed(q)'
            BY <2>1 DEF Orderly, Calm, InBed
      <2>5. ASSUME NEW q \in Proc PROVE ~InWindow(q)'
            BY <2>1 DEF InWindow
      <2>6. ASSUME NEW q \in Proc, Queued(q)' PROVE state'[q] # "BLOCKED"
            BY <2>1, <2>2, <2>3, <2>6 DEF Orderly, Calm
      <2>7. Unlost'
            <3>1. SUFFICES ASSUME NEW q \in all_processes, Runnable(q)
                           PROVE  OnItsWay(q)'
                  BY DEF Unlost, Runnable
            <3>2. q \in Proc /\ OnItsWay(q)
                  BY <2>1, <3>1 DEF Orderly, Calm, Unlost, Stopped, Stops, Running
            <3>3. CASE q = current \/ Queued(q)
                  BY <2>3, <3>2, <3>3 DEF OnItsWay, Running
            <3>4. ASSUME NEW r \in Proc, pc[r] = "fork_enqueue", target[r] = q
                  PROVE  OnItsWay(q)'
                  BY <3>4 DEF OnItsWay
            <3>5. QED
                  BY <3>2, <3>3, <3>4 DEF OnItsWay
      <2>8. QED
            BY <2>3, <2>4, <2>5, <2>6, <2>7 DEF Calm
<1>3. QED
      BY <1>1, <1>2 DEF Orderly, Calm

(* A process that is not requeued as it leaves the CPU is asleep or dead.  *)
LEMMA CalmOfLeave ==
    ASSUME Inv, Orderly, NEW p \in Proc, Running(p), mode' = "scan",
           UNCHANGED <<raced, current, ready_queue, looped, all_processes, armed, target>>,
           \A q \in Proc : q # p => pc'[q] = pc[q] /\ state'[q] = state[q],
           ~InWindow(p)', ~Runnable(p)', pc[p] # "fork_enqueue",
           raced = FALSE /\ InBed(p) => InBed(p)'
    PROVE  Calm'
<1> SUFFICES ASSUME raced' = FALSE PROVE Calm'
    BY DEF Calm
<1>1. /\ raced = FALSE /\ ~Queued(p) /\ InBed(p) /\ looped = FALSE
      /\ \A q \in Proc : q # p => ~InWindow(q)
      BY CalmFacts DEF Orderly, Calm
<1>2. \A q \in Proc : Queued(q)' <=> Queued(q)
      BY DEF Queued
<1>3. ASSUME NEW q \in Proc PROVE InBed(q)' /\ ~InWindow(q)'
      BY <1>1 DEF Orderly, Calm, InBed, InWindow
<1>4. ASSUME NEW q \in Proc, Queued(q)' PROVE state'[q] # "BLOCKED"
      BY <1>1, <1>2, <1>4 DEF Orderly, Calm
<1>5. Unlost'
      <2>1. SUFFICES ASSUME NEW q \in all_processes, q # p, Runnable(q)
                     PROVE  OnItsWay(q)'
            BY DEF Unlost, Runnable, Inv, TypeOK, KernelTypes
      <2>2. q \in Proc /\ OnItsWay(q) /\ q # current
            BY <1>1, <2>1
               DEF Orderly, Calm, Unlost, Stopped, Stops, Running, Inv, TypeOK, KernelTypes
      <2>3. CASE Queued(q)
            BY <1>2, <2>2, <2>3 DEF OnItsWay
      <2>4. ASSUME NEW r \in Proc, pc[r] = "fork_enqueue", target[r] = q
            PROVE  OnItsWay(q)'
            BY <2>4 DEF OnItsWay
      <2>5. QED
            BY <2>2, <2>3, <2>4 DEF OnItsWay
<1>6. QED
      BY <1>1, <1>3, <1>4, <1>5 DEF Calm

LEMMA OrderOfBlockYield ==
    ASSUME Inv, Inv', DeadKept, ZombiesReaped, Orderly, NEW p \in Proc, BlockYield(p)
    PROVE  Orderly'
<1>1. /\ Running(p) /\ pc[p] = "block_yield" /\ mode = "run" /\ current = p
      /\ mode' = "scan"
      /\ UNCHANGED <<raced, current, ready_queue, looped, all_processes, procVars, armed, target>>
      BY RunFacts DEF BlockYield, At, scheduler_yield
<1>2. pc'[p] = "block_return" /\ \A q \in Proc : q # p => pc'[q] = pc[q]
      BY DEF BlockYield, Goto, Inv, TypeOK, CallTypes
<1>3. Family'
      <2>1. \A q \in Proc : Queued(q)' <=> Queued(q)
            BY <1>1 DEF Queued
      <2>2. \A q \in Proc : Queued(q)' \/ Running(q)' => q \in all_processes
            BY <1>1, <2>1 DEF Orderly, Family, GoersListed, Running
      <2>3. \A q \in Proc : Forking(q)' => pc'[q] = pc[q] /\ target'[q] = target[q]
            BY <1>1, <1>2 DEF Forking
      <2>4. QED
            BY <1>1, <2>2, <2>3, FamilyKept DEF Orderly, procVars
<1>4. Calm'
      <2>1. InBed(p) => InBed(p)'
            BY <1>1, <1>2 DEF InBed, procVars
      <2>2. ~InWindow(p)'
            BY <1>2 DEF InWindow
      <2>3. raced = FALSE => ~Runnable(p)'
            BY <1>1 DEF Orderly, Calm, InBed, procVars, Runnable
      <2>4. CASE raced = FALSE
            BY <1>1, <1>2, <2>1, <2>2, <2>3, <2>4, CalmOfLeave DEF procVars
      <2>5. CASE raced # FALSE
            BY <1>1, <2>5 DEF Calm
      <2>6. QED
            BY <2>4, <2>5
<1>5. QED
      BY <1>3, <1>4 DEF Orderly

(* A process that dies leaves its children to init, which does not die.    *)
LEMMA OrderOfDie ==
    ASSUME Inv, Inv', DeadKept, ZombiesReaped, Orderly, NEW p \in Proc, die(p)
    PROVE  Orderly'
<1>1. /\ Running(p) /\ Awake(p) /\ pc[p] = "die" /\ armed[p] = FALSE
      /\ mode = "run" /\ current = p
      /\ UNCHANGED <<raced, current, all_processes, callVars>>
      BY RunFacts DEF die, At
<1>2. CASE p = InitProc /\ mode' = "init exited"
           /\ UNCHANGED <<ready_queue, looped, state, ppid>>
      <2>1. ~Forking(p)' /\ ~InWindow(p)' /\ state'[p] # "DEAD"
            BY <1>1, <1>2 DEF Forking, InWindow, callVars, Awake
      <2>2. InBed(p) => InBed(p)'
            BY <1>1, <1>2 DEF InBed, callVars
      <2>3. QED
            BY <1>1, <1>2, <2>1, <2>2, OrderKept DEF callVars, Stops
<1>3. CASE p # InitProc /\ ppid' = Adopted(p) /\ mode' = "scan"
           /\ state' = [state EXCEPT ![p] = "DEAD"] /\ UNCHANGED <<ready_queue, looped>>
      <2>1. state'[p] = "DEAD" /\ \A q \in Proc : q # p => state'[q] = state[q]
            BY <1>3 DEF Inv, TypeOK, ProcTypes
      <2>2. \A q \in Proc : ppid'[q] = IF q \in all_processes /\ ppid[q] = p
                                      THEN InitProc ELSE ppid[q]
            BY <1>3 DEF Adopted
      <2>3. Family'
            <3>1. InitLives'
                  BY <1>1, <1>3, <2>1, ProcFacts DEF Orderly, Family, InitLives
            <3>2. GoersListed'
                  <4>1. \A q \in Proc : Queued(q)' <=> Queued(q)
                        BY <1>3 DEF Queued
                  <4>2. QED
                        BY <1>1, <1>3, <4>1 DEF Orderly, Family, GoersListed, Running
            <3>3. ChildrenListed'
                  <4>1. SUFFICES ASSUME NEW q \in Proc, Forking(q)
                           PROVE  /\ pc[q] = "fork_register" => ppid'[target[q]] = q
                                  /\ pc[q] = "fork_enqueue" => target[q] \in all_processes
                        BY <1>1 DEF ChildrenListed, Forking, callVars
                  <4>2. /\ target[q] \in Proc
                        /\ pc[q] = "fork_register" => target[q] \notin all_processes
                        BY <4>1 DEF Inv, Embryos
                  <4>3. QED
                        BY <2>2, <4>2 DEF Orderly, Family, ChildrenListed
            <3>4. Parented'
                  <4>1. SUFFICES ASSUME NEW q \in all_processes
                           PROVE  ppid'[q] \in all_processes /\ state'[ppid'[q]] # "DEAD"
                        BY <1>1 DEF Parented
                  <4>2. q \in Proc /\ ppid[q] \in Proc
                        BY DEF Inv, TypeOK, KernelTypes, ProcTypes
                  <4>3. CASE ppid[q] = p
                        BY <1>3, <2>1, <2>2, <4>2, <4>3, ProcFacts
                           DEF Orderly, Family, InitLives
                  <4>4. CASE ppid[q] # p
                        BY <2>1, <2>2, <4>2, <4>4 DEF Orderly, Family, Parented
                  <4>5. QED
                        BY <4>3, <4>4
            <3>5. QED
                  BY <3>1, <3>2, <3>3, <3>4 DEF Family
      <2>4. Calm'
            <3>1. ~InWindow(p)' /\ ~Runnable(p)'
                  BY <1>1, <2>1 DEF InWindow, callVars, Runnable
            <3>2. InBed(p) => InBed(p)'
                  BY <1>1, <2>1 DEF InBed, callVars
            <3>3. QED
                  BY <1>1, <1>3, <2>1, <3>1, <3>2, CalmOfLeave DEF callVars
      <2>5. QED
            BY <2>3, <2>4 DEF Orderly
<1>4. QED
      BY <1>2, <1>3 DEF die, scheduler_yield

-----------------------------------------------------------------------------
(* A step that moves no process keeps the order.                           *)
LEMMA OrderOfStillness ==
    ASSUME Inv, Inv', DeadKept, ZombiesReaped, Orderly,
           raced' = FALSE => raced = FALSE,
           UNCHANGED <<ready_queue, looped, all_processes, state, ppid, pc, armed, target>>,
           \A q \in Proc : Running(q)' <=> Running(q),
           Stopped => Stopped'
    PROVE  Orderly'
<1>1. \A q \in Proc : Queued(q)' <=> Queued(q)
      BY DEF Queued
<1>2. Family'
      <2>1. \A q \in Proc : Queued(q)' \/ Running(q)' => q \in all_processes
            BY <1>1 DEF Orderly, Family, GoersListed
      <2>2. QED
            BY <2>1, FamilyKept DEF Orderly
<1>3. ASSUME raced' = FALSE PROVE Calm'
      <2>1. /\ looped' = FALSE
            /\ \A q \in Proc : InBed(q)'
            /\ \A q \in Proc : InWindow(q)' => Running(q)'
            /\ \A q \in Proc : Queued(q)' => state'[q] # "BLOCKED"
            BY <1>1, <1>3 DEF Orderly, Calm, InBed, InWindow
      <2>2. Unlost'
            <3>1. SUFFICES ASSUME ~Stopped, NEW q \in all_processes, Runnable(q)
                           PROVE  OnItsWay(q)'
                  BY DEF Unlost, Runnable
            <3>2. q \in Proc /\ OnItsWay(q)
                  BY <1>3, <3>1 DEF Orderly, Calm, Unlost, Inv, TypeOK, KernelTypes
            <3>3. QED
                  BY <1>1, <3>2 DEF OnItsWay, Running
      <2>3. QED
            BY <2>1, <2>2 DEF Calm
<1>4. QED
      BY <1>2, <1>3 DEF Orderly, Calm

(* The timer.                                                              *)
LEMMA OrderOfTick ==
    ASSUME Inv, Inv', DeadKept, ZombiesReaped, Orderly, scheduler_tick
    PROVE  Orderly'
<1> USE DEF procVars
<1>1. /\ mode = "run" /\ Interrupts /\ current \in Proc \cup {Idle}
      /\ UNCHANGED <<current, all_processes, procVars, armed, target>>
      BY DEF scheduler_tick, Inv, TypeOK, KernelTypes
<1>2. /\ raced \in BOOLEAN /\ raced' \in BOOLEAN
      BY DEF Inv, TypeOK, KernelTypes
<1>3. raced' = FALSE => raced = FALSE /\ (current # Idle => ~InWindow(current))
      BY <1>1, <1>2 DEF Interrupts
<1>4. CASE current = Idle
      <2>1. mode' = "scan" /\ UNCHANGED <<ready_queue, looped, pc>>
            BY <1>4 DEF scheduler_tick, scheduler_yield
      <2>2. \A q \in Proc : ~Running(q) /\ ~Running(q)'
            BY <1>1, <1>4, <2>1, ProcFacts DEF Running
      <2>3. ~Stopped
            BY <1>1 DEF Stopped, Stops
      <2>4. QED
            BY <1>1, <1>3, <2>1, <2>2, <2>3, OrderOfStillness
<1>5. CASE current # Idle
      <2>1. PICK p \in Proc : p = current
            BY <1>1, <1>5
      <2>2. Running(p) /\ Awake(p) /\ (pc[p] # "block_yield" => armed[p] = FALSE)
            BY <1>1, <2>1, RunFacts
      <2>3. CASE /\ pc[p] = "user" /\ Goto(p, "die")
                 /\ UNCHANGED <<mode, ready_queue, looped>>
            <3>1. pc'[p] = "die" /\ \A q \in Proc : q # p => pc'[q] = pc[q]
                  BY <2>3 DEF Goto, Inv, TypeOK, CallTypes
            <3>2. ~Forking(p)' /\ ~InWindow(p)' /\ state'[p] # "DEAD"
                  BY <1>1, <2>2, <3>1 DEF Forking, InWindow, Awake
            <3>3. raced' = raced
                  BY <1>1, <1>2, <2>1, <2>3 DEF Interrupts, InWindow
            <3>4. InBed(p) => InBed(p)'
                  BY <1>1, <2>3, <3>1 DEF InBed
            <3>5. QED
                  BY <1>1, <2>2, <2>3, <3>1, <3>2, <3>3, <3>4, OrderKept
      <2>4. CASE scheduler_yield(TRUE) /\ UNCHANGED pc
            <3>1. scheduler_enqueue(p, "scan")
                  BY <1>5, <2>1, <2>4 DEF scheduler_yield
            <3>2. QED
                  BY <1>1, <1>3, <1>5, <2>1, <2>2, <2>4, <3>1, OrderOfRequeue
      <2>5. QED
            BY <1>5, <2>1, <2>3, <2>4 DEF scheduler_tick
<1>6. QED
      BY <1>4, <1>5

LEMMA OrderOfSchedYield ==
    ASSUME Inv, Inv', DeadKept, ZombiesReaped, Orderly, NEW p \in Proc, sys_sched_yield(p)
    PROVE  Orderly'
<1>1. /\ Running(p) /\ pc[p] = "user" /\ current = p
      /\ UNCHANGED <<current, all_processes, procVars, armed, target, raced>>
      BY RunFacts DEF sys_sched_yield, InUserland, At
<1>2. pc'[p] = "sysret" /\ \A q \in Proc : q # p => pc'[q] = pc[q]
      BY DEF sys_sched_yield, Goto, Inv, TypeOK, CallTypes
<1>3. scheduler_enqueue(p, "scan")
      BY <1>1, ProcFacts DEF sys_sched_yield, scheduler_yield
<1>4. ~InWindow(p)
      BY <1>1 DEF InWindow
<1>5. QED
      BY <1>1, <1>2, <1>3, <1>4, OrderOfRequeue DEF procVars

(* The signal of a console.                                                *)
LEMMA OrderOfTty ==
    ASSUME Inv, Inv', DeadKept, ZombiesReaped, Orderly,
           NEW g \in Proc, NEW sig \in Signals, TtySignal(g, sig)
    PROVE  Orderly'
<1>1. /\ mode = "run" /\ Interrupts /\ current \in Proc \cup {Idle}
      /\ send_signal(InGroup(g), sig)
      /\ UNCHANGED <<current, all_processes, ready_queue, looped, ppid, callVars>>
      BY DEF TtySignal, Inv, TypeOK, KernelTypes
<1>2. /\ raced \in BOOLEAN /\ raced' \in BOOLEAN
      BY DEF Inv, TypeOK, KernelTypes
<1>3. raced' = FALSE => raced = FALSE /\ (current # Idle => ~InWindow(current))
      BY <1>1, <1>2 DEF Interrupts
<1>4. /\ mode' \in {"run", "unimplemented signal"}
      /\ \A q \in Proc : q # current => state'[q] = state[q]
      /\ \A q \in Proc : state'[q] \in {state[q], "DYING"}
      /\ state \in [Proc -> States \cup {Unborn, Freed}]
      /\ state' \in [Proc -> States \cup {Unborn, Freed}]
      <2>1. current \in InGroup(g) => current \in Proc
            BY DEF InGroup, Inv, TypeOK, KernelTypes
      <2>2. ProcTypes
            BY DEF Inv, TypeOK
      <2>3. QED
            BY <1>1, <2>1, <2>2, SendFacts DEF ProcTypes
<1>5. CASE current = Idle
      <2>1. state' = state
            <3>1. \A q \in Proc : state'[q] = state[q]
                  BY <1>4, <1>5, ProcFacts
            <3>2. /\ state = [q \in Proc |-> state[q]]
                  /\ state' = [q \in Proc |-> state'[q]]
                  BY <1>4
            <3>3. QED
                  BY <3>1, <3>2, Zenon
      <2>2. \A q \in Proc : ~Running(q) /\ ~Running(q)'
            BY <1>1, <1>5, ProcFacts DEF Running
      <2>3. ~Stopped
            BY <1>1 DEF Stopped, Stops
      <2>4. QED
            BY <1>1, <1>3, <2>1, <2>2, <2>3, OrderOfStillness DEF callVars
<1>6. CASE current # Idle
      <2>1. PICK p \in Proc : p = current
            BY <1>1, <1>6
      <2>2. Running(p) /\ Awake(p) /\ (pc[p] # "block_yield" => armed[p] = FALSE)
            BY <1>1, <2>1, RunFacts
      <2>3. /\ \A q \in Proc : Queued(q)' <=> Queued(q)
            /\ \A q \in Proc : Running(q)' => q = p
            BY <1>1, <2>1 DEF Queued, Running
      <2>4. Family'
            <3>1. \A q \in Proc : Queued(q)' \/ Running(q)' => q \in all_processes
                  BY <2>2, <2>3 DEF Orderly, Family, GoersListed
            <3>2. \A q \in Proc : state'[q] = "DEAD" => state[q] = "DEAD"
                  BY <1>4
            <3>3. QED
                  BY <1>1, <3>1, <3>2, FamilyKept DEF Orderly, callVars
      <2>5. ASSUME raced' = FALSE PROVE Calm'
            <3>1. raced = FALSE /\ ~InWindow(p)
                  BY <1>3, <1>6, <2>1, <2>5
            <3>2. state[p] # "BLOCKED" /\ state'[p] # "BLOCKED"
                  BY <1>4, <2>2, <3>1 DEF Orderly, Calm, InBed, InWindow
            <3>3. UNCHANGED <<pc, armed, target>>
                  BY <1>1 DEF callVars
            <3>4. InBed(p) => InBed(p)'
                  BY <3>2, <3>3 DEF InBed
            <3>5. InWindow(p)' => mode' = "run"
                  BY <3>1, <3>3 DEF InWindow
            <3>6. mode' \in {"run"} \cup Stops /\ all_processes' \subseteq Proc
                  BY <1>4 DEF Stops, Inv, TypeOK, KernelTypes
            <3>7. QED
                  BY <1>1, <1>4, <2>1, <2>2, <3>1, <3>3, <3>4, <3>5, <3>6, CalmKept DEF Orderly
      <2>6. QED
            BY <2>4, <2>5 DEF Orderly, Calm
<1>7. QED
      BY <1>5, <1>6

-----------------------------------------------------------------------------
(* The context switch.  unblock_processes() puts who it wakes into the     *)
(* queue.                                                                  *)
LEMMA OrderOfUnblock ==
    ASSUME Inv, Inv', DeadKept, ZombiesReaped, Orderly, NEW p \in Proc, unblock_processes(p)
    PROVE  Orderly'
<1> USE DEF Inv, TypeOK, KernelTypes, ProcTypes, CallTypes
<1>1. /\ mode = "scan" /\ p \in all_processes /\ state[p] = "BLOCKED"
      /\ UNCHANGED <<current, ppid, pc, target, raced>>
      BY DEF unblock_processes, Unscanned
<1>2. \A q \in Proc : ~Running(q)
      BY <1>1 DEF Running
<1>3. CASE /\ mode' \in {"scan", "ASSERT should_unblock"}
           /\ UNCHANGED <<all_processes, ready_queue, looped, state, armed>>
      <2>1. \A q \in Proc : ~Running(q)'
            BY <1>3 DEF Running
      <2>2. ~Stopped
            BY <1>1 DEF Stopped, Stops
      <2>3. QED
            BY <1>1, <1>2, <1>3, <2>1, <2>2, OrderOfStillness
<1>4. CASE armed[p] /\ Unblock(p) /\ (TakeZombie(p) \/ UNCHANGED all_processes)
      <2>1. /\ armed'[p] = FALSE /\ state'[p] = "RUNNING" /\ scheduler_enqueue(p, "scan")
            /\ \A q \in Proc : q # p => armed'[q] = armed[q] /\ state'[q] = state[q]
            BY <1>4 DEF Unblock
      <2>2. all_processes' \subseteq all_processes
            BY <1>4, TakeFacts
      <2>3. Family'
            <3>1. /\ mode' \in {"scan", "hung"}
                  /\ \A q \in Proc : Queued(q)' => Queued(q) \/ q = p
                  BY <2>1, EnqueueFacts DEF Loop
            <3>2. \A q \in Proc : Queued(q)' \/ Running(q)' => q \in all_processes
                  BY <1>1, <3>1 DEF Orderly, Family, GoersListed, Running
            <3>3. \A q \in Proc : state'[q] = "DEAD" => state[q] = "DEAD"
                  BY <2>1
            <3>4. QED
                  BY <1>1, <2>2, <3>2, <3>3, FamilyKept DEF Orderly
      <2>4. ASSUME raced' = FALSE PROVE Calm'
            <3>1. /\ raced = FALSE /\ looped = FALSE /\ ~Queued(p) /\ InBed(p)
                  /\ \A q \in Proc : ~InWindow(q)
                  BY <1>1, <1>2, <2>4 DEF Orderly, Calm
            <3>2. /\ looped' = FALSE /\ mode' = "scan"
                  /\ \A q \in Proc : Queued(q)' <=> Queued(q) \/ q = p
                  BY <2>1, <3>1, EnqueueAppends
            <3>3. pc[p] = "block_return"
                  BY <1>1, <3>1 DEF InBed, InWindow
            <3>4. ASSUME NEW q \in Proc PROVE InBed(q)'
                  <4>1. CASE q = p
                        BY <1>1, <2>1, <3>3, <4>1 DEF InBed
                  <4>2. CASE q # p
                        BY <1>1, <2>1, <3>1, <4>2 DEF Orderly, Calm, InBed
                  <4>3. QED
                        BY <4>1, <4>2
            <3>5. ASSUME NEW q \in Proc PROVE ~InWindow(q)'
                  BY <1>1, <3>1 DEF InWindow
            <3>6. ASSUME NEW q \in Proc, Queued(q)' PROVE state'[q] # "BLOCKED"
                  BY <2>1, <3>1, <3>2, <3>6 DEF Orderly, Calm
            <3>7. Unlost'
                  <4>1. SUFFICES ASSUME NEW q \in all_processes', Runnable(q)'
                                 PROVE  OnItsWay(q)'
                        BY DEF Unlost
                  <4>2. q \in all_processes /\ q \in Proc
                        BY <2>2, <4>1
                  <4>3. CASE q = p
                        BY <3>2, <4>3 DEF OnItsWay
                  <4>4. CASE q # p
                        <5>1. Runnable(q)
                              BY <2>1, <4>1, <4>2, <4>4 DEF Runnable
                        <5>2. OnItsWay(q)
                              BY <1>1, <3>1, <4>2, <5>1 DEF Orderly, Calm, Unlost, Stopped, Stops
                        <5>3. QED
                              BY <1>1, <3>2, <4>2, <5>2 DEF OnItsWay
                  <4>5. QED
                        BY <4>3, <4>4
            <3>8. QED
                  BY <3>2, <3>4, <3>5, <3>6, <3>7 DEF Calm
      <2>5. QED
            BY <2>3, <2>4 DEF Orderly, Calm
<1>5. QED
      BY <1>1, <1>3, <1>4 DEF unblock_processes

LEMMA OrderOfDone ==
    ASSUME Inv, Inv', DeadKept, ZombiesReaped, Orderly, UnblockDone
    PROVE  Orderly'
<1>1. \A q \in Proc : ~Running(q) /\ ~Running(q)'
      BY DEF UnblockDone, Running
<1>2. ~Stopped
      BY DEF UnblockDone, Stopped, Stops
<1>3. QED
      BY <1>1, <1>2, OrderOfStillness DEF UnblockDone, procVars, callVars

(* As long as the queue is a list, scheduler_deque() takes its head.       *)
LEMMA DequeTakesHead ==
    ASSUME ready_queue \in Seq(Proc), looped = FALSE, QueueOnce, scheduler_deque
    PROVE  /\ looped' = FALSE
           /\ \A q \in Proc : Queued(q) <=> Queued(q)' \/ q = current'
<1>1. CASE ready_queue = <<>>
      <2>1. current' = Idle /\ ready_queue' = <<>> /\ looped' = FALSE
            BY <1>1 DEF scheduler_deque
      <2>2. QED
            BY <1>1, <2>1, ProcFacts DEF Queued
<1>2. CASE ready_queue # <<>>
      <2>1. /\ current' = Head(ready_queue) /\ ready_queue' = Tail(ready_queue)
            /\ looped' = FALSE
            BY <1>2 DEF scheduler_deque
      <2>2. /\ Len(ready_queue) \in Nat \ {0} /\ current' = ready_queue[1]
            /\ DOMAIN ready_queue = 1 .. Len(ready_queue)
            /\ DOMAIN ready_queue' = 1 .. Len(ready_queue) - 1
            /\ \A i \in 1 .. Len(ready_queue) - 1 : ready_queue'[i] = ready_queue[i + 1]
            BY <1>2, <2>1
      <2>3. ASSUME NEW q \in Proc, Queued(q), q # current' PROVE Queued(q)'
            <3>1. PICK i \in 1 .. Len(ready_queue) : ready_queue[i] = q
                  BY <2>2, <2>3 DEF Queued
            <3>2. i # 1 /\ i - 1 \in 1 .. Len(ready_queue) - 1
                  BY <2>2, <2>3, <3>1
            <3>3. ready_queue'[i - 1] = q
                  BY <2>2, <3>1, <3>2
            <3>4. QED
                  BY <2>2, <3>2, <3>3 DEF Queued
      <2>4. ASSUME NEW q \in Proc, Queued(q)' PROVE Queued(q)
            BY <2>2, <2>4 DEF Queued
      <2>5. Queued(current')
            BY <2>2 DEF Queued
      <2>6. QED
            BY <2>1, <2>3, <2>4, <2>5
<1>3. QED
      BY <1>1, <1>2

LEMMA OrderOfSwitch ==
    ASSUME Inv, Inv', DeadKept, ZombiesReaped, Orderly, switch_to_next_process
    PROVE  Orderly'
<1> USE DEF Inv, TypeOK, KernelTypes, ProcTypes, CallTypes
<1>1. /\ mode = "deque" /\ mode' = "run" /\ scheduler_deque
      /\ UNCHANGED <<all_processes, ppid, pc, armed, target, raced>>
      BY DEF switch_to_next_process, callVars
<1>2. /\ current' \in Proc \cup {Idle}
      /\ \A q \in Proc : Queued(q)' => Queued(q)
      /\ \A q \in Proc : q = current' => Queued(q)
      BY <1>1, DequeFacts DEF Loop
<1>3. /\ \A q \in Proc : q # current' => state'[q] = state[q]
      /\ \A q \in Proc : state'[q] \in {state[q], "DYING"}
                        \/ (state[q] = "RUNNABLE" /\ state'[q] = "RUNNING")
      <2>1. CASE UNCHANGED state
            BY <2>1
      <2>2. CASE /\ current' # Idle
                 /\ HandlePendingSignals(current', pending_signals[current'],
                       IF state[current'] = "RUNNABLE"
                       THEN [state EXCEPT ![current'] = "RUNNING"] ELSE state)
            <3>1. PICK p \in Proc : p = current'
                  BY <1>2, <2>2
            <3> DEFINE states == IF state[p] = "RUNNABLE"
                                 THEN [state EXCEPT ![p] = "RUNNING"] ELSE state
            <3>2. HandlePendingSignals(p, pending_signals[p], states)
                  BY <2>2, <3>1
            <3>3. /\ states \in [Proc -> States \cup {Unborn, Freed}]
                  /\ pending_signals[p] \in SUBSET Signals
                  /\ exit_status \in [Proc -> Nat]
                  /\ \A q \in Proc : q # p => states[q] = state[q]
                  /\ states[p] = state[p] \/ (state[p] = "RUNNABLE" /\ states[p] = "RUNNING")
                  BY DEF States
            <3> HIDE DEF states
            <3>4. /\ \A q \in Proc : q # p => state'[q] = states[q]
                  /\ state'[p] \in {states[p], "DYING"}
                  BY <3>2, <3>3, HandleFacts
            <3>5. QED
                  BY <3>1, <3>3, <3>4
      <2>3. QED
            BY <2>1, <2>2 DEF switch_to_next_process
<1>4. Family'
      <2>1. \A q \in Proc : Queued(q)' \/ Running(q)' => q \in all_processes
            BY <1>2 DEF Orderly, Family, GoersListed, Running
      <2>2. \A q \in Proc : state'[q] = "DEAD" => state[q] = "DEAD"
            BY <1>3
      <2>3. QED
            BY <1>1, <2>1, <2>2, FamilyKept DEF Orderly
<1>5. ASSUME raced' = FALSE PROVE Calm'
      <2>1. /\ raced = FALSE /\ looped = FALSE
            /\ \A q \in Proc : ~InWindow(q)
            BY <1>1, <1>5 DEF Orderly, Calm, Running
      <2>2. /\ looped' = FALSE
            /\ \A q \in Proc : Queued(q) <=> Queued(q)' \/ q = current'
            BY <1>1, <2>1, DequeTakesHead
      <2>3. \A q \in Proc : state'[q] = "BLOCKED" <=> state[q] = "BLOCKED"
            BY <1>2, <1>3, <2>1 DEF Orderly, Calm
      <2>4. ASSUME NEW q \in Proc PROVE InBed(q)'
            BY <1>1, <2>1, <2>3 DEF Orderly, Calm, InBed
      <2>5. ASSUME NEW q \in Proc PROVE ~InWindow(q)'
            BY <1>1, <2>1 DEF InWindow
      <2>6. ASSUME NEW q \in Proc, Queued(q)' PROVE state'[q] # "BLOCKED"
            BY <1>2, <2>1, <2>3, <2>6 DEF Orderly, Calm
      <2>7. Unlost'
            <3>1. SUFFICES ASSUME NEW q \in all_processes, Runnable(q)'
                           PROVE  OnItsWay(q)'
                  BY <1>1 DEF Unlost
            <3>2. q \in Proc /\ Runnable(q)
                  <4>1. CASE q # current'
                        BY <1>3, <3>1, <4>1 DEF Runnable
                  <4>2. CASE q = current'
                        <5>1. Queued(q) /\ q \in Proc
                              BY <1>2, <3>1, <4>2
                        <5>2. Alive(q) /\ state[q] # "BLOCKED"
                              BY <2>1, <5>1 DEF QueueAlive, Orderly, Calm
                        <5>3. QED
                              BY <5>1, <5>2 DEF Alive, Awake, Runnable
                  <4>3. QED
                        BY <4>1, <4>2
            <3>3. OnItsWay(q)
                  BY <1>1, <2>1, <3>1, <3>2 DEF Orderly, Calm, Unlost, Stopped, Stops
            <3>4. QED
                  BY <1>1, <2>2, <3>2, <3>3 DEF OnItsWay
      <2>8. QED
            BY <2>2, <2>4, <2>5, <2>6, <2>7 DEF Calm
<1>6. QED
      BY <1>4, <1>5 DEF Orderly, Calm

-----------------------------------------------------------------------------
(* Boot leaves an orderly state, and every step keeps the order.           *)
LEMMA InitOrderly == Init => Orderly
<1> SUFFICES ASSUME Init PROVE Orderly
    OBVIOUS
<1> USE ProcFacts DEF Init
<1>1. \A p \in Proc : ~Queued(p)
      BY DEF Queued
<1>2. Family
      BY <1>1 DEF Family, InitLives, GoersListed, Running, ChildrenListed, Parented
<1>3. Calm
      <2>1. \A p \in Proc : InBed(p) /\ ~InWindow(p)
            BY DEF InBed, InWindow, Unborn
      <2>2. Unlost
            BY DEF Unlost, OnItsWay
      <2>3. QED
            BY <1>1, <2>1, <2>2 DEF Calm
<1>4. QED
      BY <1>2, <1>3 DEF Orderly

LEMMA NextOrderly ==
    ASSUME Inv, Inv', Orderly, [Next]_vars
    PROVE  Orderly'
<1>1. DeadKept /\ ZombiesReaped
      BY Fate
<1>2. ASSUME NEW p \in Proc, KernelStep(p) PROVE Orderly'
      BY <1>1, <1>2, OrderOfSignals, OrderOfCalls, OrderOfRegister, OrderOfForkEnqueue,
         OrderOfBlockYield, OrderOfDie DEF KernelStep
<1>3. ASSUME NEW p \in Proc, Syscall(p) PROVE Orderly'
      <2>1. CASE \/ \E t \in Proc : sys_kill(p, t)
                 \/ \E t \in Proc : sys_setpgid(p, t)
            BY <1>1, <2>1, OrderOfSignals
      <2>2. CASE \E sig \in Signals : \/ sys_kill_all(p, sig)
                                      \/ \E g \in Proc : sys_kill_group(p, g, sig)
            <3>1. /\ all_processes \ {InitProc} \in SUBSET Proc
                  /\ \A g \in Proc : InGroup(g) \in SUBSET Proc
                  BY DEF Inv, TypeOK, KernelTypes, InGroup
            <3>2. \E sig \in Signals, ps \in SUBSET Proc : KillMany(p, ps, sig)
                  BY <2>2, <3>1 DEF sys_kill_all, sys_kill_group
            <3>3. QED
                  BY <1>1, <3>2, OrderOfSignals
      <2>3. CASE sys_fork(p) \/ sys_sched_yield(p)
            BY <1>1, <2>3, OrderOfFork, OrderOfSchedYield
      <2>4. CASE BlockOnEvent(p)
                 \/ \E pid \in WaitArgs, nohang \in BOOLEAN : sys_waitpid(p, pid, nohang)
            BY <1>1, <2>4, OrderOfCalls
      <2>5. CASE \/ \E status \in ExitArgs : sys_exit(p, status)
                 \/ \E sig \in CrashSignals : process_crash_in_userland(p, sig)
            <3>1. \E status : At(p, "user") /\ BeginExit(p, status)
                  BY <2>5 DEF sys_exit, InUserland, process_crash_in_userland
            <3>2. QED
                  BY <1>1, <3>1, OrderOfCalls
      <2>6. QED
            BY <1>3, <2>1, <2>2, <2>3, <2>4, <2>5 DEF Syscall
<1>4. CASE \E g \in Proc, sig \in Signals : TtySignal(g, sig)
      BY <1>1, <1>4, OrderOfTty
<1>5. CASE scheduler_tick
      BY <1>1, <1>5, OrderOfTick
<1>6. CASE EventChanges \/ Halted \/ UNCHANGED vars
      <2>1. /\ UNCHANGED <<raced, ready_queue, looped, all_processes, state, ppid, pc, armed,
                           target, current, mode>>
            BY <1>6 DEF EventChanges, Halted, vars, kernelVars, procVars, callVars
      <2>2. \A q \in Proc : Running(q)' <=> Running(q)
            BY <2>1 DEF Running
      <2>3. Stopped => Stopped'
            BY <2>1 DEF Stopped
      <2>4. QED
            BY <1>1, <2>1, <2>2, <2>3, OrderOfStillness
<1>7. CASE ContextSwitch
      BY <1>1, <1>7, OrderOfUnblock, OrderOfDone, OrderOfSwitch DEF ContextSwitch
<1>8. QED
      BY <1>2, <1>3, <1>4, <1>5, <1>6, <1>7 DEF Next

(* The order holds in every reachable state.                               *)
THEOREM OrderHolds == Spec => [](Inv /\ Orderly)
<1>1. Inv /\ Orderly /\ [Next]_vars => (Inv /\ Orderly)'
      BY NextInv, HaltedStep, NextOrderly
<1>2. Init => Inv /\ Orderly
      BY InitInv, InitOrderly
<1>3. QED
      BY <1>1, <1>2, PTL DEF Spec

(* Every process in the list has a parent in the list that is not dead, so *)
(* that its end can be waited for: die() and fork() never leave an orphan, *)
(* wherever they are preempted.                                            *)
THEOREM EveryoneHasAParent == Spec => []NoOrphans
<1>1. Orderly => NoOrphans
      BY DEF Orderly, Family, Parented, NoOrphans
<1>2. QED
      BY <1>1, OrderHolds, PTL

(* As long as no interrupt hit the window of scheduler_block(), the ready  *)
(* queue is a list without repetition of processes that can run.           *)
THEOREM QueueStaysSound == Spec => []ReadyQueueSound
<1>1. Inv /\ Orderly => ReadyQueueSound
      <2>1. SUFFICES ASSUME Inv, Orderly, ~raced
                     PROVE  /\ ~looped
                            /\ QueueOnce
                            /\ \A i \in DOMAIN ready_queue :
                                   /\ ready_queue[i] \in all_processes
                                   /\ Runnable(ready_queue[i])
            BY DEF ReadyQueueSound, QueueOnce
      <2>2. raced = FALSE
            BY <2>1 DEF Inv, TypeOK, KernelTypes
      <2>3. ASSUME NEW i \in DOMAIN ready_queue
            PROVE  ready_queue[i] \in all_processes /\ Runnable(ready_queue[i])
            <3>1. ready_queue[i] \in Proc /\ Queued(ready_queue[i])
                  BY <2>1 DEF Inv, TypeOK, KernelTypes, Queued
            <3>2. /\ state[ready_queue[i]] # "BLOCKED" /\ Alive(ready_queue[i])
                  /\ ready_queue[i] \in all_processes
                  BY <2>1, <2>2, <3>1
                     DEF Inv, QueueAlive, Orderly, Calm, Family, GoersListed
            <3>3. QED
                  BY <3>2 DEF Alive, Awake, Runnable
      <2>4. QED
            BY <2>1, <2>2, <2>3 DEF Inv, Orderly, Calm
<1>2. QED
      BY <1>1, OrderHolds, PTL

(* As long as no interrupt hit that window, the scheduler loses nobody:    *)
(* every process that could run has the CPU or is in the queue, or its     *)
(* fork() is about to put it there.                                        *)
THEOREM TheSchedulerLosesNobody == Spec => []NobodyIsLost
<1>1. Inv /\ Orderly => NobodyIsLost
      <2>1. SUFFICES ASSUME Inv, Orderly, ~raced PROVE Unlost
            BY DEF NobodyIsLost, Unlost
      <2>2. raced = FALSE
            BY <2>1 DEF Inv, TypeOK, KernelTypes
      <2>3. QED
            BY <2>1, <2>2 DEF Orderly, Calm
<1>2. QED
      BY <1>1, OrderHolds, PTL

(* As long as no interrupt hit that window, who sleeps has a blocker and   *)
(* who is awake has none.                                                  *)
THEOREM SleepersHaveBlockers == Spec => []BlockersMatchStates
<1>1. Inv /\ Orderly => BlockersMatchStates
      <2>1. SUFFICES ASSUME Inv, Orderly, ~raced, NEW p \in all_processes, p # current
                     PROVE  state[p] = "BLOCKED" <=> armed[p]
            BY DEF BlockersMatchStates
      <2>2. p \in Proc /\ raced = FALSE /\ armed[p] \in BOOLEAN
            BY <2>1 DEF Inv, TypeOK, KernelTypes, CallTypes
      <2>3. InBed(p) /\ ~InWindow(p)
            BY <2>1, <2>2 DEF Orderly, Calm, Running
      <2>4. QED
            BY <2>2, <2>3 DEF InBed, InWindow
<1>2. QED
      BY <1>1, OrderHolds, PTL

(* Signals that land anywhere leave all of that as it is.                  *)
THEOREM SignalsDoNoHarm == Spec => []StaysSoundUnderSignals
  BY TypeCorrect, QueueStaysSound, TheSchedulerLosesNobody, SchedulerAssertsHold,
     SleepersHaveBlockers, ZombieOwned, PTL DEF StaysSoundUnderSignals
=============================================================================
