------------------------------- MODULE Mutex -------------------------------
(***************************************************************************)
(* The mutex of kernel/lock.c, statement by statement.  A process can be   *)
(* preempted between any two statements, so the statements of different    *)
(* processes interleave freely.  Each step writes one shared field.        *)
(*                                                                         *)
(* The callers keep to the discipline of the kernel: a process calls       *)
(* mutex_unlock() only for a mutex that it has locked.                     *)
(* mutex_unlock_if_locked() is called by file_description_lseek(), after   *)
(* mutex_lock() (SEEK_CUR) or without it (SEEK_SET, SEEK_END), and never   *)
(* for a mutex that its caller has locked twice.                           *)
(***************************************************************************)
EXTENDS Naturals

CONSTANTS
    Process,
    NULL,
    MaxDepth,   \* bound: how often a process takes the mutex it owns
    Seekers     \* the processes that call mutex_unlock_if_locked() on it

ASSUME NULLAssumption == NULL \notin Process
ASSUME MaxDepthAssumption == MaxDepth \in Nat \ {0}
ASSUME SeekersAssumption == Seekers \subseteq Process

VARIABLES
    holder, level, lock,   \* the fields of struct mutex
    pc,                    \* the next statement of each process
    depth                  \* what the process has added to level

vars == <<holder, level, lock, pc, depth>>

LockPCs == {"lock", "lock_test", "lock_holder", "lock_level"}
UnlockPCs == {"unlock", "unlock_level", "unlock_holder"}
TryPCs == {"try", "try_test", "try_holder"}

TypeOK ==
    /\ holder \in Process \cup {NULL}
    /\ level \in Nat
    /\ lock \in BOOLEAN
    /\ pc \in [Process -> {"idle", "release"} \cup LockPCs \cup UnlockPCs \cup TryPCs]
    /\ depth \in [Process -> Nat]

Init ==
    /\ holder = NULL
    /\ level = 0
    /\ lock = FALSE
    /\ pc = [p \in Process |-> "idle"]
    /\ depth = [p \in Process |-> 0]

Goto(p, l) == pc' = [pc EXCEPT ![p] = l]

(* Fault: the exchange does not look at the old value.                     *)
AcquireBlindly(p, from, to) ==
    /\ pc[p] = from
    /\ lock' = TRUE
    /\ Goto(p, to)
    /\ UNCHANGED <<holder, level, depth>>

(* The compare-and-exchange that opens each of the three loops.  When it   *)
(* fails the process yields, or spins, and tries again: a stuttering step. *)
Acquire(p, from, to) ==
    /\ pc[p] = from
    /\ lock = FALSE
    /\ lock' = TRUE
    /\ Goto(p, to)
    /\ UNCHANGED <<holder, level, depth>>

(* The store that ends them.                                               *)
Release(p) ==
    /\ pc[p] = "release"
    /\ lock' = FALSE
    /\ Goto(p, "idle")
    /\ UNCHANGED <<holder, level, depth>>

-----------------------------------------------------------------------------
mutex_lock(p) ==
    /\ pc[p] = "idle" /\ depth[p] < MaxDepth
    /\ Goto(p, "lock")
    /\ UNCHANGED <<holder, level, lock, depth>>

MayTakeIfFree(p) == level <= 1               \* fault: the holder is not compared
MayTake(p) == holder \in {NULL, p}

(* Somebody else's mutex: the store releases the lock, and the loop goes   *)
(* on after scheduler_yield().                                             *)
LockTest(p) ==
    /\ pc[p] = "lock_test"
    /\ \/ MayTake(p) /\ Goto(p, "lock_holder") /\ UNCHANGED lock
       \/ ~MayTake(p) /\ Goto(p, "lock") /\ lock' = FALSE
    /\ UNCHANGED <<holder, level, depth>>

LockHolder(p) ==
    /\ pc[p] = "lock_holder"
    /\ holder' = p
    /\ Goto(p, "lock_level")
    /\ UNCHANGED <<level, lock, depth>>

LockLevelUncounted(p) ==                       \* fault: ++level is missing
    /\ pc[p] = "lock_level"
    /\ depth' = [depth EXCEPT ![p] = @ + 1]
    /\ Goto(p, "release")
    /\ UNCHANGED <<holder, level, lock>>

LockLevel(p) ==
    /\ pc[p] = "lock_level"
    /\ level' = level + 1
    /\ depth' = [depth EXCEPT ![p] = @ + 1]
    /\ Goto(p, "release")
    /\ UNCHANGED <<holder, lock>>

-----------------------------------------------------------------------------
mutex_unlock(p) ==
    /\ pc[p] = "idle" /\ depth[p] > 0
    /\ Goto(p, "unlock")
    /\ UNCHANGED <<holder, level, lock, depth>>

UnlockLevel(p) ==
    /\ pc[p] = "unlock_level"
    /\ level' = level - 1
    /\ depth' = [depth EXCEPT ![p] = @ - 1]
    /\ Goto(p, "unlock_holder")
    /\ UNCHANGED <<holder, lock>>

HolderKept == holder                            \* fault
HolderAfterUnlock == IF level = 0 THEN NULL ELSE holder

UnlockHolder(p) ==
    /\ pc[p] = "unlock_holder"
    /\ holder' = HolderAfterUnlock
    /\ Goto(p, "release")
    /\ UNCHANGED <<level, lock, depth>>

-----------------------------------------------------------------------------
mutex_unlock_if_locked(p) ==
    /\ p \in Seekers
    /\ pc[p] = "idle" /\ depth[p] <= 1
    /\ Goto(p, "try")
    /\ UNCHANGED <<holder, level, lock, depth>>

TryTest(p) ==
    /\ pc[p] = "try_test"
    /\ \/ /\ level = 0 \/ holder # p
          /\ Goto(p, "release")
          /\ UNCHANGED <<level, depth>>
       \/ /\ level # 0 /\ holder = p
          /\ level' = level - 1
          /\ depth' = [depth EXCEPT ![p] = @ - 1]
          /\ Goto(p, "try_holder")
    /\ UNCHANGED <<holder, lock>>

(* The holder is cleared when the mutex is still locked, and not when it   *)
(* has become free.                                                        *)
TryHolder(p) ==
    /\ pc[p] = "try_holder"
    /\ holder' = IF level = 0 THEN holder ELSE NULL
    /\ Goto(p, "release")
    /\ UNCHANGED <<level, lock, depth>>

-----------------------------------------------------------------------------
Step(p) ==
    \/ Acquire(p, "lock", "lock_test") \/ LockTest(p) \/ LockHolder(p)
    \/ LockLevel(p)
    \/ Acquire(p, "unlock", "unlock_level") \/ UnlockLevel(p) \/ UnlockHolder(p)
    \/ Acquire(p, "try", "try_test") \/ TryTest(p) \/ TryHolder(p)
    \/ Release(p)

Call(p) == mutex_lock(p) \/ mutex_unlock(p) \/ mutex_unlock_if_locked(p)

Next == \E p \in Process : Step(p) \/ Call(p)

Spec == Init /\ [][Next]_vars

(* Every process gets on with its call (Scheduler!QueuedRuns), and what is *)
(* locked is unlocked; nobody has to call mutex_lock().  The lock field is *)
(* set for a few statements at a time: a process that gets the processor   *)
(* again and again does not meet it set each time, so a compare-and-       *)
(* exchange that can succeed again and again succeeds.                     *)
Fairness ==
    \A p \in Process : /\ WF_vars(Step(p))
                       /\ SF_vars(Acquire(p, "lock", "lock_test"))
                       /\ WF_vars(mutex_unlock(p))

FairSpec == Spec /\ Fairness

-----------------------------------------------------------------------------
(* No two processes are between their mutex_lock() and mutex_unlock().     *)
MutualExclusion ==
    \A p, q \in Process : depth[p] > 0 /\ depth[q] > 0 => p = q

(* What mutex_unlock() and mutex_unlock_if_locked() assert when they       *)
(* decrement level, and that they decrement it for their own caller.       *)
UnlockAsserts ==
    \A p \in Process :
        \/ pc[p] = "unlock_level"
        \/ pc[p] = "try_test" /\ level # 0 /\ holder = p
        => holder = p /\ level > 0 /\ depth[p] > 0

(* The mutex implements a recursive lock that is taken and released at the *)
(* moment level changes.                                                   *)
Lock == INSTANCE RecursiveLock
            WITH owner <- IF level = 0 THEN NULL ELSE holder
ImplementsRecursiveLock == Lock!Spec

Waiting(p) == pc[p] \in LockPCs

(* The mutex_unlock_if_locked() of lseek() has freed the mutex and left    *)
(* the holder set.                                                         *)
Sought == \E p \in Seekers : holder = p /\ level = 0 /\ lock = FALSE

(* Progress: when processes wait for the mutex, some process gets it,      *)
(* unless lseek() has left it to the process that called it.               *)
SomebodyGetsItUnlessSought ==
    (\E p \in Process : Waiting(p))
        ~> ((\E p \in Process : depth[p] > 0) \/ Sought)

(* Progress without that exception: a description that processes share     *)
(* serves all of them.                                                     *)
SomebodyGetsIt ==
    (\E p \in Process : Waiting(p)) ~> (\E p \in Process : depth[p] > 0)
=============================================================================
