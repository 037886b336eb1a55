---------------------------- MODULE DeviceProofs ----------------------------
(***************************************************************************)
(* Proofs about the mutex and about devices: the mutex excludes and        *)
(* implements the recursive lock, for every number of processes and every  *)
(* nesting depth; no sleeper wakes early, for every number of sleepers,    *)
(* every tick rate and every request, torn copies of the clock included;   *)
(* the interrupt lines stay open for every number of threads and lines,    *)
(* however deep handlers, push_cli() and thread switches nest; and the     *)
(* sound card plays what is written to it, for every size of its ring.     *)
(***************************************************************************)
EXTENDS Mutex, Clock, Interrupts, Sound, TLAPS

-----------------------------------------------------------------------------
(* The mutex.                                                               *)

(* The statements that are executed while the field lock is set.           *)
Inner == {"lock_test", "lock_holder", "lock_level", "unlock_level",
          "unlock_holder", "try_test", "try_holder", "release"}

(* The spin lock: whoever is inside has set it, and nobody else is inside. *)
OneInside ==
    /\ \A p \in Process : pc[p] \in Inner => lock = TRUE
    /\ \A p, q \in Process : pc[p] \in Inner /\ pc[q] \in Inner => p = q

(* level counts what the holder has taken, and only the holder has any.    *)
LevelIsHolders ==
    /\ level > 0 => holder \in Process /\ depth[holder] = level
    /\ \A p \in Process : depth[p] > 0 => holder = p /\ depth[p] = level

(* What a process has found out and still relies on.                       *)
Relies ==
    \A p \in Process :
        /\ pc[p] = "lock_holder" => MayTake(p)
        /\ pc[p] = "lock_level" => holder = p
        /\ pc[p] \in {"unlock", "unlock_level"} => depth[p] > 0
        /\ pc[p] = "unlock_holder" => holder = p
        /\ pc[p] = "try_holder" => holder = p

(* Nobody calls mutex_unlock_if_locked() for a mutex it has nested.        *)
Shallow ==
    \A p \in Process :
        /\ pc[p] \in {"try", "try_test"} => depth[p] <= 1
        /\ pc[p] = "try_holder" => level = 0

Inv == TypeOK /\ OneInside /\ LevelIsHolders /\ Relies /\ Shallow

(* The invariant holds of an unlocked mutex.                               *)
LEMMA InitInv == Init => Inv
<1> SUFFICES ASSUME Init PROVE Inv
    OBVIOUS
<1> USE NULLAssumption, MaxDepthAssumption DEF Init
<1>1. TypeOK
      BY DEF TypeOK
<1>2. OneInside
      BY DEF OneInside, Inner
<1>3. LevelIsHolders
      BY DEF LevelIsHolders
<1>4. Relies
      BY DEF Relies, MayTake
<1>5. Shallow
      BY DEF Shallow
<1>6. QED
      BY <1>1, <1>2, <1>3, <1>4, <1>5 DEF Inv

(* Every statement of every process keeps it.                              *)
LEMMA StepInv == Inv /\ [Next]_vars => Inv'
<1> SUFFICES ASSUME Inv, [Next]_vars PROVE Inv'
    OBVIOUS
<1> USE NULLAssumption, MaxDepthAssumption
        DEF Inv, TypeOK, OneInside, LevelIsHolders, Relies, Shallow, Inner,
            LockPCs, UnlockPCs, TryPCs, Goto, MayTake
<1>1. ASSUME NEW p \in Process, NEW l1, NEW l2, Acquire(p, l1, l2),
             <<l1, l2>> \in {<<"lock", "lock_test">>, <<"unlock", "unlock_level">>,
                             <<"try", "try_test">>}
      PROVE  Inv'
      <2> USE <1>1 DEF Acquire
      <2>1. TypeOK'
            OBVIOUS
      <2>2. OneInside'
            OBVIOUS
      <2>3. LevelIsHolders'
            OBVIOUS
      <2>4. Relies'
            OBVIOUS
      <2>5. Shallow'
            OBVIOUS
      <2>6. QED
            BY <2>1, <2>2, <2>3, <2>4, <2>5
<1>2. ASSUME NEW p \in Process, LockTest(p) PROVE Inv'
      <2> USE <1>2 DEF LockTest
      <2>1. TypeOK'
            OBVIOUS
      <2>2. OneInside'
            OBVIOUS
      <2>3. LevelIsHolders'
            OBVIOUS
      <2>4. Relies'
            OBVIOUS
      <2>5. Shallow'
            OBVIOUS
      <2>6. QED
            BY <2>1, <2>2, <2>3, <2>4, <2>5
<1>3. ASSUME NEW p \in Process, LockHolder(p) PROVE Inv'
      BY <1>3 DEF LockHolder
<1>4. ASSUME NEW p \in Process, LockLevel(p) PROVE Inv'
      BY <1>4 DEF LockLevel
<1>5. ASSUME NEW p \in Process, UnlockLevel(p) PROVE Inv'
      BY <1>5 DEF UnlockLevel
<1>6. ASSUME NEW p \in Process, UnlockHolder(p) PROVE Inv'
      BY <1>6 DEF UnlockHolder, HolderAfterUnlock
<1>7. ASSUME NEW p \in Process, TryTest(p) PROVE Inv'
      BY <1>7 DEF TryTest
<1>8. ASSUME NEW p \in Process, TryHolder(p) PROVE Inv'
      BY <1>8 DEF TryHolder
<1>9. ASSUME NEW p \in Process, Release(p) PROVE Inv'
      BY <1>9 DEF Release
<1>10. ASSUME NEW p \in Process, Call(p) PROVE Inv'
      BY <1>10 DEF Call, mutex_lock, mutex_unlock, mutex_unlock_if_locked
<1>11. CASE UNCHANGED vars
      BY <1>11 DEF vars
<1>12. QED
      BY <1>1, <1>2, <1>3, <1>4, <1>5, <1>6, <1>7, <1>8, <1>9, <1>10, <1>11
         DEF Next, Step

(* Inv is an invariant of the mutex.                                       *)
THEOREM Invariance == Spec => []Inv
  BY InitInv, StepInv, PTL DEF Spec

(* Two processes never both hold the mutex, for any number of processes.   *)
THEOREM MutexExcludes == Spec => []MutualExclusion
<1>1. Inv => MutualExclusion
      BY DEF Inv, LevelIsHolders, MutualExclusion
<1>2. QED
      BY <1>1, Invariance, PTL

(* The ASSERTs of mutex_unlock() and mutex_unlock_if_locked() hold.        *)
THEOREM UnlockAssertsHold == Spec => []UnlockAsserts
<1>1. Inv => UnlockAsserts
      BY DEF Inv, TypeOK, LevelIsHolders, Relies, UnlockAsserts
<1>2. QED
      BY <1>1, Invariance, PTL

-----------------------------------------------------------------------------
owned == IF level = 0 THEN NULL ELSE holder

(* An unlocked mutex is an unlocked lock.                                  *)
LEMMA InitRefines == Init => Lock!Init
  BY DEF Init, Lock!Init

(* Every statement is an operation of the lock or changes nothing of it.   *)
LEMMA StepRefines == Inv /\ [Next]_vars => [Lock!Next]_<<owned, level>>
<1> SUFFICES ASSUME Inv, [Next]_vars,
                    ~ UNCHANGED <<owned, level>>
             PROVE  Lock!Next
    OBVIOUS
<1> USE NULLAssumption DEF Inv, TypeOK, owned
<1>1. PICK p \in Process : LockHolder(p) \/ LockLevel(p) \/ UnlockLevel(p)
                           \/ UnlockHolder(p) \/ TryTest(p) \/ TryHolder(p)
      BY DEF Next, Step, Call, Acquire, LockTest, Release, mutex_lock,
             mutex_unlock, mutex_unlock_if_locked, vars
<1>2. CASE LockHolder(p)
      BY <1>2 DEF LockHolder, LevelIsHolders, Relies, MayTake
<1>3. CASE LockLevel(p)
      <2>1. Lock!Lock(p)
            BY <1>3 DEF LockLevel, LevelIsHolders, Relies, Lock!Lock
      <2>2. QED
            BY <2>1 DEF Lock!Next
<1>4. CASE UnlockLevel(p)
      <2>1. Lock!Unlock(p)
            BY <1>4 DEF UnlockLevel, LevelIsHolders, Relies, Lock!Unlock
      <2>2. QED
            BY <2>1 DEF Lock!Next
<1>5. CASE UnlockHolder(p)
      BY <1>5 DEF UnlockHolder, HolderAfterUnlock
<1>6. CASE TryTest(p)
      <2>1. Lock!Unlock(p)
            BY <1>6 DEF TryTest, LevelIsHolders, Lock!Unlock
      <2>2. QED
            BY <2>1 DEF Lock!Next
<1>7. CASE TryHolder(p)
      BY <1>7 DEF TryHolder, Shallow
<1>8. QED
      BY <1>1, <1>2, <1>3, <1>4, <1>5, <1>6, <1>7

(* kernel/lock.c implements the recursive lock: each call takes effect in  *)
(* the one statement that changes level.                                   *)
THEOREM Refinement == Spec => ImplementsRecursiveLock
  BY Invariance, InitRefines, StepRefines, PTL
     DEF Spec, ImplementsRecursiveLock, Lock!Spec, owned

-----------------------------------------------------------------------------
(* The clock.                                                              *)

Timespec == [sec : Nat, nsec : 0 .. TicksPerSec - 1]
NotAfter(a, b) == a.sec < b.sec \/ (a.sec = b.sec /\ a.nsec <= b.nsec)
Reading(z) == zState[z] \in {"sec_read", "nsec_read"}

ClockTypeOK ==
    /\ now \in Timespec
    /\ zState \in [Sleeper -> {"awake", "sec_read", "nsec_read", "asleep", "woken"}]
    /\ half \in [Sleeper -> Timespec]
    /\ request \in [Sleeper -> Timespec]
    /\ deadline \in [Sleeper -> Timespec]
    /\ began \in [Sleeper -> Nat]
    /\ torn \in [Sleeper -> BOOLEAN]

(* Between the two halves the clock only runs on, and while the timer has  *)
(* not come it has not.                                                    *)
HalfIsPast(z) ==
    /\ began[z] = Time(half[z])
    /\ NotAfter(half[z], now)
    /\ torn[z] = FALSE => half[z] = now

(* The deadline is what was asked for, or less than a second short of it.  *)
DeadlineIsRight(z) ==
    /\ torn[z] = FALSE => Time(deadline[z]) >= began[z] + Time(request[z])
    /\ Time(deadline[z]) + TicksPerSec >= began[z] + Time(request[z])

ClockInv ==
    /\ ClockTypeOK
    /\ \A z \in Sleeper :
         /\ Reading(z) => HalfIsPast(z)
         /\ zState[z] \in {"asleep", "woken"} => DeadlineIsRight(z)
         /\ zState[z] = "woken" => NotAfter(deadline[z], now)

-----------------------------------------------------------------------------
(* Multiplication, which the SMT solver has to be told about.              *)
LEMMA MulFacts ==
    ASSUME NEW m \in Nat, NEW n \in Nat, NEW k \in Nat
    PROVE  /\ m * k \in Nat
           /\ m >= n => m * k >= n * k
           /\ (m + n) * k = m * k + n * k
           /\ (m + 1) * k = m * k + k
           /\ m > n => m * k >= n * k + k
<1>1. /\ m * k \in Nat /\ n * k \in Nat
      /\ (m + n) * k = m * k + n * k
      /\ (m + 1) * k = m * k + k
      /\ (n + 1) * k = n * k + k
      OBVIOUS
<1>2. \A i, j \in Nat : i >= j => i * k >= j * k
      <2> SUFFICES ASSUME NEW i \in Nat, NEW j \in Nat, i >= j PROVE i * k >= j * k
            OBVIOUS
      <2>1. PICK d \in Nat : i = j + d
            BY i - j \in Nat
      <2>2. i * k = j * k + d * k /\ d * k \in Nat /\ j * k \in Nat
            BY <2>1
      <2>3. QED
            BY <2>2
<1>3. m > n => m * k >= (n + 1) * k
      BY <1>2
<1>4. QED
      BY <1>1, <1>2, <1>3

(* The order of the pairs is the order of the times they stand for.        *)
LEMMA TimeFacts ==
    ASSUME NEW a \in Timespec, NEW b \in Timespec
    PROVE  /\ Time(a) \in Nat
           /\ NotAfter(a, b) => Time(a) <= Time(b)
           /\ a.sec <= b.sec /\ a.nsec = b.nsec => Time(a) <= Time(b)
<1>1. a.sec \in Nat /\ b.sec \in Nat /\ a.nsec \in 0 .. TicksPerSec - 1
      /\ b.nsec \in 0 .. TicksPerSec - 1 /\ TicksPerSec \in Nat
      BY ClockAssumption DEF Timespec
<1> DEFINE x == a.sec * TicksPerSec
           y == b.sec * TicksPerSec
<1>2. /\ x \in Nat /\ y \in Nat
      /\ b.sec > a.sec => y >= x + TicksPerSec
      /\ b.sec >= a.sec => y >= x
      BY <1>1, MulFacts
<1>3. a.sec = b.sec => x = y
      OBVIOUS
<1>4. Time(a) = x + a.nsec /\ Time(b) = y + b.nsec
      BY DEF Time
<1> HIDE DEF x, y
<1>5. QED
      BY <1>1, <1>2, <1>3, <1>4 DEF NotAfter

(* timespec_add() adds the times, and one carry is enough.                 *)
LEMMA AddFacts ==
    ASSUME NEW a \in Timespec, NEW b \in Timespec
    PROVE  /\ TimespecAdd(a, b) \in Timespec
           /\ Time(TimespecAdd(a, b)) = Time(a) + Time(b)
<1>1. a.sec \in Nat /\ b.sec \in Nat /\ a.nsec \in 0 .. TicksPerSec - 1
      /\ b.nsec \in 0 .. TicksPerSec - 1 /\ TicksPerSec \in Nat
      BY ClockAssumption DEF Timespec
<1>2. TimespecAdd(a, b) \in Timespec
      BY <1>1 DEF TimespecAdd, Timespec
<1> DEFINE x == a.sec * TicksPerSec
           y == b.sec * TicksPerSec
<1>3. /\ x \in Nat /\ y \in Nat /\ a.sec + b.sec \in Nat
      /\ (a.sec + b.sec) * TicksPerSec = x + y
      BY <1>1, MulFacts
<1>4. (a.sec + b.sec + 1) * TicksPerSec = x + y + TicksPerSec
      BY <1>1, <1>3, MulFacts
<1>5. Time(a) = x + a.nsec /\ Time(b) = y + b.nsec
      BY DEF Time
<1> HIDE DEF x, y
<1>6. CASE a.nsec + b.nsec >= TicksPerSec
      <2>1. Time(TimespecAdd(a, b)) =
                (a.sec + b.sec + 1) * TicksPerSec + (a.nsec + b.nsec - TicksPerSec)
            <3>1. TimespecAdd(a, b) =
                      [sec |-> a.sec + b.sec + 1, nsec |-> a.nsec + b.nsec - TicksPerSec]
                  BY <1>1, <1>6 DEF TimespecAdd
            <3>2. QED
                  BY <3>1 DEF Time
      <2>2. QED
            BY <1>1, <1>2, <1>3, <1>4, <1>5, <2>1
<1>7. CASE ~(a.nsec + b.nsec >= TicksPerSec)
      <2>1. Time(TimespecAdd(a, b)) = (a.sec + b.sec) * TicksPerSec + (a.nsec + b.nsec)
            BY <1>7 DEF TimespecAdd, Time
      <2>2. QED
            BY <1>1, <1>2, <1>3, <1>5, <2>1
<1>8. QED
      BY <1>6, <1>7

(* time_tick() moves the clock on.                                         *)
LEMMA TickFacts ==
    ASSUME NEW t \in Timespec
    PROVE  /\ Ticked(t) \in Timespec
           /\ \A a \in Timespec : NotAfter(a, t) => NotAfter(a, Ticked(t))
<1>1. t.sec \in Nat /\ t.nsec \in 0 .. TicksPerSec - 1 /\ TicksPerSec \in Nat \ {0}
      BY ClockAssumption DEF Timespec
<1>2. CASE t.nsec + 1 >= TicksPerSec
      BY <1>1, <1>2 DEF Ticked, Timespec, NotAfter
<1>3. CASE ~(t.nsec + 1 >= TicksPerSec)
      <2>1. Ticked(t).sec = t.sec /\ Ticked(t).nsec = t.nsec + 1 /\ Ticked(t) \in Timespec
            BY <1>1, <1>3 DEF Ticked, Timespec
      <2>2. QED
            BY <1>1, <2>1 DEF NotAfter, Timespec
<1>4. QED
      BY <1>2, <1>3

(* Once the deadline is not after the clock, nothing remains.              *)
LEMMA NothingRemains ==
    ASSUME NEW a \in Timespec, NEW b \in Timespec, NotAfter(a, b)
    PROVE  TimespecSaturatingSub(a, b) = [sec |-> 0, nsec |-> 0]
<1>1. a.sec \in Nat /\ b.sec \in Nat /\ a.nsec \in 0 .. TicksPerSec - 1
      /\ b.nsec \in 0 .. TicksPerSec - 1 /\ TicksPerSec \in Nat
      BY ClockAssumption DEF Timespec
<1>2. QED
      BY <1>1 DEF TimespecSaturatingSub, NotAfter
-----------------------------------------------------------------------------
(* The timer may come between the halves of a copy.                        *)
LEMMA PitHandlerKeeps ==
    ASSUME ClockInv, PitHandler
    PROVE  ClockInv'
<1>1. now \in Timespec /\ now' = Ticked(now)
      BY DEF ClockInv, ClockTypeOK, PitHandler
<1>2. now' \in Timespec /\ \A a \in Timespec : NotAfter(a, now) => NotAfter(a, now')
      BY <1>1, TickFacts
<1>3. ClockTypeOK'
      BY <1>2 DEF ClockInv, ClockTypeOK, PitHandler
<1> SUFFICES ASSUME NEW z \in Sleeper
             PROVE  /\ Reading(z)' => HalfIsPast(z)'
                    /\ zState'[z] \in {"asleep", "woken"} => DeadlineIsRight(z)'
                    /\ zState'[z] = "woken" => NotAfter(deadline'[z], now')
      BY <1>3 DEF ClockInv
<1>4. /\ zState' = zState /\ half' = half /\ request' = request
      /\ deadline' = deadline /\ began' = began
      /\ Reading(z) => torn'[z] = TRUE
      /\ ~Reading(z) => torn'[z] = torn[z]
      BY DEF PitHandler, Reading, ClockInv, ClockTypeOK
<1>5. half[z] \in Timespec /\ deadline[z] \in Timespec
      BY DEF ClockInv, ClockTypeOK
<1>6. Reading(z)' => HalfIsPast(z)'
      BY <1>2, <1>4, <1>5 DEF ClockInv, Reading, HalfIsPast, Time
<1>7. zState'[z] \in {"asleep", "woken"} => DeadlineIsRight(z)'
      BY <1>4 DEF ClockInv, Reading, DeadlineIsRight, Time
<1>8. QED
      BY <1>2, <1>4, <1>5, <1>6, <1>7 DEF ClockInv

LEMMA SleepBeginKeeps ==
    ASSUME ClockInv, NEW z \in Sleeper, SleepBegin(z)
    PROVE  ClockInv'
<1>1. PICK r \in SleepRequests, h \in {"sec_read", "nsec_read"} :
          /\ request' = [request EXCEPT ![z] = r]
          /\ zState' = [zState EXCEPT ![z] = h]
      BY DEF SleepBegin
<1>2. r \in Timespec /\ now \in Timespec
      BY SleepRequestsAssumption DEF Timespec, ClockInv, ClockTypeOK
<1>3. Time(now) \in Nat
      BY <1>2, TimeFacts
<1>4. ClockTypeOK'
      BY <1>1, <1>2, <1>3 DEF ClockInv, ClockTypeOK, SleepBegin
<1>5. /\ now' = now /\ deadline' = deadline
      /\ \A y \in Sleeper \ {z} : /\ zState'[y] = zState[y] /\ half'[y] = half[y]
                                  /\ request'[y] = request[y] /\ began'[y] = began[y]
                                  /\ torn'[y] = torn[y]
      /\ half'[z] = now /\ began'[z] = Time(now) /\ zState'[z] = h
      BY <1>1 DEF ClockInv, ClockTypeOK, SleepBegin
<1>6. NotAfter(now, now)
      BY <1>2 DEF NotAfter, Timespec
<1>7. HalfIsPast(z)'
      BY <1>5, <1>6 DEF HalfIsPast, Time
<1>8. QED
      BY <1>4, <1>5, <1>7 DEF ClockInv, Reading, HalfIsPast, DeadlineIsRight, Time

(* However the copy was torn, the deadline is less than a second short.    *)
LEMMA SleepDeadlineKeeps ==
    ASSUME ClockInv, NEW z \in Sleeper, SleepDeadline(z)
    PROVE  ClockInv'
<1> DEFINE copy == IF zState[z] = "sec_read" THEN [sec |-> half[z].sec, nsec |-> now.nsec]
                   ELSE [sec |-> now.sec, nsec |-> half[z].nsec]
           new == TimespecAdd(copy, request[z])
<1>1. /\ half[z] \in Timespec /\ now \in Timespec /\ request[z] \in Timespec
      /\ HalfIsPast(z) /\ torn[z] \in BOOLEAN /\ began[z] \in Nat
      BY DEF ClockInv, ClockTypeOK, SleepDeadline, Reading
<1>2. copy \in Timespec
      BY <1>1 DEF Timespec
<1>3. new \in Timespec /\ Time(new) = Time(copy) + Time(request[z])
      BY <1>1, <1>2, AddFacts
<1>4. torn[z] = FALSE => Time(copy) = began[z]
      <2> SUFFICES ASSUME torn[z] = FALSE PROVE Time(copy) = began[z]
            OBVIOUS
      <2>1. half[z] = now
            BY <1>1 DEF HalfIsPast
      <2>2. copy.sec = now.sec /\ copy.nsec = now.nsec
            BY <2>1
      <2>3. Time(copy) = Time(now)
            BY <2>2 DEF Time
      <2>4. QED
            BY <1>1, <2>1, <2>3 DEF HalfIsPast
<1>5. Time(copy) + TicksPerSec >= began[z]
      <2>1. CASE zState[z] = "sec_read"
            <3>1. copy.sec = half[z].sec /\ copy.nsec = now.nsec
                  BY <2>1
            <3>2. Time(copy) = half[z].sec * TicksPerSec + now.nsec
                  BY <3>1 DEF Time
            <3>3. began[z] = half[z].sec * TicksPerSec + half[z].nsec
                  BY <1>1 DEF HalfIsPast, Time
            <3>4. half[z].sec * TicksPerSec \in Nat
                  BY <1>1, ClockAssumption, MulFacts DEF Timespec
            <3>5. half[z].nsec \in 0 .. TicksPerSec - 1 /\ now.nsec \in 0 .. TicksPerSec - 1
                  BY <1>1 DEF Timespec
            <3>6. QED
                  BY <3>2, <3>3, <3>4, <3>5, ClockAssumption
      <2>2. CASE zState[z] # "sec_read"
            <3>1. copy.sec = now.sec /\ copy.nsec = half[z].nsec
                  BY <2>2
            <3>2. half[z].sec <= now.sec
                  BY <1>1 DEF HalfIsPast, NotAfter, Timespec
            <3> HIDE DEF copy
            <3>3. Time(half[z]) <= Time(copy) /\ Time(copy) \in Nat
                  BY <1>1, <1>2, <3>1, <3>2, TimeFacts
            <3>4. QED
                  BY <1>1, <3>3, ClockAssumption DEF HalfIsPast
      <2>3. QED
            BY <2>1, <2>2
<1>6. deadline' = [deadline EXCEPT ![z] = new] /\ zState' = [zState EXCEPT ![z] = "asleep"]
      BY DEF SleepDeadline
<1>7. Time(copy) \in Nat /\ Time(request[z]) \in Nat
      BY <1>1, <1>2, TimeFacts
<1> HIDE DEF new, copy
<1>8. ClockTypeOK'
      BY <1>3, <1>6 DEF ClockInv, ClockTypeOK, SleepDeadline
<1>9. /\ now' = now /\ half' = half /\ request' = request /\ began' = began /\ torn' = torn
      /\ deadline'[z] = new /\ zState'[z] = "asleep"
      /\ \A y \in Sleeper \ {z} : zState'[y] = zState[y] /\ deadline'[y] = deadline[y]
      BY <1>6 DEF ClockInv, ClockTypeOK, SleepDeadline
<1>10. /\ torn[z] = FALSE => Time(new) >= began[z] + Time(request[z])
       /\ Time(new) + TicksPerSec >= began[z] + Time(request[z])
      BY <1>1, <1>3, <1>4, <1>5, <1>7, ClockAssumption
<1>11. DeadlineIsRight(z)'
      BY <1>9, <1>10 DEF DeadlineIsRight, Time
<1>12. QED
      BY <1>8, <1>9, <1>11 DEF ClockInv, Reading, HalfIsPast, DeadlineIsRight, Time

LEMMA SleepAbsoluteKeeps ==
    ASSUME ClockInv, NEW z \in Sleeper, SleepAbsolute(z)
    PROVE  ClockInv'
<1>1. PICK r \in SleepRequests : /\ request' = [request EXCEPT ![z] = r]
                                 /\ deadline' = [deadline EXCEPT ![z] = r]
      BY DEF SleepAbsolute
<1>2. r \in Timespec
      BY SleepRequestsAssumption DEF Timespec
<1>3. Time(r) \in Nat
      BY <1>2, TimeFacts
<1>4. ClockTypeOK'
      BY <1>1, <1>2 DEF ClockInv, ClockTypeOK, SleepAbsolute
<1>5. /\ now' = now /\ half' = half
      /\ request'[z] = r /\ deadline'[z] = r /\ began'[z] = 0 /\ zState'[z] = "asleep"
      /\ \A y \in Sleeper \ {z} : /\ zState'[y] = zState[y] /\ deadline'[y] = deadline[y]
                                  /\ request'[y] = request[y] /\ began'[y] = began[y]
                                  /\ torn'[y] = torn[y]
      BY <1>1 DEF ClockInv, ClockTypeOK, SleepAbsolute
<1>6. DeadlineIsRight(z)'
      <2>1. Time(deadline'[z]) = Time(r) /\ Time(request'[z]) = Time(r)
            BY <1>5
      <2>2. Time(deadline[z])' = Time(r) /\ Time(request[z])' = Time(r)
            BY <2>1 DEF Time
      <2>3. QED
            BY <1>3, <1>5, <2>2, ClockAssumption DEF DeadlineIsRight
<1>7. QED
      BY <1>4, <1>5, <1>6 DEF ClockInv, Reading, HalfIsPast, DeadlineIsRight, Time

LEMMA WakeUpKeeps ==
    ASSUME ClockInv, NEW z \in Sleeper, WakeUp(z) \/ SleepReturns(z)
    PROVE  ClockInv'
<1>1. PICK s \in {"woken", "awake"} : zState' = [zState EXCEPT ![z] = s]
      BY DEF WakeUp, SleepReturns
<1>2. /\ UNCHANGED <<now, half, request, deadline, began, torn>>
      /\ s = "woken" => zState[z] = "asleep" /\ SleepIsOver(z)
      BY <1>1 DEF WakeUp, SleepReturns, ClockInv, ClockTypeOK
<1>3. s = "woken" => NotAfter(deadline[z], now)
      BY <1>2 DEF SleepIsOver, NotAfter, ClockInv, ClockTypeOK, Timespec
<1>4. ClockTypeOK'
      BY <1>1, <1>2 DEF ClockInv, ClockTypeOK
<1>5. zState'[z] = s /\ \A y \in Sleeper \ {z} : zState'[y] = zState[y]
      BY <1>1 DEF ClockInv, ClockTypeOK
<1>6. QED
      BY <1>2, <1>3, <1>4, <1>5 DEF ClockInv, Reading, HalfIsPast, DeadlineIsRight, Time

-----------------------------------------------------------------------------
(* A sleeper wakes no earlier than it asked for, or than a second before   *)
(* when the timer came between the halves of time_now(), and what it is    *)
(* told remains is zero (clock.c:57, 66, 77, time.c).                      *)
THEOREM SleepersNeverWakeEarly == ClockSpec => []NeverWakesEarly
<1>1. ClockInit => ClockInv
      <2> SUFFICES ASSUME ClockInit PROVE ClockInv
            OBVIOUS
      <2>1. now \in Timespec
            BY ClockAssumption DEF ClockInit, Timespec
      <2>2. QED
            BY <2>1 DEF ClockInit, ClockInv, ClockTypeOK, Reading
<1>2. ClockInv /\ [ClockNext]_clockVars => ClockInv'
      <2> SUFFICES ASSUME ClockInv, [ClockNext]_clockVars PROVE ClockInv'
            OBVIOUS
      <2>1. CASE UNCHANGED clockVars
            BY <2>1 DEF clockVars, ClockInv, ClockTypeOK, Reading, HalfIsPast,
               DeadlineIsRight, Time
      <2>2. QED
            BY <2>1, PitHandlerKeeps, SleepBeginKeeps, SleepDeadlineKeeps,
               SleepAbsoluteKeeps, WakeUpKeeps DEF ClockNext
<1>3. ClockInv => NeverWakesEarly
      <2> SUFFICES ASSUME ClockInv, NEW z \in Sleeper, zState[z] = "woken"
                   PROVE  /\ ~torn[z] => Time(now) >= began[z] + Time(request[z])
                          /\ Time(now) + TicksPerSec >= began[z] + Time(request[z])
                          /\ TimespecSaturatingSub(deadline[z], now) = [sec |-> 0, nsec |-> 0]
            BY DEF NeverWakesEarly
      <2>1. /\ now \in Timespec /\ deadline[z] \in Timespec /\ request[z] \in Timespec
            /\ began[z] \in Nat /\ torn[z] \in BOOLEAN
            /\ NotAfter(deadline[z], now) /\ DeadlineIsRight(z)
            BY DEF ClockInv, ClockTypeOK
      <2>2. Time(deadline[z]) <= Time(now)
            BY <2>1, TimeFacts
      <2>3. Time(deadline[z]) \in Nat /\ Time(request[z]) \in Nat /\ Time(now) \in Nat
            BY <2>1, TimeFacts
      <2>4. TimespecSaturatingSub(deadline[z], now) = [sec |-> 0, nsec |-> 0]
            BY <2>1, NothingRemains
      <2>5. ~torn[z] => torn[z] = FALSE
            BY <2>1
      <2>6. QED
            BY <2>1, <2>2, <2>3, <2>4, <2>5, ClockAssumption DEF DeadlineIsRight
<1>4. QED
      BY <1>1, <1>2, <1>3, PTL DEF ClockSpec


-----------------------------------------------------------------------------
(* The interrupt lines.                                                    *)

FrameKind == {"irq", "irq0", "syscall", "crash", "die", "cli", "yield"}
Frame == [kind : FrameKind, flag : BOOLEAN]

InterruptsTypeOK ==
    /\ interruptFlag \in BOOLEAN
    /\ running \in IrqThread
    /\ kernelStack \in [IrqThread -> Seq(Frame)]
    /\ threadState \in [IrqThread -> {"runnable", "running", "dead"}]

(* Both controllers get the command before the handler does anything else, *)
(* so no line is in service between two steps.                             *)
NothingInService == pic = [request |-> pic.request, first |-> {}, second |-> {}]

(* Only push_cli() and scheduler_yield() save a flag that may be clear,    *)
(* and neither is called from userland: the outermost frame of a thread is *)
(* another one, and every other one goes back to enabled interrupts.       *)
CliIsNested(s) ==
    /\ Len(s) > 0 => s[1].kind \notin {"cli", "yield"}
    /\ \A i \in 1 .. Len(s) : s[i].kind \notin {"cli", "yield"} => s[i].flag = TRUE

(* Who has run and lost the processor is inside a scheduler_yield() called *)
(* by another frame; who has not run has no frame.                         *)
Suspended(t) == Len(kernelStack[t]) > 1 /\ Last(kernelStack[t]).kind = "yield"
ThreadsAreSuspended ==
    /\ threadState[running] = "running"
    /\ \A t \in IrqThread : threadState[t] = "runnable" => kernelStack[t] = << >>
    /\ \A t \in IrqThread \ {running} : threadState[t] = "running" => Suspended(t)

LinesInv == /\ InterruptsTypeOK /\ NothingInService
            /\ \A t \in IrqThread : CliIsNested(kernelStack[t])
            /\ ThreadsAreSuspended
            /\ kernelStack[running] = << >> => interruptFlag = TRUE

-----------------------------------------------------------------------------
(* Leaving the innermost frame leaves the others as they are.              *)
LEMMA FrontFacts ==
    ASSUME NEW s \in Seq(Frame), s # << >>
    PROVE  /\ Front(s) \in Seq(Frame) /\ Len(Front(s)) = Len(s) - 1
           /\ \A i \in 1 .. Len(s) - 1 : Front(s)[i] = s[i]
           /\ Last(s) = s[Len(s)] /\ Last(s) \in Frame
           /\ Len(s) \in Nat \ {0}
<1>1. Len(s) \in Nat \ {0} /\ s \in [1 .. Len(s) -> Frame]
      OBVIOUS
<1>2. Last(s) = s[Len(s)] /\ Last(s) \in Frame
      BY <1>1 DEF Last
<1>3. \A i \in 1 .. Len(s) - 1 : s[i] \in Frame
      BY <1>1
<1>4. Front(s) = [i \in 1 .. Len(s) - 1 |-> s[i]]
      BY <1>1 DEF Front
<1>5. QED
      BY <1>1, <1>2, <1>3, <1>4

(* The frames below the innermost one stay nested.                         *)
LEMMA FrontIsNested ==
    ASSUME NEW s \in Seq(Frame), s # << >>, CliIsNested(s)
    PROVE  CliIsNested(Front(s))
<1>1. Front(s) \in Seq(Frame) /\ Len(Front(s)) = Len(s) - 1 /\ Len(s) \in Nat
      BY FrontFacts
<1>2. \A i \in 1 .. Len(Front(s)) : Front(s)[i] = s[i] /\ i \in 1 .. Len(s)
      BY FrontFacts
<1>3. QED
      BY <1>1, <1>2 DEF CliIsNested

(* So they do under a new frame that saves what it must.                   *)
LEMMA AppendIsNested ==
    ASSUME NEW s \in Seq(Frame), CliIsNested(s), NEW f \in Frame,
           f.kind \in {"cli", "yield"} => s # << >>,
           f.kind \notin {"cli", "yield"} => f.flag = TRUE
    PROVE  /\ CliIsNested(Append(s, f)) /\ Append(s, f) \in Seq(Frame)
           /\ Append(s, f) # << >> /\ Last(Append(s, f)) = f
           /\ Len(Append(s, f)) = Len(s) + 1
BY DEF CliIsNested, Last
(* A frame entered by interrupts, system calls, exceptions and push_cli()  *)
(* is nested in the ones of the thread that runs.                          *)
LEMMA EnterFacts ==
    ASSUME LinesInv, NEW k \in FrameKind, EnterFrame(k), k # "yield",
           k = "cli" => kernelStack[running] # << >>,
           k # "cli" => interruptFlag = TRUE,
           running' = running, threadState' = threadState, NothingInService', interruptFlag' \in BOOLEAN
    PROVE  LinesInv'
<1>1. SavedFlag(k) \in Frame /\ SavedFlag(k).kind = k /\ SavedFlag(k).flag = interruptFlag
      BY DEF SavedFlag, Frame, LinesInv, InterruptsTypeOK
<1>2. kernelStack[running] \in Seq(Frame) /\ CliIsNested(kernelStack[running])
      BY DEF LinesInv, InterruptsTypeOK
<1> DEFINE new == Append(kernelStack[running], SavedFlag(k))
<1>3. /\ CliIsNested(new) /\ new \in Seq(Frame) /\ new # << >>
      BY <1>1, <1>2, AppendIsNested
<1> HIDE DEF new
<1>4. kernelStack' = [kernelStack EXCEPT ![running] = new]
      BY DEF EnterFrame, new
<1>5. running \in IrqThread /\ kernelStack'[running] = new
      BY <1>4 DEF LinesInv, InterruptsTypeOK
<1>6. \A t \in IrqThread \ {running} : kernelStack'[t] = kernelStack[t]
      BY <1>4 DEF LinesInv, InterruptsTypeOK
<1>7. InterruptsTypeOK'
      BY <1>3, <1>4 DEF LinesInv, InterruptsTypeOK
<1>8. \A t \in IrqThread : CliIsNested(kernelStack'[t])
      BY <1>3, <1>5, <1>6 DEF LinesInv
<1>9. ThreadsAreSuspended'
      BY <1>5, <1>6 DEF LinesInv, ThreadsAreSuspended, Suspended
<1>10. QED
      BY <1>3, <1>5, <1>7, <1>8, <1>9 DEF LinesInv

(* What iret and pop_cli() go back to.                                     *)
LEMMA LeaveFacts ==
    ASSUME LinesInv, Mode \in {"irq", "syscall", "cli"}, LeaveFrame,
           running' = running, threadState' = threadState, pic' = pic
    PROVE  LinesInv'
<1> DEFINE old == kernelStack[running]
<1>1. old \in Seq(Frame) /\ CliIsNested(old) /\ running \in IrqThread
      BY DEF LinesInv, InterruptsTypeOK
<1>2. old # << >> /\ Last(old).kind \in {"irq", "syscall", "cli"}
      BY DEF Mode, StackOf
<1> HIDE DEF old
<1>3. kernelStack' = [kernelStack EXCEPT ![running] = Front(old)] /\ interruptFlag' = Last(old).flag
      BY DEF LeaveFrame, StackOf, old
<1>4. Front(old) \in Seq(Frame) /\ CliIsNested(Front(old)) /\ Last(old) \in Frame
      BY <1>1, <1>2, FrontFacts, FrontIsNested
<1>5. kernelStack'[running] = Front(old)
      BY <1>1, <1>3 DEF LinesInv, InterruptsTypeOK
<1>6. \A t \in IrqThread \ {running} : kernelStack'[t] = kernelStack[t]
      BY <1>3 DEF LinesInv, InterruptsTypeOK
<1>7. InterruptsTypeOK'
      BY <1>3, <1>4 DEF LinesInv, InterruptsTypeOK, Frame
<1>8. \A t \in IrqThread : CliIsNested(kernelStack'[t])
      BY <1>4, <1>5, <1>6 DEF LinesInv
<1>9. ThreadsAreSuspended'
      BY <1>5, <1>6 DEF LinesInv, ThreadsAreSuspended, Suspended
<1>10. Front(old) = << >> => interruptFlag' = TRUE
      <2> SUFFICES ASSUME Front(old) = << >> PROVE interruptFlag' = TRUE
            OBVIOUS
      <2>1. /\ Len(Front(old)) = Len(old) - 1 /\ Last(old) = old[Len(old)]
            /\ Len(old) \in Nat
            BY <1>1, <1>2, FrontFacts
      <2>2. Len(Front(old)) = 0
            OBVIOUS
      <2>3. Len(old) = 1
            BY <2>1, <2>2
      <2>4. old[1].flag = TRUE
            BY <1>1, <2>3 DEF CliIsNested
      <2>5. QED
            BY <1>3, <2>1, <2>3, <2>4
<1>11. QED
      BY <1>5, <1>7, <1>8, <1>9, <1>10 DEF LinesInv, NothingInService

(* A switch from a state in which every thread that has run is suspended,  *)
(* the one that gives the processor up included.                           *)
LEMMA SwitchFacts ==
    ASSUME LinesInv, NEW stacks \in [IrqThread -> Seq(Frame)],
           NEW states \in [IrqThread -> {"runnable", "running", "dead"}],
           \A u \in IrqThread : CliIsNested(stacks[u]),
           \A u \in IrqThread : states[u] = "runnable" => stacks[u] = << >>,
           \A u \in IrqThread : states[u] = "running" =>
               Len(stacks[u]) > 1 /\ Last(stacks[u]).kind = "yield",
           NEW t \in Switchable(states), SwitchTo(t, stacks, states), pic' = pic
    PROVE  LinesInv'
<1>1. t \in IrqThread /\ running' = t /\ states[t] # "dead"
      BY DEF Switchable, SwitchTo
<1>2. CASE states[t] = "runnable"
      <2>1. /\ threadState' = [states EXCEPT ![t] = "running"]
            /\ interruptFlag' = TRUE /\ kernelStack' = stacks
            BY <1>2 DEF SwitchTo
      <2>2. InterruptsTypeOK'
            BY <1>1, <2>1 DEF InterruptsTypeOK
      <2>3. ThreadsAreSuspended'
            BY <1>1, <2>1 DEF ThreadsAreSuspended, Suspended
      <2>4. QED
            BY <2>1, <2>2, <2>3 DEF LinesInv, NothingInService
<1>3. CASE states[t] = "running"
      <2>1. /\ threadState' = states /\ interruptFlag' = Last(stacks[t]).flag
            /\ kernelStack' = [stacks EXCEPT ![t] = Front(stacks[t])]
            BY <1>3 DEF SwitchTo
      <2>2. stacks[t] \in Seq(Frame) /\ Len(stacks[t]) > 1 /\ stacks[t] # << >>
            BY <1>1, <1>3
      <2>3. /\ Front(stacks[t]) \in Seq(Frame) /\ Front(stacks[t]) # << >>
            /\ CliIsNested(Front(stacks[t])) /\ Last(stacks[t]) \in Frame
            BY <1>1, <2>2, FrontFacts, FrontIsNested
      <2>4. InterruptsTypeOK'
            BY <1>1, <2>1, <2>3 DEF InterruptsTypeOK, Frame
      <2>5. kernelStack'[t] = Front(stacks[t]) /\ \A u \in IrqThread \ {t} : kernelStack'[u] = stacks[u]
            BY <1>1, <2>1
      <2>6. ThreadsAreSuspended'
            BY <1>1, <1>3, <2>1, <2>5 DEF ThreadsAreSuspended, Suspended
      <2>7. \A u \in IrqThread : CliIsNested(kernelStack'[u])
            BY <2>3, <2>5
      <2>8. QED
            BY <1>1, <2>3, <2>4, <2>5, <2>6, <2>7 DEF LinesInv, NothingInService
<1>4. QED
      BY <1>1, <1>2, <1>3

-----------------------------------------------------------------------------
LEMMA IrqHandlerKeeps ==
    ASSUME LinesInv, NEW n \in IrqLine, IrqHandler(n)
    PROVE  LinesInv'
<1>1. pic = [request |-> pic.request, first |-> {}, second |-> {}]
      BY DEF LinesInv, NothingInService
<1>2. \A x : Eoi({x}) = {}
      BY DEF Eoi, Min
<1>3. Eoi({}) = {}
      BY DEF Eoi
<1>4. Acknowledged(n).first = {Pin(n)} /\ Acknowledged(n).second \in {{}, {n}}
      BY <1>1 DEF Acknowledged
<1>5. pic' = [request |-> Acknowledged(n).request, first |-> Eoi(Acknowledged(n).first),
              second |-> Eoi(Acknowledged(n).second)]
      BY DEF IrqHandler, EoiInHandler, Acknowledged
<1>6. Eoi(Acknowledged(n).first) = {} /\ Eoi(Acknowledged(n).second) = {}
      BY <1>2, <1>3, <1>4
<1>7. NothingInService'
      BY <1>5, <1>6 DEF NothingInService
<1>8. PICK k \in {"irq0", "irq"} : EnterFrame(k)
      BY DEF IrqHandler
<1>9. QED
      BY <1>7, <1>8, EnterFacts DEF IrqHandler, FrameKind

LEMMA SchedulerYieldKeeps ==
    ASSUME LinesInv, SchedulerYield
    PROVE  LinesInv'
<1> DEFINE old == kernelStack[running]
           low == IF Mode = "irq0" THEN Append(Front(old), [Last(old) EXCEPT !.kind = "irq"])
                  ELSE old
           new == IF IsIdle THEN << >> ELSE Append(low, SavedFlag("yield"))
           stacks == [kernelStack EXCEPT ![running] = new]
           states == IF IsIdle THEN [threadState EXCEPT ![running] = "runnable"]
                     ELSE threadState
<1>1. PICK t \in Switchable(states) : SwitchTo(t, stacks, states)
      BY DEF SchedulerYield, StackOf
<1>2. /\ old \in Seq(Frame) /\ CliIsNested(old) /\ running \in IrqThread
      /\ threadState[running] = "running"
      /\ threadState \in [IrqThread -> {"runnable", "running", "dead"}]
      /\ kernelStack \in [IrqThread -> Seq(Frame)]
      BY DEF LinesInv, InterruptsTypeOK, ThreadsAreSuspended
<1>3. SavedFlag("yield") \in Frame /\ SavedFlag("yield").kind = "yield"
      BY DEF SavedFlag, Frame, FrameKind, LinesInv, InterruptsTypeOK
<1>4. ~IsIdle => old # << >> /\ low \in Seq(Frame) /\ CliIsNested(low) /\ low # << >>
      <2> SUFFICES ASSUME ~IsIdle
                   PROVE  old # << >> /\ low \in Seq(Frame) /\ CliIsNested(low) /\ low # << >>
            OBVIOUS
      <2>1. old # << >>
            BY DEF SchedulerYield, Mode, StackOf
      <2>2. CASE Mode = "irq0"
            <3>1. Last(old).kind = "irq0"
                  BY <2>1, <2>2 DEF Mode, StackOf
            <3>2. Last(old) \in Frame /\ Last(old) = old[Len(old)] /\ Len(old) \in Nat \ {0}
                  BY <1>2, <2>1, FrontFacts
            <3>3. Last(old).flag = TRUE
                  BY <1>2, <3>1, <3>2 DEF CliIsNested
            <3>4. Front(old) \in Seq(Frame) /\ CliIsNested(Front(old))
                  BY <1>2, <2>1, FrontFacts, FrontIsNested
            <3> DEFINE f == [Last(old) EXCEPT !.kind = "irq"]
            <3>5. f.kind = "irq" /\ f.flag = TRUE /\ f \in Frame
                  BY <3>2, <3>3 DEF Frame, FrameKind
            <3>6. low = Append(Front(old), f)
                  BY <2>2
            <3> HIDE DEF f, low
            <3>7. QED
                  BY <2>1, <3>4, <3>5, <3>6, AppendIsNested
      <2>3. CASE Mode # "irq0"
            BY <1>2, <2>1, <2>3
      <2>4. QED
            BY <2>2, <2>3
<1> HIDE DEF low
<1>5. /\ new \in Seq(Frame) /\ CliIsNested(new)
      /\ ~IsIdle => Len(new) > 1 /\ Last(new).kind = "yield"
      <2>1. CASE IsIdle
            BY <2>1 DEF CliIsNested
      <2>2. CASE ~IsIdle
            <3>1. low \in Seq(Frame) /\ CliIsNested(low) /\ low # << >> /\ Len(low) \in Nat \ {0}
                  BY <1>4, <2>2
            <3>2. new = Append(low, SavedFlag("yield"))
                  BY <2>2
            <3> DEFINE f == SavedFlag("yield")
            <3>3. f \in Frame /\ f.kind = "yield" /\ new = Append(low, f)
                  BY <1>3, <3>2
            <3> HIDE DEF new, f
            <3>4. /\ CliIsNested(new) /\ new \in Seq(Frame) /\ Last(new) = f
                  /\ Len(new) = Len(low) + 1
                  BY <3>1, <3>3, AppendIsNested
            <3>5. QED
                  BY <3>1, <3>3, <3>4
      <2>3. QED
            BY <2>1, <2>2
<1>6. /\ stacks \in [IrqThread -> Seq(Frame)] /\ stacks[running] = new
      /\ \A u \in IrqThread \ {running} : stacks[u] = kernelStack[u]
      BY <1>2, <1>5
<1>7. /\ states \in [IrqThread -> {"runnable", "running", "dead"}]
      /\ states[running] = (IF IsIdle THEN "runnable" ELSE "running")
      /\ \A u \in IrqThread \ {running} : states[u] = threadState[u]
      BY <1>2
<1>8. IsIdle => new = << >>
      OBVIOUS
<1> HIDE DEF new, stacks, states
<1>9. \A u \in IrqThread : CliIsNested(stacks[u])
      BY <1>5, <1>6 DEF LinesInv
<1>10. \A u \in IrqThread : states[u] = "runnable" => stacks[u] = << >>
      BY <1>6, <1>7, <1>8 DEF LinesInv, ThreadsAreSuspended
<1>11. \A u \in IrqThread : states[u] = "running" =>
          Len(stacks[u]) > 1 /\ Last(stacks[u]).kind = "yield"
      BY <1>5, <1>6, <1>7 DEF LinesInv, ThreadsAreSuspended, Suspended
<1>12. QED
      BY <1>1, <1>6, <1>7, <1>9, <1>10, <1>11, SwitchFacts DEF SchedulerYield

LEMMA DieYieldsKeeps ==
    ASSUME LinesInv, DieYields
    PROVE  LinesInv'
<1> DEFINE stacks == [kernelStack EXCEPT ![running] = << >>]
           states == [threadState EXCEPT ![running] = "dead"]
<1>1. PICK t \in Switchable(states) : SwitchTo(t, stacks, states)
      BY DEF DieYields
<1>2. /\ running \in IrqThread
      /\ threadState \in [IrqThread -> {"runnable", "running", "dead"}]
      /\ kernelStack \in [IrqThread -> Seq(Frame)]
      BY DEF LinesInv, InterruptsTypeOK
<1>3. /\ stacks \in [IrqThread -> Seq(Frame)] /\ stacks[running] = << >>
      /\ \A u \in IrqThread \ {running} : stacks[u] = kernelStack[u]
      /\ states \in [IrqThread -> {"runnable", "running", "dead"}] /\ states[running] = "dead"
      /\ \A u \in IrqThread \ {running} : states[u] = threadState[u]
      BY <1>2
<1> HIDE DEF stacks, states
<1>4. CliIsNested(<< >>)
      BY DEF CliIsNested
<1>5. \A u \in IrqThread : CliIsNested(stacks[u])
      BY <1>3, <1>4 DEF LinesInv
<1>6. \A u \in IrqThread : states[u] = "runnable" => stacks[u] = << >>
      BY <1>3 DEF LinesInv, ThreadsAreSuspended
<1>7. \A u \in IrqThread : states[u] = "running" =>
          Len(stacks[u]) > 1 /\ Last(stacks[u]).kind = "yield"
      BY <1>3 DEF LinesInv, ThreadsAreSuspended, Suspended
<1>8. QED
      BY <1>1, <1>3, <1>5, <1>6, <1>7, SwitchFacts DEF DieYields

LEMMA DieStartsKeeps ==
    ASSUME LinesInv, DieStarts
    PROVE  LinesInv'
<1> DEFINE new == <<[kind |-> "die", flag |-> TRUE]>>
<1>1. new \in Seq(Frame) /\ CliIsNested(new) /\ new # << >>
      BY DEF CliIsNested, Frame, FrameKind
<1>2. kernelStack' = [kernelStack EXCEPT ![running] = new]
      BY DEF DieStarts
<1> HIDE DEF new
<1>3. /\ running \in IrqThread /\ kernelStack'[running] = new
      /\ \A t \in IrqThread \ {running} : kernelStack'[t] = kernelStack[t]
      BY <1>2 DEF LinesInv, InterruptsTypeOK
<1>4. InterruptsTypeOK'
      BY <1>1, <1>2 DEF LinesInv, InterruptsTypeOK, DieStarts
<1>5. ThreadsAreSuspended'
      BY <1>3 DEF LinesInv, ThreadsAreSuspended, Suspended, DieStarts
<1>6. QED
      BY <1>1, <1>3, <1>4, <1>5 DEF LinesInv, NothingInService, DieStarts

-----------------------------------------------------------------------------
(* Whenever the processor takes interrupts no line is in service at a      *)
(* controller, and userland and the idle loop run with interrupts enabled, *)
(* for any set of threads and lines (irq.c:109, scheduler.c:144, 218).     *)
THEOREM InterruptLinesStayOpen == InterruptsSpec => []LinesStayOpen
<1>1. InterruptsInit => LinesInv
      BY InterruptsAssumption
      DEF InterruptsInit, LinesInv, InterruptsTypeOK, NothingInService, CliIsNested,
          ThreadsAreSuspended, Frame
<1>2. LinesInv /\ [InterruptsNext]_interruptVars => LinesInv'
      <2> SUFFICES ASSUME LinesInv, [InterruptsNext]_interruptVars PROVE LinesInv'
            OBVIOUS
      <2>1. CASE UNCHANGED interruptVars
            BY <2>1 DEF interruptVars, LinesInv, InterruptsTypeOK, NothingInService,
               ThreadsAreSuspended, Suspended
      <2>2. ASSUME NEW n \in IrqLine, RaiseIrq(n) PROVE LinesInv'
            <3>1. pic = [request |-> pic.request, first |-> {}, second |-> {}]
                  BY DEF LinesInv, NothingInService
            <3>2. pic' = [request |-> pic.request \cup {n}, first |-> {}, second |-> {}]
                  BY <2>2, <3>1 DEF RaiseIrq
            <3>3. NothingInService'
                  BY <3>2 DEF NothingInService
            <3>4. QED
                  BY <2>2, <3>3 DEF RaiseIrq, LinesInv, InterruptsTypeOK, ThreadsAreSuspended, Suspended
      <2>3. Mode = "user" => interruptFlag = TRUE
            BY FrontFacts DEF Mode, StackOf, LinesInv, InterruptsTypeOK, Frame, FrameKind
      <2>4. CASE SyscallHandler
            BY <2>3, <2>4, EnterFacts
            DEF SyscallHandler, FrameKind, LinesInv, NothingInService, InterruptsTypeOK
      <2>5. CASE ExceptionHandler
            BY <2>3, <2>5, EnterFacts
            DEF ExceptionHandler, FrameKind, LinesInv, NothingInService, InterruptsTypeOK
      <2>6. CASE PushCli
            BY <2>6, EnterFacts
            DEF PushCli, Mode, StackOf, FrameKind, LinesInv, NothingInService, InterruptsTypeOK
      <2>7. CASE ReturnToUserland
            BY <2>7, LeaveFacts DEF ReturnToUserland
      <2>8. CASE PopCli
            BY <2>8, LeaveFacts DEF PopCli
      <2>9. QED
            BY <2>1, <2>2, <2>4, <2>5, <2>6, <2>7, <2>8, IrqHandlerKeeps,
               SchedulerYieldKeeps, DieYieldsKeeps, DieStartsKeeps DEF InterruptsNext
<1>3. LinesInv => LinesStayOpen
      <2> SUFFICES ASSUME LinesInv PROVE LinesStayOpen
            OBVIOUS
      <2>1. pic.first = {} /\ pic.second = {}
            BY DEF LinesInv, NothingInService
      <2>2. Mode = "user" => interruptFlag
            BY FrontFacts DEF Mode, StackOf, LinesInv, InterruptsTypeOK, Frame, FrameKind
      <2>3. QED
            BY <2>1, <2>2 DEF LinesStayOpen
<1>4. QED
      BY <1>1, <1>2, <1>3, PTL DEF InterruptsSpec


-----------------------------------------------------------------------------
(* The sound card.                                                         *)

PlayerRecord == [pc : {"open", "idle", "check", "blocked", "copy", "publish"},
                 left : Int, count : Int, dest : Nat, buf : Nat]

SoundTypeOK ==
    /\ dma \in [civ : Nat, lvi : Nat, on : BOOLEAN, halted : BOOLEAN, ioc : BOOLEAN]
    /\ player \in [Player -> PlayerRecord]
    /\ pages \in [0 .. OutputPages - 1 -> Nat]
    /\ list \in [0 .. ListEntries -> [page : Nat, buf : Nat]]
    /\ queued \in Nat /\ played \in Nat /\ copied \in Nat

(* While writers take turns, everything follows from the two counters: the *)
(* card plays the entry of buffer played + 1, the last valid entry is that *)
(* of buffer queued, and the next page and the next entry are those of     *)
(* buffer queued + 1.                                                      *)
IndicesFollow ==
    /\ dma_is_running = dma.on
    /\ page_idx = queued % OutputPages
    /\ list_idx = queued % ListEntries
    /\ played <= queued
    /\ ~dma.on => queued = 0 /\ dma.civ = 0 /\ dma.lvi = 0 /\ ~dma.halted
    /\ dma.on => queued > 0 /\ dma.lvi = (queued - 1) % ListEntries
    /\ dma.on /\ ~dma.halted => played < queued /\ dma.civ = played % ListEntries
    /\ dma.on /\ dma.halted => played = queued /\ dma.civ = dma.lvi

(* Who has passed the check is alone, and has a page that is not played.   *)
RoomIsReserved ==
    /\ queued - played <= OutputPages
    /\ PastTheCheck # {} => queued - played < OutputPages
    /\ \A v, w \in PastTheCheck : v = w
    /\ \A w \in Player : PlayerAt(w, "blocked") => dma_is_running

(* The entry and the page of every buffer that has still to be played.     *)
BuffersAreKept ==
    \A b \in Nat : played < b /\ b <= queued =>
        /\ list[(b - 1) % ListEntries] = [page |-> (b - 1) % OutputPages, buf |-> b]
        /\ pages[(b - 1) % OutputPages] = b

(* A copy is published as the next buffer.                                 *)
CopyIsNext ==
    /\ \A w \in Player : PlayerAt(w, "publish") =>
          /\ player[w].dest = page_idx /\ player[w].buf = queued + 1
          /\ copied = queued + 1 /\ pages[page_idx] = queued + 1
    /\ (\A w \in Player : ~PlayerAt(w, "publish")) => copied = queued

SoundInv == /\ overlapped \in BOOLEAN
            /\ ~overlapped => /\ SoundTypeOK /\ IndicesFollow /\ RoomIsReserved
                              /\ BuffersAreKept /\ CopyIsNext

-----------------------------------------------------------------------------
(* Indices that go round.                                                  *)

(* A remainder is the only one.                                            *)
LEMMA ModUnique ==
    ASSUME NEW n \in Nat \ {0}, NEW q \in Int, NEW r \in 0 .. n - 1, NEW x \in Int,
           x = n * q + r
    PROVE  x % n = r
<1> DEFINE d == x \div n
           m == x % n
<1>1. d \in Int /\ m \in 0 .. n - 1 /\ x = n * d + m
  OBVIOUS
<1> HIDE DEF d, m
<1>2. ~(q - d >= 1)
  <2> SUFFICES ASSUME q - d >= 1 PROVE FALSE
    OBVIOUS
  <2>1. PICK k \in Nat : q = d + 1 + k
    BY <1>1, q - d - 1 \in Nat
  <2>2. n * q = n * d + n + n * k /\ n * k \in Nat /\ n * d \in Int
    BY <1>1, <2>1
  <2> QED BY <1>1, <2>2
<1>3. ~(d - q >= 1)
  <2> SUFFICES ASSUME d - q >= 1 PROVE FALSE
    OBVIOUS
  <2>1. PICK k \in Nat : d = q + 1 + k
    BY <1>1, d - q - 1 \in Nat
  <2>2. n * d = n * q + n + n * k /\ n * k \in Nat /\ n * q \in Int
    BY <1>1, <2>1
  <2> QED BY <1>1, <2>2
<1>4. d = q
  BY <1>1, <1>2, <1>3
<1>5. n * q \in Int
  OBVIOUS
<1>6. m = r
  BY <1>1, <1>4, <1>5
<1> QED BY <1>6 DEF m

(* Adding to an index is adding to the number it stands for,               *)
LEMMA ModAdd ==
    ASSUME NEW n \in Nat \ {0}, NEW x \in Nat, NEW k \in Nat
    PROVE  ((x % n) + k) % n = (x + k) % n /\ x % n \in 0 .. n - 1
<1> DEFINE d == x \div n
           m == x % n
           f == (m + k) \div n
           s == (m + k) % n
<1>1. d \in Int /\ m \in 0 .. n - 1 /\ x = n * d + m
  OBVIOUS
<1> HIDE DEF d, m
<1>2. f \in Int /\ s \in 0 .. n - 1 /\ m + k = n * f + s
  BY <1>1
<1> HIDE DEF f, s
<1>3. n * (d + f) = n * d + n * f /\ n * d \in Int /\ n * f \in Int /\ d + f \in Int
  BY <1>1, <1>2
<1> DEFINE e == d + f
           y == x + k
<1>4. y = n * e + s /\ y \in Int /\ e \in Int
  BY <1>1, <1>2, <1>3
<1> HIDE DEF e, y
<1>5. y % n = s
  BY ONLY <1>2, <1>4, n \in Nat \ {0}, ModUnique
<1> QED BY <1>1, <1>5 DEF m, s, y

(* and the distance of two indices is that of their numbers, when these    *)
(* are less than one round apart.                                          *)
LEMMA ModDistance ==
    ASSUME NEW n \in Nat \ {0}, NEW a \in Nat, NEW b \in Nat, b <= a, a - b < n
    PROVE  ((a % n) - (b % n)) % n = a - b
<1> DEFINE d == a \div n
           m == a % n
           f == b \div n
           k == b % n
<1>1. d \in Int /\ m \in 0 .. n - 1 /\ a = n * d + m
  OBVIOUS
<1>2. f \in Int /\ k \in 0 .. n - 1 /\ b = n * f + k
  OBVIOUS
<1> HIDE DEF d, m, f, k
<1>3. n * (f - d) = n * f - n * d /\ n * d \in Int /\ n * f \in Int /\ f - d \in Int
  BY <1>1, <1>2
<1> DEFINE e == f - d
           y == m - k
           z == a - b
<1>4. y = n * e + z /\ y \in Int /\ e \in Int /\ z \in 0 .. n - 1
  BY <1>1, <1>2, <1>3
<1> HIDE DEF e, y, z
<1>5. y % n = z
  BY ONLY <1>4, n \in Nat \ {0}, ModUnique
<1> QED BY <1>5 DEF m, k, y, z

(* Such numbers have different indices.                                    *)
LEMMA ModDiffers ==
    ASSUME NEW n \in Nat \ {0}, NEW a \in Nat, NEW b \in Nat, b < a, a - b < n
    PROVE  a % n # b % n
<1>1. ((a % n) - (b % n)) % n = a - b
  BY ONLY n \in Nat \ {0}, a \in Nat, b \in Nat, b < a, b <= a, a - b < n, ModDistance
<1>2. a % n \in Int /\ b % n \in Int
  OBVIOUS
<1>3. 0 % n = 0
  <2>1. 0 = n * 0 + 0 /\ 0 \in 0 .. n - 1
    OBVIOUS
  <2> QED BY ONLY <2>1, n \in Nat \ {0}, ModUnique
<1>4. ASSUME a % n = b % n PROVE FALSE
  <2>1. (a % n) - (b % n) = 0
    BY <1>2, <1>4
  <2> QED BY <1>1, <1>3, <2>1
<1> QED BY <1>4

(* An index that has not gone round yet.                                   *)
LEMMA ModSmall ==
    ASSUME NEW n \in Nat \ {0}, NEW x \in 0 .. n - 1
    PROVE  x % n = x
<1>1. x = n * 0 + x
  OBVIOUS
<1> QED BY <1>1, ModUnique

-----------------------------------------------------------------------------
(* The sound card: the steps.                                              *)

(* The parts of the invariant, while writers take turns.                   *)
SoundGood == /\ SoundTypeOK /\ IndicesFollow /\ RoomIsReserved
             /\ BuffersAreKept /\ CopyIsNext

(* The sizes, and that the indices are within them.                        *)
LEMMA SoundSizes ==
    /\ ListEntries \in Nat \ {0} /\ OutputPages \in Nat \ {0}
    /\ OutputPages < ListEntries
    /\ \A x \in Nat : /\ x % ListEntries \in 0 .. ListEntries
                      /\ x % OutputPages \in 0 .. OutputPages - 1
<1>1. /\ ListEntries \in Nat \ {0} /\ OutputPages \in Nat \ {0}
      /\ OutputPages < ListEntries
  BY SoundAssumption
<1>2. ASSUME NEW x \in Nat
      PROVE  x % ListEntries \in 0 .. ListEntries - 1 /\ x % OutputPages \in 0 .. OutputPages - 1
  BY <1>1
<1>3. ASSUME NEW x \in Nat
      PROVE  x % ListEntries \in 0 .. ListEntries
  BY <1>1, <1>2
<1> QED BY <1>1, <1>2, <1>3

(* A step in which nobody passes the check or comes back from beyond it.   *)
LEMMA SoundQuiet ==
    ASSUME SoundGood, UNCHANGED <<driverVars, played, dma_is_running>>,
           dma' \in [civ : Nat, lvi : Nat, on : BOOLEAN, halted : BOOLEAN, ioc : BOOLEAN],
           dma'.civ = dma.civ, dma'.lvi = dma.lvi, dma'.on = dma.on, dma'.halted = dma.halted,
           player' \in [Player -> PlayerRecord],
           \A w \in Player : \/ player'[w] = player[w]
                             \/ /\ player[w].pc \notin {"copy", "publish"}
                                /\ player'[w].pc \notin {"copy", "publish"},
           \A w \in Player : player'[w].pc = "blocked" => dma_is_running
    PROVE  SoundGood'
<1>1. SoundTypeOK'
  BY DEF SoundGood, SoundTypeOK, driverVars
<1>2. IndicesFollow'
  BY DEF SoundGood, IndicesFollow, driverVars
<1>3. PastTheCheck' = PastTheCheck
  BY DEF PastTheCheck
<1>4. RoomIsReserved'
  BY <1>3 DEF SoundGood, RoomIsReserved, PlayerAt, driverVars
<1>5. BuffersAreKept'
  BY DEF SoundGood, BuffersAreKept, driverVars
<1>6. \A w \in Player : PlayerAt(w, "publish")' <=> PlayerAt(w, "publish")
  BY DEF PlayerAt
<1>7. \A w \in Player : PlayerAt(w, "publish") => player'[w] = player[w]
  BY DEF PlayerAt
<1>8. CopyIsNext'
  BY <1>6, <1>7 DEF SoundGood, CopyIsNext, driverVars
<1> QED BY <1>1, <1>2, <1>4, <1>5, <1>8 DEF SoundGood

(* The card finishes a buffer.                                             *)
LEMMA DmaCompletesStep ==
    ASSUME SoundGood, DmaCompletes, ~overlapped
    PROVE  SoundGood'
<1> USE DEF SoundGood
<1>1. /\ dma.on /\ ~dma.halted /\ played' = played + 1
      /\ dma' = [dma EXCEPT !.ioc = TRUE,
                            !.halted = dma.civ = dma.lvi,
                            !.civ = IF @ = dma.lvi THEN @ ELSE (@ + 1) % ListEntries]
      /\ UNCHANGED <<dma_is_running, player, driverVars>>
  BY DEF DmaCompletes
<1>2. /\ dma \in [civ : Nat, lvi : Nat, on : BOOLEAN, halted : BOOLEAN, ioc : BOOLEAN]
      /\ queued \in Nat /\ played \in Nat /\ queued > 0 /\ played < queued
      /\ queued - played <= OutputPages
      /\ dma.lvi = (queued - 1) % ListEntries /\ dma.civ = played % ListEntries
  BY <1>1 DEF SoundTypeOK, IndicesFollow, RoomIsReserved
<1>3. dma.civ = dma.lvi <=> played = queued - 1
  <2>1. CASE played = queued - 1
    BY <2>1, <1>2
  <2>2. CASE played # queued - 1
    <3>1. queued - 1 \in Nat /\ played < queued - 1 /\ (queued - 1) - played < ListEntries
      BY <2>2, <1>2, SoundSizes
    <3>2. (queued - 1) % ListEntries # played % ListEntries
      BY ONLY <3>1, <1>2, SoundSizes, ModDiffers
    <3> QED BY <2>2, <3>2, <1>2
  <2> QED BY <2>1, <2>2
<1>4. (dma.civ + 1) % ListEntries = (played + 1) % ListEntries /\ (played + 1) % ListEntries \in Nat
  <2>1. ((played % ListEntries) + 1) % ListEntries = (played + 1) % ListEntries
    BY ONLY <1>2, SoundSizes, 1 \in Nat, ModAdd
  <2> QED BY <2>1, <1>2, SoundSizes
<1>5. /\ dma' \in [civ : Nat, lvi : Nat, on : BOOLEAN, halted : BOOLEAN, ioc : BOOLEAN]
      /\ dma'.on = dma.on /\ dma'.lvi = dma.lvi /\ dma'.halted = (played = queued - 1)
      /\ played # queued - 1 => dma'.civ = (played + 1) % ListEntries
      /\ played = queued - 1 => dma'.civ = dma.lvi
  BY <1>1, <1>2, <1>3, <1>4
<1>6. SoundTypeOK'
  BY <1>1, <1>5 DEF SoundTypeOK, driverVars
<1>7. IndicesFollow'
  BY <1>1, <1>2, <1>5 DEF IndicesFollow, driverVars
<1>8. RoomIsReserved'
  BY <1>1, <1>2, SoundSizes DEF RoomIsReserved, PastTheCheck, PlayerAt, driverVars
<1>9. BuffersAreKept'
  BY <1>1, <1>2 DEF BuffersAreKept, driverVars
<1>10. CopyIsNext'
  BY <1>1 DEF CopyIsNext, PlayerAt, driverVars
<1> QED BY <1>6, <1>7, <1>8, <1>9, <1>10

(* How far the card is behind.                                             *)
LEMMA HeadDistanceFacts ==
    ASSUME SoundGood
    PROVE  /\ HeadDistance \in Nat /\ ~(HeadDistance > OutputPages)
           /\ HeadDistance # OutputPages => queued - played < OutputPages
           /\ HeadDistance = OutputPages => dma_is_running
<1> USE DEF SoundGood
<1>1. /\ queued \in Nat /\ played \in Nat /\ queued - played <= OutputPages
      /\ dma_is_running = dma.on /\ dma.on \in BOOLEAN /\ dma.halted \in BOOLEAN
      /\ dma.lvi \in Nat
  BY DEF SoundTypeOK, IndicesFollow, RoomIsReserved
<1>2. (dma.lvi - dma.lvi) % ListEntries = 0
  BY <1>1, SoundSizes, ModSmall
<1>3. CASE ~dma.on
  <2>1. HeadDistance = 0 /\ queued = 0 /\ played = 0
    BY <1>1, <1>2, <1>3 DEF HeadDistance, IndicesFollow
  <2> QED BY <2>1, SoundSizes
<1>4. CASE dma.on /\ dma.halted
  <2>1. HeadDistance = 1 /\ queued = played
    BY <1>1, <1>2, <1>4 DEF HeadDistance, IndicesFollow
  <2> QED BY <2>1, <1>1, <1>4, SoundSizes
<1>5. CASE dma.on /\ ~dma.halted
  <2>1. /\ queued - 1 \in Nat /\ played <= queued - 1 /\ (queued - 1) - played < ListEntries
        /\ dma.lvi = (queued - 1) % ListEntries /\ dma.civ = played % ListEntries
    BY <1>1, <1>5, SoundSizes DEF IndicesFollow
  <2>2. (dma.lvi - dma.civ) % ListEntries = (queued - 1) - played
    <3> DEFINE a == queued - 1
    <3>1. a \in Nat /\ played <= a /\ a - played < ListEntries
      BY <2>1
    <3> HIDE DEF a
    <3>2. ((a % ListEntries) - (played % ListEntries)) % ListEntries = a - played
      BY ONLY <3>1, <1>1, SoundSizes, ModDistance
    <3> QED BY <2>1, <3>2 DEF a
  <2>3. HeadDistance = queued - played
    BY <2>1, <2>2, <1>1, <1>5 DEF HeadDistance
  <2> QED BY <2>1, <2>3, <1>1, <1>5, SoundSizes
<1> QED BY <1>1, <1>3, <1>4, <1>5


(* write_single_buffer() finds room, or waits.                             *)
LEMMA WriteCheckStep ==
    ASSUME SoundGood, NEW w \in Player, WriteCheck(w), ~overlapped, ~overlapped'
    PROVE  SoundGood'
<1> USE DEF SoundGood
<1>1. player \in [Player -> PlayerRecord] /\ player[w].pc = "check"
  BY DEF SoundTypeOK, WriteCheck, PlayerAt
<1>2. UNCHANGED <<dma, dma_is_running, page_idx, pages, list, copied, queued, played>>
  BY DEF WriteCheck
<1>3. CASE HeadDistance = OutputPages
  <2>1. player' = [player EXCEPT ![w].pc = "blocked"] /\ UNCHANGED list_idx
    BY <1>3 DEF WriteCheck, PlayerGoes
  <2>2. dma_is_running
    BY <1>3, HeadDistanceFacts
  <2>3. /\ player' \in [Player -> PlayerRecord]
        /\ \A v \in Player : v # w => player'[v] = player[v]
        /\ player'[w].pc = "blocked"
    BY <1>1, <2>1 DEF PlayerRecord
  <2>4. dma \in [civ : Nat, lvi : Nat, on : BOOLEAN, halted : BOOLEAN, ioc : BOOLEAN]
    BY DEF SoundTypeOK
  <2>5. UNCHANGED <<driverVars, played, dma_is_running>> /\ dma' = dma
    BY <1>2, <2>1 DEF driverVars
  <2>6. \A v \in Player : \/ player'[v] = player[v]
                          \/ /\ player[v].pc \notin {"copy", "publish"}
                             /\ player'[v].pc \notin {"copy", "publish"}
    BY <1>1, <2>3
  <2> QED BY <2>2, <2>3, <2>4, <2>5, <2>6, SoundQuiet
<1>4. CASE HeadDistance # OutputPages
  <2>1. /\ player' = [player EXCEPT ![w].pc = "copy"] /\ UNCHANGED list_idx
        /\ PastTheCheck = {}
    BY <1>4, HeadDistanceFacts DEF WriteCheck, PlayerGoes
  <2>2. queued - played < OutputPages
    BY <1>4, HeadDistanceFacts
  <2>3. /\ player' \in [Player -> PlayerRecord]
        /\ \A v \in Player : v # w => player'[v] = player[v]
        /\ player'[w].pc = "copy"
    BY <1>1, <2>1 DEF PlayerRecord
  <2>4. \A v \in Player : player[v].pc \notin {"copy", "publish"}
    BY <2>1 DEF PastTheCheck
  <2>5. PastTheCheck' = {w}
    BY <2>3, <2>4 DEF PastTheCheck
  <2>6. SoundTypeOK'
    BY <1>2, <2>1, <2>3 DEF SoundTypeOK
  <2>7. IndicesFollow'
    BY <1>2, <2>1 DEF IndicesFollow
  <2>8. RoomIsReserved'
    BY <1>2, <2>2, <2>3, <2>5 DEF RoomIsReserved, PlayerAt
  <2>9. BuffersAreKept'
    BY <1>2 DEF BuffersAreKept
  <2>10. \A v \in Player : ~PlayerAt(v, "publish") /\ ~PlayerAt(v, "publish")'
    BY <2>3, <2>4 DEF PlayerAt
  <2>11. CopyIsNext'
    BY <1>2, <2>10 DEF CopyIsNext
  <2> QED BY <2>6, <2>7, <2>8, <2>9, <2>11
<1> QED BY <1>3, <1>4

(* The copy goes to a page that is not being played.                       *)
LEMMA CopyStep ==
    ASSUME SoundGood, NEW w \in Player, CopyIntoPages(w), ~overlapped
    PROVE  SoundGood'
<1> USE DEF SoundGood
<1>1. /\ player \in [Player -> PlayerRecord] /\ player[w].pc = "copy"
      /\ copied \in Nat /\ queued \in Nat /\ played \in Nat
      /\ pages \in [0 .. OutputPages - 1 -> Nat]
  BY DEF SoundTypeOK, CopyIntoPages, PlayerAt
<1>2. w \in PastTheCheck
  BY <1>1 DEF PastTheCheck
<1>3. /\ queued - played < OutputPages /\ page_idx = queued % OutputPages
      /\ \A v \in PastTheCheck : v = w
  BY <1>2 DEF RoomIsReserved, IndicesFollow
<1>4. \A v \in Player : ~PlayerAt(v, "publish")
  BY <1>1, <1>3 DEF PastTheCheck, PlayerAt
<1>5. copied = queued
  BY <1>4 DEF CopyIsNext
<1>6. /\ copied' = queued + 1
      /\ pages' = [pages EXCEPT ![page_idx] = queued + 1]
      /\ player' = [player EXCEPT ![w].pc = "publish", ![w].dest = page_idx,
                                  ![w].buf = queued + 1]
      /\ UNCHANGED <<dma, dma_is_running, list_is_full, page_idx, list_idx, list,
                     queued, played, overlapped>>
  BY <1>5 DEF CopyIntoPages
<1>7. page_idx \in 0 .. OutputPages - 1 /\ page_idx \in Nat
  <2>1. page_idx \in 0 .. OutputPages - 1
    BY <1>1, <1>3, SoundSizes
  <2> QED BY <2>1, SoundSizes
<1>8. /\ player' \in [Player -> PlayerRecord]
      /\ \A v \in Player : v # w => player'[v] = player[v]
      /\ player'[w].pc = "publish" /\ player'[w].dest = page_idx
      /\ player'[w].buf = queued + 1
  <2>1. player[w] \in PlayerRecord /\ queued + 1 \in Nat
    BY <1>1
  <2> DEFINE r == [player[w] EXCEPT !.pc = "publish", !.dest = page_idx, !.buf = queued + 1]
  <2>2. /\ r \in PlayerRecord /\ r.pc = "publish" /\ r.dest = page_idx
        /\ r.buf = queued + 1
    BY <1>7, <2>1 DEF PlayerRecord
  <2>3. player' = [player EXCEPT ![w] = r]
    BY <1>1, <1>6
  <2> HIDE DEF r
  <2> QED BY <1>1, <2>2, <2>3
<1>9. pages' \in [0 .. OutputPages - 1 -> Nat] /\ pages'[page_idx] = queued + 1
      /\ \A k \in 0 .. OutputPages - 1 : k # page_idx => pages'[k] = pages[k]
  BY <1>1, <1>6, <1>7
<1>10. SoundTypeOK'
  BY <1>1, <1>6, <1>8, <1>9 DEF SoundTypeOK
<1>11. IndicesFollow'
  BY <1>6 DEF IndicesFollow
<1>12. PastTheCheck' = PastTheCheck
  BY <1>1, <1>8 DEF PastTheCheck
<1>13. RoomIsReserved'
  BY <1>6, <1>8, <1>12 DEF RoomIsReserved, PlayerAt
<1>14. BuffersAreKept'
  <2>1. ASSUME NEW b \in Nat, played < b, b <= queued
        PROVE  /\ list[(b - 1) % ListEntries] = [page |-> (b - 1) % OutputPages, buf |-> b]
               /\ pages'[(b - 1) % OutputPages] = b
    <3>1. b - 1 \in Nat /\ b - 1 < queued /\ queued - (b - 1) < OutputPages
      BY <1>1, <1>3, <2>1, SoundSizes
    <3>2. queued % OutputPages # (b - 1) % OutputPages
      BY ONLY <1>1, <3>1, SoundSizes, ModDiffers
    <3>3. (b - 1) % OutputPages \in 0 .. OutputPages - 1
      BY <3>1, SoundSizes
    <3>4. /\ list[(b - 1) % ListEntries] = [page |-> (b - 1) % OutputPages, buf |-> b]
          /\ pages[(b - 1) % OutputPages] = b
      BY <2>1 DEF BuffersAreKept
    <3> QED BY <3>2, <3>3, <3>4, <1>3, <1>9
  <2> QED BY <2>1, <1>6 DEF BuffersAreKept
<1>15. CopyIsNext'
  <2>1. \A v \in Player : PlayerAt(v, "publish")' <=> v = w
    BY <1>4, <1>8 DEF PlayerAt
  <2> QED BY <2>1, <1>6, <1>8, <1>9 DEF CopyIsNext
<1> QED BY <1>10, <1>11, <1>13, <1>14, <1>15

(* The entry is the next one the card plays after those it has.            *)
LEMMA PublishStep ==
    ASSUME SoundGood, NEW w \in Player, WritePublish(w), ~overlapped
    PROVE  SoundGood'
<1> USE DEF SoundGood
<1>1. /\ player \in [Player -> PlayerRecord] /\ player[w].pc = "publish"
      /\ copied \in Nat /\ queued \in Nat /\ played \in Nat
      /\ list \in [0 .. ListEntries -> [page : Nat, buf : Nat]]
      /\ dma \in [civ : Nat, lvi : Nat, on : BOOLEAN, halted : BOOLEAN, ioc : BOOLEAN]
      /\ played <= queued
  BY DEF SoundTypeOK, WritePublish, PlayerAt, IndicesFollow
<1>2. w \in PastTheCheck
  BY <1>1 DEF PastTheCheck
<1>3. /\ queued - played < OutputPages /\ page_idx = queued % OutputPages
      /\ list_idx = queued % ListEntries
      /\ \A v \in PastTheCheck : v = w
      /\ player[w].dest = page_idx /\ player[w].buf = queued + 1
      /\ copied = queued + 1 /\ pages[page_idx] = queued + 1
  BY <1>1, <1>2 DEF RoomIsReserved, IndicesFollow, CopyIsNext, PlayerAt
<1> DEFINE d == LastValidIndexWritten(dma, list_idx)
<1>4. /\ list' = [list EXCEPT ![list_idx] = [page |-> page_idx, buf |-> queued + 1]]
      /\ dma' = IF dma_is_running THEN d ELSE StartDma(d)
      /\ dma_is_running' = TRUE
      /\ page_idx' = (page_idx + 1) % OutputPages
      /\ list_idx' = (list_idx + 1) % ListEntries
      /\ queued' = queued + 1
      /\ player' = [player EXCEPT ![w].pc = IF player[w].count > 1 THEN "check" ELSE "idle",
                                  ![w].count = @ - 1, ![w].left = @ - 1]
      /\ UNCHANGED <<list_is_full, pages, copied, played, overlapped>>
  BY <1>3 DEF WritePublish
<1>5. /\ player' \in [Player -> PlayerRecord]
      /\ \A v \in Player : v # w => player'[v] = player[v]
      /\ player'[w].pc \in {"check", "idle"}
  BY <1>1, <1>4 DEF PlayerRecord
<1>6. /\ list_idx \in 0 .. ListEntries /\ list_idx \in Nat /\ page_idx \in Nat
  BY <1>1, <1>3, SoundSizes
<1>7. /\ list' \in [0 .. ListEntries -> [page : Nat, buf : Nat]]
      /\ list'[list_idx] = [page |-> page_idx, buf |-> queued + 1]
      /\ \A e \in 0 .. ListEntries : e # list_idx => list'[e] = list[e]
  BY <1>1, <1>4, <1>6
<1>8. /\ page_idx' = (queued + 1) % OutputPages
      /\ list_idx' = (queued + 1) % ListEntries
  <2>1. ((queued % OutputPages) + 1) % OutputPages = (queued + 1) % OutputPages
    BY ONLY <1>1, SoundSizes, 1 \in Nat, ModAdd
  <2>2. ((queued % ListEntries) + 1) % ListEntries = (queued + 1) % ListEntries
    BY ONLY <1>1, SoundSizes, 1 \in Nat, ModAdd
  <2> QED BY <1>3, <1>4, <2>1, <2>2
<1>9. /\ dma'.on = TRUE /\ dma'.halted = FALSE /\ dma'.lvi = list_idx
      /\ dma'.civ = IF dma.on /\ dma.halted THEN (dma.civ + 1) % ListEntries ELSE dma.civ
      /\ dma' \in [civ : Nat, lvi : Nat, on : BOOLEAN, halted : BOOLEAN, ioc : BOOLEAN]
  <2>1. dma_is_running = dma.on
    BY DEF IndicesFollow
  <2>2. (dma.civ + 1) % ListEntries \in Nat
    <3> DEFINE x == dma.civ + 1
    <3>1. x \in Nat
      BY <1>1
    <3> HIDE DEF x
    <3>2. x % ListEntries \in 0 .. ListEntries
      BY ONLY <3>1, SoundSizes
    <3>3. x % ListEntries \in Nat
      BY ONLY <3>2, SoundSizes
    <3> QED BY ONLY <3>3 DEF x
  <2> DEFINE c == IF dma.on /\ dma.halted THEN (dma.civ + 1) % ListEntries ELSE dma.civ
  <2>3. c \in Nat
    BY <1>1, <2>2
  <2>4. d = [dma EXCEPT !.lvi = list_idx, !.halted = FALSE, !.civ = c]
    BY DEF LastValidIndexWritten
  <2> HIDE DEF c, d
  <2>5. /\ d \in [civ : Nat, lvi : Nat, on : BOOLEAN, halted : BOOLEAN, ioc : BOOLEAN]
        /\ d.lvi = list_idx /\ d.halted = FALSE /\ d.civ = c /\ d.on = dma.on
    BY ONLY <1>1, <1>6, <2>3, <2>4
  <2>6. dma' = IF dma.on THEN d ELSE [d EXCEPT !.on = TRUE]
    BY <1>4, <2>1 DEF StartDma
  <2>7. CASE dma.on
    BY <2>5, <2>6, <2>7 DEF c
  <2>8. CASE ~dma.on
    BY <2>5, <2>6, <2>8 DEF c
  <2> QED BY <2>7, <2>8
<1>10. dma'.civ = played % ListEntries
  <2>1. CASE ~dma.on
    <3>1. played = 0 /\ dma.civ = 0
      BY <1>1, <2>1 DEF IndicesFollow
    <3>2. 0 % ListEntries = 0
      BY SoundSizes, ModSmall
    <3> QED BY <1>9, <2>1, <3>1, <3>2
  <2>2. CASE dma.on /\ dma.halted
    <3>1. played = queued /\ dma.civ = (queued - 1) % ListEntries /\ queued - 1 \in Nat
      BY <1>1, <2>2 DEF IndicesFollow
    <3>2. (((queued - 1) % ListEntries) + 1) % ListEntries = ((queued - 1) + 1) % ListEntries
      BY <3>1, SoundSizes, ModAdd
    <3>3. (queued - 1) + 1 = queued
      BY <1>1
    <3> QED BY <1>9, <2>2, <3>1, <3>2, <3>3
  <2>3. CASE dma.on /\ ~dma.halted
    BY <1>9, <2>3 DEF IndicesFollow
  <2> QED BY <1>1, <2>1, <2>2, <2>3
<1> HIDE DEF d
<1>11. queued' - 1 = queued /\ queued' > 0 /\ played <= queued' /\ played < queued'
       /\ queued' - played <= OutputPages /\ queued' \in Nat
  <2>1. /\ queued' = queued + 1 /\ queued \in Nat /\ played \in Nat /\ played <= queued
        /\ OutputPages \in Nat /\ queued - played < OutputPages
    BY <1>1, <1>3, <1>4, SoundSizes
  <2> QED BY ONLY <2>1
<1>12. SoundTypeOK'
  BY <1>1, <1>4, <1>5, <1>7, <1>9, <1>11 DEF SoundTypeOK
<1>13. IndicesFollow'
  BY <1>3, <1>4, <1>8, <1>9, <1>10, <1>11 DEF IndicesFollow
<1>14. PastTheCheck' = {}
  BY <1>3, <1>5 DEF PastTheCheck
<1>15. RoomIsReserved'
  BY <1>4, <1>11, <1>14 DEF RoomIsReserved
<1>16. BuffersAreKept'
  <2>1. ASSUME NEW b \in Nat, played < b, b <= queued'
        PROVE  /\ list'[(b - 1) % ListEntries] = [page |-> (b - 1) % OutputPages, buf |-> b]
               /\ pages[(b - 1) % OutputPages] = b
    <3>1. CASE b = queued + 1
      <4>1. b - 1 = queued
        BY <1>1, <3>1
      <4> QED BY <1>3, <1>7, <3>1, <4>1
    <3>2. CASE b # queued + 1
      <4>1. b <= queued /\ b - 1 \in Nat /\ b - 1 < queued /\ queued - (b - 1) < ListEntries
        <5>1. /\ queued \in Nat /\ played \in Nat /\ queued' = queued + 1
              /\ ListEntries \in Nat /\ OutputPages \in Nat /\ OutputPages < ListEntries
              /\ queued - played < OutputPages
          BY <1>1, <1>3, <1>4, SoundSizes
        <5> QED BY ONLY <5>1, <2>1, <3>2
      <4>2. queued % ListEntries # (b - 1) % ListEntries
        BY ONLY <1>1, <4>1, SoundSizes, ModDiffers
      <4>3. (b - 1) % ListEntries \in 0 .. ListEntries
        BY <4>1, SoundSizes
      <4>4. /\ list[(b - 1) % ListEntries] = [page |-> (b - 1) % OutputPages, buf |-> b]
            /\ pages[(b - 1) % OutputPages] = b
        BY <2>1, <4>1 DEF BuffersAreKept
      <4> QED BY <4>2, <4>3, <4>4, <1>3, <1>7
    <3> QED BY <3>1, <3>2
  <2> QED BY <2>1, <1>4 DEF BuffersAreKept
<1>17. CopyIsNext'
  <2>1. \A v \in Player : ~PlayerAt(v, "publish")'
    BY <1>14 DEF PastTheCheck, PlayerAt
  <2> QED BY <2>1, <1>3, <1>4 DEF CopyIsNext
<1> QED BY <1>12, <1>13, <1>15, <1>16, <1>17

(* Every step, while nobody overlaps.                                      *)
LEMMA SoundInvNext ==
    ASSUME SoundInv, [SoundNext]_soundVars
    PROVE  SoundInv'
<1>1. overlapped' \in BOOLEAN /\ (overlapped => overlapped')
  BY DEF SoundInv, SoundNext, soundVars, DmaCompletes, SoundIrqHandler, WriteStep, SetSampleRate,
         PlayerWrites, WriteCheck, WriteUnblocks, WriteInterrupted, CopyIntoPages, WritePublish
<1> SUFFICES ASSUME ~overlapped, ~overlapped' PROVE SoundGood'
  BY <1>1 DEF SoundInv, SoundGood
<1>2. SoundGood
  BY DEF SoundInv, SoundGood
<1>3. /\ player \in [Player -> PlayerRecord]
      /\ dma \in [civ : Nat, lvi : Nat, on : BOOLEAN, halted : BOOLEAN, ioc : BOOLEAN]
      /\ dma_is_running = dma.on
      /\ \A w \in Player : player[w].pc = "blocked" => dma_is_running
  BY <1>2 DEF SoundGood, SoundTypeOK, IndicesFollow, RoomIsReserved, PlayerAt
<1>4. CASE SoundIrqHandler
  <2>1. /\ dma' = [dma EXCEPT !.ioc = FALSE] /\ player' = player
        /\ UNCHANGED <<driverVars, played, dma_is_running>>
    BY <1>4 DEF SoundIrqHandler
  <2> QED BY <1>2, <1>3, <2>1, SoundQuiet
<1>5. ASSUME NEW w \in Player, SetSampleRate(w)
      PROVE  SoundGood'
  <2>1. dma' = dma
    BY <1>3, <1>5 DEF SetSampleRate, StartDma
  <2>2. /\ player' \in [Player -> PlayerRecord]
        /\ \A v \in Player : v # w => player'[v] = player[v]
        /\ player[w].pc = "open" /\ player'[w].pc = "idle"
    BY <1>3, <1>5 DEF SetSampleRate, PlayerGoes, PlayerAt, PlayerRecord
  <2>3. UNCHANGED <<driverVars, played, dma_is_running>>
    BY <1>5 DEF SetSampleRate
  <2>4. \A v \in Player : \/ player'[v] = player[v]
                          \/ /\ player[v].pc \notin {"copy", "publish"}
                             /\ player'[v].pc \notin {"copy", "publish"}
    BY <2>2
  <2>5. \A v \in Player : player'[v].pc = "blocked" => dma_is_running
    BY <1>3, <2>2
  <2> QED BY <1>2, <1>3, <2>1, <2>2, <2>3, <2>4, <2>5, SoundQuiet
<1>6. ASSUME NEW w \in Player,
             PlayerWrites(w) \/ WriteUnblocks(w) \/ WriteInterrupted(w)
      PROVE  SoundGood'
  <2>1. WritePages \in Nat
    BY SoundAssumption
  <2>2. /\ player' \in [Player -> PlayerRecord]
        /\ \A v \in Player : v # w => player'[v] = player[v]
        /\ player[w].pc \in {"idle", "blocked"} /\ player'[w].pc \in {"check", "idle"}
    <3>1. CASE PlayerWrites(w)
      <4>1. player[w] \in PlayerRecord /\ player[w].pc = "idle"
        BY <1>3, <3>1 DEF PlayerWrites, PlayerAt
      <4> DEFINE n == IF player[w].left > WritePages THEN WritePages ELSE player[w].left
                 r == [player[w] EXCEPT !.pc = "check", !.count = n]
      <4>2. n \in Int
        BY <2>1, <4>1 DEF PlayerRecord
      <4>3. player' = [player EXCEPT ![w] = r]
        BY <1>3, <3>1 DEF PlayerWrites
      <4> HIDE DEF n
      <4>4. r \in PlayerRecord /\ r.pc = "check"
        BY <4>1, <4>2 DEF PlayerRecord
      <4> HIDE DEF r
      <4> QED BY <1>3, <4>1, <4>3, <4>4
    <3>2. CASE WriteUnblocks(w)
      <4>1. dma_is_running
        BY <1>3, <3>2 DEF WriteUnblocks, PlayerAt
      <4> QED BY <1>3, <3>2, <4>1 DEF WriteUnblocks, PlayerAt, PlayerGoes, PlayerRecord
    <3>3. CASE WriteInterrupted(w)
      <4>1. player[w] \in PlayerRecord /\ player[w].pc = "blocked"
        BY <1>3, <3>3 DEF WriteInterrupted, PlayerAt
      <4> DEFINE r == [player[w] EXCEPT !.pc = "idle", !.left = 0, !.count = 0]
      <4>2. player' = [player EXCEPT ![w] = r]
        BY <1>3, <3>3 DEF WriteInterrupted
      <4>3. r \in PlayerRecord /\ r.pc = "idle"
        BY ONLY <4>1, 0 \in Int DEF PlayerRecord, r
      <4> HIDE DEF r
      <4> QED BY <1>3, <4>1, <4>2, <4>3
    <3> QED BY <1>6, <3>1, <3>2, <3>3
  <2>3. UNCHANGED <<driverVars, played, dma_is_running, dma>>
    BY <1>6 DEF PlayerWrites, WriteUnblocks, WriteInterrupted
  <2>4. \A v \in Player : \/ player'[v] = player[v]
                          \/ /\ player[v].pc \notin {"copy", "publish"}
                             /\ player'[v].pc \notin {"copy", "publish"}
    BY <2>2
  <2>5. \A v \in Player : player'[v].pc = "blocked" => dma_is_running
    BY <1>3, <2>2
  <2> QED BY <1>2, <1>3, <2>2, <2>3, <2>4, <2>5, SoundQuiet
<1>7. CASE UNCHANGED soundVars
  BY <1>2, <1>3, <1>7, SoundQuiet DEF soundVars, driverVars
<1> QED BY <1>2, <1>4, <1>5, <1>6, <1>7, DmaCompletesStep, WriteCheckStep, CopyStep,
           PublishStep DEF SoundNext, WriteStep

(* What the invariant says of the entries the card has still to play.      *)
LEMMA SoundInvTune ==
    ASSUME SoundInv
    PROVE  TuneIsPlayed
<1> SUFFICES ASSUME ~overlapped, SoundGood PROVE TuneIsPlayed
  BY DEF SoundInv, SoundGood, TuneIsPlayed
<1> USE DEF SoundGood
<1>1. /\ queued \in Nat /\ played \in Nat /\ played <= queued
      /\ queued - played <= OutputPages /\ dma.on \in BOOLEAN /\ dma.halted \in BOOLEAN
  BY DEF SoundTypeOK, IndicesFollow, RoomIsReserved
<1>2. CASE ~(dma.on /\ ~dma.halted)
  <2>1. InFlight = 0 /\ queued = played
    BY <1>1, <1>2 DEF InFlight, IndicesFollow
  <2>2. \A k \in 0 .. InFlight - 1 : FALSE
    BY <2>1
  <2> QED BY <1>1, <2>1, <2>2 DEF TuneIsPlayed
<1>3. CASE dma.on /\ ~dma.halted
  <2>1. /\ queued - 1 \in Nat /\ played <= queued - 1 /\ (queued - 1) - played < ListEntries
        /\ dma.lvi = (queued - 1) % ListEntries /\ dma.civ = played % ListEntries
    BY <1>1, <1>3, SoundSizes DEF IndicesFollow
  <2>2. (dma.lvi - dma.civ) % ListEntries = (queued - 1) - played
    <3> DEFINE a == queued - 1
    <3>1. a \in Nat /\ played <= a /\ a - played < ListEntries
      BY <2>1
    <3> HIDE DEF a
    <3>2. ((a % ListEntries) - (played % ListEntries)) % ListEntries = a - played
      BY ONLY <3>1, <1>1, SoundSizes, ModDistance
    <3> QED BY <2>1, <3>2 DEF a
  <2>3. InFlight = queued - played
    BY <2>2, <1>1, <1>3 DEF InFlight
  <2>4. ASSUME NEW k \in 0 .. InFlight - 1
        PROVE  LET e == list[(dma.civ + k) % ListEntries]
               IN  /\ e.buf = played + 1 + k
                   /\ pages[e.page] = e.buf
                   /\ \A w \in PastTheCheck : PlayerAt(w, "copy") => e.page # page_idx
    <3> DEFINE b == played + 1 + k
    <3>1. /\ k \in Nat /\ b \in Nat /\ played < b /\ b <= queued /\ b - 1 = played + k
          /\ b - 1 \in Nat /\ b - 1 < queued
      BY <1>1, <2>3
    <3>2. (dma.civ + k) % ListEntries = (b - 1) % ListEntries
      <4>1. ((played % ListEntries) + k) % ListEntries = (played + k) % ListEntries
        BY ONLY <1>1, <3>1, SoundSizes, ModAdd
      <4> QED BY <2>1, <3>1, <4>1
    <3> HIDE DEF b
    <3>3. /\ list[(b - 1) % ListEntries] = [page |-> (b - 1) % OutputPages, buf |-> b]
          /\ pages[(b - 1) % OutputPages] = b
      BY <3>1 DEF BuffersAreKept
    <3>4. ASSUME PastTheCheck # {}
          PROVE  (b - 1) % OutputPages # page_idx
      <4>1. queued - played < OutputPages /\ page_idx = queued % OutputPages
        BY <3>4 DEF RoomIsReserved, IndicesFollow
      <4>2. queued - (b - 1) < OutputPages
        BY <1>1, <3>1, <4>1, SoundSizes
      <4>3. queued % OutputPages # (b - 1) % OutputPages
        BY ONLY <1>1, <3>1, <4>2, SoundSizes, ModDiffers
      <4> QED BY <4>1, <4>3
    <3>5. PastTheCheck # {} => list[(b - 1) % ListEntries].page # page_idx
      BY <3>3, <3>4
    <3> QED BY <3>2, <3>3, <3>5 DEF b
  <2> QED BY <2>3, <2>4 DEF TuneIsPlayed
<1> QED BY <1>2, <1>3

(* Nothing is written yet.                                                 *)
LEMMA SoundInvInit == SoundInit => SoundInv
<1> SUFFICES ASSUME SoundInit PROVE SoundInv
  OBVIOUS
<1>1. 0 % OutputPages = 0 /\ 0 % ListEntries = 0
  BY SoundSizes, ModSmall
<1>2. player \in [Player -> PlayerRecord] /\ \A w \in Player : player[w].pc = "open"
  BY SoundAssumption DEF SoundInit, PlayerRecord
<1>3. SoundTypeOK
  <2>1. /\ dma \in [civ : Nat, lvi : Nat, on : BOOLEAN, halted : BOOLEAN, ioc : BOOLEAN]
        /\ queued \in Nat /\ played \in Nat /\ copied \in Nat
    BY DEF SoundInit
  <2>2. pages \in [0 .. OutputPages - 1 -> Nat]
    BY DEF SoundInit
  <2>3. [page |-> 0, buf |-> 0] \in [page : Nat, buf : Nat]
    OBVIOUS
  <2>4. list \in [0 .. ListEntries -> [page : Nat, buf : Nat]]
    BY <2>3 DEF SoundInit
  <2> QED BY <1>2, <2>1, <2>2, <2>4 DEF SoundTypeOK
<1>4. IndicesFollow
  <2>1. /\ ~dma.on /\ ~dma.halted /\ dma.civ = 0 /\ dma.lvi = 0
        /\ ~dma_is_running /\ page_idx = 0 /\ list_idx = 0 /\ queued = 0 /\ played = 0
        /\ dma.on = FALSE /\ dma_is_running = FALSE
    BY DEF SoundInit
  <2>2. page_idx = queued % OutputPages /\ list_idx = queued % ListEntries
    BY <1>1, <2>1
  <2>3. played <= queued
    BY <2>1, 0 <= 0
  <2>4. ~dma.on /\ dma_is_running = dma.on
    BY <2>1, Zenon
  <2> QED BY ONLY <2>1, <2>2, <2>3, <2>4 DEF IndicesFollow
<1>5. RoomIsReserved
  <2>1. PastTheCheck = {} /\ \A w \in Player : ~PlayerAt(w, "blocked")
    BY <1>2 DEF PastTheCheck, PlayerAt
  <2>2. queued - played <= OutputPages
    <3>1. queued = 0 /\ played = 0 /\ OutputPages \in Nat
      BY SoundSizes DEF SoundInit
    <3> QED BY ONLY <3>1
  <2> QED BY <2>1, <2>2 DEF RoomIsReserved
<1>6. BuffersAreKept /\ CopyIsNext
  BY <1>2 DEF SoundInit, BuffersAreKept, CopyIsNext, PlayerAt
<1> QED BY <1>3, <1>4, <1>5, <1>6 DEF SoundInv, SoundInit

(* Until two writers pass the check together, the card plays every buffer  *)
(* once, in the order of its copies and unharmed, whatever the sizes of    *)
(* the list and of the output pages (ac97.c:195, 201, 218).                *)
THEOREM TheTuneIsPlayed == SoundSpec => []TuneIsPlayed
<1>1. SoundInit => SoundInv
  BY SoundInvInit
<1>2. SoundInv /\ [SoundNext]_soundVars => SoundInv'
  BY SoundInvNext
<1>3. SoundInv => TuneIsPlayed
  BY SoundInvTune
<1> QED BY <1>1, <1>2, <1>3, PTL DEF SoundSpec
=============================================================================
