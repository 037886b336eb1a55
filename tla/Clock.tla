-------------------------------- MODULE Clock -------------------------------
(***************************************************************************)
(* The clock and sleeping (kernel/time.c, pit.c, syscall/clock.c).  The    *)
(* timer interrupt advances `now', a pair of seconds and nanoseconds; a    *)
(* second has TicksPerSec ticks and nanoseconds are counted in ticks.      *)
(* time_now() copies the pair without disabling interrupts, so that the    *)
(* timer may come between the two halves, in whichever order the compiler  *)
(* copies them.  The scheduler evaluates a sleeper's condition with        *)
(* interrupts disabled.                                                    *)
(***************************************************************************)
EXTENDS Integers

CONSTANTS Sleeper,
          TicksPerSec,    \* CLK_TCK
          SleepRequests,  \* [sec, nsec] of the sleeps that are asked for
          MaxSec          \* bound: the clock stops here

ASSUME ClockAssumption == TicksPerSec \in Nat \ {0} /\ MaxSec \in Nat

\* The kernel does not look at the request; sleep(), usleep() and the program
\* sleep fill in less than a second of nanoseconds (unistd.c:85, 94, sleep.c:63).
ASSUME SleepRequestsAssumption ==
    SleepRequests \subseteq [sec : Nat, nsec : 0 .. TicksPerSec - 1]

VARIABLES now,          \* [sec, nsec]
          zState,       \* where each sleeper is
          half,         \* half[z]: the part of `now' it has copied
          request, deadline,
          began,        \* history: ticks when the call began
          torn          \* history: the timer came between the halves

clockVars == <<now, zState, half, request, deadline, began, torn>>

Time(t) == t.sec * TicksPerSec + t.nsec

ClockInit ==
    /\ now = [sec |-> 0, nsec |-> 0]
    /\ zState = [z \in Sleeper |-> "awake"]
    /\ half = [z \in Sleeper |-> now]
    /\ request = [z \in Sleeper |-> now]
    /\ deadline = [z \in Sleeper |-> now]
    /\ began = [z \in Sleeper |-> 0]
    /\ torn = [z \in Sleeper |-> FALSE]

(* time_tick(), and pit_handler(), which calls it in the timer interrupt.  *)
Ticked(t) == IF t.nsec + 1 >= TicksPerSec
             THEN [sec |-> t.sec + 1, nsec |-> t.nsec + 1 - TicksPerSec]
             ELSE [t EXCEPT !.nsec = @ + 1]

PitHandler ==
    /\ now.sec < MaxSec
    /\ now' = Ticked(now)
    /\ torn' = [z \in Sleeper |->
                  torn[z] \/ zState[z] \in {"sec_read", "nsec_read"}]
    /\ UNCHANGED <<zState, half, request, deadline, began>>

(* sys_clock_nanosleep(): for a relative sleep the clock is copied in two  *)
(* halves and the request is added; an absolute one has its deadline.      *)
SleepBegin(z) ==
    /\ zState[z] = "awake"
    /\ \E r \in SleepRequests : request' = [request EXCEPT ![z] = r]
    /\ began' = [began EXCEPT ![z] = Time(now)]
    /\ torn' = [torn EXCEPT ![z] = FALSE]
    /\ half' = [half EXCEPT ![z] = now]
    /\ \E h \in {"sec_read", "nsec_read"} :
         zState' = [zState EXCEPT ![z] = h]
    /\ UNCHANGED <<now, deadline>>

(* timespec_add(): one carry.                                              *)
TimespecAdd(a, b) ==
    LET n == a.nsec + b.nsec
    IN  IF n >= TicksPerSec
        THEN [sec |-> a.sec + b.sec + 1, nsec |-> n - TicksPerSec]
        ELSE [sec |-> a.sec + b.sec, nsec |-> n]

SleepDeadline(z) ==
    /\ zState[z] \in {"sec_read", "nsec_read"}
    /\ LET copy == IF zState[z] = "sec_read"
                   THEN [sec |-> half[z].sec, nsec |-> now.nsec]
                   ELSE [sec |-> now.sec, nsec |-> half[z].nsec]
       IN  deadline' = [deadline EXCEPT ![z] = TimespecAdd(copy, request[z])]
    /\ zState' = [zState EXCEPT ![z] = "asleep"]
    /\ UNCHANGED <<now, half, request, began, torn>>

SleepAbsolute(z) ==
    /\ zState[z] = "awake"
    /\ \E r \in SleepRequests : /\ request' = [request EXCEPT ![z] = r]
                           /\ deadline' = [deadline EXCEPT ![z] = r]
    /\ began' = [began EXCEPT ![z] = 0]
    /\ torn' = [torn EXCEPT ![z] = FALSE]
    /\ zState' = [zState EXCEPT ![z] = "asleep"]
    /\ UNCHANGED <<now, half>>

(* sleep_should_unblock().                                                 *)
SleepIsOverBySeconds(z) == now.sec >= deadline[z].sec

SleepIsOverByHalves(z) ==
    now.sec >= deadline[z].sec /\ now.nsec >= deadline[z].nsec

SleepIsOver(z) == \/ now.sec > deadline[z].sec
                  \/ now.sec = deadline[z].sec /\ now.nsec >= deadline[z].nsec

WakeUp(z) ==
    /\ zState[z] = "asleep" /\ SleepIsOver(z)
    /\ zState' = [zState EXCEPT ![z] = "woken"]
    /\ UNCHANGED <<now, half, request, deadline, began, torn>>

(* timespec_saturating_sub(): what `remain' says after the sleep, and the  *)
(* process goes on.                                                        *)
TimespecSaturatingSub(a, b) ==
    LET borrow == a.nsec - b.nsec < 0
        s == a.sec - b.sec - (IF borrow THEN 1 ELSE 0)
        n == a.nsec - b.nsec + (IF borrow THEN TicksPerSec ELSE 0)
    IN  IF s < 0 THEN [sec |-> 0, nsec |-> 0] ELSE [sec |-> s, nsec |-> n]

SleepReturns(z) ==
    /\ zState[z] = "woken"
    /\ zState' = [zState EXCEPT ![z] = "awake"]
    /\ UNCHANGED <<now, half, request, deadline, began, torn>>

ClockNext == \/ PitHandler
             \/ \E z \in Sleeper : \/ SleepBegin(z) \/ SleepDeadline(z)
                                   \/ SleepAbsolute(z) \/ WakeUp(z)
                                   \/ SleepReturns(z)

ClockSpec == ClockInit /\ [][ClockNext]_clockVars

ClockFairness == /\ WF_clockVars(PitHandler)
                 /\ \A z \in Sleeper : WF_clockVars(WakeUp(z))
                                       /\ WF_clockVars(SleepDeadline(z))

-----------------------------------------------------------------------------
(* A sleeper never wakes before its time, unless the timer tore the clock  *)
(* apart while it was copied; then it wakes at most a second early.  What  *)
(* it is told remains is then zero.                                        *)
NeverWakesEarly ==
    \A z \in Sleeper : zState[z] = "woken" =>
      /\ ~torn[z] => Time(now) >= began[z] + Time(request[z])
      /\ Time(now) + TicksPerSec >= began[z] + Time(request[z])
      /\ TimespecSaturatingSub(deadline[z], now) = [sec |-> 0, nsec |-> 0]

(* A sleeper wakes, as long as the clock runs past its deadline.           *)
SleeperWakes ==
    \A z \in Sleeper :
      zState[z] = "asleep" /\ Time(deadline[z]) <= MaxSec * TicksPerSec
        ~> zState[z] # "asleep"
=============================================================================
