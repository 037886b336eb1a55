----------------------------- MODULE Interrupts -----------------------------
(***************************************************************************)
(* How the kernel takes interrupts: the two cascaded interrupt controllers,*)
(* the gates of the IDT, the stubs that save and restore the interrupted   *)
(* context, push_cli()/pop_cli(), and the places where a handler does not  *)
(* return to what it interrupted: the timer's, which switches threads, and *)
(* the ones that end a process.  Sources: kernel/irq.c, kernel/idt.c,      *)
(* kernel/interrupt.S, kernel/pit.c, kernel/scheduler.c,                   *)
(* kernel/syscall/syscall.c, kernel/process.c.                             *)
(*                                                                         *)
(* A kernel stack is a sequence of frames, the innermost last; each holds  *)
(* the interrupt flag to restore when it is left.  Which thread is ready   *)
(* is the scheduler's affair: here it may pick any.                        *)
(***************************************************************************)
EXTENDS Naturals, Sequences, FiniteSets, SequencesExt, FiniteSetsExt

CONSTANTS
    IrqThread,      \* processes
    IdleThread,     \* the idle process, one of them
    IrqLine,        \* lines a device raises; 0 is the timer's
    MaxCli          \* bound: nested push_cli() of a system call

ASSUME InterruptsAssumption ==
    /\ IdleThread \in IrqThread
    /\ IrqLine \subseteq 0 .. 15
    /\ MaxCli \in Nat

VARIABLES
    interruptFlag,  \* EFLAGS.IF
    running,        \* the thread on the processor
    kernelStack,    \* of every thread
    pic,            \* lines requested, and in service at each controller
    threadState     \* "runnable" (never ran), "running", "dead"
interruptVars == <<interruptFlag, running, kernelStack, pic, threadState>>

NUM_IRQS_PER_PIC == 8
Cascade == 2

StackOf(t) == kernelStack[t]
Mode == IF StackOf(running) = << >> THEN "user" ELSE Last(StackOf(running)).kind
SavedFlag(kind) == [kind |-> kind, flag |-> interruptFlag]
EnterFrame(kind) == kernelStack' = [kernelStack EXCEPT ![running] = Append(@, SavedFlag(kind))]
LeaveFrame == /\ kernelStack' = [kernelStack EXCEPT ![running] = Front(@)]
              /\ interruptFlag' = Last(StackOf(running)).flag
\* The idle process has no user mode: its code is do_idle().
IsIdle == running = IdleThread

-----------------------------------------------------------------------------
(* The controllers.                                                        *)

RaiseIrq(n) ==
    /\ n \notin pic.request
    /\ pic' = [pic EXCEPT !.request = @ \cup {n}]
    /\ UNCHANGED <<interruptFlag, running, kernelStack, threadState>>

\* The pin of the first controller a line arrives at.
Pin(n) == IF n < NUM_IRQS_PER_PIC THEN n ELSE Cascade
\* A controller passes on a request of higher priority than what is in
\* service, and the highest of those.
Passes(n) ==
    /\ n \in pic.request
    /\ \A k \in pic.first : Pin(n) < k
    /\ n >= NUM_IRQS_PER_PIC => \A k \in pic.second : n < k
    /\ \A m \in pic.request : Pin(n) < Pin(m) \/ (Pin(n) = Pin(m) /\ n <= m)
Acknowledged(n) ==
    [request |-> pic.request \ {n}, first |-> pic.first \cup {Pin(n)},
     second |-> IF n >= NUM_IRQS_PER_PIC THEN pic.second \cup {n} ELSE pic.second]
\* The end-of-interrupt command ends what is in service at highest priority.
Eoi(inService) == IF inService = {} THEN {} ELSE inService \ {Min(inService)}

-----------------------------------------------------------------------------
(* Entry.  The gates of interrupts and exceptions clear the flag, the one  *)
(* of system calls, made user callable, leaves it.                         *)

\* irq_common_stub and irq_handler(): both controllers get the command
\* (regs->num counts from IRQ(0) = 32, so it is never below 8) before the
\* handler runs.
EoiInHandlerLater(p) == p                                         \* fault
EoiInHandler(p) == [p EXCEPT !.second = Eoi(@), !.first = Eoi(@)]
IrqHandler(n) ==
    /\ interruptFlag /\ Passes(n)
    /\ pic' = EoiInHandler(Acknowledged(n))
    /\ EnterFrame(IF n = 0 THEN "irq0" ELSE "irq")
    /\ interruptFlag' = FALSE
    /\ UNCHANGED <<running, threadState>>

\* isr_common_stub and isr_handler() for the system call vector.
SyscallHandler ==
    /\ ~IsIdle /\ Mode = "user" /\ interruptFlag
    /\ EnterFrame("syscall")
    /\ UNCHANGED <<interruptFlag, running, pic, threadState>>

\* An exception in userland: crash() ends the process.
ExceptionHandler ==
    /\ ~IsIdle /\ Mode = "user"
    /\ EnterFrame("crash")
    /\ interruptFlag' = FALSE
    /\ UNCHANGED <<running, pic, threadState>>

\* return_to_userland: iret restores the flag.
ReturnToUserland ==
    /\ Mode \in {"irq", "syscall"}
    /\ LeaveFrame
    /\ UNCHANGED <<running, pic, threadState>>

PushCli ==
    /\ Mode \in {"syscall", "cli"}
    /\ Cardinality({i \in DOMAIN StackOf(running) : StackOf(running)[i].kind = "cli"}) < MaxCli
    /\ EnterFrame("cli")
    /\ interruptFlag' = FALSE
    /\ UNCHANGED <<running, pic, threadState>>
PopCli ==
    /\ Mode = "cli"
    /\ LeaveFrame
    /\ UNCHANGED <<running, pic, threadState>>

-----------------------------------------------------------------------------
(* Switching threads.                                                      *)

\* The idle process is launched anew every time, the others go on.
Switchable(states) == {t \in IrqThread : IF t = IdleThread THEN states[t] = "runnable"
                                         ELSE states[t] # "dead"}
\* switch_to_next_process(): a new thread starts at its entry point with
\* interrupts enabled, an old one returns from its scheduler_yield(), the
\* pop_cli() of which restores the flag.
SwitchTo(t, stacks, states) ==
    /\ running' = t
    /\ IF states[t] = "runnable"
       THEN /\ threadState' = [states EXCEPT ![t] = "running"]
            /\ interruptFlag' = TRUE
            /\ kernelStack' = stacks
       ELSE /\ threadState' = states
            /\ interruptFlag' = Last(stacks[t]).flag
            /\ kernelStack' = [stacks EXCEPT ![t] = Front(@)]

\* scheduler_yield(): the timer's handler, of which only the return is left
\* then, a call that blocks, the idle loop.
SchedulerYield ==
    /\ Mode \in {"irq0", "syscall", "cli"} \/ (IsIdle /\ Mode = "user")
    /\ LET stack == IF Mode = "irq0"
                    THEN Append(Front(StackOf(running)), [Last(StackOf(running)) EXCEPT !.kind = "irq"])
                    ELSE StackOf(running)
           stacks == [kernelStack EXCEPT ![running] =
                        IF IsIdle THEN << >> ELSE Append(stack, SavedFlag("yield"))]
           states == IF IsIdle THEN [threadState EXCEPT ![running] = "runnable"]
                     ELSE threadState
       IN \E t \in Switchable(states) : SwitchTo(t, stacks, states)
    /\ UNCHANGED pic

\* die(): from exit() or a signal in a system call, from a crash, or from
\* the timer's handler when it interrupted userland (process_die_if_needed());
\* sti() and, later, cli() and a yield that does not return, so that the
\* frames below are never left.
DieStarts ==
    /\ ~IsIdle
    /\ \/ Mode \in {"syscall", "crash"}
       \/ Mode = "irq0" /\ Len(StackOf(running)) = 1
    /\ kernelStack' = [kernelStack EXCEPT ![running] = <<[kind |-> "die", flag |-> TRUE]>>]
    /\ interruptFlag' = TRUE
    /\ UNCHANGED <<running, pic, threadState>>
DieYields ==
    /\ Mode = "die"
    /\ LET states == [threadState EXCEPT ![running] = "dead"]
       IN \E t \in Switchable(states) :
            SwitchTo(t, [kernelStack EXCEPT ![running] = << >>], states)
    /\ UNCHANGED pic

InterruptsInit ==
    /\ running = IdleThread /\ interruptFlag = TRUE
    /\ threadState = [t \in IrqThread |-> IF t = IdleThread THEN "running" ELSE "runnable"]
    /\ kernelStack = [t \in IrqThread |-> << >>]
    /\ pic = [request |-> {}, first |-> {}, second |-> {}]
InterruptsNext ==
    \/ \E n \in IrqLine : RaiseIrq(n) \/ IrqHandler(n)
    \/ SyscallHandler \/ ExceptionHandler \/ ReturnToUserland \/ PushCli \/ PopCli
    \/ SchedulerYield \/ DieStarts \/ DieYields

InterruptsSpec == InterruptsInit /\ [][InterruptsNext]_interruptVars

(***************************************************************************)
(* However interrupts, thread switches and deaths nest: whenever the       *)
(* processor takes interrupts no line is still in service at a controller, *)
(* so none is kept from the processor by one whose handler went to another *)
(* thread; and userland and the idle loop always run with interrupts       *)
(* enabled, as syscall_handler() and do_idle() assert, whichever flag the  *)
(* threads that ran in between had (irq.c:109, scheduler.c:144, 218).      *)
(***************************************************************************)
LinesStayOpen ==
    /\ interruptFlag => pic.first = {} /\ pic.second = {}
    /\ Mode = "user" => interruptFlag
=============================================================================
