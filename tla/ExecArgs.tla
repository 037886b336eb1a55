------------------------------ MODULE ExecArgs ------------------------------
(***************************************************************************)
(* How execve() carries argv and envp into the new program: the strings    *)
(* are copied to the kernel heap, the executable is loaded into a new      *)
(* address space, the strings and the two vectors are pushed onto the new  *)
(* stack, and every allocation is given back on each way out.  Sources:    *)
(* kernel/syscall/exec.c, execvpe() in userland/lib/unistd.c.              *)
(*                                                                         *)
(* A string is its length; its k-th byte is known by where it comes from.  *)
(* The new address space itself is AddressSpace's; here its part is that   *)
(* loading may fail.  Words have WordBytes bytes (four in the code), and   *)
(* the stack pointer is rounded down to StackAlign (sixteen).              *)
(***************************************************************************)
EXTENDS Naturals, Sequences, FiniteSets, SequencesExt

CONSTANTS
    WordBytes, StackAlign,
    GuardBytes,     \* below the stack: the page that is left unmapped
    StackSizes,     \* values of STACK_SIZE
    MaxArgs,        \* bound: strings of a vector
    MaxStrlen,      \* bound: length of a string
    SearchPaths     \* what execve() finds in the directories of PATH: sequences

ASSUME ExecArgsAssumption ==
    /\ WordBytes \in Nat \ {0} /\ StackAlign \in Nat \ {0}
    /\ StackSizes \subseteq Nat /\ GuardBytes \in Nat

VARIABLES
    args,       \* argv, envp and PATH of the caller, and the size of the stack
    exec,       \* where the call is, its stack pointer and its locals
    stackMem,   \* the bytes of the new stack, by address
    heap        \* allocations of the call that are not freed, as a sequence
execVars == <<args, exec, stackMem, heap>>

StackBase == GuardBytes
StackTop == StackBase + args.stack

Vector == BoundedSeq(0 .. MaxStrlen, MaxArgs)
Vec(v) == IF v = "argv" THEN args.argv ELSE args.envp
StrSize(v, i) == Vec(v)[i] + 1

AtExec(pc) == exec.pc = pc
ExecGoto(pc) == [exec EXCEPT !.pc = pc, !.i = 1]

\* The heap after kfree() of those of the names that are allocated.
Freed(h, names) == SelectSeq(h, LAMBDA x : x \notin names)

-----------------------------------------------------------------------------
(* Userland: execvpe() tries the directories of PATH in order, and goes on *)
(* only when a file does not exist.                                        *)
ExecvpeErrno(found) == found = "missing"
Execvpe ==
    /\ AtExec("search")
    /\ exec' = IF exec.part > Len(args.path) THEN [exec EXCEPT !.pc = "failed"]
               ELSE IF ExecvpeErrno(args.path[exec.part])
               THEN [exec EXCEPT !.part = @ + 1]
               ELSE ExecGoto(IF args.path[exec.part] = "program" THEN "read" ELSE "failed")
    /\ UNCHANGED <<args, stackMem, heap>>

-----------------------------------------------------------------------------
(* Before the switch of the address space.                                 *)

\* The executable is read into a buffer and its header is checked.
ReadExecutable ==
    /\ AtExec("read")
    /\ \/ exec' = ExecGoto("copy") /\ heap' = Append(heap, "executable_buf")
       \/ exec' = ExecGoto("failed") /\ UNCHANGED heap
    /\ UNCHANGED <<args, stackMem>>

\* string_list_create() of argv, then of envp; an empty list needs nothing.
StringListCreate ==
    /\ AtExec("copy")
    /\ LET v == IF exec.i = 1 THEN "argv" ELSE "envp"
       IN \/ /\ exec' = IF exec.i = 1 THEN [exec EXCEPT !.i = 2] ELSE ExecGoto("load")
             /\ heap' = IF Vec(v) = << >> THEN heap ELSE Append(heap, v)
          \/ /\ Vec(v) # << >>
             /\ exec' = ExecGoto("failed")
             /\ heap' = Freed(heap, {"executable_buf", "argv"})
    /\ UNCHANGED <<args, stackMem>>

-----------------------------------------------------------------------------
(* After it.  The label `fail' frees what is left; string_list_destroy()   *)
(* and ptr_list_destroy() do nothing the second time.                      *)

FailFrees == {"executable_buf", "argv", "envp", "envp_ptrs", "argv_ptrs"}
ExecFails == /\ exec' = ExecGoto("failed")
             /\ heap' = Freed(heap, FailFrees)
             /\ UNCHANGED <<args, stackMem>>

\* The segments and the stack are mapped; the stack is zeroed.
LoadSegments ==
    /\ AtExec("load")
    /\ \/ ExecFails
       \/ /\ exec' = [ExecGoto("env_strings") EXCEPT !.sp = StackTop]
          /\ heap' = Freed(heap, {"executable_buf"})
          /\ UNCHANGED <<args, stackMem>>

Words(a, value) == [b \in a .. a + WordBytes - 1 |-> <<"word", value, b - a>>]
Stored(new) == [a \in DOMAIN stackMem \cup DOMAIN new |->
                    IF a \in DOMAIN new THEN new[a] ELSE stackMem[a]]
NextPowerOfTwo(n) == CHOOSE p \in {2^k : k \in 0 .. n} : p >= n /\ (p = 1 \/ p < 2 * n)

\* push_strings(), one string a step.  The check is made with the size of
\* the string, and the pointer moved by the next power of two: a string may
\* end up in the unmapped page below the stack, and copying it there is a
\* page fault in the kernel.
PtrIndexForward(v, i) == i                                        \* fault
PtrIndex(v, i) == Len(Vec(v)) - i + 1
PushStrings(pc, v, ptrs, next) ==
    /\ AtExec(pc)
    /\ LET i == exec.i
           size == StrSize(v, i)
           sp == exec.sp - NextPowerOfTwo(size)
           done == [ExecGoto(next) EXCEPT !.sp = exec.sp]
       IN IF Vec(v) = << >>
          THEN exec' = done /\ UNCHANGED <<args, stackMem, heap>>
          ELSE IF i > Len(Vec(v))
          THEN exec' = done /\ heap' = Freed(heap, {v}) /\ UNCHANGED <<args, stackMem>>
          ELSE \/ i = 1 /\ ExecFails
               \/ /\ exec.sp < StackBase + size
                  /\ ExecFails
               \/ /\ exec.sp >= StackBase + size
                  /\ heap' = IF i = 1 THEN Append(heap, ptrs) ELSE heap
                  /\ IF sp < StackBase
                     THEN exec' = ExecGoto("panic") /\ UNCHANGED stackMem
                     ELSE /\ stackMem' = Stored([a \in sp .. sp + size - 1 |-> <<v, i, a - sp>>])
                          /\ exec' = [exec EXCEPT !.sp = sp, !.i = @ + 1,
                                        !.ptrs[v] = (PtrIndex(v, i) :> sp) @@ @]
                  /\ UNCHANGED args

\* push_value()
PushValue(value, then) ==
    IF exec.sp < StackBase + WordBytes THEN ExecFails
    ELSE /\ exec' = [then EXCEPT !.sp = exec.sp - WordBytes]
         /\ stackMem' = Stored(Words(exec.sp - WordBytes, value))
         /\ UNCHANGED <<args, heap>>

\* The terminating null and push_ptrs(), one pointer a step; the list of
\* pointers is freed at its end and the place of the vector noted.
PushPtrs(pc, v, ptrs, next) ==
    /\ AtExec(pc)
    /\ LET i == exec.i - 1
       IN IF i = 0 THEN PushValue(0, [exec EXCEPT !.i = 2])
          ELSE IF i <= Len(Vec(v)) THEN PushValue(exec.ptrs[v][i], [exec EXCEPT !.i = @ + 1])
          ELSE /\ exec' = [ExecGoto(next) EXCEPT !.vec[v] = exec.sp]
               /\ heap' = Freed(heap, {ptrs})
               /\ UNCHANGED <<args, stackMem>>

\* The stack pointer is aligned, and main()'s arguments are pushed.
Finish == <<exec.vec["envp"], exec.vec["argv"], Len(args.argv), 0>>
PushMainArgs ==
    /\ AtExec("main_args")
    /\ IF exec.i = 1
       THEN /\ exec' = [exec EXCEPT !.sp = @ - (@ % StackAlign), !.i = 2]
            /\ UNCHANGED <<args, stackMem, heap>>
       ELSE PushValue(Finish[exec.i - 1],
                      IF exec.i = 5 THEN ExecGoto("userland") ELSE [exec EXCEPT !.i = @ + 1])

PushStringsOf ==
    \/ PushStrings("env_strings", "envp", "envp_ptrs", "arg_strings")
    \/ PushStrings("arg_strings", "argv", "argv_ptrs", "env_ptrs")
PushPtrsOf ==
    \/ PushPtrs("env_ptrs", "envp", "envp_ptrs", "arg_ptrs")
    \/ PushPtrs("arg_ptrs", "argv", "argv_ptrs", "main_args")

ExecInit ==
    /\ args \in [argv : Vector, envp : Vector, stack : StackSizes, path : SearchPaths]
    /\ exec = [pc |-> "search", part |-> 1, i |-> 1, sp |-> 0,
               ptrs |-> [v \in {"argv", "envp"} |-> << >>],
               vec |-> [v \in {"argv", "envp"} |-> 0]]
    /\ stackMem = << >> /\ heap = << >>
ExecNext == \/ Execvpe \/ ReadExecutable \/ StringListCreate \/ LoadSegments
            \/ PushStringsOf \/ PushPtrsOf \/ PushMainArgs

-----------------------------------------------------------------------------
HasWord(a, value) == \A b \in 0 .. WordBytes - 1 : stackMem[a + b] = <<"word", value, b>>
HasVector(a, v) ==
    /\ \A i \in 1 .. Len(Vec(v)) :
          LET p == stackMem[a + (i - 1) * WordBytes][2]
          IN /\ HasWord(a + (i - 1) * WordBytes, p)
             /\ \A k \in 0 .. Vec(v)[i] : stackMem[p + k] = <<v, i, k>>
    /\ HasWord(a + Len(Vec(v)) * WordBytes, 0)

(***************************************************************************)
(* The new program gets the arguments the old one passed: main() finds     *)
(* argc, and argv and envp as null-terminated vectors whose pointers, in   *)
(* order, lead to the strings, no byte of which was overwritten by what    *)
(* was pushed later.                                                       *)
(* Nothing is left on the heap whatever failed, and the file that runs is  *)
(* the first on PATH that exists.  The kernel dies only of a string that   *)
(* fits although its size rounded up does not (exec.c:139, 144).           *)
(***************************************************************************)
ArgsArrive ==
    /\ AtExec("userland") =>
         LET word(n) == stackMem[exec.sp + n * WordBytes][2]
         IN /\ exec.sp >= StackBase
            /\ HasWord(exec.sp + WordBytes, Len(args.argv))
            /\ HasVector(word(2), "argv")
            /\ HasVector(word(3), "envp")
    /\ exec.pc \in {"userland", "failed"} => heap = << >>
    /\ exec.pc \notin {"search", "failed"} =>
         /\ args.path[exec.part] = "program"
         /\ \A j \in 1 .. exec.part - 1 : args.path[j] = "missing"
    /\ AtExec("panic") =>
         \E v \in {"argv", "envp"}, i \in 1 .. MaxArgs :
            i \in DOMAIN Vec(v) /\ NextPowerOfTwo(StrSize(v, i)) > StrSize(v, i)
=============================================================================
