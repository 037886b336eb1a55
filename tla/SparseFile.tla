----------------------------- MODULE SparseFile -----------------------------
(***************************************************************************)
(* What a memory file promises: a sequence of bytes.  Writing past the end *)
(* fills the gap with zeros and truncating to a longer length appends      *)
(* zeros, whatever the file contained before.  Only a process that has the *)
(* file mapped and has written to the rest of its last page (`scribbled')  *)
(* may find other bytes in a gap.                                          *)
(***************************************************************************)
EXTENDS Naturals, Sequences

CONSTANTS Byte,
          MaxLen      \* bound: the length of a file
VARIABLES bytes, scribbled

SparseInit == bytes = <<>> /\ scribbled = FALSE

Fill(n) == IF scribbled THEN [1..n -> Byte] ELSE [1..n -> {0}]

Gap(at) == IF at <= Len(bytes) THEN 0 ELSE at - Len(bytes)

(* n bytes b are written at offset `at'.                                   *)
Write(at, n, b) ==
    /\ n > 0
    /\ \E gap \in Fill(Gap(at)) :
         LET long == bytes \o gap
         IN  bytes' = [i \in 1..(IF at + n > Len(long) THEN at + n ELSE Len(long))
                        |-> IF i > at /\ i <= at + n THEN b ELSE long[i]]
    /\ UNCHANGED scribbled

Truncate(len) ==
    /\ bytes' = [i \in 1..len |-> IF i <= Len(bytes) THEN bytes[i] ELSE 0]
    /\ UNCHANGED scribbled

(* A store through a mapping, inside the file or behind its end.           *)
Store == \/ \E i \in DOMAIN bytes, b \in Byte : bytes' = [bytes EXCEPT ![i] = b]
            /\ UNCHANGED scribbled
         \/ scribbled' = TRUE /\ UNCHANGED bytes

SparseNext == \/ \E len \in 0..MaxLen : Truncate(len)
              \/ Store
              \/ \E at \in 0..MaxLen, n \in 1..MaxLen, b \in Byte : Write(at, n, b)

SparseSpec == SparseInit /\ [][SparseNext]_<<bytes, scribbled>>
=============================================================================
