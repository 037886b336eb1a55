--------------------------- MODULE RecursiveLock ---------------------------
(* What kernel/lock.c promises: a lock that one process owns at a time,    *)
(* that its owner may take again, and that is free once the owner has      *)
(* released it as often as it took it.                                     *)
EXTENDS Naturals

CONSTANTS Process, NULL

VARIABLES owner, level

Init == owner = NULL /\ level = 0

Lock(p) ==
    /\ owner \in {NULL, p}
    /\ owner' = p
    /\ level' = level + 1

Unlock(p) ==
    /\ owner = p
    /\ level' = level - 1
    /\ owner' = IF level = 1 THEN NULL ELSE p

Next == \E p \in Process : Lock(p) \/ Unlock(p)

Spec == Init /\ [][Next]_<<owner, level>>
=============================================================================
