-------------------------- MODULE MCAddressSpace ---------------------------
(* AddressSpace for TLC.                                                   *)
EXTENDS AddressSpace, TLC

(* Nothing orders the spaces.                                              *)
Symmetry == Permutations(Space)
=============================================================================
