---------------------------- MODULE MCScheduler ----------------------------
(* Small instances of Scheduler.                                           *)
EXTENDS Scheduler

AnyChild == {-1}
ChildOrGroup == {-2, -1, 0, 2}
=============================================================================
