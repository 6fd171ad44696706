---------------------------- MODULE MCScheduler ----------------------------
(* TLC instances of Scheduler. *)
EXTENDS Scheduler, TLC

FiberSymmetry == Permutations(Fiber)
=============================================================================
