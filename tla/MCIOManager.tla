---------------------------- MODULE MCIOManager ----------------------------
(* TLC instances of IOManager. *)
EXTENDS IOManager, TLC

FiberSymmetry == Permutations(Fiber)
=============================================================================
