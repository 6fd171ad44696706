------------------------------- MODULE MCHook -------------------------------
(* TLC instances of Hook. *)
EXTENDS Hook, TLC

FiberSymmetry == Permutations(Fiber)
=============================================================================
