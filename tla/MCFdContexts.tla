---------------------------- MODULE MCFdContexts ----------------------------
(* TLC instances of FdContexts. *)
EXTENDS FdContexts, TLC

Symmetry == Permutations(Thread) \cup Permutations(Waiter)
=============================================================================
