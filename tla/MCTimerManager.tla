--------------------------- MODULE MCTimerManager ---------------------------
(* TLC instances of TimerManager. *)
EXTENDS TimerManager, TLC

ThreadSymmetry == Permutations(Thread)
=============================================================================
