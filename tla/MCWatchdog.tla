------------------------------ MODULE MCWatchdog ------------------------------
(* Small instances of Watchdog.  The threads that run the passes are alike. *)
EXTENDS Watchdog, TLC

PasserSymmetry == Permutations(Passers)
===============================================================================
