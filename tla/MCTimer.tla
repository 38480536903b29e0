------------------------------ MODULE MCTimer -------------------------------
(* Small instances of Timer for TLC; the .cfg files choose the constants. *)
EXTENDS Timer, TLC

SymThreads == Permutations(Threads)
=============================================================================
