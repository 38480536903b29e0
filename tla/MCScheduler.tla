---------------------------- MODULE MCScheduler -----------------------------
(* Small instances of Scheduler for TLC; the .cfg files choose the constants. *)
EXTENDS Scheduler, TLC

\* Fibers, functions and the storage of callback fibers are interchangeable.
SymWork == Permutations(Fibers) \cup Permutations(Cbs) \cup Permutations(CbFibers)
=============================================================================
