------------------------------ MODULE MCSocket ------------------------------
(* Small instances of Socket for TLC. *)
EXTENDS Socket, TLC

FiberSymmetry == Permutations(Fibers) \cup Permutations(Objects \ Udp)
=============================================================================
