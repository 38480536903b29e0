---------------------------- MODULE MCIOManager -----------------------------
(* Small instances of IOManager for TLC; the .cfg files choose the constants. *)
EXTENDS IOManager, TLC

CONSTANTS r1, r2, f1, f2

\* One fiber per direction of one socket.
Duplex == (r1 :> {<<f1, "READ">>}) @@ (r2 :> {<<f1, "WRITE">>})
\* Two readers, each with a socket of its own.
Readers == (r1 :> {<<f1, "READ">>}) @@ (r2 :> {<<f2, "READ">>})
\* One reader and a fiber that registers nothing.
OneReader == (r1 :> {<<f1, "READ">>}) @@ (r2 :> {})

SymThreads == Permutations(Threads)
=============================================================================
