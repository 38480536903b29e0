------------------------------ MODULE TaskPool ------------------------------
(***************************************************************************)
(* What a user of sylar::Scheduler relies on, without queues or contexts:  *)
(* every accepted work item is run by at most one thread at a time, is     *)
(* never forgotten, is not entered again once it has returned, and stop()  *)
(* returns only when nothing is left that could still run.                 *)
(***************************************************************************)
CONSTANTS Work,     \* the fibers and callbacks handed to schedule()
          Threads   \* the threads that run them

VARIABLES status,   \* the life of every work item
          runners,  \* the threads that execute it now
          closing   \* stop() has been called and has not returned

vars == <<status, runners, closing>>

Statuses == {"new", "pending", "running", "parked", "done"}

\* Work that keeps the pool from closing; a parked item waits for an event
\* outside of the pool, and the pool does not count it.
Unfinished == {w \in Work : status[w] \in {"pending", "running"}}

Running == {w \in Work : status[w] = "running"}

TypeOK == /\ status \in [Work -> Statuses]
          /\ runners \in [Work -> SUBSET Threads]
          /\ closing \in BOOLEAN

Init == /\ status = [w \in Work |-> "new"]
        /\ runners = [w \in Work |-> {}]
        /\ closing = FALSE

\* The item goes from one status to another, with the threads `who' on it.
Become(w, from, to, who) == /\ status[w] = from
                            /\ status' = [status EXCEPT ![w] = to]
                            /\ runners' = [runners EXCEPT ![w] = who]
                            /\ UNCHANGED closing

\* Once the pool is closing only a work item that is running may add work.
Accepting == closing => Running # {}

Submit(w) == Accepting /\ Become(w, "new", "pending", {})
Wake(w)   == Accepting /\ Become(w, "parked", "pending", {})

\* A thread enters an item that nobody executes, and leaves it as the only one.
Run(w, t)    == runners[w] = {} /\ Become(w, "pending", "running", {t})
Leave(w, to) == /\ \E t \in Threads : runners[w] = {t}
                /\ Become(w, "running", to, {})

Yield(w)  == Leave(w, "pending")
Park(w)   == Leave(w, "parked")
Finish(w) == Leave(w, "done")

BeginClose == ~closing /\ closing' = TRUE /\ UNCHANGED <<status, runners>>
EndClose   == /\ closing /\ Unfinished = {}
              /\ closing' = FALSE /\ UNCHANGED <<status, runners>>

Next == \/ \E w \in Work : \/ Submit(w) \/ Wake(w) \/ (\E t \in Threads : Run(w, t))
                           \/ Yield(w) \/ Park(w) \/ Finish(w)
        \/ BeginClose
        \/ EndClose

Spec == Init /\ [][Next]_vars
=============================================================================
