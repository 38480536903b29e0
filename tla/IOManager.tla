----------------------------- MODULE IOManager ------------------------------
(***************************************************************************)
(* sylar::IOManager (iomanager.h, iomanager.cpp): the fd contexts, the     *)
(* epoll instance they are registered in, the tickle pipe, and the idle    *)
(* fiber that turns epoll events into scheduled fibers.                    *)
(*                                                                         *)
(* A critical section under a FdContext's mutex is one step. The scheduler *)
(* underneath is reduced to what the IOManager sees of it: a set of queued *)
(* fibers, who runs which, and the busy/idle counts; module Scheduler has  *)
(* the rest. Timers are in module Timer: here a sleep ends by an event, a  *)
(* tickle or MAX_TIMEOUT.                                                  *)
(*                                                                         *)
(* The kernel is external: epoll is edge-triggered, so a descriptor that   *)
(* becomes ready, or is added or modified while ready, is reported once.   *)
(***************************************************************************)
EXTENDS Integers, FiniteSets

CONSTANTS
    Threads,      \* threads of the pool
    Fds,          \* socket descriptors
    Tasks,        \* fibers
    Uses,         \* the registrations <<fd, event>> each fiber may make
    Peers,        \* what the other end can do to a descriptor: subset of Levels
    CanClose,     \* some fiber closes descriptors
    None,         \* no fiber
    MaxAdds       \* bound: calls of addEvent() by each fiber

Events == {"READ", "WRITE"}
Levels == Events \cup {"HUP"}

ASSUME IOManagerAssumption ==
    /\ IsFiniteSet(Threads) /\ Threads # {} /\ IsFiniteSet(Fds)
    /\ Uses \in [Tasks -> SUBSET (Fds \X Events)]
    /\ Peers \subseteq Levels
    /\ CanClose \in BOOLEAN
    /\ None \notin Tasks
    /\ MaxAdds \in Nat

VARIABLES
    events,               \* FdContext::events
    ctx,                  \* the fiber of FdContext::read and ::write
    m_pendingEventCount,
    interest, level, edge,\* kernel: registered mask, readiness, descriptors to report
    open,                 \* kernel: descriptors that are open
    pipe,                 \* the tickle pipe: "empty", "ready" (to be reported), "seen"
    m_fibers,             \* queued fibers
    m_stopping,           \* stop() has begun
    tickles,              \* tickle() calls stop() still makes
    state,                \* Fiber::m_state of each task, "new" before it is scheduled
    pc, cur, got,         \* per thread: place, running fiber, unhandled epoll_events
    closing,              \* per thread: the descriptor its fiber is closing, in a set
    drains,               \* threads that have an unhandled event of the pipe
    idle_term,            \* threads whose idle fiber has ended
    late,                 \* ghost: such a thread has taken a fiber all the same
    adds,                 \* calls of addEvent() made
    deleted,              \* ghost: fibers dropped by delEvent()
    aborted               \* a SYLAR_ASSERT failed

contexts == <<events, ctx, m_pendingEventCount>>
kernel   == <<interest, level, edge, open>>
quits    == <<idle_term, late>>
sched    == <<m_fibers, m_stopping, tickles, state, adds, deleted, quits>>
threads  == <<pc, cur, got, closing, drains>>
vars     == <<contexts, kernel, pipe, sched, threads, aborted>>

\* A thread inside the idle fiber, as hasIdleThreads() counts it.
IdlePoints == {"pending", "drained", "wait", "handle"}
HasIdleThreads == \E t \in Threads : pc[t] \in IdlePoints

\* m_activeThreadCount == 0
NoActiveThread == \A t \in Threads : pc[t] \notin {"run", "park", "close"}

Registered == {r \in Fds \X Events : r[2] \in events[r[1]]}

Init == /\ events = [f \in Fds |-> {}]
        /\ ctx = [f \in Fds |-> [e \in Events |-> None]]
        /\ m_pendingEventCount = 0
        /\ interest = [f \in Fds |-> {}]
        /\ level = [f \in Fds |-> {}]
        /\ edge = {}
        /\ open = Fds
        /\ pipe = "empty"
        /\ m_fibers = {}
        /\ m_stopping = FALSE
        /\ tickles = 0
        /\ state = [k \in Tasks |-> "new"]
        /\ pc = [t \in Threads |-> "scan"]
        /\ cur = [t \in Threads |-> None]
        /\ got = [t \in Threads |-> [f \in Fds |-> {}]]
        /\ closing = [t \in Threads |-> {}]
        /\ drains = {}
        /\ idle_term = {}
        /\ late = FALSE
        /\ adds = [k \in Tasks |-> 0]
        /\ deleted = {}
        /\ aborted = FALSE
-----------------------------------------------------------------------------
(* The kernel, as the code uses it *)

\* What epoll_wait() would report of a descriptor: HUP is reported unasked.
Reported(f) == IF interest[f] = {} THEN {} ELSE level[f] \cap (interest[f] \cup {"HUP"})

\* epoll_ctl(): ADD if the context had no event, MOD, or DEL if `new' is empty.
CtlSucceeds(f) == f \in open /\ (interest[f] = {}) = (events[f] = {})
EpollCtl(f, new) ==
    /\ interest' = [interest EXCEPT ![f] = new]
    /\ edge' = IF new # {} /\ level[f] \cap (new \cup {"HUP"}) # {} THEN edge \cup {f}
                                                                     ELSE edge \ {f}

\* The descriptor becomes readable or writable, or the other end hangs up.
BecomesReady(f, l) ==
    /\ f \in open /\ l \in Peers /\ l \notin level[f]
    /\ level' = [level EXCEPT ![f] = @ \cup {l}]
    /\ edge' = IF interest[f] # {} /\ l \in interest[f] \cup {"HUP"} THEN edge \cup {f} ELSE edge
    /\ UNCHANGED <<contexts, interest, open, pipe, sched, threads, aborted>>
-----------------------------------------------------------------------------
(* Scheduling *)

\* tickle(): a byte for the pipe if a thread is idle.
Tickled(p) == IF HasIdleThreads THEN "ready" ELSE p

\* schedule() of the fibers `ks': tickle only if the queue was empty.
Schedule(ks) ==
    /\ m_fibers' = m_fibers \cup ks
    /\ pipe' = IF m_fibers = {} /\ ks # {} THEN Tickled(pipe) ELSE pipe

\* A client outside the pool schedules a new fiber.
Submit(k) ==
    /\ state[k] = "new" /\ ~m_stopping
    /\ state' = [state EXCEPT ![k] = "hold"]
    /\ Schedule({k})
    /\ UNCHANGED <<contexts, kernel, m_stopping, tickles, adds, deleted, quits, threads, aborted>>

\* stop(): the flag, then one tickle() per thread; join() follows.
Stop ==
    /\ ~m_stopping
    /\ m_stopping' = TRUE
    /\ tickles' = Cardinality(Threads)
    /\ UNCHANGED <<contexts, kernel, pipe, m_fibers, state, adds, deleted, quits, threads, aborted>>

StopTickles ==
    /\ tickles > 0
    /\ tickles' = tickles - 1
    /\ pipe' = Tickled(pipe)
    /\ UNCHANGED <<contexts, kernel, m_fibers, m_stopping, state, adds, deleted, quits, threads,
                   aborted>>
-----------------------------------------------------------------------------
(* What triggers and removes events, under the mutex of the context *)

\* Mutant: the decrement of m_pendingEventCount is forgotten.
TriggerUncounted(f, evs) ==
    IF evs \subseteq events[f]
    THEN /\ events' = [events EXCEPT ![f] = @ \ evs]
         /\ ctx' = [ctx EXCEPT ![f] = [e \in Events |-> IF e \in evs THEN None ELSE @[e]]]
         /\ Schedule({ctx[f][e] : e \in evs})
         /\ UNCHANGED <<m_pendingEventCount, aborted>>
    ELSE /\ aborted' = TRUE
         /\ UNCHANGED <<contexts, m_fibers, pipe>>
\* FdContext::triggerEvent() for each event of `evs', with the decrements of
\* m_pendingEventCount that follow it: the waiting fibers are scheduled and their
\* contexts reset. It asserts that the event is registered.
TriggerEvents(f, evs) ==
    IF evs \subseteq events[f]
    THEN /\ events' = [events EXCEPT ![f] = @ \ evs]
         /\ ctx' = [ctx EXCEPT ![f] = [e \in Events |-> IF e \in evs THEN None ELSE @[e]]]
         /\ m_pendingEventCount' = m_pendingEventCount - Cardinality(evs)
         /\ Schedule({ctx[f][e] : e \in evs})
         /\ UNCHANGED aborted
    ELSE /\ aborted' = TRUE
         /\ UNCHANGED <<contexts, m_fibers, pipe>>

-----------------------------------------------------------------------------
(* A fiber running on thread t *)

\* Mutant: addEvent() arms epoll for the new event alone.
AddEventAlone(t, f, e) ==
    LET k == cur[t]
        new == {e}
    IN
    /\ pc[t] = "run"
    /\ <<f, e>> \in Uses[k] /\ adds[k] < MaxAdds
    /\ adds' = [adds EXCEPT ![k] = @ + 1]
    /\ IF e \in events[f]
       THEN aborted' = TRUE /\ UNCHANGED <<contexts, kernel, pc>>
       ELSE IF ~CtlSucceeds(f)
       THEN UNCHANGED <<contexts, kernel, pc, aborted>>
       ELSE /\ EpollCtl(f, new)
            /\ m_pendingEventCount' = m_pendingEventCount + 1
            /\ events' = [events EXCEPT ![f] = @ \cup {e}]
            /\ ctx' = [ctx EXCEPT ![f][e] = k]
            /\ pc' = [pc EXCEPT ![t] = "park"]
            /\ UNCHANGED <<level, open, aborted>>
    /\ UNCHANGED <<pipe, m_fibers, m_stopping, tickles, state, deleted, quits, cur, got, closing,
                   drains>>

\* addEvent(fd, event) for the running fiber, which then waits. A second
\* registration of the same event, and a context that is not clean, abort; it
\* returns -1 if epoll_ctl() fails.
AddEvent(t, f, e) ==
    LET k == cur[t]
        new == events[f] \cup {e}
    IN
    /\ pc[t] = "run"
    /\ <<f, e>> \in Uses[k] /\ adds[k] < MaxAdds
    /\ adds' = [adds EXCEPT ![k] = @ + 1]
    /\ IF e \in events[f]
       THEN aborted' = TRUE /\ UNCHANGED <<contexts, kernel, pc>>
       ELSE IF ~CtlSucceeds(f)
       THEN UNCHANGED <<contexts, kernel, pc, aborted>>
       ELSE /\ EpollCtl(f, new)
            /\ m_pendingEventCount' = m_pendingEventCount + 1
            /\ events' = [events EXCEPT ![f] = new]
            /\ aborted' = (ctx[f][e] # None)
            /\ ctx' = [ctx EXCEPT ![f][e] = k]
            /\ pc' = [pc EXCEPT ![t] = "park"]
            /\ UNCHANGED <<level, open>>
    /\ UNCHANGED <<pipe, m_fibers, m_stopping, tickles, state, deleted, quits, cur, got, closing,
                   drains>>

\* YieldToHold(): the fiber that registered itself leaves the thread.
Park(t) ==
    /\ pc[t] = "park"
    /\ state' = [state EXCEPT ![cur[t]] = "hold"]
    /\ cur' = [cur EXCEPT ![t] = None]
    /\ pc' = [pc EXCEPT ![t] = "scan"]
    /\ UNCHANGED <<contexts, kernel, pipe, m_fibers, m_stopping, tickles, adds, deleted, quits, got,
                   closing, drains, aborted>>

\* Mutant: resetContext() is forgotten.
DelEventKeepsContext(t, f, e) ==
    /\ pc[t] = "run"
    /\ e \in events[f] /\ CtlSucceeds(f)
    /\ EpollCtl(f, events[f] \ {e})
    /\ m_pendingEventCount' = m_pendingEventCount - 1
    /\ events' = [events EXCEPT ![f] = @ \ {e}]
    /\ deleted' = deleted \cup {ctx[f][e]}
    /\ UNCHANGED <<ctx, level, open, pipe, m_fibers, m_stopping, tickles, state, adds, quits,
                   threads, aborted>>

\* delEvent(fd, event): the waiting fiber is forgotten.
DelEvent(t, f, e) ==
    /\ pc[t] = "run"
    /\ e \in events[f] /\ CtlSucceeds(f)
    /\ EpollCtl(f, events[f] \ {e})
    /\ m_pendingEventCount' = m_pendingEventCount - 1
    /\ events' = [events EXCEPT ![f] = @ \ {e}]
    /\ ctx' = [ctx EXCEPT ![f][e] = None]
    /\ deleted' = deleted \cup {ctx[f][e]}
    /\ UNCHANGED <<level, open, pipe, m_fibers, m_stopping, tickles, state, adds, quits, threads,
                   aborted>>

\* cancelEvent(fd, event): the waiting fiber is scheduled.
CancelEvent(t, f, e) ==
    /\ pc[t] = "run"
    /\ e \in events[f] /\ CtlSucceeds(f)
    /\ EpollCtl(f, events[f] \ {e})
    /\ TriggerEvents(f, {e})
    /\ UNCHANGED <<level, open, m_stopping, tickles, state, adds, deleted, quits, threads>>

\* cancelAll(fd)
CancelAll(t, f) ==
    /\ pc[t] = "run"
    /\ events[f] # {} /\ CtlSucceeds(f)
    /\ EpollCtl(f, {})
    /\ TriggerEvents(f, events[f])
    /\ UNCHANGED <<level, open, m_stopping, tickles, state, adds, deleted, quits, threads>>

\* close(fd) of the hook: cancelAll(fd),
Close(t, f) ==
    /\ CanClose /\ pc[t] = "run" /\ f \in open
    /\ pc' = [pc EXCEPT ![t] = "close"]
    /\ closing' = [closing EXCEPT ![t] = {f}]
    /\ IF events[f] # {} /\ CtlSucceeds(f)
       THEN EpollCtl(f, {}) /\ TriggerEvents(f, events[f])
       ELSE UNCHANGED <<contexts, interest, edge, pipe, m_fibers, aborted>>
    /\ UNCHANGED <<level, open, m_stopping, tickles, state, adds, deleted, quits, cur, got, drains>>

\* and then close_f(fd), which takes the descriptor out of epoll.
CloseF(t, f) ==
    /\ pc[t] = "close" /\ f \in closing[t]
    /\ open' = open \ {f}
    /\ level' = [level EXCEPT ![f] = {}]
    /\ interest' = [interest EXCEPT ![f] = {}]
    /\ edge' = edge \ {f}
    /\ closing' = [closing EXCEPT ![t] = {}]
    /\ pc' = [pc EXCEPT ![t] = "run"]
    /\ UNCHANGED <<contexts, pipe, sched, cur, got, drains, aborted>>

\* The fiber reads or writes until the descriptor is no longer ready.
Exhaust(t, f, e) ==
    /\ pc[t] = "run" /\ e \in level[f]
    /\ level' = [level EXCEPT ![f] = @ \ {e}]
    /\ UNCHANGED <<contexts, interest, edge, open, pipe, sched, threads, aborted>>

Finish(t) ==
    /\ pc[t] = "run"
    /\ state' = [state EXCEPT ![cur[t]] = "term"]
    /\ cur' = [cur EXCEPT ![t] = None]
    /\ pc' = [pc EXCEPT ![t] = "scan"]
    /\ UNCHANGED <<contexts, kernel, pipe, m_fibers, m_stopping, tickles, adds, deleted, quits, got,
                   closing, drains, aborted>>
-----------------------------------------------------------------------------
(* Scheduler::run() and IOManager::idle() on thread t *)

\* A queued fiber is taken; the thread tickles if it leaves others behind it
\* (a fiber still running elsewhere may have been passed over before).
PickTask(t, k) ==
    LET rest == m_fibers \ {k}
    IN
    /\ pc[t] = "scan"
    /\ k \in m_fibers /\ state[k] # "exec"
    /\ m_fibers' = rest
    /\ \E tickle_me \in BOOLEAN :
          /\ tickle_me => rest # {}
          /\ (\E j \in rest : state[j] # "exec") => tickle_me
          /\ pipe' = IF tickle_me THEN Tickled(pipe) ELSE pipe
    /\ state' = [state EXCEPT ![k] = "exec"]
    /\ cur' = [cur EXCEPT ![t] = k]
    /\ pc' = [pc EXCEPT ![t] = "run"]
    /\ late' = (late \/ t \in idle_term)
    /\ UNCHANGED <<contexts, kernel, m_stopping, tickles, adds, deleted, idle_term, got, closing,
                   drains, aborted>>

\* Nothing to take: the thread leaves if its idle fiber has ended, without asking
\* stopping() again, and goes idle otherwise, once the lock is released.
NothingToRun(t) ==
    /\ pc[t] = "scan"
    /\ \A k \in m_fibers : state[k] = "exec"
    /\ pc' = [pc EXCEPT ![t] = IF t \in idle_term THEN "exit" ELSE "idle"]
    /\ UNCHANGED <<contexts, kernel, pipe, sched, cur, got, closing, drains, aborted>>

\* m_idleThreadCount is incremented and the idle fiber entered.
EnterIdle(t) ==
    /\ pc[t] = "idle"
    /\ pc' = [pc EXCEPT ![t] = "pending"]
    /\ UNCHANGED <<contexts, kernel, pipe, sched, cur, got, closing, drains, aborted>>

\* Mutant: stopping() does not look at m_pendingEventCount.
StoppingIgnoresPending(t) ==
    /\ pc[t] = "pending"
    /\ pc' = [pc EXCEPT ![t] = "drained"]
    /\ UNCHANGED <<contexts, kernel, pipe, sched, cur, got, closing, drains, aborted>>

\* stopping(timeout): m_pendingEventCount == 0,
StoppingPending(t) ==
    /\ pc[t] = "pending"
    /\ pc' = [pc EXCEPT ![t] = IF m_pendingEventCount = 0 THEN "drained" ELSE "wait"]
    /\ UNCHANGED <<contexts, kernel, pipe, sched, cur, got, closing, drains, aborted>>

\* and then Scheduler::stopping(), under the scheduler's lock: if so the idle fiber
\* ends, and run() scans the queue once more.
StoppingDrained(t) ==
    /\ pc[t] = "drained"
    /\ IF m_stopping /\ m_fibers = {} /\ NoActiveThread
       THEN pc' = [pc EXCEPT ![t] = "scan"] /\ idle_term' = idle_term \cup {t}
       ELSE pc' = [pc EXCEPT ![t] = "wait"] /\ UNCHANGED idle_term
    /\ UNCHANGED <<contexts, kernel, pipe, m_fibers, m_stopping, tickles, state, adds, deleted,
                   late, cur, got, closing, drains, aborted>>

SomethingToReport == pipe = "ready" \/ \E f \in edge : Reported(f) # {}

\* epoll_wait() returns all that is to be reported,
EpollWait(t) ==
    /\ pc[t] = "wait"
    /\ SomethingToReport
    /\ got' = [got EXCEPT ![t] = [f \in Fds |-> IF f \in edge THEN Reported(f) ELSE {}]]
    /\ edge' = {}
    /\ drains' = IF pipe = "ready" THEN drains \cup {t} ELSE drains
    /\ pipe' = IF pipe = "ready" THEN "seen" ELSE pipe
    /\ pc' = [pc EXCEPT ![t] = "handle"]
    /\ UNCHANGED <<contexts, interest, level, open, sched, cur, closing, aborted>>

\* or nothing, after MAX_TIMEOUT.
EpollTimeout(t) ==
    /\ pc[t] = "wait" /\ ~SomethingToReport
    /\ pc' = [pc EXCEPT ![t] = "handle"]
    /\ UNCHANGED <<contexts, kernel, pipe, sched, cur, got, closing, drains, aborted>>

\* The event of the pipe: read until it is empty.
HandleTickle(t) ==
    /\ pc[t] = "handle" /\ t \in drains
    /\ drains' = drains \ {t}
    /\ pipe' = "empty"
    /\ UNCHANGED <<contexts, kernel, sched, pc, cur, got, closing, aborted>>

\* Mutant: the events that stay registered are not armed again.
HandleEventDisarms(t, f) ==
    LET reported == got[t][f]
        real == IF "HUP" \in reported THEN Events ELSE reported
        left == events[f] \ real
    IN
    /\ pc[t] = "handle" /\ reported # {}
    /\ got' = [got EXCEPT ![t][f] = {}]
    /\ IF events[f] \cap real # {} /\ CtlSucceeds(f)
       THEN EpollCtl(f, {}) /\ TriggerEvents(f, real)
       ELSE UNCHANGED <<contexts, interest, edge, pipe, m_fibers, aborted>>
    /\ UNCHANGED <<level, open, m_stopping, tickles, state, adds, deleted, quits, pc, cur,
                   closing, drains>>

\* Mutant: what was reported is triggered even if nobody waits for it any more.
HandleEventUnchecked(t, f) ==
    LET reported == got[t][f]
        real == IF "HUP" \in reported THEN Events ELSE reported
        left == events[f] \ real
    IN
    /\ pc[t] = "handle" /\ reported # {}
    /\ got' = [got EXCEPT ![t][f] = {}]
    /\ IF CtlSucceeds(f)
       THEN EpollCtl(f, left) /\ TriggerEvents(f, real)
       ELSE UNCHANGED <<contexts, interest, edge, pipe, m_fibers, aborted>>
    /\ UNCHANGED <<level, open, m_stopping, tickles, state, adds, deleted, quits, pc, cur,
                   closing, drains>>

\* Mutant: every report is taken for both events.
HandleEventBoth(t, f) ==
    LET left == {}
    IN
    /\ pc[t] = "handle" /\ got[t][f] # {}
    /\ got' = [got EXCEPT ![t][f] = {}]
    /\ IF events[f] # {} /\ CtlSucceeds(f)
       THEN EpollCtl(f, left) /\ TriggerEvents(f, Events)
       ELSE UNCHANGED <<contexts, interest, edge, pipe, m_fibers, aborted>>
    /\ UNCHANGED <<level, open, m_stopping, tickles, state, adds, deleted, quits, pc, cur,
                   closing, drains>>

\* The event of a descriptor: a hang-up or error counts as both events. If one of
\* them is registered, epoll is armed for what is left and both are triggered.
HandleEvent(t, f) ==
    LET reported == got[t][f]
        real == IF "HUP" \in reported THEN Events ELSE reported
        left == events[f] \ real
    IN
    /\ pc[t] = "handle" /\ reported # {}
    /\ got' = [got EXCEPT ![t][f] = {}]
    /\ IF events[f] \cap real # {} /\ CtlSucceeds(f)
       THEN EpollCtl(f, left) /\ TriggerEvents(f, real)
       ELSE UNCHANGED <<contexts, interest, edge, pipe, m_fibers, aborted>>
    /\ UNCHANGED <<level, open, m_stopping, tickles, state, adds, deleted, quits, pc, cur,
                   closing, drains>>

\* Mutant: idle() does not yield to run() at the end of its loop.
IdleKeepsLooping(t) ==
    /\ pc[t] = "handle" /\ t \notin drains
    /\ \A f \in Fds : got[t][f] = {}
    /\ pc' = [pc EXCEPT ![t] = "pending"]
    /\ UNCHANGED <<contexts, kernel, pipe, sched, cur, got, closing, drains, aborted>>

\* All are handled: the idle fiber yields to run().
IdleYields(t) ==
    /\ pc[t] = "handle" /\ t \notin drains
    /\ \A f \in Fds : got[t][f] = {}
    /\ pc' = [pc EXCEPT ![t] = "scan"]
    /\ UNCHANGED <<contexts, kernel, pipe, sched, cur, got, closing, drains, aborted>>

\* The thread's own next step.
LoopStep(t) ==
    \/ NothingToRun(t) \/ EnterIdle(t) \/ StoppingPending(t) \/ StoppingDrained(t)
    \/ EpollWait(t) \/ EpollTimeout(t) \/ HandleTickle(t) \/ IdleYields(t)
    \/ \E f \in Fds : HandleEvent(t, f)
    \/ \E k \in Tasks : PickTask(t, k)

\* What the fiber it runs may do, and how it leaves the thread.
FiberStep(t) ==
    \E f \in Fds :
        \/ CancelAll(t, f) \/ Close(t, f)
        \/ \E e \in Events : AddEvent(t, f, e) \/ DelEvent(t, f, e) \/ CancelEvent(t, f, e)
                             \/ Exhaust(t, f, e)
FiberLeaves(t) == Park(t) \/ Finish(t) \/ \E f \in Fds : CloseF(t, f)

Terminated == \/ aborted
              \/ \A t \in Threads : pc[t] = "exit"

Next == \/ /\ ~aborted
           /\ \/ \E k \in Tasks : Submit(k)
              \/ Stop \/ StopTickles
              \/ \E f \in Fds, l \in Levels : BecomesReady(f, l)
              \/ \E t \in Threads : LoopStep(t) \/ FiberStep(t) \/ FiberLeaves(t)
        \/ Terminated /\ UNCHANGED vars

\* Threads run, fibers give them back, and no sleep exceeds MAX_TIMEOUT.
Fairness == \A t \in Threads : /\ WF_vars(~aborted /\ LoopStep(t))
                               /\ WF_vars(~aborted /\ FiberLeaves(t))

Spec == Init /\ [][Next]_vars
FairSpec == Spec /\ Fairness
-----------------------------------------------------------------------------
(* Properties *)

TypeOK ==
    /\ events \in [Fds -> SUBSET Events]
    /\ ctx \in [Fds -> [Events -> Tasks \cup {None}]]
    /\ m_pendingEventCount \in Nat
    /\ interest \in [Fds -> SUBSET Events] /\ level \in [Fds -> SUBSET Levels]
    /\ edge \subseteq Fds /\ open \subseteq Fds
    /\ pipe \in {"empty", "ready", "seen"}
    /\ m_fibers \subseteq Tasks
    /\ m_stopping \in BOOLEAN /\ tickles \in Nat
    /\ state \in [Tasks -> {"new", "hold", "exec", "term"}]
    /\ pc \in [Threads -> IdlePoints \cup {"scan", "idle", "run", "park", "close", "exit"}]
    /\ cur \in [Threads -> Tasks \cup {None}]
    /\ got \in [Threads -> [Fds -> SUBSET Levels]]
    /\ closing \in [Threads -> SUBSET Fds]
    /\ drains \subseteq Threads /\ idle_term \subseteq Threads /\ late \in BOOLEAN
    /\ adds \in [Tasks -> Nat] /\ deleted \subseteq Tasks
    /\ aborted \in BOOLEAN

\* m_pendingEventCount, the size_t that keeps the pool alive while fibers wait
\* for I/O, is the number of registered events whoever adds, deletes, cancels or
\* triggers them: it neither wraps below zero nor stays above.
PendingExact == ~aborted => m_pendingEventCount = Cardinality(Registered)

\* A fiber that waits is in exactly one place: the context of one event, which
\* then is registered, or the queue. No event schedules it twice and no race
\* between an event, a cancellation and a new registration drops it.
Slots(k) == {r \in Fds \X Events : ctx[r[1]][r[2]] = k}
NoLostWaiter ==
    ~aborted =>
        /\ \A r \in Fds \X Events : r \in Registered <=> ctx[r[1]][r[2]] # None
        /\ \A k \in Tasks :
              /\ \A r, q \in Slots(k) : r = q
              /\ k \in m_fibers => Slots(k) = {}
              /\ state[k] = "hold" /\ k \notin deleted => Slots(k) # {} \/ k \in m_fibers
              /\ state[k] = "term" => Slots(k) = {} /\ k \notin m_fibers

\* The kernel watches exactly the registered events of an open descriptor.
EpollInSync == ~aborted => interest = events

\* No SYLAR_ASSERT of iomanager.cpp fails: triggerEvent() is called for
\* registered events only, and contexts are clean when they are registered.
NoAbort == ~aborted

\* When stop() returns no fiber is left in the queue, and none waits for an event
\* unless a thread took a fiber after its idle fiber had ended: although each thread
\* reads m_pendingEventCount and the queue separately, and asks stopping() only once.
AllLeft == \A t \in Threads : pc[t] = "exit"
StopLeavesNothing == AllLeft => m_fibers = {} /\ (Registered = {} \/ late)

\* idle() calls its end the real one ("truly finished"), reached when nothing is
\* pending and nothing queued: so no event is registered when all threads have left.
StopEndsAllWaits == AllLeft => Registered = {}

\* An event that is registered and ready is handed to the fiber: no edge of the
\* edge-triggered epoll is lost.
ReadyIsServed ==
    \A f \in Fds : \A e \in Events :
        (e \in events[f] /\ e \in level[f]) ~> (aborted \/ e \notin events[f] \/ e \notin level[f])

\* A queued fiber runs, if only after MAX_TIMEOUT.
QueuedIsRun == \A k \in Tasks : k \in m_fibers ~> aborted \/ k \notin m_fibers
=============================================================================
