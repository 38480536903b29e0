------------------------------- MODULE Timer --------------------------------
(***************************************************************************)
(* sylar::Timer and sylar::TimerManager (timer.h, timer.cpp), and the part *)
(* of IOManager::idle() that drives them: every idle thread asks for the   *)
(* next deadline, sleeps in epoll_wait for that long or until it is        *)
(* tickled, and collects the expired callbacks.                            *)
(*                                                                         *)
(* Time is counted in ticks. GetCurrentMS() reads the wall clock, which a  *)
(* user may set back; the sleep is measured by the kernel and does not     *)
(* follow such jumps, so a sleeper keeps the ticks it has left.            *)
(***************************************************************************)
EXTENDS Integers

CONSTANTS
    Timers,       \* timer objects
    Threads,      \* threads of the IOManager
    Delays,       \* the m_ms values clients use
    Recurring,    \* the timers added with recurring = true
    Hour,         \* the ticks of the rollover test's hour
    StartClock,   \* the wall clock when the manager is constructed
    IntLimit,     \* the ticks of 2^31 ms: as an int they are negative
    Clients,      \* bound: clients that are inside addTimer(val, lock) at a time
    MaxClock,     \* bound: the wall clock stops here
    MaxJumps      \* bound: how often the wall clock is set back

ASSUME TimerAssumption ==
    /\ Recurring \subseteq Timers /\ Threads # {}
    /\ Delays \subseteq Nat
    /\ Hour \in Nat /\ StartClock \in Nat /\ Hour <= StartClock
    /\ IntLimit \in Nat \ {0}
    /\ Clients \in Nat /\ MaxClock \in Nat /\ MaxJumps \in Nat

VARIABLES
    m_timers,        \* the timers in the ordered set
    m_next, m_ms,    \* deadline and period of each timer
    m_cb,            \* the timer still has its callback
    m_tickled,
    m_previousTime,
    adding,          \* timers constructed by an addTimer() that waits for the lock
    announcing,      \* clients that have released the lock and will call tickle()
    pc, now_ms, cbs, \* per thread: where in idle(), and its locals (0 when not in use)
    left,            \* per thread: ticks its epoll_wait still sleeps
    drains,          \* threads whose epoll_wait reported the pipe
    pipe,            \* "empty", or with bytes that epoll (edge-triggered) still has
                     \* to report ("ready") or has reported to a thread ("seen")
    clock, jumps,
    born,            \* ghost: timers that have been added
    stopped,         \* ghost: timers whose cancel() returned true
    fires,           \* ghost: how often a one-shot callback was handed to schedule()
    failed           \* *m_timers.begin() of an empty set was read

manager == <<m_timers, m_next, m_ms, m_cb, m_tickled, m_previousTime>>
clients == <<adding, announcing>>
idling  == <<pc, now_ms, cbs, left, drains, pipe>>
time    == <<clock, jumps>>
ghost   == <<born, stopped, fires>>
vars    == <<manager, clients, idling, time, ghost, failed>>

Forever == -1     \* no timer was there, or epoll_wait() got a negative timeout

\* idle() converts the time left to int, both to compare it with MAX_TIMEOUT and for
\* epoll_wait(): only 32 bits of it are left, and a negative timeout is none.
AsTimeout(time_left) ==
    LET low == time_left % (2 * IntLimit)
    IN  IF low < IntLimit THEN low ELSE Forever

\* The ordered set begins with one of these; ties are broken by address.
Earliest == {t \in m_timers : \A u \in m_timers : m_next[t] <= m_next[u]}

\* A thread inside the idle fiber, as hasIdleThreads() counts it.
IdlePoints == {"next", "sleep", "list", "check", "collect", "dispatch"}
HasIdleThreads == \E t \in Threads : pc[t] \in IdlePoints

Init == /\ m_timers = {}
        /\ m_next = [t \in Timers |-> 0]
        /\ m_ms = [t \in Timers |-> 0]
        /\ m_cb = [t \in Timers |-> FALSE]
        /\ m_tickled = FALSE
        /\ m_previousTime = StartClock
        /\ adding = {} /\ announcing = 0
        /\ pc = [t \in Threads |-> "busy"]
        /\ now_ms = [t \in Threads |-> 0]
        /\ cbs = [t \in Threads |-> {}]
        /\ left = [t \in Threads |-> 0]
        /\ drains = {} /\ pipe = "empty"
        /\ clock = StartClock /\ jumps = 0
        /\ born = {} /\ stopped = {}
        /\ fires = [t \in Timers |-> 0]
        /\ failed = FALSE
-----------------------------------------------------------------------------
(* Timer and TimerManager operations of the clients *)

\* addTimer(val, lock): insert among `rest'; the first of the set is announced,
\* once the lock is released, unless an announcement is already on its way.
\* Among equal deadlines the address decides who is first.
Insert(t, next, rest) ==
    \E first \in BOOLEAN :
        /\ first => \A u \in rest : next <= m_next[u]
        /\ ~first => \E u \in rest : m_next[u] <= next
        /\ m_timers' = rest \cup {t}
        /\ m_next' = [m_next EXCEPT ![t] = next]
        /\ m_tickled' = (m_tickled \/ first)
        /\ announcing < Clients
        /\ announcing' = announcing + (IF first /\ ~m_tickled THEN 1 ELSE 0)

\* onTimerInsertedAtFront() is tickle(): a byte for the pipe if a thread is idle.
OnTimerInsertedAtFront ==
    /\ announcing > 0
    /\ announcing' = announcing - 1
    /\ pipe' = IF HasIdleThreads THEN "ready" ELSE pipe
    /\ UNCHANGED <<manager, adding, pc, now_ms, cbs, left, drains, time, ghost, failed>>

\* addTimer(ms, cb, recurring): the constructor reads the clock,
NewTimer(t, ms) ==
    /\ t \notin born
    /\ born' = born \cup {t}
    /\ adding' = adding \cup {t}
    /\ m_ms' = [m_ms EXCEPT ![t] = ms]
    /\ m_next' = [m_next EXCEPT ![t] = clock + ms]
    /\ m_cb' = [m_cb EXCEPT ![t] = TRUE]
    /\ UNCHANGED <<m_timers, m_tickled, m_previousTime, announcing, idling, time, stopped,
                   fires, failed>>

\* and the timer goes into the set under the lock.
AddTimer(t) ==
    /\ t \in adding
    /\ adding' = adding \ {t}
    /\ Insert(t, m_next[t], m_timers)
    /\ UNCHANGED <<m_ms, m_cb, m_previousTime, idling, time, ghost, failed>>

\* Mutant: cancel() takes the timer out of the set and leaves the callback.
CancelKeepsCb(t) ==
    /\ t \notin adding /\ m_cb[t]
    /\ m_timers' = m_timers \ {t}
    /\ stopped' = stopped \cup {t}
    /\ UNCHANGED <<m_next, m_ms, m_cb, m_tickled, m_previousTime, clients, idling, time,
                   born, fires, failed>>

\* cancel(): true, and the timer is gone, if it still has its callback.
Cancel(t) ==
    /\ t \notin adding /\ m_cb[t]
    /\ m_cb' = [m_cb EXCEPT ![t] = FALSE]
    /\ m_timers' = m_timers \ {t}
    /\ stopped' = stopped \cup {t}
    /\ UNCHANGED <<m_next, m_ms, m_tickled, m_previousTime, clients, idling, time, born,
                   fires, failed>>

\* refresh(): the period starts again now.
Refresh(t) ==
    /\ m_cb[t] /\ t \in m_timers
    /\ Insert(t, clock + m_ms[t], m_timers \ {t})
    /\ UNCHANGED <<m_ms, m_cb, m_previousTime, adding, idling, time, ghost, failed>>

\* reset(ms, from_now): a new period, from now or from when the old one began. It
\* returns at once, without the lock, if nothing would change.
Reset(t, ms, from_now) ==
    LET start == IF from_now THEN clock ELSE m_next[t] - m_ms[t]
    IN
    /\ ~(ms = m_ms[t] /\ ~from_now)
    /\ m_cb[t] /\ t \in m_timers
    /\ m_ms' = [m_ms EXCEPT ![t] = ms]
    /\ Insert(t, start + ms, m_timers \ {t})
    /\ UNCHANGED <<m_cb, m_previousTime, adding, idling, time, ghost, failed>>
-----------------------------------------------------------------------------
(* An idle thread *)

\* run() finds nothing to do and enters the idle fiber.
EnterIdle(th) ==
    /\ pc[th] = "busy"
    /\ pc' = [pc EXCEPT ![th] = "next"]
    /\ UNCHANGED <<manager, clients, now_ms, cbs, left, drains, pipe, time, ghost, failed>>

\* Mutant: the announcement is not taken back.
GetNextTimerStaysTickled(th) ==
    /\ pc[th] = "next"
    /\ \/ m_timers = {} /\ left' = [left EXCEPT ![th] = Forever]
       \/ \E t \in Earliest :
              left' = [left EXCEPT ![th] = IF clock >= m_next[t] THEN 0
                                           ELSE AsTimeout(m_next[t] - clock)]
    /\ pc' = [pc EXCEPT ![th] = "sleep"]
    /\ UNCHANGED <<manager, clients, now_ms, cbs, drains, pipe, time, ghost, failed>>

\* Mutant: the time left of a deadline that has passed is not cut off at zero.
GetNextTimerWraps(th) ==
    /\ pc[th] = "next"
    /\ m_tickled' = FALSE
    /\ \/ m_timers = {} /\ left' = [left EXCEPT ![th] = Forever]
       \/ \E t \in Earliest : left' = [left EXCEPT ![th] = m_next[t] - clock]
    /\ pc' = [pc EXCEPT ![th] = "sleep"]
    /\ UNCHANGED <<m_timers, m_next, m_ms, m_cb, m_previousTime, clients, now_ms, cbs, drains, pipe,
                   time, ghost, failed>>

\* getNextTimer(), called by stopping(timeout) at the head of the idle loop, and the
\* timeout idle() makes of its result.
GetNextTimer(th) ==
    /\ pc[th] = "next"
    /\ m_tickled' = FALSE
    /\ \/ m_timers = {} /\ left' = [left EXCEPT ![th] = Forever]
       \/ \E t \in Earliest :
              left' = [left EXCEPT ![th] = IF clock >= m_next[t] THEN 0
                                           ELSE AsTimeout(m_next[t] - clock)]
    /\ pc' = [pc EXCEPT ![th] = "sleep"]
    /\ UNCHANGED <<m_timers, m_next, m_ms, m_cb, m_previousTime, clients, now_ms, cbs, drains, pipe,
                   time, ghost, failed>>

\* epoll_wait() returns: it reports the pipe,
WakesForTickle(th) ==
    /\ pc[th] = "sleep"
    /\ pipe = "ready"
    /\ pipe' = "seen"
    /\ drains' = drains \cup {th}
    /\ left' = [left EXCEPT ![th] = 0]
    /\ pc' = [pc EXCEPT ![th] = "list"]
    /\ UNCHANGED <<manager, clients, now_ms, cbs, time, ghost, failed>>

\* or the time is over,
WakesInTime(th) ==
    /\ pc[th] = "sleep"
    /\ left[th] = 0
    /\ left' = [left EXCEPT ![th] = 0]
    /\ pc' = [pc EXCEPT ![th] = "list"]
    /\ UNCHANGED <<manager, clients, now_ms, cbs, drains, pipe, time, ghost, failed>>

\* or for another reason: an event on some fd, or MAX_TIMEOUT.
WakesForOther(th) ==
    /\ pc[th] = "sleep"
    /\ left' = [left EXCEPT ![th] = 0]
    /\ pc' = [pc EXCEPT ![th] = "list"]
    /\ UNCHANGED <<manager, clients, now_ms, cbs, drains, pipe, time, ghost, failed>>

\* listExpiredCb(), first the clock,
ListExpired(th) ==
    /\ pc[th] = "list"
    /\ now_ms' = [now_ms EXCEPT ![th] = clock]
    /\ pc' = [pc EXCEPT ![th] = "check"]
    /\ UNCHANGED <<manager, clients, cbs, left, drains, pipe, time, ghost, failed>>

\* then a look at the set under the read lock, which is released again,
ListCheck(th) ==
    /\ pc[th] = "check"
    /\ pc' = [pc EXCEPT ![th] = IF m_timers = {} THEN "dispatch" ELSE "collect"]
    /\ UNCHANGED <<manager, clients, now_ms, cbs, left, drains, pipe, time, ghost, failed>>

\* detectClockRollover(now_ms)
Rollover(now) == now < m_previousTime /\ now < m_previousTime - Hour

\* Mutant: the search stops before the timers that are due at this very moment.
ListCollectStrict(th) ==
    LET now == now_ms[th]
        rollover == Rollover(now)
        expired == IF rollover THEN m_timers ELSE {t \in m_timers : m_next[t] < now}
    IN
    /\ pc[th] = "collect"
    /\ failed' = (m_timers = {} /\ ~rollover)
    /\ m_previousTime' = now
    /\ cbs' = [cbs EXCEPT ![th] = expired]
    /\ m_timers' = m_timers \ (expired \ Recurring)
    /\ m_next' = [t \in Timers |-> IF t \in expired \cap Recurring THEN now + m_ms[t]
                                                                   ELSE m_next[t]]
    /\ m_cb' = [t \in Timers |-> m_cb[t] /\ t \notin expired \ Recurring]
    /\ pc' = [pc EXCEPT ![th] = "dispatch"]
    /\ UNCHANGED <<m_ms, m_tickled, clients, now_ms, left, drains, pipe, time, ghost>>

\* then, under the write lock, the expired timers: they leave the set, recurring
\* ones with a new deadline come back, the others lose their callback. Unless the
\* clock rolled over the code first looks at the deadline of *m_timers.begin(),
\* which does not exist in an empty set.
ListCollect(th) ==
    LET now == now_ms[th]
        rollover == Rollover(now)
        expired == IF rollover THEN m_timers ELSE {t \in m_timers : m_next[t] <= now}
    IN
    /\ pc[th] = "collect"
    /\ failed' = (m_timers = {} /\ ~rollover)
    /\ m_previousTime' = now
    /\ cbs' = [cbs EXCEPT ![th] = expired]
    /\ m_timers' = m_timers \ (expired \ Recurring)
    /\ m_next' = [t \in Timers |-> IF t \in expired \cap Recurring THEN now + m_ms[t]
                                                                   ELSE m_next[t]]
    /\ m_cb' = [t \in Timers |-> m_cb[t] /\ t \notin expired \ Recurring]
    /\ pc' = [pc EXCEPT ![th] = "dispatch"]
    /\ UNCHANGED <<m_ms, m_tickled, clients, now_ms, left, drains, pipe, time, ghost>>

\* Mutant: the vector of callbacks is not cleared.
DispatchKeepsCbs(th) ==
    /\ pc[th] = "dispatch"
    /\ fires' = [t \in Timers |-> IF t \in cbs[th] \ Recurring THEN fires[t] + 1
                                                                ELSE fires[t]]
    /\ pipe' = IF th \in drains THEN "empty" ELSE pipe
    /\ drains' = drains \ {th}
    /\ now_ms' = [now_ms EXCEPT ![th] = 0]
    /\ pc' = [pc EXCEPT ![th] = "busy"]
    /\ UNCHANGED <<manager, clients, cbs, left, time, born, stopped, failed>>

\* idle() hands the callbacks to schedule(), reads the pipe empty if epoll_wait
\* reported it, and yields to run().
Dispatch(th) ==
    /\ pc[th] = "dispatch"
    /\ fires' = [t \in Timers |-> IF t \in cbs[th] \ Recurring THEN fires[t] + 1
                                                                ELSE fires[t]]
    /\ cbs' = [cbs EXCEPT ![th] = {}]
    /\ pipe' = IF th \in drains THEN "empty" ELSE pipe
    /\ drains' = drains \ {th}
    /\ now_ms' = [now_ms EXCEPT ![th] = 0]
    /\ pc' = [pc EXCEPT ![th] = "busy"]
    /\ UNCHANGED <<manager, clients, left, time, born, stopped, failed>>
-----------------------------------------------------------------------------
(* Time *)

\* One tick passes, for the wall clock and for every sleeper.
Tick ==
    /\ clock < MaxClock
    /\ clock' = clock + 1
    /\ left' = [th \in Threads |-> IF pc[th] = "sleep" /\ left[th] > 0
                                   THEN left[th] - 1 ELSE left[th]]
    /\ UNCHANGED <<manager, clients, pc, now_ms, cbs, drains, pipe, jumps, ghost, failed>>

\* The wall clock is set back (never into the first hour of the epoch, where
\* m_previousTime - Hour would wrap).
SetBack ==
    /\ jumps < MaxJumps
    /\ jumps' = jumps + 1
    /\ clock' \in Hour..(clock - 1)
    /\ UNCHANGED <<manager, clients, idling, ghost, failed>>

ThreadStep(th) ==
    \/ EnterIdle(th) \/ GetNextTimer(th) \/ WakesForTickle(th) \/ WakesInTime(th)
    \/ ListExpired(th) \/ ListCheck(th) \/ ListCollect(th) \/ Dispatch(th)

ClientStep ==
    \/ \E t \in Timers : \/ AddTimer(t) \/ Cancel(t) \/ Refresh(t)
                         \/ \E ms \in Delays : \/ NewTimer(t, ms)
                                               \/ \E b \in BOOLEAN : Reset(t, ms, b)
    \/ OnTimerInsertedAtFront

Next == \/ /\ ~failed
           /\ \/ ClientStep
              \/ \E th \in Threads : ThreadStep(th) \/ WakesForOther(th)
              \/ Tick \/ SetBack
        \/ failed /\ UNCHANGED vars

\* Time passes and every thread goes on, unless it sleeps.
Fairness == /\ WF_vars(~failed /\ Tick) /\ WF_vars(~failed /\ OnTimerInsertedAtFront)
            /\ \A th \in Threads : WF_vars(~failed /\ ThreadStep(th))

Spec == Init /\ [][Next]_vars
FairSpec == Spec /\ Fairness
-----------------------------------------------------------------------------
(* Properties *)

TypeOK ==
    /\ m_timers \subseteq Timers
    /\ m_next \in [Timers -> Int] /\ m_ms \in [Timers -> Nat]
    /\ m_cb \in [Timers -> BOOLEAN]
    /\ m_tickled \in BOOLEAN /\ m_previousTime \in Nat
    /\ pc \in [Threads -> IdlePoints \cup {"busy"}]
    /\ now_ms \in [Threads -> Nat] /\ cbs \in [Threads -> SUBSET Timers]
    /\ left \in [Threads -> Nat \cup {Forever}]
    /\ adding \subseteq Timers /\ announcing \in 0..Clients
    /\ drains \subseteq Threads /\ pipe \in {"empty", "ready", "seen"} /\ clock \in Nat /\ jumps \in Nat
    /\ born \subseteq Timers /\ stopped \subseteq Timers
    /\ fires \in [Timers -> Nat]
    /\ failed \in BOOLEAN

\* A timer is in the set exactly while it has its callback: whatever cancel(),
\* refresh(), reset() and listExpiredCb() do to it in any order, no live timer
\* drops out of the set (it would never fire) and no dead one stays in.
NoLostTimer == \A t \in Timers : m_cb[t] <=> t \in m_timers \cup adding

\* A one-shot timer fires at most once, and not at all once cancel() has
\* returned true, even if a thread is just then between collecting the expired
\* callbacks and scheduling them.
OneShot ==
    \A t \in Timers \ Recurring :
        LET hands == {th \in Threads : t \in cbs[th]}
        IN  /\ fires[t] <= 1
            /\ \A th \in hands : hands = {th} /\ fires[t] = 0
            /\ t \in stopped => hands = {} /\ fires[t] = 0

\* No period is negative as an int.
ShortDelays == \A ms \in Delays : ms < IntLimit

\* The protocol of m_tickled, addTimer() and getNextTimer(): if all threads
\* sleep, one of them wakes for the first deadline, the pipe has a byte, or a
\* client is about to write one.
\* (The cap MAX_TIMEOUT of the sleep is not counted on. A period of 2^31 ms or more
\* may leave the sleepers without a timeout.)
FirstDeadlineIsWatched ==
    ShortDelays /\ jumps = 0 /\ m_timers # {} /\ (\A th \in Threads : pc[th] = "sleep") =>
        \/ pipe = "ready" \/ announcing > 0
        \/ \E th \in Threads : left[th] # Forever
                               /\ \A t \in m_timers : clock + left[th] <= m_next[t] \/ left[th] = 0

\* Every timer whose deadline has passed is collected by some thread (or
\* cancelled, or put off), by the wake-up at the deadline, as the comment in
\* idle() claims (if listExpiredCb() does not read the first element of an empty
\* set before).
ExpiredIsCollected ==
    \A t \in Timers :
        (t \in m_timers /\ m_next[t] <= clock)
            ~> \/ failed \/ t \notin m_timers \/ m_next[t] > clock
               \/ \E th \in Threads : t \in cbs[th]
=============================================================================
