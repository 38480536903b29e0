----------------------------- MODULE Scheduler ------------------------------
(***************************************************************************)
(* sylar::Scheduler (scheduler.h, scheduler.cpp) and the state machine of  *)
(* sylar::Fiber (fiber.h, fiber.cpp) it drives: the task queue m_fibers,   *)
(* the run() loop of every pool thread, the fibers a body yields from, the *)
(* idle fiber, start() and stop() with use_caller on and off.              *)
(*                                                                         *)
(* A fiber's m_state is written by the thread that runs it BEFORE          *)
(* swapcontext() has saved its context; pc = "swap" is that window.        *)
(* `failed' names the SYLAR_ASSERT that aborted the process, or the use of *)
(* a context that another thread is still running on, which is undefined;  *)
(* the program takes no step after either.                                 *)
(***************************************************************************)
EXTENDS Naturals, FiniteSets, SequencesExt

CONSTANTS
    Workers,        \* the threads start() creates
    Caller,         \* the thread that constructs, starts and stops the pool
    UseCaller,      \* the constructor's use_caller
    Fibers,         \* fiber objects the clients schedule
    Cbs,            \* functions the clients schedule
    CbFibers,       \* storage for the fibers run() allocates for functions
    Pins,           \* the `thread' arguments clients pass to schedule()
    AnyThread,      \* -1: any thread
    None,           \* a null fiber or function pointer
    EarlySchedule,  \* a fiber may be scheduled before it has been swapped out
    MaxYields,      \* yields per work item
    MaxQueue,       \* queue length up to which a fiber is scheduled twice
    MaxStops        \* calls of stop()

Threads  == IF UseCaller THEN Workers \cup {Caller} ELSE Workers
FiberObj == Fibers \cup CbFibers
Work     == Fibers \cup Cbs
Task     == Fibers \cup CbFibers \cup Cbs

ASSUME ConstantsAssumption ==
    /\ IsFiniteSet(Workers) /\ Caller \notin Workers
    /\ UseCaller \in BOOLEAN /\ EarlySchedule \in BOOLEAN
    /\ Threads # {}
    /\ Fibers \cap Cbs = {} /\ Fibers \cap CbFibers = {} /\ Cbs \cap CbFibers = {}
    /\ None \notin Task /\ AnyThread \notin Threads
    /\ Pins \subseteq Threads \cup {AnyThread}
    /\ MaxYields \in Nat /\ MaxQueue \in Nat /\ MaxStops \in Nat

VARIABLES
    m_fibers,             \* the queue of tasks with the thread they ask for
    m_activeThreadCount,
    m_idleThreadCount,
    m_stopping,
    m_autoStop,
    m_rootFiber,          \* state of the fiber that runs run() on the caller
    m_state,              \* Fiber::m_state
    m_cb,                 \* the function a fiber of CbFibers carries
    ft,                   \* run()'s local ft: the task in hand
    cb_fiber,             \* run()'s local cb_fiber
    idle_term,            \* the state of run()'s idle_fiber is TERM
    pc,                   \* where in run() a thread is
    owner,                \* where in stop() the caller is
    parked,               \* fibers some event source will schedule later
    phase,                \* ghost: work never scheduled, live or finished
    yields, stops,        \* bounds
    failed

pool  == <<m_activeThreadCount, m_idleThreadCount, m_stopping, m_autoStop,
           m_rootFiber, owner, stops>>
hand  == <<ft, cb_fiber, idle_term>>
ghost == <<phase, yields>>
vars  == <<m_fibers, pool, hand, m_state, m_cb, pc, parked, ghost, failed>>

States == {"INIT", "HOLD", "EXEC", "TERM", "READY", "EXCEPT"}
Over   == {"TERM", "EXCEPT"}
Aborts == {"m_threads.empty()", "never reach", "~Fiber: m_state", "reset: m_state",
           "swapIn: m_state != EXEC", "stack shared",
           "YieldToReady: m_state == EXEC", "YieldToHold: m_state == EXEC"}
PCs    == {"off", "pick", "enter", "body", "yield", "swap", "settle",
           "idle", "rest", "exit"}

\* The program points at which a thread is counted in m_activeThreadCount,
\* and those at which it executes on the stack of the fiber in its hand.
Counted == {"enter", "body", "yield", "swap"}
OnStack == {"body", "yield", "swap"}

Cur(t)  == IF ft[t] # None THEN ft[t] ELSE cb_fiber[t]
Item(f) == IF f \in Fibers THEN f ELSE m_cb[f]

QueuedTasks == {m_fibers[i].task : i \in DOMAIN m_fibers}

Entry(task, thread) == [task |-> task, thread |-> thread]
-----------------------------------------------------------------------------
Init == /\ m_fibers = <<>>
        /\ m_activeThreadCount = 0
        /\ m_idleThreadCount = 0
        /\ m_stopping = TRUE
        /\ m_autoStop = FALSE
        /\ m_rootFiber = "INIT"
        /\ m_state = [f \in FiberObj |-> "INIT"]
        /\ m_cb = [f \in CbFibers |-> None]
        /\ ft = [t \in Threads |-> None]
        /\ cb_fiber = [t \in Threads |-> None]
        /\ idle_term = [t \in Threads |-> FALSE]
        /\ pc = [t \in Threads |-> "off"]
        /\ owner = "out"
        /\ parked = {}
        /\ phase = [w \in Work |-> "new"]
        /\ yields = [w \in Work |-> 0]
        /\ stops = 0
        /\ failed = "none"

\* SYLAR_ASSERT(ok): the process aborts when ok is false.
SYLAR_ASSERT(ok, what) == failed' = IF ok THEN failed ELSE what
-----------------------------------------------------------------------------
(* start(), stop() and the clients' schedule() *)

\* Everyone who may call schedule(): the owner of the pool while it is not
\* inside stop(), and any body that a pool thread is executing.
ClientRuns == owner = "out" \/ \E t \in Threads : pc[t] = "body"

\* start(): the workers begin run(); with m_stopping false it returns at once.
Start ==
    /\ owner = "out" /\ m_stopping /\ stops < MaxStops
    /\ m_stopping' = FALSE
    /\ SYLAR_ASSERT(\A w \in Workers : pc[w] = "off", "m_threads.empty()")
    /\ pc' = [t \in Threads |-> IF t \in Workers THEN "pick" ELSE pc[t]]
    /\ UNCHANGED <<m_fibers, m_activeThreadCount, m_idleThreadCount, m_autoStop,
                   m_rootFiber, owner, stops, hand, m_state, m_cb, parked, ghost>>

\* schedule(fc, thread) of a new work item.
Schedule(w, thread) ==
    /\ ClientRuns /\ phase[w] = "new"
    /\ m_fibers' = Append(m_fibers, Entry(w, thread))
    /\ phase' = [phase EXCEPT ![w] = "live"]
    /\ UNCHANGED <<pool, hand, m_state, m_cb, pc, parked, yields, failed>>

\* schedule() of a fiber that a client has scheduled before, whatever it does
\* now: nothing in the code refuses it.
ScheduleAgain(f, thread) ==
    /\ EarlySchedule
    /\ ClientRuns /\ phase[f] # "new" /\ Len(m_fibers) < MaxQueue
    /\ m_fibers' = Append(m_fibers, Entry(f, thread))
    /\ UNCHANGED <<pool, hand, m_state, m_cb, pc, parked, ghost, failed>>

\* The thread has left the fiber: its context is saved and run() is done with it.
Settled(f) == \A t \in Threads : Cur(t) = f => pc[t] \notin OnStack \cup {"settle"}

\* The event a parked fiber waits for happens and its holder schedules it. The
\* holder got the fiber before the fiber yielded, and may be quicker than it.
Wake(f) ==
    /\ ClientRuns /\ f \in parked
    /\ EarlySchedule \/ Settled(f)
    /\ parked' = parked \ {f}
    /\ m_fibers' = Append(m_fibers, Entry(f, AnyThread))
    /\ UNCHANGED <<pool, hand, m_state, m_cb, pc, ghost, failed>>

\* stopping(), under m_mutex.
stopping == /\ m_autoStop /\ m_stopping
            /\ m_fibers = <<>> /\ m_activeThreadCount = 0

\* stop() of a started pool, first part: both flags are set before anything else
\* looks at them.
Stop ==
    /\ owner = "out" /\ ~m_stopping
    /\ m_autoStop' = TRUE
    /\ m_stopping' = TRUE
    /\ owner' = "stop"
    /\ stops' = stops + 1
    /\ UNCHANGED <<m_fibers, m_activeThreadCount, m_idleThreadCount, m_rootFiber,
                   hand, m_state, m_cb, pc, parked, ghost, failed>>

\* stop() with use_caller and no other thread returns early when all is done.
StopReturnsEarly ==
    /\ owner = "stop"
    /\ UseCaller /\ Workers = {} /\ m_rootFiber \in {"TERM", "INIT"}
    /\ stopping
    /\ owner' = "out"
    /\ UNCHANGED <<m_fibers, m_activeThreadCount, m_idleThreadCount, m_stopping,
                   m_autoStop, m_rootFiber, stops, hand, m_state, m_cb, pc,
                   parked, ghost, failed>>

\* m_rootFiber->call(): the caller thread enters run(). A root fiber that has
\* returned from run() once continues behind its last back(), where
\* CallerMainFunc() asserts "never reach".
StopCalls ==
    /\ owner = "stop" /\ UseCaller /\ ~stopping
    /\ SYLAR_ASSERT(m_rootFiber # "TERM", "never reach")
    /\ m_rootFiber' = "EXEC"
    /\ owner' = "call"
    /\ pc' = [pc EXCEPT ![Caller] = "pick"]
    /\ UNCHANGED <<m_fibers, m_activeThreadCount, m_idleThreadCount, m_stopping,
                   m_autoStop, stops, hand, m_state, m_cb, parked, ghost>>

\* run() has returned on the caller: CallerMainFunc() ends with back().
StopCallEnds ==
    /\ owner = "call" /\ pc[Caller] = "exit"
    /\ m_rootFiber' = "TERM"
    /\ owner' = "join"
    /\ UNCHANGED <<m_fibers, m_activeThreadCount, m_idleThreadCount, m_stopping,
                   m_autoStop, stops, hand, m_state, m_cb, pc, parked, ghost, failed>>

\* The caller runs nothing itself: it has no root fiber, or stopping() holds.
StopSkipsCall ==
    /\ owner = "stop"
    /\ UseCaller => stopping
    /\ owner' = "join"
    /\ UNCHANGED <<m_fibers, m_activeThreadCount, m_idleThreadCount, m_stopping,
                   m_autoStop, m_rootFiber, stops, hand, m_state, m_cb, pc,
                   parked, ghost, failed>>

\* stop(), last part: it joins the workers and returns; their threads are gone.
StopJoins ==
    /\ owner = "join" /\ \A w \in Workers : pc[w] \in {"off", "exit"}
    /\ owner' = "out"
    /\ pc' = [t \in Threads |-> IF t \in Workers THEN "off" ELSE pc[t]]
    /\ UNCHANGED <<m_fibers, m_activeThreadCount, m_idleThreadCount, m_stopping,
                   m_autoStop, m_rootFiber, stops, hand, m_state, m_cb, parked,
                   ghost, failed>>
-----------------------------------------------------------------------------
(* run(): the scan of the queue *)

\* Entries this thread may take: not meant for another thread, and not a
\* fiber that is executing.
Eligible(t) ==
    {i \in DOMAIN m_fibers :
        /\ m_fibers[i].thread \in {AnyThread, t}
        /\ m_fibers[i].task \in FiberObj => m_state[m_fibers[i].task] # "EXEC"}

\* The first eligible entry is taken out and the thread counted as active.
PickTask(t) ==
    /\ pc[t] = "pick"
    /\ \E i \in Eligible(t) :
         /\ \A j \in Eligible(t) : i <= j
         /\ ft' = [ft EXCEPT ![t] = m_fibers[i].task]
         /\ m_fibers' = RemoveAt(m_fibers, i)
    /\ m_activeThreadCount' = m_activeThreadCount + 1
    /\ pc' = [pc EXCEPT ![t] = "enter"]
    /\ UNCHANGED <<m_idleThreadCount, m_stopping, m_autoStop, m_rootFiber, owner,
                   stops, cb_fiber, idle_term, m_state, m_cb, parked, ghost, failed>>

\* Nothing to take: the thread enters its idle fiber,
EnterIdle(t) ==
    /\ pc[t] = "pick" /\ Eligible(t) = {} /\ ~idle_term[t]
    /\ m_idleThreadCount' = m_idleThreadCount + 1
    /\ pc' = [pc EXCEPT ![t] = "idle"]
    /\ UNCHANGED <<m_fibers, m_activeThreadCount, m_stopping, m_autoStop,
                   m_rootFiber, owner, stops, hand, m_state, m_cb, parked, ghost,
                   failed>>

\* or, if that has returned, leaves run(), whose locals are destroyed.
RunReturns(t) ==
    /\ pc[t] = "pick" /\ Eligible(t) = {} /\ idle_term[t]
    /\ SYLAR_ASSERT(cb_fiber[t] # None => m_state[cb_fiber[t]] \in Over \cup {"INIT"},
                    "~Fiber: m_state")
    /\ cb_fiber' = [cb_fiber EXCEPT ![t] = None]
    /\ idle_term' = [idle_term EXCEPT ![t] = FALSE]
    /\ pc' = [pc EXCEPT ![t] = "exit"]
    /\ UNCHANGED <<m_fibers, pool, ft, m_state, m_cb, parked, ghost>>

\* idle(): one evaluation of stopping(), then back to run(), for good if true.
Idle(t) ==
    /\ pc[t] = "idle"
    /\ idle_term' = [idle_term EXCEPT ![t] = stopping]
    /\ pc' = [pc EXCEPT ![t] = "rest"]
    /\ UNCHANGED <<m_fibers, pool, ft, cb_fiber, m_state, m_cb, parked, ghost, failed>>

\* Mutant: the idle thread is still counted when it is back in run().
IdleReturnsCounted(t) ==
    /\ pc[t] = "rest"
    /\ pc' = [pc EXCEPT ![t] = "pick"]
    /\ UNCHANGED <<m_fibers, pool, hand, m_state, m_cb, parked, ghost, failed>>

IdleReturns(t) ==
    /\ pc[t] = "rest"
    /\ m_idleThreadCount' = m_idleThreadCount - 1
    /\ pc' = [pc EXCEPT ![t] = "pick"]
    /\ UNCHANGED <<m_fibers, m_activeThreadCount, m_stopping, m_autoStop,
                   m_rootFiber, owner, stops, hand, m_state, m_cb, parked, ghost,
                   failed>>
-----------------------------------------------------------------------------
(* run(): entering the task in hand *)

\* Mutant: `continue' without giving back the active count.
DropFinishedCounted(t) ==
    /\ pc[t] = "enter" /\ ft[t] \in FiberObj /\ m_state[ft[t]] \in Over
    /\ ft' = [ft EXCEPT ![t] = None]
    /\ pc' = [pc EXCEPT ![t] = "pick"]
    /\ UNCHANGED <<m_fibers, pool, cb_fiber, idle_term, m_state, m_cb, parked, ghost,
                   failed>>

\* The fiber in hand has finished meanwhile: it is dropped.
DropFinished(t) ==
    /\ pc[t] = "enter" /\ ft[t] \in FiberObj /\ m_state[ft[t]] \in Over
    /\ m_activeThreadCount' = m_activeThreadCount - 1
    /\ ft' = [ft EXCEPT ![t] = None]
    /\ pc' = [pc EXCEPT ![t] = "pick"]
    /\ UNCHANGED <<m_fibers, m_idleThreadCount, m_stopping, m_autoStop, m_rootFiber,
                   owner, stops, cb_fiber, idle_term, m_state, m_cb, parked, ghost,
                   failed>>

\* Some thread still executes on the fiber's stack.
InUse(f) == \E t \in Threads : Cur(t) = f /\ pc[t] \in OnStack

\* Mutant: a finished fiber is entered again and returns behind its last swapOut().
EnterFinished(t) ==
    /\ pc[t] = "enter" /\ ft[t] \in FiberObj
    /\ failed' = IF m_state[ft[t]] \in Over THEN "never reach" ELSE failed
    /\ m_state' = [m_state EXCEPT ![ft[t]] = "EXEC"]
    /\ pc' = [pc EXCEPT ![t] = "body"]
    /\ UNCHANGED <<m_fibers, pool, hand, m_cb, parked, ghost>>

\* swapIn() of a fiber from the queue. Entering a context that another thread
\* has not left yet is undefined: the stack has two users from here on.
EnterFiber(t) ==
    /\ pc[t] = "enter" /\ ft[t] \in FiberObj /\ m_state[ft[t]] \notin Over
    /\ failed' = CASE m_state[ft[t]] = "EXEC" -> "swapIn: m_state != EXEC"
                   [] m_state[ft[t]] # "EXEC" /\ InUse(ft[t]) -> "stack shared"
                   [] OTHER -> failed
    /\ m_state' = [m_state EXCEPT ![ft[t]] = "EXEC"]
    /\ pc' = [pc EXCEPT ![t] = "body"]
    /\ UNCHANGED <<m_fibers, pool, hand, m_cb, parked, ghost>>

\* No pointer to the fiber object is left, so that its storage is free.
Unreferenced(f) == /\ f \notin QueuedTasks \cup parked
                   /\ \A t \in Threads : f # ft[t] /\ f # cb_fiber[t]

\* The fiber run() executes functions with: its own cb_fiber, reset() to the
\* function, or a new one when there is none.
CbFiberFor(t) == IF cb_fiber[t] # None THEN {cb_fiber[t]}
                 ELSE {f \in CbFibers : Unreferenced(f)}

EnterCb(t) ==
    /\ pc[t] = "enter" /\ ft[t] \in Cbs
    /\ \E f \in CbFiberFor(t) :
         /\ SYLAR_ASSERT(cb_fiber[t] # None => m_state[f] \in Over \cup {"INIT"},
                   "reset: m_state")
         /\ cb_fiber' = [cb_fiber EXCEPT ![t] = f]
         /\ m_cb' = [m_cb EXCEPT ![f] = ft[t]]
         /\ m_state' = [m_state EXCEPT ![f] = "EXEC"]
    /\ ft' = [ft EXCEPT ![t] = None]
    /\ pc' = [pc EXCEPT ![t] = "body"]
    /\ UNCHANGED <<m_fibers, pool, idle_term, parked, ghost>>
-----------------------------------------------------------------------------
(* What a body does: return, throw, yield *)

\* MainFunc(): m_cb returns or throws, the state is set, then swapOut().
MainFunc(t, end) ==
    /\ pc[t] = "body"
    /\ m_state' = [m_state EXCEPT ![Cur(t)] = end]
    /\ phase' = [phase EXCEPT ![Item(Cur(t))] = "done"]
    /\ pc' = [pc EXCEPT ![t] = "swap"]
    /\ UNCHANGED <<m_fibers, pool, hand, m_cb, parked, yields, failed>>

CanYield(t) == yields[Item(Cur(t))] < MaxYields
CountYield(t) == yields' = [yields EXCEPT ![Item(Cur(t))] = @ + 1]

\* Mutant: the body puts its fiber back into the queue itself, before swapOut().
YieldToReadyRequeues(t) ==
    /\ pc[t] = "body" /\ CanYield(t) /\ CountYield(t)
    /\ m_state' = [m_state EXCEPT ![Cur(t)] = "HOLD"]
    /\ m_fibers' = Append(m_fibers, Entry(Cur(t), AnyThread))
    /\ pc' = [pc EXCEPT ![t] = "swap"]
    /\ UNCHANGED <<pool, hand, m_cb, parked, phase, failed>>

YieldToReady(t) ==
    /\ pc[t] = "body" /\ CanYield(t) /\ CountYield(t)
    /\ SYLAR_ASSERT(m_state[Cur(t)] = "EXEC", "YieldToReady: m_state == EXEC")
    /\ m_state' = [m_state EXCEPT ![Cur(t)] = "READY"]
    /\ pc' = [pc EXCEPT ![t] = "swap"]
    /\ UNCHANGED <<m_fibers, pool, hand, m_cb, parked, phase>>

\* A body gives its fiber to an event source (a timer, an fd, a semaphore) and
\* is about to call YieldToHold().
Park(t) ==
    /\ pc[t] = "body" /\ CanYield(t) /\ CountYield(t)
    /\ parked' = parked \cup {Cur(t)}
    /\ pc' = [pc EXCEPT ![t] = "yield"]
    /\ UNCHANGED <<m_fibers, pool, hand, m_state, m_cb, phase, failed>>

\* switchTo(thread): the body schedules its own fiber on another thread and is
\* about to call YieldToHold(). On that thread already, or with -1, it returns.
SwitchTo(t, thread) ==
    /\ EarlySchedule
    /\ pc[t] = "body" /\ thread \notin {AnyThread, t} /\ CanYield(t) /\ CountYield(t)
    /\ m_fibers' = Append(m_fibers, Entry(Cur(t), thread))
    /\ pc' = [pc EXCEPT ![t] = "yield"]
    /\ UNCHANGED <<pool, hand, m_state, m_cb, parked, phase, failed>>

YieldToHold(t) ==
    /\ pc[t] = "yield"
    /\ SYLAR_ASSERT(m_state[Cur(t)] = "EXEC", "YieldToHold: m_state == EXEC")
    /\ m_state' = [m_state EXCEPT ![Cur(t)] = "HOLD"]
    /\ pc' = [pc EXCEPT ![t] = "swap"]
    /\ UNCHANGED <<m_fibers, pool, hand, m_cb, parked, ghost>>
-----------------------------------------------------------------------------
(* run(): after the task has come back *)

\* Mutant: the active count is not given back after swapIn().
SwapOutCounted(t) ==
    /\ pc[t] = "swap"
    /\ pc' = [pc EXCEPT ![t] = "settle"]
    /\ UNCHANGED <<m_fibers, pool, hand, m_state, m_cb, parked, ghost, failed>>

\* swapOut() has saved the context and run() goes on behind swapIn().
SwapOut(t) ==
    /\ pc[t] = "swap"
    /\ m_activeThreadCount' = m_activeThreadCount - 1
    /\ pc' = [pc EXCEPT ![t] = "settle"]
    /\ UNCHANGED <<m_fibers, m_idleThreadCount, m_stopping, m_autoStop, m_rootFiber,
                   owner, stops, hand, m_state, m_cb, parked, ghost, failed>>

\* Mutant: a ready fiber is not scheduled again.
SettleForgetsReady(t) ==
    /\ pc[t] = "settle"
    /\ ft' = [ft EXCEPT ![t] = None]
    /\ cb_fiber' = [cb_fiber EXCEPT ![t] = None]
    /\ pc' = [pc EXCEPT ![t] = "pick"]
    /\ UNCHANGED <<m_fibers, pool, idle_term, m_state, m_cb, parked, ghost, failed>>

\* Mutant: run() keeps its pointer to a callback fiber it has put into the queue.
SettleKeepsCbFiber(t) ==
    /\ pc[t] = "settle"
    /\ m_fibers' = IF m_state[Cur(t)] = "READY"
                   THEN Append(m_fibers, Entry(Cur(t), AnyThread)) ELSE m_fibers
    /\ ft' = [ft EXCEPT ![t] = None]
    /\ pc' = [pc EXCEPT ![t] = "pick"]
    /\ UNCHANGED <<pool, cb_fiber, idle_term, m_state, m_cb, parked, ghost, failed>>

\* run() looks at the state the fiber has NOW: READY goes back to the queue for
\* any thread, finished is forgotten (or, a cb_fiber, reset for the next
\* function), anything else is overwritten with HOLD.
Settle(t) ==
    LET f == Cur(t)
        isCb == ft[t] = None
        over == m_state[f] \in Over
        ready == m_state[f] = "READY"
    IN
    /\ pc[t] = "settle"
    /\ m_fibers' = IF ready THEN Append(m_fibers, Entry(f, AnyThread)) ELSE m_fibers
    /\ m_state' = CASE over /\ isCb -> [m_state EXCEPT ![f] = "INIT"]
                     [] ~over /\ ~ready -> [m_state EXCEPT ![f] = "HOLD"]
                     [] OTHER -> m_state
    /\ m_cb' = IF over /\ isCb THEN [m_cb EXCEPT ![f] = None] ELSE m_cb
    /\ cb_fiber' = IF isCb /\ ~over THEN [cb_fiber EXCEPT ![t] = None] ELSE cb_fiber
    /\ ft' = [ft EXCEPT ![t] = None]
    /\ pc' = [pc EXCEPT ![t] = "pick"]
    /\ UNCHANGED <<pool, idle_term, parked, ghost, failed>>
-----------------------------------------------------------------------------
ThreadStep(t) ==
    \/ PickTask(t) \/ EnterIdle(t) \/ RunReturns(t) \/ Idle(t) \/ IdleReturns(t)
    \/ DropFinished(t) \/ EnterFiber(t) \/ EnterCb(t)
    \/ \E end \in Over : MainFunc(t, end)
    \/ YieldToReady(t) \/ Park(t) \/ YieldToHold(t)
    \/ \E thread \in Pins : SwitchTo(t, thread)
    \/ SwapOut(t) \/ Settle(t)

StopStep == StopReturnsEarly \/ StopCalls \/ StopCallEnds \/ StopSkipsCall \/ StopJoins

ClientStep == \/ Start \/ Stop
              \/ \E thread \in Pins : \/ \E w \in Work : Schedule(w, thread)
                                      \/ \E f \in Fibers : ScheduleAgain(f, thread)
              \/ \E f \in FiberObj : Wake(f)

\* The process has aborted, or the owner has stopped the pool for the last time.
Terminated == /\ failed # "none" \/ (owner = "out" /\ stops = MaxStops)
              /\ UNCHANGED vars

Next == \/ failed = "none" /\ ClientStep
        \/ failed = "none" /\ StopStep
        \/ failed = "none" /\ \E t \in Threads : ThreadStep(t)
        \/ Terminated

\* Every pool thread and a caller inside stop() keep running; nothing obliges a
\* client to start, stop or schedule, or an event to happen.
Fairness == /\ \A t \in Threads : WF_vars(failed = "none" /\ ThreadStep(t))
            /\ WF_vars(failed = "none" /\ StopStep)

Spec == Init /\ [][Next]_vars
FairSpec == Spec /\ Fairness
-----------------------------------------------------------------------------
(* Properties *)

TypeOK ==
    /\ m_fibers \in Seq([task : Task, thread : Threads \cup {AnyThread}])
    /\ m_activeThreadCount \in Nat /\ m_idleThreadCount \in Nat
    /\ m_stopping \in BOOLEAN /\ m_autoStop \in BOOLEAN
    /\ m_rootFiber \in States
    /\ m_state \in [FiberObj -> States]
    /\ m_cb \in [CbFibers -> Cbs \cup {None}]
    /\ ft \in [Threads -> Task \cup {None}]
    /\ cb_fiber \in [Threads -> CbFibers \cup {None}]
    /\ idle_term \in [Threads -> BOOLEAN]
    /\ pc \in [Threads -> PCs]
    /\ owner \in {"out", "stop", "call", "join"}
    /\ parked \subseteq FiberObj
    /\ phase \in [Work -> {"new", "live", "done"}]
    /\ yields \in [Work -> Nat] /\ stops \in Nat
    /\ failed \in Aborts \cup {"none"}

\* m_activeThreadCount is exactly the number of threads between the scan that
\* took a task and the return of its swapIn(). stopping() decides on it, so a
\* path of run() that misses one increment or decrement (the dropped finished
\* fiber, the callback branch) would end the pool early or never.
ActiveCountExact ==
    m_activeThreadCount = Cardinality({t \in Threads : pc[t] \in Counted})

\* m_idleThreadCount is exactly the number of threads inside the idle fiber;
\* IOManager::tickle() writes to its pipe only if the count is positive.
IdleCountExact ==
    m_idleThreadCount = Cardinality({t \in Threads : pc[t] \in {"idle", "rest"}})

\* No two threads ever execute on the stack of one fiber: swapIn() enters a
\* fiber only after the thread it ran on has saved its context and left it.
OneThreadPerFiber ==
    \A t, u \in Threads : t # u /\ pc[t] \in OnStack /\ pc[u] \in OnStack
                              => Cur(t) # Cur(u)

\* None of the assertions of Fiber and Scheduler fails: swapIn() of an executing
\* fiber, a yield by a fiber that is not EXEC, reset() of a fiber in use,
\* start() over live threads, a return into a finished root fiber.
NoAbort == failed = "none"

\* The view of the pool in which nothing but the fate of each work item remains:
\* the fibers that carry the item, the threads that execute on one of their stacks,
Carriers(w) == {f \in FiberObj : Item(f) = w}
Runners(w)  == {t \in Threads : pc[t] \in OnStack /\ Item(Cur(t)) = w}

\* and whether some run() loop still holds the item, or a fiber of it, to run it:
\* in the queue, in hand, or come back ready and not yet queued again.
InHand(x) == \E t \in Threads : ft[t] = x /\ pc[t] = "enter"
Served(w) == \E x \in {w} \cup Carriers(w) :
                \/ x \in QueuedTasks
                \/ InHand(x)
                \/ \E t \in Threads : pc[t] = "settle" /\ Cur(t) = x /\ m_state[x] = "READY"

\* An item that is entered again is running, finished or not; one that neither the
\* pool nor an event source holds is lost, which no status of TaskPool is.
Status(w) == IF Runners(w) # {} THEN "running"
             ELSE IF phase[w] # "live" THEN phase[w]
             ELSE IF Served(w) THEN "pending"
             ELSE IF Carriers(w) \cap parked # {} THEN "parked"
             ELSE "lost"

TP == INSTANCE TaskPool WITH status <- [w \in Work |-> Status(w)],
                             runners <- [w \in Work |-> Runners(w)],
                             closing <- owner # "out"

\* The scheduler implements the abstract task pool: a work item has one thread on
\* its stack at most, is not lost between two run() loops or between an event and
\* the queue, is not entered again after MainFunc() has set TERM or EXCEPT, and
\* stop() returns only when all work has finished or is parked.
ImplementsTaskPool == TP!Spec

\* stop() returns.
StopReturns == owner # "out" ~> owner = "out"

\* Once stop() has been called, every work item that was scheduled finishes, or
\* parks on an event that lies outside of the pool.
WorkIsServed ==
    \A w \in Work : owner # "out" /\ phase[w] = "live"
                        ~> Status(w) \in {"done", "parked"}
=============================================================================
