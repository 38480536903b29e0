--------------------------- MODULE IOManagerProof ----------------------------
(***************************************************************************)
(* Proofs about IOManager for any number of threads, descriptors and       *)
(* fibers: m_pendingEventCount is exact, a waiting fiber is in one place,  *)
(* epoll watches what is registered as long as nobody closes descriptors   *)
(* behind a thread's back, stop() leaves nothing behind, and no assertion  *)
(* fails where each event has one waiter and no peer hangs up.             *)
(***************************************************************************)
EXTENDS IOManager, FiniteSetTheorems, TLAPS

USE DEF contexts, kernel, quits, sched, threads

Running == {"run", "park", "close"}
Slotted(k) == \E f \in Fds, e \in Events : ctx[f][e] = k

\* The types, but for m_pendingEventCount, whose range follows from PendingInv.
TypeInv ==
    /\ events \in [Fds -> SUBSET Events]
    /\ ctx \in [Fds -> [Events -> Tasks \cup {None}]]
    /\ interest \in [Fds -> SUBSET Events] /\ level \in [Fds -> SUBSET Levels]
    /\ edge \subseteq Fds /\ open \subseteq Fds
    /\ pipe \in {"empty", "ready", "seen"}
    /\ m_fibers \subseteq Tasks
    /\ m_stopping \in BOOLEAN /\ tickles \in Nat
    /\ state \in [Tasks -> {"new", "hold", "exec", "term"}]
    /\ pc \in [Threads -> IdlePoints \cup {"scan", "idle", "run", "park", "close", "exit"}]
    /\ cur \in [Threads -> Tasks \cup {None}]
    /\ got \in [Threads -> [Fds -> SUBSET Levels]]
    /\ closing \in [Threads -> SUBSET Fds]
    /\ drains \subseteq Threads /\ idle_term \subseteq Threads /\ late \in BOOLEAN
    /\ adds \in [Tasks -> Nat] /\ deleted \subseteq Tasks
    /\ aborted \in BOOLEAN

\* A context names a fiber exactly while its event is registered.
SlotInv == \A f \in Fds, e \in Events : e \in events[f] <=> ctx[f][e] # None

PendingInv == m_pendingEventCount = Cardinality(Registered)

\* Threads run different fibers, in state EXEC.
ExecInv ==
    /\ \A t \in Threads : pc[t] \in Running => cur[t] \in Tasks /\ state[cur[t]] = "exec"
    /\ \A t, u \in Threads :
          pc[t] \in Running /\ pc[u] \in Running /\ cur[t] = cur[u] => t = u

\* A fiber has one context, and none while it is queued, runs or does not live.
PlaceInv ==
    /\ \A f, g \in Fds : \A d, e \in Events :
          ctx[f][d] # None /\ ctx[f][d] = ctx[g][e] => f = g /\ d = e
    /\ \A k \in Tasks :
          /\ k \in m_fibers => ~Slotted(k)
          /\ state[k] = "hold" /\ k \notin deleted => Slotted(k) \/ k \in m_fibers
          /\ state[k] \in {"new", "term"} => ~Slotted(k) /\ k \notin m_fibers
    /\ \A t \in Threads :
          /\ pc[t] \in {"run", "close"} => ~Slotted(cur[t]) /\ cur[t] \notin m_fibers
          /\ pc[t] = "park" /\ cur[t] \notin deleted => Slotted(cur[t]) \/ cur[t] \in m_fibers

IInv == TypeInv /\ SlotInv /\ PendingInv /\ ExecInv /\ PlaceInv
-----------------------------------------------------------------------------
\* There are two events.
LEMMA TwoEvents == IsFiniteSet(Events) /\ Cardinality(Events) = 2
<1>1. Events = {"READ"} \cup {"WRITE"} /\ "WRITE" \notin {"READ"}
    BY DEF Events
<1>2. IsFiniteSet({"READ"}) /\ Cardinality({"READ"}) = 1
    BY FS_Singleton
<1>3. /\ IsFiniteSet({"READ"} \cup {"WRITE"})
      /\ Cardinality({"READ"} \cup {"WRITE"}) = Cardinality({"READ"}) + 1
    BY <1>1, <1>2, FS_AddElement
<1> QED BY <1>1, <1>2, <1>3

\* There are finitely many registrations.
LEMMA RegisteredFinite == IsFiniteSet(Registered) /\ Cardinality(Registered) \in Nat
<1>1. IsFiniteSet(Events)
    BY TwoEvents
<1>2. IsFiniteSet(Fds \X Events)
    BY <1>1, IOManagerAssumption, FS_Product
<1> QED BY <1>2, FS_Subset, FS_CardinalityType DEF Registered

\* The sizes of the sets of events.
LEMMA EventSets ==
    ASSUME NEW evs \in SUBSET Events
    PROVE  \/ evs = {} /\ Cardinality(evs) = 0
           \/ evs = {"READ"} /\ Cardinality(evs) = 1
           \/ evs = {"WRITE"} /\ Cardinality(evs) = 1
           \/ evs = {"READ", "WRITE"} /\ Cardinality(evs) = 2
<1>1. evs = {} \/ evs = {"READ"} \/ evs = {"WRITE"} \/ evs = {"READ", "WRITE"}
    BY DEF Events
<1>2. Cardinality({"READ", "WRITE"}) = 2
    BY TwoEvents DEF Events
<1> QED BY <1>1, <1>2, FS_EmptySet, FS_Singleton

\* Taking the events `evs' of one descriptor away takes as many registrations.
LEMMA RegisteredShrinks ==
    ASSUME TypeInv, NEW f \in Fds, NEW evs \in SUBSET Events, evs \subseteq events[f],
           events' = [events EXCEPT ![f] = @ \ evs]
    PROVE  Cardinality(Registered') = Cardinality(Registered) - Cardinality(evs)
<1>1. Registered' = Registered \ {<<f, e>> : e \in evs}
    BY DEF TypeInv, Registered
<1>2. \A e \in evs : <<f, e>> \in Registered
    BY DEF TypeInv, Registered
<1>3. CASE evs = {} /\ Cardinality(evs) = 0
  <2>1. Registered' = Registered
      BY <1>1, <1>3
  <2>2. Cardinality(Registered) = Cardinality(Registered) - 0
      BY RegisteredFinite
  <2> QED BY <2>1, <2>2, <1>3
<1>4. ASSUME NEW e \in Events, evs = {e}, Cardinality(evs) = 1
      PROVE  Cardinality(Registered') = Cardinality(Registered) - Cardinality(evs)
  <2>1. Registered' = Registered \ {<<f, e>>}
      BY <1>1, <1>4
  <2>2. <<f, e>> \in Registered
      BY <1>2, <1>4
  <2>3. Cardinality(Registered \ {<<f, e>>}) = Cardinality(Registered) - 1
      BY <2>2, RegisteredFinite, FS_RemoveElement
  <2> QED BY <2>1, <2>3, <1>4
<1>5. CASE evs = {"READ", "WRITE"} /\ Cardinality(evs) = 2
  <2> DEFINE one == Registered \ {<<f, "READ">>}
  <2>1. Registered' = one \ {<<f, "WRITE">>}
      BY <1>1, <1>5
  <2>2. <<f, "WRITE">> \in one /\ <<f, "READ">> \in Registered
      BY <1>2, <1>5
  <2>3. IsFiniteSet(one) /\ Cardinality(one) = Cardinality(Registered) - 1
      BY <2>2, RegisteredFinite, FS_RemoveElement
  <2>4. Cardinality(one \ {<<f, "WRITE">>}) = Cardinality(one) - 1
      BY <2>2, <2>3, FS_RemoveElement
  <2> HIDE DEF one
  <2> QED BY <2>1, <2>3, <2>4, <1>5, RegisteredFinite
<1> QED BY <1>3, <1>4, <1>5, EventSets DEF Events

\* A new registration is one more.
LEMMA RegisteredGrows ==
    ASSUME TypeInv, NEW f \in Fds, NEW e \in Events, e \notin events[f],
           events' = [events EXCEPT ![f] = @ \cup {e}]
    PROVE  Cardinality(Registered') = Cardinality(Registered) + 1
<1>1. Registered' = Registered \cup {<<f, e>>} /\ <<f, e>> \notin Registered
    BY DEF TypeInv, Registered
<1> QED BY <1>1, RegisteredFinite, FS_AddElement
-----------------------------------------------------------------------------
\* What triggerEvent() guarantees: a triggered fiber moves from its context to
\* the queue, the others stay where they are.
Moved ==
    /\ events' \in [Fds -> SUBSET Events]
    /\ ctx' \in [Fds -> [Events -> Tasks \cup {None}]]
    /\ m_fibers' \subseteq Tasks /\ pipe' \in {"empty", "ready", "seen"} /\ aborted' \in BOOLEAN
    /\ SlotInv' /\ PendingInv'
    /\ m_fibers \subseteq m_fibers'
    /\ \A f \in Fds, e \in Events :
          \/ ctx'[f][e] = ctx[f][e] /\ (ctx[f][e] \in m_fibers' => ctx[f][e] \in m_fibers)
          \/ ctx'[f][e] = None /\ ctx[f][e] \in m_fibers'
    /\ \A k \in m_fibers' : k \in m_fibers \/ Slotted(k)

\* schedule() keeps the types.
LEMMA ScheduleType ==
    ASSUME TypeInv, NEW ks \in SUBSET Tasks, Schedule(ks)
    PROVE  m_fibers' = m_fibers \cup ks /\ m_fibers' \subseteq Tasks
           /\ pipe' \in {"empty", "ready", "seen"}
BY DEF TypeInv, Schedule, Tickled

\* triggerEvent() moves waiting fibers from their contexts to the queue.
LEMMA TriggerMoves ==
    ASSUME IInv, NEW f \in Fds, NEW evs \in SUBSET Events, TriggerEvents(f, evs)
    PROVE  Moved
<1> USE DEF IInv
<1>1. CASE evs \subseteq events[f]
  <2> DEFINE ks == {ctx[f][e] : e \in evs}
  <2>1. /\ events' = [events EXCEPT ![f] = @ \ evs]
        /\ ctx' = [ctx EXCEPT ![f] = [e \in Events |-> IF e \in evs THEN None ELSE @[e]]]
        /\ m_pendingEventCount' = m_pendingEventCount - Cardinality(evs)
        /\ Schedule(ks) /\ aborted' = aborted
      BY <1>1 DEF TriggerEvents
  <2>2. \A e \in evs : ctx[f][e] \in Tasks
      BY <1>1 DEF TypeInv, SlotInv
  <2>3. /\ m_fibers' = m_fibers \cup ks /\ m_fibers' \subseteq Tasks
        /\ pipe' \in {"empty", "ready", "seen"}
      BY <2>1, <2>2, ScheduleType
  <2>4. /\ events' \in [Fds -> SUBSET Events]
        /\ ctx' \in [Fds -> [Events -> Tasks \cup {None}]]
        /\ aborted' \in BOOLEAN
      BY <2>1 DEF TypeInv
  <2>5. \A g \in Fds, e \in Events :
           ctx'[g][e] = IF g = f /\ e \in evs THEN None ELSE ctx[g][e]
      BY <2>1 DEF TypeInv
  <2>6. SlotInv'
      BY <2>1, <2>5 DEF TypeInv, SlotInv
  <2>7. PendingInv'
      BY <1>1, <2>1, RegisteredShrinks DEF PendingInv
  <2>8. ASSUME NEW g \in Fds, NEW e \in Events
        PROVE  \/ ctx'[g][e] = ctx[g][e] /\ (ctx[g][e] \in m_fibers' => ctx[g][e] \in m_fibers)
               \/ ctx'[g][e] = None /\ ctx[g][e] \in m_fibers'
    <3>1. CASE g = f /\ e \in evs
        BY <3>1, <2>3, <2>5
    <3>2. CASE ~(g = f /\ e \in evs)
      <4>1. \A d \in evs : ctx[f][d] # ctx[g][e]
          BY <3>2, <2>2, IOManagerAssumption DEF PlaceInv
      <4> QED BY <3>2, <4>1, <2>3, <2>5
    <3> QED BY <3>1, <3>2
  <2>9. \A k \in m_fibers' : k \in m_fibers \/ Slotted(k)
      BY <2>3 DEF Slotted
  <2> QED BY <2>3, <2>4, <2>6, <2>7, <2>8, <2>9 DEF Moved
<1>2. CASE ~(evs \subseteq events[f])
  <2>1. UNCHANGED <<events, ctx, m_pendingEventCount, m_fibers, pipe>> /\ aborted' = TRUE
      BY <1>2 DEF TriggerEvents
  <2>2. Registered' = Registered
      BY <2>1 DEF Registered
  <2> QED BY <2>1, <2>2 DEF Moved, TypeInv, SlotInv, PendingInv
<1> QED BY <1>1, <1>2

\* If fibers only move from contexts to the queue and no fiber enters or leaves
\* a thread, every fiber keeps its place.
LEMMA MovedKeepsPlace ==
    ASSUME IInv, Moved, UNCHANGED <<state, deleted, cur>>,
           \A t \in Threads : \/ pc'[t] = pc[t]
                              \/ {pc[t], pc'[t]} \subseteq {"run", "close"}
                              \/ pc[t] \notin Running /\ pc'[t] \notin Running
    PROVE  ExecInv' /\ PlaceInv'
<1> USE DEF IInv
<1>1. ExecInv'
    BY DEF ExecInv, Running
<1>2. \A k \in Tasks : Slotted(k)' => Slotted(k) /\ (k \in m_fibers' => k \in m_fibers)
    BY IOManagerAssumption DEF Slotted, Moved
<1>3. \A k \in Tasks : Slotted(k) => Slotted(k)' \/ k \in m_fibers'
    BY DEF Slotted, Moved
<1>4. \A f, g \in Fds : \A d, e \in Events :
          ctx'[f][d] # None /\ ctx'[f][d] = ctx'[g][e] => f = g /\ d = e
    BY DEF Moved, PlaceInv
<1>5. ASSUME NEW k \in Tasks
      PROVE  /\ k \in m_fibers' => ~Slotted(k)'
             /\ state'[k] = "hold" /\ k \notin deleted' => Slotted(k)' \/ k \in m_fibers'
             /\ state'[k] \in {"new", "term"} => ~Slotted(k)' /\ k \notin m_fibers'
    BY <1>2, <1>3 DEF Moved, PlaceInv
<1>6. ASSUME NEW t \in Threads
      PROVE  /\ pc'[t] \in {"run", "close"} => ~Slotted(cur[t])' /\ cur'[t] \notin m_fibers'
             /\ pc'[t] = "park" /\ cur'[t] \notin deleted' => Slotted(cur[t])' \/ cur'[t] \in m_fibers'
  <2>1. pc'[t] \in Running => cur[t] \in Tasks
      BY DEF ExecInv, Running
  <2>2. cur'[t] = cur[t] /\ deleted' = deleted
      OBVIOUS
  <2>3. CASE pc'[t] \in {"run", "close"}
    <3>1. pc[t] \in {"run", "close"}
        BY <2>3 DEF Running
    <3>2. ~Slotted(cur[t]) /\ cur[t] \notin m_fibers /\ cur[t] \in Tasks
        BY <3>1, <2>1, <2>3 DEF PlaceInv, Running
    <3>3. ~Slotted(cur[t])' /\ cur[t] \notin m_fibers'
        BY <3>2, <2>2, <1>2 DEF Moved, Slotted
    <3> QED BY <3>3, <2>2, <2>3
  <2>4. CASE pc'[t] = "park"
    <3>1. pc[t] = "park"
        BY <2>4 DEF Running
    <3>2. cur[t] \in Tasks
        BY <2>1, <2>4 DEF Running
    <3>3. cur[t] \notin deleted => Slotted(cur[t]) \/ cur[t] \in m_fibers
        BY <3>1 DEF PlaceInv
    <3>4. cur[t] \notin deleted => Slotted(cur[t])' \/ cur[t] \in m_fibers'
        BY <3>2, <3>3, <2>2, <1>3 DEF Moved, Slotted
    <3> QED BY <3>4, <2>2, <2>4
  <2> QED BY <2>3, <2>4
<1>7. PlaceInv'
    BY <1>4, <1>5, <1>6 DEF PlaceInv
<1> QED BY <1>1, <1>7
-----------------------------------------------------------------------------
\* epoll_ctl() keeps the types.
LEMMA CtlType ==
    ASSUME TypeInv, NEW f \in Fds, NEW new \in SUBSET Events, EpollCtl(f, new)
    PROVE  interest' \in [Fds -> SUBSET Events] /\ edge' \subseteq Fds
BY DEF TypeInv, EpollCtl

\* The initial state satisfies the invariant.
LEMMA InitInv == Init => IInv
<1> SUFFICES ASSUME Init PROVE IInv
    OBVIOUS
<1>1. TypeInv
  <2>1. /\ events \in [Fds -> SUBSET Events]
        /\ ctx \in [Fds -> [Events -> Tasks \cup {None}]]
        /\ interest \in [Fds -> SUBSET Events] /\ level \in [Fds -> SUBSET Levels]
      BY DEF Init
  <2>2. /\ state \in [Tasks -> {"new", "hold", "exec", "term"}]
        /\ pc \in [Threads -> IdlePoints \cup {"scan", "idle", "run", "park", "close", "exit"}]
        /\ cur \in [Threads -> Tasks \cup {None}]
        /\ adds \in [Tasks -> Nat]
      BY DEF Init
  <2>3. got \in [Threads -> [Fds -> SUBSET Levels]] /\ closing \in [Threads -> SUBSET Fds]
      BY DEF Init
  <2> QED BY <2>1, <2>2, <2>3 DEF Init, TypeInv
<1>2. SlotInv
    BY DEF Init, SlotInv
<1>3. PendingInv
  <2>1. Registered = {}
      BY DEF Init, Registered
  <2> QED BY <2>1, FS_EmptySet DEF Init, PendingInv
<1>4. ExecInv
    BY DEF Init, ExecInv, Running
<1>5. PlaceInv
  <2>1. \A k \in Tasks : ~Slotted(k)
      BY IOManagerAssumption DEF Init, Slotted
  <2> QED BY <2>1 DEF Init, PlaceInv
<1> QED BY <1>1, <1>2, <1>3, <1>4, <1>5 DEF IInv

\* The variables of the contexts' and fibers' invariant.
places == <<events, ctx, m_pendingEventCount, m_fibers, state, deleted, cur>>

\* Steps that leave these alone, and keep running what runs, keep the invariant.
LEMMA PlacesUnchanged ==
    ASSUME IInv, UNCHANGED places,
           \A t \in Threads : \/ pc'[t] = pc[t]
                              \/ pc[t] \notin Running /\ pc'[t] \notin Running
    PROVE  SlotInv' /\ PendingInv' /\ ExecInv' /\ PlaceInv'
<1>1. Registered' = Registered /\ (\A k : Slotted(k)' = Slotted(k))
    BY DEF places, Registered, Slotted
<1>2. SlotInv' /\ PendingInv'
    BY <1>1 DEF IInv, places, SlotInv, PendingInv
<1>3. ExecInv'
    BY DEF IInv, places, ExecInv, Running
<1>4. PlaceInv'
    BY <1>1 DEF IInv, places, PlaceInv, Running
<1> QED BY <1>2, <1>3, <1>4

\* A step that changes nothing here moves nothing.
LEMMA StillMoved ==
    ASSUME IInv, UNCHANGED <<events, ctx, m_pendingEventCount, m_fibers, pipe, aborted>>
    PROVE  Moved
<1>1. Registered' = Registered
    BY DEF Registered
<1> QED BY <1>1 DEF IInv, Moved, TypeInv, SlotInv, PendingInv

\* The steps that neither register nor move a fiber keep the types.
LEMMA QuietType ==
    ASSUME IInv,
           \/ Stop \/ StopTickles \/ UNCHANGED vars
           \/ \E k \in Tasks : Submit(k)
           \/ \E f \in Fds, l \in Levels : BecomesReady(f, l)
           \/ \E t \in Threads :
                 \/ NothingToRun(t) \/ EnterIdle(t) \/ StoppingPending(t) \/ StoppingDrained(t)
                 \/ EpollWait(t) \/ EpollTimeout(t) \/ HandleTickle(t) \/ IdleYields(t)
                 \/ Park(t) \/ Finish(t)
                 \/ \E k \in Tasks : PickTask(t, k)
                 \/ \E f \in Fds : CloseF(t, f) \/ \E e \in Events : Exhaust(t, f, e)
    PROVE  TypeInv'
<1> USE DEF IInv
<1>1. CASE Stop
  <2>1. Cardinality(Threads) \in Nat
      BY IOManagerAssumption, FS_CardinalityType
  <2> QED BY <1>1, <2>1 DEF TypeInv, Stop
<1>2. CASE StopTickles
    BY <1>2 DEF TypeInv, StopTickles, Tickled
<1>3. CASE UNCHANGED vars
    BY <1>3 DEF TypeInv, vars
<1>4. ASSUME NEW k \in Tasks, Submit(k) PROVE TypeInv'
    BY <1>4 DEF TypeInv, Submit, Schedule, Tickled
<1>5. ASSUME NEW f \in Fds, NEW l \in Levels, BecomesReady(f, l) PROVE TypeInv'
    BY <1>5 DEF TypeInv, BecomesReady
<1>6. ASSUME NEW t \in Threads,
             \/ NothingToRun(t) \/ EnterIdle(t) \/ StoppingPending(t) \/ StoppingDrained(t)
             \/ EpollTimeout(t) \/ HandleTickle(t) \/ IdleYields(t)
      PROVE  TypeInv'
    BY <1>6 DEF TypeInv, NothingToRun, EnterIdle, StoppingPending, StoppingDrained,
                EpollTimeout, HandleTickle, IdleYields, IdlePoints
<1>7. ASSUME NEW t \in Threads, EpollWait(t) PROVE TypeInv'
  <2>1. \A f \in Fds : (IF f \in edge THEN Reported(f) ELSE {}) \in SUBSET Levels
      BY DEF TypeInv, Reported
  <2>2. got' \in [Threads -> [Fds -> SUBSET Levels]]
      BY <1>7, <2>1 DEF TypeInv, EpollWait
  <2> QED BY <1>7, <2>2 DEF TypeInv, EpollWait, IdlePoints
<1>8. ASSUME NEW t \in Threads, Park(t) \/ Finish(t) PROVE TypeInv'
  <2>1. cur[t] \in Tasks
      BY <1>8 DEF ExecInv, Running, Park, Finish
  <2> QED BY <1>8, <2>1 DEF TypeInv, Park, Finish
<1>9. ASSUME NEW t \in Threads, NEW k \in Tasks, PickTask(t, k) PROVE TypeInv'
    BY <1>9 DEF TypeInv, PickTask, Tickled
<1>10. ASSUME NEW t \in Threads, NEW f \in Fds, CloseF(t, f) PROVE TypeInv'
    BY <1>10 DEF TypeInv, CloseF
<1>11. ASSUME NEW t \in Threads, NEW f \in Fds, NEW e \in Events, Exhaust(t, f, e)
       PROVE  TypeInv'
    BY <1>11 DEF TypeInv, Exhaust
<1> QED BY <1>1, <1>2, <1>3, <1>4, <1>5, <1>6, <1>7, <1>8, <1>9, <1>10, <1>11

\* cancelEvent(), cancelAll(), close() and the handling of an event either do
\* nothing or arm epoll anew and trigger events.
LEMMA TriggeringStep ==
    ASSUME IInv, NEW t \in Threads, NEW f \in Fds,
           \/ CancelAll(t, f) \/ Close(t, f) \/ HandleEvent(t, f)
           \/ \E e \in Events : CancelEvent(t, f, e)
    PROVE  IInv'
<1> USE DEF IInv
<1>1. /\ Moved
      /\ interest' \in [Fds -> SUBSET Events] /\ edge' \subseteq Fds
  <2>1. ASSUME NEW e \in Events, CancelEvent(t, f, e)
        PROVE  /\ Moved
               /\ interest' \in [Fds -> SUBSET Events] /\ edge' \subseteq Fds
    <3>1. events[f] \ {e} \in SUBSET Events /\ {e} \in SUBSET Events
        BY DEF TypeInv
    <3>2. EpollCtl(f, events[f] \ {e}) /\ TriggerEvents(f, {e})
        BY <2>1 DEF CancelEvent
    <3> QED BY <3>1, <3>2, CtlType, TriggerMoves
  <2>2. CASE CancelAll(t, f)
    <3>1. {} \in SUBSET Events /\ events[f] \in SUBSET Events
        BY DEF TypeInv
    <3>2. EpollCtl(f, {}) /\ TriggerEvents(f, events[f])
        BY <2>2 DEF CancelAll
    <3> QED BY <3>1, <3>2, CtlType, TriggerMoves
  <2>3. CASE Close(t, f)
    <3>1. {} \in SUBSET Events /\ events[f] \in SUBSET Events
        BY DEF TypeInv
    <3>2. CASE EpollCtl(f, {}) /\ TriggerEvents(f, events[f])
        BY <3>1, <3>2, CtlType, TriggerMoves
    <3>3. CASE UNCHANGED <<contexts, interest, edge, pipe, m_fibers, aborted>>
        BY <3>3, StillMoved DEF TypeInv
    <3> QED BY <2>3, <3>2, <3>3 DEF Close
  <2>4. CASE HandleEvent(t, f)
    <3> DEFINE real == IF "HUP" \in got[t][f] THEN Events ELSE got[t][f]
    <3>1. real \in SUBSET Events /\ events[f] \ real \in SUBSET Events
        BY DEF TypeInv, Levels
    <3>2. CASE EpollCtl(f, events[f] \ real) /\ TriggerEvents(f, real)
        BY <3>1, <3>2, CtlType, TriggerMoves
    <3>3. CASE UNCHANGED <<contexts, interest, edge, pipe, m_fibers, aborted>>
        BY <3>3, StillMoved DEF TypeInv
    <3> QED BY <2>4, <3>2, <3>3 DEF HandleEvent
  <2> QED BY <2>1, <2>2, <2>3, <2>4
<1>2. /\ UNCHANGED <<state, deleted, cur, level, open, m_stopping, tickles, adds, drains, quits>>
      /\ \A u \in Threads : pc'[u] = pc[u] \/ {pc[u], pc'[u]} \subseteq {"run", "close"}
      /\ pc' \in [Threads -> IdlePoints \cup {"scan", "idle", "run", "park", "close", "exit"}]
      /\ got' \in [Threads -> [Fds -> SUBSET Levels]] /\ closing' \in [Threads -> SUBSET Fds]
  <2>1. UNCHANGED <<state, deleted, cur, level, open, m_stopping, tickles, adds, drains, quits>>
      BY DEF CancelAll, Close, HandleEvent, CancelEvent
  <2>2. \/ UNCHANGED <<pc, got, closing>>
        \/ /\ pc[t] = "run" /\ pc' = [pc EXCEPT ![t] = "close"]
           /\ closing' = [closing EXCEPT ![t] = {f}] /\ got' = got
        \/ got' = [got EXCEPT ![t][f] = {}] /\ UNCHANGED <<pc, closing>>
      BY DEF CancelAll, Close, HandleEvent, CancelEvent
  <2>3. \A u \in Threads : pc'[u] = pc[u] \/ {pc[u], pc'[u]} \subseteq {"run", "close"}
      BY <2>2 DEF TypeInv
  <2>4. /\ pc' \in [Threads -> IdlePoints \cup {"scan", "idle", "run", "park", "close", "exit"}]
        /\ closing' \in [Threads -> SUBSET Fds]
    <3>1. /\ pc \in [Threads -> IdlePoints \cup {"scan", "idle", "run", "park", "close", "exit"}]
          /\ closing \in [Threads -> SUBSET Fds]
        BY DEF TypeInv
    <3>2. pc' = pc \/ pc' = [pc EXCEPT ![t] = "close"]
        BY <2>2
    <3>3. closing' = closing \/ closing' = [closing EXCEPT ![t] = {f}]
        BY <2>2
    <3>4. closing' \in [Threads -> SUBSET Fds]
        BY <3>1, <3>3
    <3> QED BY <3>1, <3>2, <3>4
  <2>5. got' \in [Threads -> [Fds -> SUBSET Levels]]
    <3>1. got \in [Threads -> [Fds -> SUBSET Levels]]
        BY DEF TypeInv
    <3>2. got' = got \/ got' = [got EXCEPT ![t][f] = {}]
        BY <2>2
    <3> QED BY <3>1, <3>2
  <2> QED BY <2>1, <2>3, <2>4, <2>5
<1>3. ExecInv' /\ PlaceInv'
    BY <1>1, <1>2, MovedKeepsPlace
<1>4. TypeInv'
    BY <1>1, <1>2 DEF TypeInv, Moved
<1> QED BY <1>1, <1>3, <1>4 DEF Moved

\* addEvent(): the running fiber, which had no place, gets the context.
LEMMA AddEventStep ==
    ASSUME IInv, NEW t \in Threads, NEW f \in Fds, NEW e \in Events, AddEvent(t, f, e)
    PROVE  IInv'
<1> USE DEF IInv
<1> DEFINE k == cur[t]
           new == events[f] \cup {e}
<1>1. k \in Tasks /\ pc[t] = "run" /\ ~Slotted(k) /\ k \notin m_fibers /\ k # None
    BY IOManagerAssumption DEF AddEvent, ExecInv, PlaceInv, Running
<1>2. /\ adds' = [adds EXCEPT ![k] = @ + 1]
      /\ UNCHANGED <<pipe, m_fibers, m_stopping, tickles, state, deleted, cur, got, closing, drains,
                   quits>>
    BY DEF AddEvent
<1>3. CASE \/ e \in events[f] /\ aborted' = TRUE /\ UNCHANGED <<contexts, kernel, pc>>
           \/ UNCHANGED <<contexts, kernel, pc, aborted>>
  <2>1. adds' \in [Tasks -> Nat] /\ aborted' \in BOOLEAN
    <3>1. adds \in [Tasks -> Nat] /\ aborted \in BOOLEAN
        BY DEF TypeInv
    <3>2. adds' \in [Tasks -> Nat]
        BY <3>1, <1>1, <1>2
    <3>3. aborted' = TRUE \/ aborted' = aborted
        BY <1>3
    <3> QED BY <3>1, <3>2, <3>3
  <2>2. UNCHANGED <<contexts, kernel, pc>>
      BY <1>3
  <2>3. TypeInv'
      BY <1>2, <2>1, <2>2 DEF TypeInv
  <2> QED BY <2>2, <2>3, <1>2, PlacesUnchanged DEF places
<1>4. CASE /\ e \notin events[f] /\ EpollCtl(f, new)
           /\ m_pendingEventCount' = m_pendingEventCount + 1
           /\ events' = [events EXCEPT ![f] = new]
           /\ aborted' = (ctx[f][e] # None)
           /\ ctx' = [ctx EXCEPT ![f][e] = k]
           /\ pc' = [pc EXCEPT ![t] = "park"]
           /\ UNCHANGED <<level, open>>
  <2>1. new \in SUBSET Events
      BY DEF TypeInv
  <2>2. interest' \in [Fds -> SUBSET Events] /\ edge' \subseteq Fds
      BY <1>4, <2>1, CtlType
  <2>3. /\ events' \in [Fds -> SUBSET Events]
        /\ ctx' \in [Fds -> [Events -> Tasks \cup {None}]]
        /\ \A g \in Fds, d \in Events : ctx'[g][d] = IF g = f /\ d = e THEN k ELSE ctx[g][d]
      BY <1>1, <1>4, <2>1 DEF TypeInv
  <2>4. TypeInv'
      BY <1>1, <1>2, <1>4, <2>2, <2>3 DEF TypeInv
  <2>5. SlotInv'
      BY <1>1, <1>4, <2>3 DEF TypeInv, SlotInv
  <2>6. PendingInv'
      BY <1>4, RegisteredGrows DEF PendingInv
  <2>7. /\ \A j \in Tasks : j # k => (Slotted(j)' <=> Slotted(j))
        /\ Slotted(k)'
    <3>1. ctx[f][e] = None
        BY <1>4 DEF SlotInv
    <3>2. ctx'[f][e] = k
        BY <2>3
    <3>3. ASSUME NEW j \in Tasks, j # k, Slotted(j) PROVE Slotted(j)'
      <4>1. PICK g \in Fds, d \in Events : ctx[g][d] = j
          BY <3>3 DEF Slotted
      <4>2. ctx'[g][d] = j
          BY <4>1, <3>1, <2>3, IOManagerAssumption
      <4> QED BY <4>2 DEF Slotted
    <3>4. ASSUME NEW j \in Tasks, j # k, Slotted(j)' PROVE Slotted(j)
      <4>1. PICK g \in Fds, d \in Events : ctx'[g][d] = j
          BY <3>4 DEF Slotted
      <4>2. ctx[g][d] = j
          BY <4>1, <3>4, <2>3
      <4> QED BY <4>2 DEF Slotted
    <3>5. (\E g \in Fds, d \in Events : ctx'[g][d] = k)
        BY <3>2
    <3>6. Slotted(k)'
        BY <3>5, <1>2 DEF Slotted
    <3> QED BY <3>3, <3>4, <3>6
  <2>8. \A u \in Threads : u # t => pc'[u] = pc[u]
      BY <1>4 DEF TypeInv
  <2>9. pc'[t] = "park"
      BY <1>4 DEF TypeInv
  <2>10. ExecInv'
      BY <1>1, <1>2, <2>8, <2>9 DEF ExecInv, Running
  <2>11. \A g, h \in Fds : \A d, c \in Events :
            ctx'[g][d] # None /\ ctx'[g][d] = ctx'[h][c] => g = h /\ d = c
      BY <1>1, <2>3 DEF PlaceInv, Slotted
  <2>12. ASSUME NEW j \in Tasks
         PROVE  /\ j \in m_fibers' => ~Slotted(j)'
                /\ state'[j] = "hold" /\ j \notin deleted' => Slotted(j)' \/ j \in m_fibers'
                /\ state'[j] \in {"new", "term"} => ~Slotted(j)' /\ j \notin m_fibers'
    <3>1. state[k] = "exec"
        BY <1>1 DEF ExecInv, Running
    <3> QED BY <3>1, <1>1, <1>2, <2>7 DEF PlaceInv
  <2>13. ASSUME NEW u \in Threads
         PROVE  /\ pc'[u] \in {"run", "close"} =>
                      ~Slotted(cur[u])' /\ cur'[u] \notin m_fibers'
                /\ pc'[u] = "park" /\ cur'[u] \notin deleted' =>
                      Slotted(cur[u])' \/ cur'[u] \in m_fibers'
    <3>1. CASE u = t
        BY <3>1, <1>2, <2>7, <2>9 DEF Slotted
    <3>2. CASE u # t /\ pc[u] \in Running
      <4>1. cur[u] \in Tasks /\ cur[u] # k
          BY <3>2, <1>1 DEF ExecInv, Running
      <4>2. Slotted(cur[u])' <=> Slotted(cur[u])
          BY <4>1, <2>7, <1>2 DEF Slotted
      <4> QED BY <4>2, <3>2, <1>2, <2>8 DEF PlaceInv
    <3>3. CASE u # t /\ pc[u] \notin Running
        BY <3>3, <2>8 DEF Running
    <3> QED BY <3>1, <3>2, <3>3
  <2>14. PlaceInv'
      BY <2>11, <2>12, <2>13 DEF PlaceInv
  <2> QED BY <2>4, <2>5, <2>6, <2>10, <2>14
<1> QED BY <1>3, <1>4 DEF AddEvent

\* delEvent(): the waiting fiber is dropped.
LEMMA DelEventStep ==
    ASSUME IInv, NEW t \in Threads, NEW f \in Fds, NEW e \in Events, DelEvent(t, f, e)
    PROVE  IInv'
<1> USE DEF IInv
<1>1. /\ pc[t] = "run" /\ e \in events[f]
      /\ EpollCtl(f, events[f] \ {e})
      /\ m_pendingEventCount' = m_pendingEventCount - 1
      /\ events' = [events EXCEPT ![f] = @ \ {e}]
      /\ ctx' = [ctx EXCEPT ![f][e] = None]
      /\ deleted' = deleted \cup {ctx[f][e]}
      /\ UNCHANGED <<level, open, pipe, m_fibers, m_stopping, tickles, state, adds, quits, threads,
                   aborted>>
    BY DEF DelEvent
<1>2. ctx[f][e] \in Tasks
    BY <1>1 DEF TypeInv, SlotInv
<1>3. events[f] \ {e} \in SUBSET Events /\ {e} \in SUBSET Events /\ {e} \subseteq events[f]
    BY <1>1 DEF TypeInv
<1>4. interest' \in [Fds -> SUBSET Events] /\ edge' \subseteq Fds
    BY <1>1, <1>3, CtlType
<1>5. /\ events' \in [Fds -> SUBSET Events]
      /\ ctx' \in [Fds -> [Events -> Tasks \cup {None}]]
      /\ \A g \in Fds, d \in Events : ctx'[g][d] = IF g = f /\ d = e THEN None ELSE ctx[g][d]
    BY <1>1 DEF TypeInv
<1>6. TypeInv'
    BY <1>1, <1>2, <1>4, <1>5 DEF TypeInv
<1>7. SlotInv'
    BY <1>1, <1>5 DEF TypeInv, SlotInv
<1>8. PendingInv'
  <2>1. Cardinality({e}) = 1
      BY FS_Singleton
  <2> QED BY <1>1, <1>3, <2>1, RegisteredShrinks DEF PendingInv
<1>9. ExecInv'
    BY <1>1 DEF ExecInv
<1>10. ASSUME NEW j \in Tasks
       PROVE  /\ Slotted(j)' => Slotted(j)
              /\ j \notin deleted' /\ Slotted(j) => Slotted(j)'
  <2>1. ASSUME Slotted(j)' PROVE Slotted(j)
    <3>1. PICK g \in Fds, d \in Events : ctx'[g][d] = j
        BY <2>1 DEF Slotted
    <3>2. ctx[g][d] = j
        BY <3>1, <1>5, IOManagerAssumption
    <3> QED BY <3>2 DEF Slotted
  <2>2. ASSUME j \notin deleted', Slotted(j) PROVE Slotted(j)'
    <3>1. PICK g \in Fds, d \in Events : ctx[g][d] = j
        BY <2>2 DEF Slotted
    <3>2. ctx'[g][d] = j
        BY <2>2, <3>1, <1>1, <1>5
    <3> QED BY <3>2 DEF Slotted
  <2> QED BY <2>1, <2>2
<1>11. \A g, h \in Fds : \A d, c \in Events :
          ctx'[g][d] # None /\ ctx'[g][d] = ctx'[h][c] => g = h /\ d = c
    BY <1>5 DEF PlaceInv
<1>12. ASSUME NEW j \in Tasks
       PROVE  /\ j \in m_fibers' => ~Slotted(j)'
              /\ state'[j] = "hold" /\ j \notin deleted' => Slotted(j)' \/ j \in m_fibers'
              /\ state'[j] \in {"new", "term"} => ~Slotted(j)' /\ j \notin m_fibers'
    BY <1>1, <1>10 DEF PlaceInv
<1>13. ASSUME NEW u \in Threads
       PROVE  /\ pc'[u] \in {"run", "close"} => ~Slotted(cur[u])' /\ cur'[u] \notin m_fibers'
              /\ pc'[u] = "park" /\ cur'[u] \notin deleted' =>
                    Slotted(cur[u])' \/ cur'[u] \in m_fibers'
  <2>1. pc[u] \in Running => cur[u] \in Tasks
      BY DEF ExecInv
  <2>2. pc[u] \in Running => /\ Slotted(cur[u])' => Slotted(cur[u])
                             /\ cur[u] \notin deleted' /\ Slotted(cur[u]) => Slotted(cur[u])'
    <3>1. cur' = cur
        BY <1>1
    <3> QED BY <2>1, <3>1, <1>10 DEF Slotted
  <2> QED BY <2>2, <1>1 DEF PlaceInv, Running
<1>14. PlaceInv'
    BY <1>11, <1>12, <1>13 DEF PlaceInv
<1> QED BY <1>6, <1>7, <1>8, <1>9, <1>14

\* A fiber enters the queue, is taken from it, parks or ends.
LEMMA FiberMovesStep ==
    ASSUME IInv, TypeInv',
           \/ \E k \in Tasks : Submit(k)
           \/ \E t \in Threads : Park(t) \/ Finish(t) \/ \E k \in Tasks : PickTask(t, k)
    PROVE  SlotInv' /\ PendingInv' /\ ExecInv' /\ PlaceInv'
<1> USE DEF IInv
<1>1. UNCHANGED <<events, ctx, m_pendingEventCount, deleted>>
    BY DEF Submit, Park, Finish, PickTask
<1>2. Registered' = Registered /\ (\A k : Slotted(k)' = Slotted(k))
    BY <1>1 DEF Registered, Slotted
<1>3. SlotInv' /\ PendingInv'
    BY <1>1, <1>2 DEF SlotInv, PendingInv
<1>4. ASSUME NEW k \in Tasks, Submit(k) PROVE ExecInv' /\ PlaceInv'
  <2>1. /\ state[k] = "new" /\ state' = [state EXCEPT ![k] = "hold"]
        /\ m_fibers' = m_fibers \cup {k} /\ UNCHANGED <<pc, cur>>
      BY <1>4 DEF Submit, Schedule
  <2>2. ExecInv'
      BY <2>1 DEF TypeInv, ExecInv
  <2>3. ~Slotted(k)
      BY <2>1 DEF PlaceInv
  <2>4. \A t \in Threads : pc[t] \in Running => cur[t] # k
      BY <2>1 DEF ExecInv
  <2>5. \A t \in Threads : pc[t] \in Running => (Slotted(cur[t])' <=> Slotted(cur[t]))
      BY <2>1, <1>1 DEF Slotted
  <2>6. PlaceInv'
      BY <1>1, <1>2, <2>1, <2>3, <2>4, <2>5 DEF TypeInv, PlaceInv, Running
  <2> QED BY <2>2, <2>6
<1>5. ASSUME NEW t \in Threads, NEW k \in Tasks, PickTask(t, k) PROVE ExecInv' /\ PlaceInv'
  <2>1. /\ pc[t] = "scan" /\ k \in m_fibers /\ state[k] # "exec"
        /\ m_fibers' = m_fibers \ {k}
        /\ state' = [state EXCEPT ![k] = "exec"]
        /\ cur' = [cur EXCEPT ![t] = k] /\ pc' = [pc EXCEPT ![t] = "run"]
      BY <1>5 DEF PickTask
  <2>2. ASSUME NEW u \in Threads, u # t
        PROVE  /\ pc'[u] = pc[u] /\ cur'[u] = cur[u]
               /\ pc[u] \in Running => cur[u] # k /\ cur[u] \in Tasks
      BY <2>1, <2>2 DEF TypeInv, ExecInv
  <2>3. pc'[t] = "run" /\ cur'[t] = k
      BY <2>1 DEF TypeInv
  <2>4. ExecInv'
      BY <2>1, <2>2, <2>3 DEF TypeInv, ExecInv, Running
  <2>5. ~Slotted(k)
      BY <2>1 DEF PlaceInv
  <2>6. ASSUME NEW u \in Threads
        PROVE  /\ pc'[u] \in {"run", "close"} => ~Slotted(cur[u])' /\ cur'[u] \notin m_fibers'
               /\ pc'[u] = "park" /\ cur'[u] \notin deleted' =>
                     Slotted(cur[u])' \/ cur'[u] \in m_fibers'
    <3>1. CASE u = t
      <4>1. ~Slotted(cur[u])'
          BY <3>1, <2>3, <2>5, <1>1 DEF Slotted
      <4> QED BY <4>1, <3>1, <2>1, <2>3
    <3>2. CASE u # t
      <4>1. Slotted(cur[u])' <=> Slotted(cur[u])
          BY <3>2, <2>2, <1>1 DEF Slotted
      <4> QED BY <4>1, <3>2, <2>1, <2>2, <1>1 DEF PlaceInv, Running
    <3> QED BY <3>1, <3>2
  <2>7. ASSUME NEW j \in Tasks
        PROVE  /\ j \in m_fibers' => ~Slotted(j)'
               /\ state'[j] = "hold" /\ j \notin deleted' => Slotted(j)' \/ j \in m_fibers'
               /\ state'[j] \in {"new", "term"} => ~Slotted(j)' /\ j \notin m_fibers'
      BY <1>1, <1>2, <2>1 DEF TypeInv, PlaceInv
  <2>8. PlaceInv'
      BY <1>1, <2>6, <2>7 DEF PlaceInv
  <2> QED BY <2>4, <2>8
<1>6. ASSUME NEW t \in Threads, Park(t) \/ Finish(t) PROVE ExecInv' /\ PlaceInv'
  <2> DEFINE k == cur[t]
  <2>1. /\ pc[t] \in Running /\ k \in Tasks /\ state[k] = "exec" /\ m_fibers' = m_fibers
        /\ cur' = [cur EXCEPT ![t] = None] /\ pc' = [pc EXCEPT ![t] = "scan"]
        /\ \/ pc[t] = "park" /\ state' = [state EXCEPT ![k] = "hold"]
           \/ pc[t] = "run" /\ state' = [state EXCEPT ![k] = "term"]
      BY <1>6 DEF Park, Finish, ExecInv, Running
  <2>2. ASSUME NEW u \in Threads, u # t
        PROVE  /\ pc'[u] = pc[u] /\ cur'[u] = cur[u]
               /\ pc[u] \in Running => cur[u] # k /\ cur[u] \in Tasks
      BY <2>1, <2>2 DEF TypeInv, ExecInv
  <2>3. pc'[t] = "scan"
      BY <2>1 DEF TypeInv
  <2>4. ExecInv'
      BY <2>1, <2>2, <2>3 DEF TypeInv, ExecInv, Running
  <2>5. ASSUME NEW u \in Threads
        PROVE  /\ pc'[u] \in {"run", "close"} => ~Slotted(cur[u])' /\ cur'[u] \notin m_fibers'
               /\ pc'[u] = "park" /\ cur'[u] \notin deleted' =>
                     Slotted(cur[u])' \/ cur'[u] \in m_fibers'
    <3>1. CASE u = t
        BY <3>1, <2>3
    <3>2. CASE u # t
      <4>1. Slotted(cur[u])' <=> Slotted(cur[u])
          BY <3>2, <2>2, <1>1 DEF Slotted
      <4> QED BY <4>1, <3>2, <2>1, <2>2, <1>1 DEF PlaceInv, Running
    <3> QED BY <3>1, <3>2
  <2>6. ASSUME NEW j \in Tasks
        PROVE  /\ j \in m_fibers' => ~Slotted(j)'
               /\ state'[j] = "hold" /\ j \notin deleted' => Slotted(j)' \/ j \in m_fibers'
               /\ state'[j] \in {"new", "term"} => ~Slotted(j)' /\ j \notin m_fibers'
    <3>1. CASE j = k
        BY <3>1, <1>1, <1>2, <2>1 DEF TypeInv, PlaceInv
    <3>2. CASE j # k
      <4>1. state'[j] = state[j]
          BY <3>2, <2>1 DEF TypeInv
      <4> QED BY <4>1, <1>1, <1>2, <2>1 DEF PlaceInv
    <3> QED BY <3>1, <3>2
  <2>7. PlaceInv'
      BY <1>1, <2>5, <2>6 DEF PlaceInv
  <2> QED BY <2>4, <2>7
<1> QED BY <1>3, <1>4, <1>5, <1>6

\* Every step keeps the invariant.
LEMMA StepInv == IInv /\ [Next]_vars => IInv'
<1> SUFFICES ASSUME IInv, [Next]_vars PROVE IInv'
    OBVIOUS
<1>1. ASSUME \/ Stop \/ StopTickles \/ UNCHANGED vars
             \/ \E f \in Fds, l \in Levels : BecomesReady(f, l)
             \/ \E t \in Threads :
                   \/ NothingToRun(t) \/ EnterIdle(t) \/ StoppingPending(t) \/ StoppingDrained(t)
                   \/ EpollWait(t) \/ EpollTimeout(t) \/ HandleTickle(t) \/ IdleYields(t)
                   \/ \E f \in Fds : \E e \in Events : Exhaust(t, f, e)
      PROVE  IInv'
  <2>1. TypeInv'
      BY <1>1, QuietType
  <2>2. UNCHANGED places
      BY <1>1 DEF places, vars, Stop, StopTickles, BecomesReady, NothingToRun, EnterIdle,
                  StoppingPending, StoppingDrained, EpollWait, EpollTimeout, HandleTickle,
                  IdleYields, Exhaust
  <2>3. \/ pc' = pc
        \/ \E t \in Threads : /\ pc[t] \notin Running
                              /\ \E p \in IdlePoints \cup {"scan", "idle", "exit"} :
                                    pc' = [pc EXCEPT ![t] = p]
      BY <1>1 DEF Running, IdlePoints, vars, Stop, StopTickles, BecomesReady, NothingToRun,
                  EnterIdle, StoppingPending, StoppingDrained, EpollWait, EpollTimeout,
                  HandleTickle, IdleYields, Exhaust
  <2>4. ASSUME NEW u \in Threads
        PROVE  pc'[u] = pc[u] \/ (pc[u] \notin Running /\ pc'[u] \notin Running)
      BY <2>3 DEF IInv, TypeInv, Running, IdlePoints
  <2> QED BY <2>1, <2>2, <2>4, PlacesUnchanged DEF IInv
<1>2. ASSUME \/ \E k \in Tasks : Submit(k)
             \/ \E t \in Threads : Park(t) \/ Finish(t) \/ \E k \in Tasks : PickTask(t, k)
      PROVE  IInv'
  <2>1. TypeInv'
      BY <1>2, QuietType
  <2> QED BY <1>2, <2>1, FiberMovesStep DEF IInv
<1>3. ASSUME NEW t \in Threads, NEW f \in Fds, CloseF(t, f) PROVE IInv'
  <2>1. TypeInv'
      BY <1>3, QuietType
  <2>2. Moved
      BY <1>3, StillMoved DEF CloseF
  <2>3. \A u \in Threads : pc'[u] = pc[u] \/ {pc[u], pc'[u]} \subseteq {"run", "close"}
      BY <1>3 DEF CloseF, IInv, TypeInv
  <2>4. ExecInv' /\ PlaceInv'
      BY <1>3, <2>2, <2>3, MovedKeepsPlace DEF CloseF
  <2> QED BY <2>1, <2>2, <2>4 DEF IInv, Moved
<1> QED BY <1>1, <1>2, <1>3, TriggeringStep, AddEventStep, DelEventStep
        DEF Next, LoopStep, FiberStep, FiberLeaves

\* Every reachable state satisfies the invariant.
LEMMA InvHolds == Spec => []IInv
BY InitInv, StepInv, PTL DEF Spec

\* Type correctness; in particular m_pendingEventCount, a size_t, never wraps.
THEOREM IOTypeCorrect == Spec => []TypeOK
<1>1. IInv => TypeOK
    BY RegisteredFinite DEF IInv, TypeInv, PendingInv, TypeOK
<1> QED BY <1>1, InvHolds, PTL

\* m_pendingEventCount is the number of registered events, for any number of
\* threads, descriptors and fibers.
THEOREM PendingIsExact == Spec => []PendingExact
<1>1. IInv => PendingExact
    BY DEF IInv, PendingInv, PendingExact
<1> QED BY <1>1, InvHolds, PTL

\* A waiting fiber is in exactly one place, a context or the queue.
THEOREM NoWaiterIsLost == Spec => []NoLostWaiter
<1>1. IInv => NoLostWaiter
  <2> SUFFICES ASSUME IInv PROVE NoLostWaiter
      OBVIOUS
  <2>1. \A r \in Fds \X Events : r \in Registered <=> ctx[r[1]][r[2]] # None
      BY DEF IInv, SlotInv, Registered
  <2>2. ASSUME NEW k \in Tasks
        PROVE  /\ \A r, q \in Slots(k) : r = q
               /\ k \in m_fibers => Slots(k) = {}
               /\ state[k] = "hold" /\ k \notin deleted => Slots(k) # {} \/ k \in m_fibers
               /\ state[k] = "term" => Slots(k) = {} /\ k \notin m_fibers
    <3>1. Slots(k) # {} <=> Slotted(k)
      <4>1. ASSUME NEW f \in Fds, NEW e \in Events, ctx[f][e] = k PROVE <<f, e>> \in Slots(k)
          BY <4>1 DEF Slots
      <4>2. ASSUME NEW r \in Slots(k) PROVE r[1] \in Fds /\ r[2] \in Events /\ ctx[r[1]][r[2]] = k
          BY DEF Slots
      <4> QED BY <4>1, <4>2 DEF Slotted
    <3>2. ASSUME NEW r \in Slots(k), NEW q \in Slots(k) PROVE r = q
      <4>1. /\ r \in Fds \X Events /\ ctx[r[1]][r[2]] = k
            /\ q \in Fds \X Events /\ ctx[q[1]][q[2]] = k
          BY DEF Slots
      <4>2. k # None
          BY IOManagerAssumption
      <4>3. r[1] = q[1] /\ r[2] = q[2]
          BY <4>1, <4>2 DEF IInv, PlaceInv
      <4> QED BY <4>1, <4>3
    <3> QED BY <3>1, <3>2 DEF IInv, PlaceInv
  <2> QED BY <2>1, <2>2 DEF NoLostWaiter
<1> QED BY <1>1, InvHolds, PTL
-----------------------------------------------------------------------------
\* Only the thread that closes a descriptor runs between cancelAll() and close_f(),
\* so that nothing is registered for it when it leaves epoll.
Alone == \A t, u \in Threads : t = u
ClosingInv ==
    \A t \in Threads : pc[t] = "close" => Alone /\ \A f \in closing[t] : events[f] = {}
SyncInv == ClosingInv /\ EpollInSync

\* A thread that does not close takes a step only when no thread does.
LEMMA NobodyCloses ==
    ASSUME ClosingInv, NEW t \in Threads, pc[t] # "close", pc'[t] # "close",
           \A u \in Threads : u # t => pc'[u] = pc[u]
    PROVE  ClosingInv'
BY DEF ClosingInv, Alone

\* Arming epoll for what a trigger leaves keeps epoll and the context in step.
LEMMA TriggerInSync ==
    ASSUME IInv, interest = events, NEW f \in Fds, NEW evs \in SUBSET Events,
           EpollCtl(f, events[f] \ evs), TriggerEvents(f, evs)
    PROVE  EpollInSync'
BY DEF IInv, TypeInv, EpollCtl, TriggerEvents, EpollInSync

\* Every step keeps them in step if nothing is closed or the pool has one thread.
LEMMA StepSync == ASSUME CanClose => Alone PROVE IInv /\ SyncInv /\ [Next]_vars => SyncInv'
<1> SUFFICES ASSUME IInv, SyncInv, [Next]_vars PROVE SyncInv'
    OBVIOUS
<1>1. CASE UNCHANGED vars
    BY <1>1 DEF SyncInv, ClosingInv, EpollInSync, vars
<1>2. CASE ~aborted /\ ~(UNCHANGED vars)
  <2>0. interest = events
      BY <1>2 DEF SyncInv, EpollInSync
  <2>1. ASSUME \/ Stop \/ StopTickles
               \/ \E k \in Tasks : Submit(k)
               \/ \E f \in Fds, l \in Levels : BecomesReady(f, l)
        PROVE  SyncInv'
    <3>1. UNCHANGED <<interest, events, pc, closing, aborted>>
        BY <2>1 DEF Stop, StopTickles, Submit, BecomesReady
    <3> QED BY <3>1 DEF SyncInv, ClosingInv, EpollInSync
  <2>9. ASSUME NEW t \in Threads,
               \/ NothingToRun(t) \/ EnterIdle(t) \/ StoppingPending(t)
               \/ StoppingDrained(t) \/ EpollWait(t) \/ EpollTimeout(t)
               \/ HandleTickle(t) \/ IdleYields(t) \/ Park(t) \/ Finish(t)
               \/ \E k \in Tasks : PickTask(t, k)
               \/ \E f \in Fds : \E e \in Events : Exhaust(t, f, e)
        PROVE  SyncInv'
    <3>1. UNCHANGED <<interest, events>> /\ pc[t] # "close"
        BY <2>9 DEF NothingToRun, EnterIdle, StoppingPending, StoppingDrained, EpollWait,
                     EpollTimeout, HandleTickle, IdleYields, Park, Finish, PickTask, Exhaust
    <3>2. \/ pc' = pc
          \/ \E p \in IdlePoints \cup {"scan", "idle", "run", "exit"} :
                pc' = [pc EXCEPT ![t] = p]
        BY <2>9 DEF IdlePoints, NothingToRun, EnterIdle, StoppingPending, StoppingDrained,
                     EpollWait, EpollTimeout, HandleTickle, IdleYields, Park, Finish,
                     PickTask, Exhaust
    <3>3. pc'[t] # "close" /\ \A u \in Threads : u # t => pc'[u] = pc[u]
        BY <3>1, <3>2 DEF IInv, TypeInv, IdlePoints
    <3> QED BY <2>0, <3>1, <3>3, NobodyCloses DEF SyncInv, EpollInSync
  <2>2. ASSUME NEW t \in Threads, NEW f \in Fds, CancelAll(t, f) PROVE SyncInv'
    <3>1. events[f] \ events[f] = {} /\ events[f] \in SUBSET Events
        BY DEF IInv, TypeInv
    <3>2. EpollCtl(f, events[f] \ events[f]) /\ TriggerEvents(f, events[f]) /\ pc' = pc
       /\ pc[t] # "close"
        BY <2>2, <3>1 DEF CancelAll
    <3> QED BY <2>0, <3>1, <3>2, TriggerInSync, NobodyCloses DEF SyncInv
  <2>3. ASSUME NEW t \in Threads, NEW f \in Fds, NEW e \in Events, CancelEvent(t, f, e)
        PROVE  SyncInv'
    <3>1. EpollCtl(f, events[f] \ {e}) /\ TriggerEvents(f, {e}) /\ pc' = pc
       /\ pc[t] # "close"
        BY <2>3 DEF CancelEvent
    <3>2. {e} \in SUBSET Events
        OBVIOUS
    <3> QED BY <2>0, <3>1, <3>2, TriggerInSync, NobodyCloses DEF SyncInv
  <2>4. ASSUME NEW t \in Threads, NEW f \in Fds, HandleEvent(t, f) PROVE SyncInv'
    <3> DEFINE real == IF "HUP" \in got[t][f] THEN Events ELSE got[t][f]
    <3>1. real \in SUBSET Events
        BY DEF IInv, TypeInv, Levels
    <3>2. pc' = pc /\ pc[t] # "close"
        BY <2>4 DEF HandleEvent
    <3>3. CASE EpollCtl(f, events[f] \ real) /\ TriggerEvents(f, real)
        BY <2>0, <3>1, <3>2, <3>3, TriggerInSync, NobodyCloses DEF SyncInv
    <3>4. CASE UNCHANGED <<contexts, interest, edge, pipe, m_fibers, aborted>>
        BY <2>0, <3>2, <3>4, NobodyCloses DEF SyncInv, EpollInSync
    <3> QED BY <2>4, <3>3, <3>4 DEF HandleEvent
  <2>5. ASSUME NEW t \in Threads, NEW f \in Fds, NEW e \in Events, DelEvent(t, f, e)
        PROVE  SyncInv'
    <3>1. interest' = events' /\ pc' = pc /\ pc[t] # "close"
        BY <2>0, <2>5 DEF DelEvent, EpollCtl, IInv, TypeInv
    <3> QED BY <3>1, NobodyCloses DEF SyncInv, EpollInSync
  <2>6. ASSUME NEW t \in Threads, NEW f \in Fds, NEW e \in Events, AddEvent(t, f, e)
        PROVE  SyncInv'
    <3>1. aborted' \/ interest' = events'
        BY <2>0, <2>6 DEF AddEvent, EpollCtl, IInv, TypeInv
    <3>2. pc' = pc \/ pc' = [pc EXCEPT ![t] = "park"]
        BY <2>6 DEF AddEvent
    <3>3. pc[t] # "close" /\ pc'[t] # "close" /\ \A u \in Threads : u # t => pc'[u] = pc[u]
        BY <2>6, <3>2 DEF AddEvent, IInv, TypeInv
    <3> QED BY <3>1, <3>3, NobodyCloses DEF SyncInv, EpollInSync
  <2>7. ASSUME NEW t \in Threads, NEW f \in Fds, Close(t, f) PROVE SyncInv'
    <3>1. Alone /\ closing' = [closing EXCEPT ![t] = {f}] /\ f \in open
        BY <2>7 DEF Close
    <3>2. closing'[t] = {f} /\ \A u \in Threads : u = t
        BY <3>1 DEF Alone, IInv, TypeInv
    <3>3. events[f] \ events[f] = {} /\ events[f] \in SUBSET Events
        BY DEF IInv, TypeInv
    <3>4. CtlSucceeds(f)
        BY <2>0, <3>1 DEF CtlSucceeds
    <3>5. CASE events[f] = {}
      <4>1. UNCHANGED <<contexts, interest>>
          BY <2>7, <3>5 DEF Close
      <4> QED BY <2>0, <3>1, <3>2, <3>5, <4>1 DEF SyncInv, ClosingInv, EpollInSync
    <3>6. CASE events[f] # {}
      <4>1. EpollCtl(f, events[f] \ events[f]) /\ TriggerEvents(f, events[f])
          BY <2>7, <3>3, <3>4, <3>6 DEF Close
      <4>2. events'[f] = {}
          BY <4>1, <3>3 DEF TriggerEvents, IInv, TypeInv
      <4> QED BY <2>0, <3>1, <3>2, <3>3, <4>1, <4>2, TriggerInSync DEF SyncInv, ClosingInv
    <3> QED BY <3>5, <3>6
  <2>8. ASSUME NEW t \in Threads, NEW f \in Fds, CloseF(t, f) PROVE SyncInv'
    <3>1. events[f] = {} /\ Alone
        BY <2>8 DEF CloseF, SyncInv, ClosingInv
    <3>2. interest' = [interest EXCEPT ![f] = {}] /\ events' = events
          /\ pc' = [pc EXCEPT ![t] = "run"]
        BY <2>8 DEF CloseF
    <3>3. interest' = events'
        BY <2>0, <3>1, <3>2 DEF IInv, TypeInv
    <3>4. \A u \in Threads : pc'[u] # "close"
        BY <3>1, <3>2 DEF Alone, IInv, TypeInv
    <3> QED BY <3>3, <3>4 DEF SyncInv, ClosingInv, EpollInSync
  <2> QED BY <1>2, <2>1, <2>2, <2>3, <2>4, <2>5, <2>6, <2>7, <2>8, <2>9
          DEF Next, LoopStep, FiberStep, FiberLeaves
<1> QED BY <1>1, <1>2 DEF Next

\* As long as nothing is closed, or one thread runs the pool, epoll watches exactly
\* the registered events, for any number of fibers that add, delete, cancel and
\* handle them.
THEOREM EpollStaysInSync == ASSUME CanClose => Alone PROVE Spec => []EpollInSync
<1>1. Init => SyncInv
    BY DEF Init, SyncInv, ClosingInv, EpollInSync
<1>2. IInv /\ SyncInv /\ [Next]_vars => SyncInv'
    BY StepSync
<1>3. SyncInv => EpollInSync
    BY DEF SyncInv
<1> QED BY <1>1, <1>2, <1>3, InvHolds, PTL DEF Spec
-----------------------------------------------------------------------------
(* The end of stop(). *)

\* Threads that have read m_pendingEventCount as zero and not looked elsewhere
\* since. While another thread is not among them it may still register events; if
\* all are, nothing was registered after the last of them has read the counter,
\* unless one whose idle fiber had ended took a fiber in its last scan.
Through(t) == pc[t] \in {"drained", "exit"} \/ (pc[t] = "scan" /\ t \in idle_term)
ThroughInv == late \/ ((\A t \in Threads : Through(t)) => \A f \in Fds : events[f] = {})

\* A thread leaves because its idle fiber has ended, which it does after stop()
\* has begun; it runs a fiber after that only as a late one.
EndedInv ==
    /\ \A t \in Threads : pc[t] = "exit" => t \in idle_term
    /\ \A t \in idle_term : m_stopping /\ (pc[t] \in {"scan", "exit"} \/ (late /\ pc[t] \in Running))

\* A fiber in state EXEC is on a thread: the last scan passes over no other one.
ServedInv ==
    /\ \A k \in Tasks : state[k] = "exec" => \E t \in Threads : pc[t] \in Running /\ cur[t] = k
    /\ AllLeft => m_fibers = {}
QuitInv == ThroughInv /\ EndedInv /\ ServedInv

\* A step of one thread that is not through afterwards, or has become late.
LEMMA BusyQuit ==
    ASSUME IInv, QuitInv, NEW t \in Threads, NEW p, pc' = [pc EXCEPT ![t] = p],
           UNCHANGED <<m_stopping, idle_term>>, late => late',
           late' \/ p \notin {"drained", "exit", "scan"} \/ (p = "scan" /\ t \notin idle_term),
           p # "exit", t \in idle_term => p = "scan" \/ (late' /\ p \in Running)
    PROVE  ThroughInv' /\ EndedInv' /\ ~AllLeft'
<1>1. pc'[t] = p /\ \A u \in Threads : u # t => pc'[u] = pc[u]
    BY DEF IInv, TypeInv
<1>2. ThroughInv'
  <2>1. ~late' => ~Through(t)'
      BY <1>1 DEF Through
  <2> QED BY <2>1 DEF ThroughInv
<1>3. EndedInv'
    BY <1>1 DEF QuitInv, EndedInv, IInv, TypeInv
<1> QED BY <1>1, <1>2, <1>3 DEF AllLeft

\* A step of a fiber that stays on its thread, or of an idle fiber.
LEMMA RunningQuit ==
    ASSUME QuitInv, NEW t \in Threads, pc[t] \notin {"drained", "exit", "scan"}, pc' = pc,
           UNCHANGED <<m_stopping, state, cur, quits>>
    PROVE  QuitInv'
<1>1. ~Through(t)' /\ ~AllLeft'
    BY DEF Through, AllLeft
<1> QED BY <1>1 DEF QuitInv, ThroughInv, EndedInv, ServedInv

\* What runs is still in its place if no fiber enters or leaves a thread.
LEMMA RunnersKept ==
    ASSUME IInv, QuitInv, UNCHANGED <<state, cur>>, NEW t \in Threads, NEW p,
           pc' = [pc EXCEPT ![t] = p], pc[t] \in Running => p \in Running
    PROVE  \A k \in Tasks : state'[k] = "exec" =>
               \E u \in Threads : pc'[u] \in Running /\ cur'[u] = k
<1>1. \A u \in Threads : pc[u] \in Running => pc'[u] \in Running
    BY DEF IInv, TypeInv
<1> QED BY <1>1 DEF QuitInv, ServedInv

\* A fiber comes to a thread, and leaves it.
LEMMA RunnersMove ==
    ASSUME IInv, QuitInv, NEW t \in Threads,
           Park(t) \/ Finish(t) \/ \E k \in Tasks : PickTask(t, k)
    PROVE  \A k \in Tasks : state'[k] = "exec" =>
               \E u \in Threads : pc'[u] \in Running /\ cur'[u] = k
<1> SUFFICES ASSUME NEW k \in Tasks, state'[k] = "exec"
             PROVE  \E u \in Threads : pc'[u] \in Running /\ cur'[u] = k
    OBVIOUS
<1>1. CASE \E j \in Tasks : PickTask(t, j)
  <2>1. PICK j \in Tasks : PickTask(t, j)
      BY <1>1
  <2>2. /\ pc[t] = "scan" /\ pc'[t] = "run" /\ cur'[t] = j
        /\ state' = [state EXCEPT ![j] = "exec"]
        /\ \A u \in Threads : u # t => pc'[u] = pc[u] /\ cur'[u] = cur[u]
      BY <2>1 DEF PickTask, IInv, TypeInv
  <2>3. CASE k = j
      BY <2>2, <2>3 DEF Running
  <2>4. CASE k # j
    <3>1. PICK u \in Threads : pc[u] \in Running /\ cur[u] = k
        BY <2>2, <2>4 DEF QuitInv, ServedInv, IInv, TypeInv
    <3>2. u # t
        BY <2>2, <3>1 DEF Running
    <3> QED BY <2>2, <3>1, <3>2
  <2> QED BY <2>3, <2>4
<1>2. CASE Park(t) \/ Finish(t)
  <2>1. /\ pc[t] \in Running /\ \E q \in {"hold", "term"} : state' = [state EXCEPT ![cur[t]] = q]
        /\ \A u \in Threads : u # t => pc'[u] = pc[u] /\ cur'[u] = cur[u]
      BY <1>2 DEF Park, Finish, Running, IInv, TypeInv
  <2>2. cur[t] \in Tasks
      BY <2>1 DEF IInv, ExecInv
  <2>3. k # cur[t] /\ state[k] = "exec"
      BY <2>1, <2>2 DEF IInv, TypeInv
  <2>4. PICK u \in Threads : pc[u] \in Running /\ cur[u] = k
      BY <2>3 DEF QuitInv, ServedInv
  <2>5. u # t
      BY <2>3, <2>4
  <2> QED BY <2>1, <2>4, <2>5
<1> QED BY <1>1, <1>2

\* Every step keeps it.
LEMMA StepQuit == IInv /\ QuitInv /\ [Next]_vars => QuitInv'
<1> SUFFICES ASSUME IInv, QuitInv, [Next]_vars PROVE QuitInv'
    OBVIOUS
<1>1. ASSUME Stop \/ StopTickles \/ (\E f \in Fds, l \in Levels : BecomesReady(f, l))
             \/ UNCHANGED vars
      PROVE  QuitInv'
  <2>1. UNCHANGED <<pc, cur, state, events, m_fibers, quits>> /\ (m_stopping => m_stopping')
      BY <1>1 DEF Stop, StopTickles, BecomesReady, vars
  <2> QED BY <2>1 DEF QuitInv, ThroughInv, Through, EndedInv, ServedInv, AllLeft
<1>2. ASSUME NEW k \in Tasks, Submit(k) PROVE QuitInv'
  <2>1. /\ ~m_stopping /\ UNCHANGED <<pc, cur, events, m_stopping, quits>>
        /\ state' = [state EXCEPT ![k] = "hold"]
      BY <1>2 DEF Submit
  <2>2. PICK t \in Threads : TRUE
      BY IOManagerAssumption
  <2>3. pc'[t] # "exit"
      BY <2>1 DEF QuitInv, EndedInv
  <2>4. ~AllLeft'
      BY <2>3 DEF AllLeft
  <2>5. \A j \in Tasks : state'[j] = "exec" => state[j] = "exec"
      BY <2>1 DEF IInv, TypeInv
  <2> QED BY <2>1, <2>4, <2>5 DEF QuitInv, ThroughInv, Through, EndedInv, ServedInv
<1>3. ASSUME NEW t \in Threads, StoppingPending(t) PROVE QuitInv'
  <2>1. UNCHANGED <<events, m_fibers, m_stopping, state, cur, quits>> /\ pc[t] = "pending"
      BY <1>3 DEF StoppingPending
  <2>2. t \notin idle_term
      BY <2>1 DEF QuitInv, EndedInv, Running
  <2>3. CASE m_pendingEventCount = 0
    <3>1. Registered = {}
        BY <2>3, RegisteredFinite, FS_EmptySet DEF IInv, PendingInv
    <3>2. \A f \in Fds : events[f] = {}
      <4>1. \A f \in Fds : \A e \in events[f] : <<f, e>> \in Registered
          BY DEF Registered, IInv, TypeInv
      <4> QED BY <3>1, <4>1
    <3>3. pc' = [pc EXCEPT ![t] = "drained"]
        BY <1>3, <2>3 DEF StoppingPending
    <3>4. pc'[t] = "drained" /\ \A u \in Threads : u # t => pc'[u] = pc[u]
        BY <3>3 DEF IInv, TypeInv
    <3>5. ThroughInv' /\ EndedInv' /\ ~AllLeft'
        BY <2>1, <2>2, <3>2, <3>4 DEF QuitInv, ThroughInv, EndedInv, AllLeft, IInv, TypeInv
    <3>6. \A k \in Tasks : state'[k] = "exec" =>
              \E u \in Threads : pc'[u] \in Running /\ cur'[u] = k
        BY <2>1, <3>3, RunnersKept DEF Running
    <3> QED BY <3>5, <3>6 DEF QuitInv, ServedInv
  <2>4. CASE m_pendingEventCount # 0
    <3>1. pc' = [pc EXCEPT ![t] = "wait"]
        BY <1>3, <2>4 DEF StoppingPending
    <3>2. \A k \in Tasks : state'[k] = "exec" =>
              \E u \in Threads : pc'[u] \in Running /\ cur'[u] = k
        BY <2>1, <3>1, RunnersKept DEF Running
    <3> QED BY <2>1, <2>2, <3>1, <3>2, BusyQuit DEF QuitInv, ServedInv
  <2> QED BY <2>3, <2>4
<1>4. ASSUME NEW t \in Threads, StoppingDrained(t) PROVE QuitInv'
  <2>1. UNCHANGED <<events, m_fibers, m_stopping, late, state, cur>> /\ pc[t] = "drained"
      BY <1>4 DEF StoppingDrained
  <2>2. t \notin idle_term
      BY <2>1 DEF QuitInv, EndedInv, Running
  <2>3. CASE m_stopping /\ m_fibers = {} /\ NoActiveThread
    <3>1. pc' = [pc EXCEPT ![t] = "scan"] /\ idle_term' = idle_term \cup {t}
        BY <1>4, <2>3 DEF StoppingDrained
    <3>2. pc'[t] = "scan" /\ \A u \in Threads : u # t => pc'[u] = pc[u]
        BY <3>1 DEF IInv, TypeInv
    <3>3. ThroughInv' /\ ~AllLeft'
        BY <2>1, <3>1, <3>2 DEF QuitInv, ThroughInv, Through, AllLeft
    <3>4. EndedInv'
        BY <2>1, <2>3, <3>1, <3>2 DEF QuitInv, EndedInv, IInv, TypeInv
    <3>5. \A k \in Tasks : state'[k] = "exec" =>
              \E u \in Threads : pc'[u] \in Running /\ cur'[u] = k
        BY <2>1, <3>1, RunnersKept DEF Running
    <3> QED BY <3>3, <3>4, <3>5 DEF QuitInv, ServedInv
  <2>4. CASE ~(m_stopping /\ m_fibers = {} /\ NoActiveThread)
    <3>1. pc' = [pc EXCEPT ![t] = "wait"] /\ idle_term' = idle_term
        BY <1>4, <2>4 DEF StoppingDrained
    <3>2. \A k \in Tasks : state'[k] = "exec" =>
              \E u \in Threads : pc'[u] \in Running /\ cur'[u] = k
        BY <2>1, <3>1, RunnersKept DEF Running
    <3> QED BY <2>1, <2>2, <3>1, <3>2, BusyQuit DEF QuitInv, ServedInv
  <2> QED BY <2>3, <2>4
<1>5. ASSUME NEW t \in Threads, NothingToRun(t) PROVE QuitInv'
  <2>1. /\ UNCHANGED <<events, m_fibers, m_stopping, state, cur, quits>> /\ pc[t] = "scan"
        /\ \A k \in m_fibers : state[k] = "exec"
      BY <1>5 DEF NothingToRun
  <2>2. CASE t \in idle_term
    <3>1. pc' = [pc EXCEPT ![t] = "exit"]
        BY <1>5, <2>2 DEF NothingToRun
    <3>2. pc'[t] = "exit" /\ \A u \in Threads : u # t => pc'[u] = pc[u]
        BY <3>1 DEF IInv, TypeInv
    <3>3. ThroughInv' /\ EndedInv'
        BY <2>1, <2>2, <3>2 DEF QuitInv, ThroughInv, Through, EndedInv, IInv, TypeInv
    <3>4. \A k \in Tasks : state'[k] = "exec" =>
              \E u \in Threads : pc'[u] \in Running /\ cur'[u] = k
        BY <2>1, <3>1, RunnersKept DEF Running
    <3>5. AllLeft' => m_fibers' = {}
        BY <2>1, <3>4 DEF AllLeft, Running, IInv, TypeInv
    <3> QED BY <3>3, <3>4, <3>5 DEF QuitInv, ServedInv
  <2>3. CASE t \notin idle_term
    <3>1. pc' = [pc EXCEPT ![t] = "idle"]
        BY <1>5, <2>3 DEF NothingToRun
    <3>2. \A k \in Tasks : state'[k] = "exec" =>
              \E u \in Threads : pc'[u] \in Running /\ cur'[u] = k
        BY <2>1, <3>1, RunnersKept DEF Running
    <3> QED BY <2>1, <2>3, <3>1, <3>2, BusyQuit DEF QuitInv, ServedInv
  <2> QED BY <2>2, <2>3
<1>6. ASSUME NEW t \in Threads,
             EnterIdle(t) \/ EpollWait(t) \/ EpollTimeout(t) \/ IdleYields(t)
      PROVE  QuitInv'
  <2>1. PICK p \in {"pending", "handle", "scan"} : pc' = [pc EXCEPT ![t] = p]
      BY <1>6 DEF EnterIdle, EpollWait, EpollTimeout, IdleYields
  <2>2. UNCHANGED <<m_stopping, state, cur, quits>> /\ pc[t] \in {"idle", "wait", "handle"}
      BY <1>6 DEF EnterIdle, EpollWait, EpollTimeout, IdleYields
  <2>3. t \notin idle_term
      BY <2>2 DEF QuitInv, EndedInv, Running
  <2>4. \A k \in Tasks : state'[k] = "exec" =>
            \E u \in Threads : pc'[u] \in Running /\ cur'[u] = k
      BY <2>1, <2>2, RunnersKept DEF Running
  <2>5. ThroughInv' /\ EndedInv' /\ ~AllLeft'
      BY <2>1, <2>2, <2>3, BusyQuit
  <2> QED BY <2>4, <2>5 DEF QuitInv, ServedInv
<1>7. ASSUME NEW t \in Threads, NEW f \in Fds,
             \/ Close(t, f) \/ CloseF(t, f) \/ \E e \in Events : AddEvent(t, f, e)
      PROVE  QuitInv'
  <2>1. /\ UNCHANGED <<m_stopping, state, cur, quits>> /\ pc[t] \in Running
        /\ pc' = pc \/ \E p \in Running : pc' = [pc EXCEPT ![t] = p]
      BY <1>7 DEF Close, CloseF, AddEvent, Running
  <2>2. CASE pc' = pc
      BY <2>1, <2>2, RunningQuit DEF Running
  <2>3. ASSUME NEW p \in Running, pc' = [pc EXCEPT ![t] = p] PROVE QuitInv'
    <3>1. \A k \in Tasks : state'[k] = "exec" =>
              \E u \in Threads : pc'[u] \in Running /\ cur'[u] = k
        BY <2>1, <2>3, RunnersKept
    <3>2. p \notin {"drained", "exit", "scan"}
        BY DEF Running
    <3>3. t \in idle_term => late'
        BY <2>1 DEF QuitInv, EndedInv, Running
    <3>4. ThroughInv' /\ EndedInv' /\ ~AllLeft'
        BY <2>1, <2>3, <3>2, <3>3, BusyQuit
    <3> QED BY <3>1, <3>4 DEF QuitInv, ServedInv
  <2> QED BY <2>1, <2>2, <2>3
<1>8. ASSUME NEW t \in Threads, NEW f \in Fds,
             \/ CancelAll(t, f) \/ HandleEvent(t, f)
             \/ \E e \in Events : DelEvent(t, f, e) \/ CancelEvent(t, f, e) \/ Exhaust(t, f, e)
      PROVE  QuitInv'
  <2>1. /\ pc[t] \in {"run", "handle"} /\ pc' = pc
        /\ UNCHANGED <<m_stopping, state, cur, quits>>
      BY <1>8 DEF CancelAll, HandleEvent, DelEvent, CancelEvent, Exhaust
  <2> QED BY <2>1, RunningQuit
<1>10. ASSUME NEW t \in Threads, HandleTickle(t) PROVE QuitInv'
  <2>1. /\ pc[t] = "handle" /\ pc' = pc /\ UNCHANGED <<m_stopping, state, cur, quits>>
      BY <1>10 DEF HandleTickle
  <2> QED BY <2>1, RunningQuit
<1>9. ASSUME NEW t \in Threads, Park(t) \/ Finish(t) \/ \E k \in Tasks : PickTask(t, k)
      PROVE  QuitInv'
  <2>1. \A k \in Tasks : state'[k] = "exec" =>
            \E u \in Threads : pc'[u] \in Running /\ cur'[u] = k
      BY <1>9, RunnersMove
  <2>2. CASE Park(t) \/ Finish(t)
    <3>1. /\ UNCHANGED <<m_stopping, quits>> /\ pc[t] \in Running
          /\ pc' = [pc EXCEPT ![t] = "scan"]
        BY <2>2 DEF Park, Finish, Running
    <3>2. t \in idle_term => late
        BY <3>1 DEF QuitInv, EndedInv, Running
    <3>3. ThroughInv' /\ EndedInv' /\ ~AllLeft'
        BY <3>1, <3>2, BusyQuit
    <3> QED BY <2>1, <3>3 DEF QuitInv, ServedInv
  <2>3. CASE \E k \in Tasks : PickTask(t, k)
    <3>1. /\ UNCHANGED <<m_stopping, idle_term>> /\ late' = (late \/ t \in idle_term)
          /\ pc' = [pc EXCEPT ![t] = "run"]
        BY <2>3 DEF PickTask
    <3>2. ThroughInv' /\ EndedInv' /\ ~AllLeft'
        BY <3>1, BusyQuit DEF Running
    <3> QED BY <2>1, <3>2 DEF QuitInv, ServedInv
  <2> QED BY <1>9, <2>2, <2>3
<1> QED BY <1>1, <1>2, <1>3, <1>4, <1>5, <1>6, <1>7, <1>8, <1>9, <1>10
        DEF Next, LoopStep, FiberStep, FiberLeaves

\* When the last thread has left run(), and stop() returns, no fiber is queued, and
\* no event is registered unless a thread ran a fiber after its idle fiber had ended,
\* for any number of threads: although stopping() reads m_pendingEventCount and the
\* queue one after the other, an event registered in between keeps the thread that
\* runs the registering fiber in the pool. Run io_stop shows the exception.
THEOREM NothingIsLeft == Spec => []StopLeavesNothing
<1>1. Init => QuitInv
  <2> SUFFICES ASSUME Init PROVE QuitInv
      OBVIOUS
  <2>1. /\ \A f \in Fds : events[f] = {}
        /\ m_fibers = {} /\ idle_term = {}
        /\ \A t \in Threads : pc[t] = "scan"
        /\ \A k \in Tasks : state[k] = "new"
      BY DEF Init
  <2> QED BY <2>1 DEF QuitInv, ThroughInv, EndedInv, ServedInv
<1>2. IInv /\ QuitInv /\ [Next]_vars => QuitInv'
    BY StepQuit
<1>3. QuitInv => StopLeavesNothing
    BY DEF QuitInv, ThroughInv, Through, ServedInv, StopLeavesNothing, AllLeft, Registered
<1> QED BY <1>1, <1>2, <1>3, InvHolds, PTL DEF Spec
-----------------------------------------------------------------------------
(* No assertion fails, where none can: each event has one fiber that waits for  *)
(* it, no peer hangs up, and a report is not outdated in part when it is        *)
(* handled, because it names one event or because no other thread runs between. *)

OneWaiter == \A j, k \in Tasks : j # k => Uses[j] \cap Uses[k] = {}
WholeReports == "HUP" \notin Peers /\ (Alone \/ \E e \in Events : Peers \subseteq {e})

\* A context names a fiber that uses its event; epoll watches registered events
\* only; a thread has reports in hand only while it handles them, of what peers
\* can do, and a single thread only of registered events.
UseInv == \A f \in Fds, e \in Events : ctx[f][e] # None => <<f, e>> \in Uses[ctx[f][e]]
WatchedInv == \A f \in Fds : interest[f] \subseteq events[f] /\ level[f] \subseteq Peers
ReportInv ==
    \A t \in Threads : \A f \in Fds :
        got[t][f] # {} => /\ pc[t] = "handle" /\ got[t][f] \subseteq Peers
                          /\ Alone => got[t][f] \subseteq events[f]
GuardInv == UseInv /\ WatchedInv /\ ReportInv /\ NoAbort

\* Triggering registered events leaves epoll with the others and aborts nothing.
LEMMA TriggerGuard ==
    ASSUME IInv, GuardInv, NEW f \in Fds, NEW evs \in SUBSET Events, evs \subseteq events[f],
           EpollCtl(f, events[f] \ evs), TriggerEvents(f, evs), level' = level
    PROVE  /\ UseInv' /\ WatchedInv' /\ NoAbort'
           /\ \A g \in Fds : g # f => events'[g] = events[g]
<1>1. /\ events' = [events EXCEPT ![f] = @ \ evs]
      /\ ctx' = [ctx EXCEPT ![f] = [e \in Events |-> IF e \in evs THEN None ELSE @[e]]]
      /\ aborted' = aborted
    BY DEF TriggerEvents
<1>2. interest' = [interest EXCEPT ![f] = events[f] \ evs]
    BY DEF EpollCtl
<1>3. \A g \in Fds, e \in Events : ctx'[g][e] = None \/ ctx'[g][e] = ctx[g][e]
    BY <1>1 DEF IInv, TypeInv
<1>4. UseInv'
    BY <1>3 DEF GuardInv, UseInv
<1>5. WatchedInv'
    BY <1>1, <1>2 DEF GuardInv, WatchedInv, IInv, TypeInv
<1>6. NoAbort'
    BY <1>1 DEF GuardInv, NoAbort
<1>7. \A g \in Fds : g # f => events'[g] = events[g]
    BY <1>1 DEF IInv, TypeInv
<1> QED BY <1>4, <1>5, <1>6, <1>7

\* A fiber on the only thread does not find reports in any hand.
LEMMA RunningReports ==
    ASSUME IInv, ReportInv, NEW t \in Threads, pc[t] # "handle", got' = got,
           \A u \in Threads : u # t => pc'[u] = pc[u]
    PROVE  ReportInv'
<1> SUFFICES ASSUME NEW u \in Threads, NEW f \in Fds, got[u][f] # {}
             PROVE  /\ pc'[u] = "handle" /\ got[u][f] \subseteq Peers
                    /\ Alone => got[u][f] \subseteq events'[f]
    BY DEF ReportInv
<1>1. pc[u] = "handle" /\ got[u][f] \subseteq Peers
    BY DEF ReportInv
<1>2. u # t /\ pc'[u] = pc[u]
    BY <1>1
<1>3. ~Alone
    BY <1>2 DEF Alone
<1> QED BY <1>1, <1>2, <1>3

\* Steps that register and report nothing.
LEMMA QuietGuard ==
    ASSUME IInv, GuardInv,
           \/ Stop \/ StopTickles \/ UNCHANGED vars
           \/ \E k \in Tasks : Submit(k)
           \/ \E f \in Fds, l \in Levels : BecomesReady(f, l)
           \/ \E t \in Threads :
                 \/ NothingToRun(t) \/ EnterIdle(t) \/ StoppingPending(t) \/ StoppingDrained(t)
                 \/ EpollTimeout(t) \/ HandleTickle(t) \/ IdleYields(t) \/ Park(t) \/ Finish(t)
                 \/ \E k \in Tasks : PickTask(t, k)
                 \/ \E f \in Fds : CloseF(t, f) \/ \E e \in Events : Exhaust(t, f, e)
    PROVE  GuardInv'
<1> USE DEF GuardInv
<1>1. UNCHANGED <<events, ctx, got, aborted>>
    BY DEF Stop, StopTickles, Submit, BecomesReady, NothingToRun, EnterIdle, StoppingPending,
           StoppingDrained, EpollTimeout, HandleTickle, IdleYields, Park, Finish, PickTask,
           CloseF, Exhaust, vars
<1>2. UseInv' /\ NoAbort'
    BY <1>1 DEF UseInv, NoAbort
<1>3. WatchedInv'
  <2>1. CASE \E f \in Fds, l \in Levels : BecomesReady(f, l)
      BY <2>1 DEF BecomesReady, WatchedInv, IInv, TypeInv
  <2>2. CASE \E t \in Threads, f \in Fds : CloseF(t, f)
      BY <1>1, <2>2 DEF CloseF, WatchedInv, IInv, TypeInv
  <2>3. CASE \E t \in Threads, f \in Fds, e \in Events : Exhaust(t, f, e)
      BY <1>1, <2>3 DEF Exhaust, WatchedInv, IInv, TypeInv
  <2>4. CASE UNCHANGED <<interest, level>>
      BY <1>1, <2>4 DEF WatchedInv
  <2> QED BY <2>1, <2>2, <2>3, <2>4
          DEF Stop, StopTickles, Submit, NothingToRun, EnterIdle, StoppingPending,
              StoppingDrained, EpollTimeout, HandleTickle, IdleYields, Park, Finish, PickTask,
              vars
<1>4. ReportInv'
  <2>1. CASE \E t \in Threads : IdleYields(t)
    <3>1. PICK t \in Threads : IdleYields(t)
        BY <2>1
    <3>2. \A f \in Fds : got[t][f] = {}
        BY <3>1 DEF IdleYields
    <3>3. \A u \in Threads : u # t => pc'[u] = pc[u]
        BY <3>1 DEF IdleYields, IInv, TypeInv
    <3> QED BY <1>1, <3>2, <3>3 DEF ReportInv
  <2>2. CASE pc' = pc
      BY <1>1, <2>2 DEF ReportInv
  <2>3. CASE \E t \in Threads : /\ pc[t] # "handle"
                                /\ \E p : pc' = [pc EXCEPT ![t] = p]
    <3>1. PICK t \in Threads : pc[t] # "handle" /\ \E p : pc' = [pc EXCEPT ![t] = p]
        BY <2>3
    <3>2. \A u \in Threads : u # t => pc'[u] = pc[u]
        BY <3>1 DEF IInv, TypeInv
    <3> QED BY <1>1, <3>1, <3>2, RunningReports
  <2> QED BY <2>1, <2>2, <2>3
          DEF Stop, StopTickles, Submit, BecomesReady, NothingToRun, EnterIdle,
              StoppingPending, StoppingDrained, EpollTimeout, HandleTickle, Park, Finish,
              PickTask, CloseF, Exhaust, vars
<1> QED BY <1>2, <1>3, <1>4

\* epoll_wait() reports what is watched and ready.
LEMMA EpollWaitGuard ==
    ASSUME "HUP" \notin Peers, IInv, GuardInv, NEW t \in Threads, EpollWait(t)
    PROVE  GuardInv'
<1> USE DEF GuardInv
<1>1. /\ UNCHANGED <<events, ctx, aborted, interest, level>> /\ pc[t] = "wait"
      /\ got' = [got EXCEPT ![t] = [f \in Fds |-> IF f \in edge THEN Reported(f) ELSE {}]]
      /\ pc' = [pc EXCEPT ![t] = "handle"]
    BY DEF EpollWait
<1>2. UseInv' /\ WatchedInv' /\ NoAbort'
    BY <1>1 DEF UseInv, WatchedInv, NoAbort
<1>3. \A f \in Fds : Reported(f) \subseteq Peers /\ Reported(f) \subseteq events[f]
    BY DEF Reported, WatchedInv
<1>4. \A f \in Fds : got'[t][f] \subseteq Peers /\ got'[t][f] \subseteq events[f]
    BY <1>1, <1>3 DEF IInv, TypeInv
<1>5. /\ pc'[t] = "handle"
      /\ \A u \in Threads : u # t => pc'[u] = pc[u] /\ got'[u] = got[u]
    BY <1>1 DEF IInv, TypeInv
<1>6. ReportInv'
    BY <1>1, <1>4, <1>5 DEF ReportInv
<1> QED BY <1>2, <1>6

\* A report that is handled is registered as a whole or not at all.
LEMMA HandleGuard ==
    ASSUME WholeReports, IInv, GuardInv, NEW t \in Threads, NEW f \in Fds, HandleEvent(t, f)
    PROVE  GuardInv'
<1> USE DEF GuardInv
<1> DEFINE real == got[t][f]
<1>1. real \subseteq Peers /\ "HUP" \notin real /\ real # {} /\ pc[t] = "handle"
    BY DEF HandleEvent, ReportInv, WholeReports
<1>2. real \in SUBSET Events
    BY <1>1 DEF IInv, TypeInv, Levels
<1>3. /\ got' = [got EXCEPT ![t][f] = {}] /\ pc' = pc /\ level' = level
      /\ \/ /\ events[f] \cap real # {}
            /\ EpollCtl(f, events[f] \ real) /\ TriggerEvents(f, real)
         \/ UNCHANGED <<contexts, interest, edge, pipe, m_fibers, aborted>>
    BY <1>1 DEF HandleEvent
<1>4. /\ got'[t][f] = {} /\ \A g \in Fds : g # f => got'[t][g] = got[t][g]
      /\ \A u \in Threads : u # t => got'[u] = got[u]
    BY <1>3 DEF IInv, TypeInv
<1>5. events[f] \cap real # {} => real \subseteq events[f]
  <2>1. CASE Alone
      BY <1>1, <2>1 DEF ReportInv
  <2>2. CASE \E e \in Events : Peers \subseteq {e}
      BY <1>1, <2>2
  <2> QED BY <2>1, <2>2 DEF WholeReports
<1> HIDE DEF real
<1>6. /\ UseInv' /\ WatchedInv' /\ NoAbort'
      /\ \A g \in Fds : g # f => events'[g] = events[g]
  <2>1. CASE /\ events[f] \cap real # {}
             /\ EpollCtl(f, events[f] \ real) /\ TriggerEvents(f, real)
      BY <1>2, <1>3, <1>5, <2>1, TriggerGuard
  <2>2. CASE UNCHANGED <<contexts, interest, edge, pipe, m_fibers, aborted>>
      BY <1>3, <2>2 DEF UseInv, WatchedInv, NoAbort
  <2> QED BY <1>3, <2>1, <2>2
<1>7. ReportInv'
  <2> SUFFICES ASSUME NEW u \in Threads, NEW g \in Fds, got'[u][g] # {}
               PROVE  /\ pc'[u] = "handle" /\ got'[u][g] \subseteq Peers
                      /\ Alone => got'[u][g] \subseteq events'[g]
      BY DEF ReportInv
  <2>1. got'[u][g] = got[u][g]
      BY <1>4
  <2>2. pc'[u] = "handle" /\ got'[u][g] \subseteq Peers
      BY <1>3, <2>1 DEF ReportInv
  <2>3. Alone => u = t /\ g # f
      BY <1>4 DEF Alone
  <2> QED BY <1>6, <2>1, <2>2, <2>3 DEF ReportInv
<1> QED BY <1>6, <1>7

\* What a running fiber cancels or deletes is registered.
LEMMA CancelGuard ==
    ASSUME IInv, GuardInv, NEW t \in Threads, NEW f \in Fds,
           \/ CancelAll(t, f) \/ Close(t, f)
           \/ \E e \in Events : DelEvent(t, f, e) \/ CancelEvent(t, f, e)
    PROVE  GuardInv'
<1> USE DEF GuardInv
<1>1. pc[t] = "run" /\ got' = got /\ level' = level
    BY DEF CancelAll, Close, DelEvent, CancelEvent
<1>2. pc' = pc \/ pc' = [pc EXCEPT ![t] = "close"]
    BY DEF CancelAll, Close, DelEvent, CancelEvent
<1>3. ReportInv'
  <2>1. \A u \in Threads : u # t => pc'[u] = pc[u]
      BY <1>2 DEF IInv, TypeInv
  <2> QED BY <1>1, <2>1, RunningReports
<1>4. events[f] \in SUBSET Events /\ events[f] \ events[f] = {}
    BY DEF IInv, TypeInv
<1>5. CASE CancelAll(t, f)
  <2>1. EpollCtl(f, events[f] \ events[f]) /\ TriggerEvents(f, events[f])
      BY <1>4, <1>5 DEF CancelAll
  <2> QED BY <1>1, <1>3, <1>4, <2>1, TriggerGuard
<1>6. CASE Close(t, f)
  <2>1. CASE EpollCtl(f, {}) /\ TriggerEvents(f, events[f])
    <3>1. EpollCtl(f, events[f] \ events[f])
        BY <1>4, <2>1
    <3> QED BY <1>1, <1>3, <1>4, <2>1, <3>1, TriggerGuard
  <2>2. CASE UNCHANGED <<contexts, interest, edge, pipe, m_fibers, aborted>>
      BY <1>1, <1>3, <2>2 DEF UseInv, WatchedInv, NoAbort
  <2> QED BY <1>6, <2>1, <2>2 DEF Close
<1>7. ASSUME NEW e \in Events, CancelEvent(t, f, e) PROVE GuardInv'
  <2>1. EpollCtl(f, events[f] \ {e}) /\ TriggerEvents(f, {e}) /\ {e} \subseteq events[f]
      BY <1>7 DEF CancelEvent
  <2>2. {e} \in SUBSET Events
      OBVIOUS
  <2> QED BY <1>1, <1>3, <2>1, <2>2, TriggerGuard
<1>8. ASSUME NEW e \in Events, DelEvent(t, f, e) PROVE GuardInv'
  <2>1. /\ events' = [events EXCEPT ![f] = @ \ {e}] /\ ctx' = [ctx EXCEPT ![f][e] = None]
        /\ interest' = [interest EXCEPT ![f] = events[f] \ {e}] /\ aborted' = aborted
      BY <1>8 DEF DelEvent, EpollCtl
  <2>2. \A g \in Fds, d \in Events : ctx'[g][d] = None \/ ctx'[g][d] = ctx[g][d]
      BY <2>1 DEF IInv, TypeInv
  <2>3. UseInv'
      BY <2>2 DEF UseInv
  <2>4. WatchedInv'
      BY <1>1, <2>1 DEF WatchedInv, IInv, TypeInv
  <2> QED BY <1>3, <2>1, <2>3, <2>4 DEF NoAbort
<1> QED BY <1>5, <1>6, <1>7, <1>8

\* addEvent() finds the event free: whoever holds it would be the fiber itself.
LEMMA AddEventGuard ==
    ASSUME OneWaiter, IInv, GuardInv, NEW t \in Threads, NEW f \in Fds, NEW e \in Events,
           AddEvent(t, f, e)
    PROVE  GuardInv'
<1> USE DEF GuardInv
<1>1. PICK k \in Tasks : k = cur[t] /\ ~Slotted(k)
    BY DEF AddEvent, IInv, ExecInv, PlaceInv, Running
<1>2. <<f, e>> \in Uses[k] /\ pc[t] = "run" /\ got' = got
    BY <1>1 DEF AddEvent
<1>3. ctx[f][e] = None
  <2> SUFFICES ASSUME ctx[f][e] # None PROVE FALSE
      OBVIOUS
  <2>1. PICK j \in Tasks : j = ctx[f][e]
      BY DEF IInv, TypeInv
  <2>2. <<f, e>> \in Uses[j]
      BY <2>1 DEF UseInv
  <2>3. j = k
      BY <1>2, <2>2 DEF OneWaiter
  <2> QED BY <1>1, <2>1, <2>3 DEF Slotted
<1>4. e \notin events[f]
    BY <1>3 DEF IInv, SlotInv
<1>5. CASE ~CtlSucceeds(f)
  <2>1. UNCHANGED <<contexts, kernel, pc, aborted>>
      BY <1>4, <1>5 DEF AddEvent
  <2> QED BY <1>2, <2>1 DEF UseInv, WatchedInv, ReportInv, NoAbort
<1>6. CASE CtlSucceeds(f)
  <2>1. /\ EpollCtl(f, events[f] \cup {e})
        /\ events' = [events EXCEPT ![f] = events[f] \cup {e}]
        /\ aborted' = (ctx[f][e] # None) /\ ctx' = [ctx EXCEPT ![f][e] = k]
        /\ pc' = [pc EXCEPT ![t] = "park"] /\ level' = level
      BY <1>1, <1>4, <1>6 DEF AddEvent
  <2>2. ctx'[f][e] = k /\ \A g \in Fds, d \in Events : <<g, d>> # <<f, e>> => ctx'[g][d] = ctx[g][d]
      BY <2>1 DEF IInv, TypeInv
  <2>3. UseInv'
      BY <1>2, <2>2 DEF UseInv
  <2>4. interest' = [interest EXCEPT ![f] = events[f] \cup {e}]
      BY <2>1 DEF EpollCtl
  <2>5. WatchedInv'
      BY <2>1, <2>4 DEF WatchedInv, IInv, TypeInv
  <2>6. \A u \in Threads : u # t => pc'[u] = pc[u]
      BY <2>1 DEF IInv, TypeInv
  <2>7. ReportInv'
      BY <1>2, <2>6, RunningReports
  <2>8. NoAbort'
      BY <1>3, <2>1 DEF NoAbort
  <2> QED BY <2>3, <2>5, <2>7, <2>8
<1> QED BY <1>5, <1>6

\* Every step keeps it.
LEMMA StepGuard ==
    ASSUME OneWaiter, WholeReports
    PROVE  IInv /\ GuardInv /\ [Next]_vars => GuardInv'
<1> SUFFICES ASSUME IInv, GuardInv, [Next]_vars PROVE GuardInv'
    OBVIOUS
<1>1. "HUP" \notin Peers
    BY DEF WholeReports
<1> QED BY <1>1, QuietGuard, EpollWaitGuard, HandleGuard, CancelGuard, AddEventGuard
        DEF Next, LoopStep, FiberStep, FiberLeaves

\* If each event has one waiting fiber, no peer hangs up, and reports name one
\* event or the pool has one thread, no SYLAR_ASSERT of iomanager.cpp fails: neither
\* the one of addEvent() nor that of triggerEvent(), also when descriptors are
\* closed. A hang-up, which idle() takes for both events, is what breaks it.
THEOREM EventsAreRegistered ==
    ASSUME OneWaiter, WholeReports
    PROVE  Spec => []NoAbort
<1>1. Init => GuardInv
  <2> SUFFICES ASSUME Init PROVE GuardInv
      OBVIOUS
  <2>1. UseInv /\ WatchedInv /\ NoAbort
      BY DEF Init, UseInv, WatchedInv, NoAbort
  <2>2. ReportInv
      BY DEF Init, ReportInv
  <2> QED BY <2>1, <2>2 DEF GuardInv
<1>2. IInv /\ GuardInv /\ [Next]_vars => GuardInv'
    BY StepGuard
<1>3. GuardInv => NoAbort
    BY DEF GuardInv
<1> QED BY <1>1, <1>2, <1>3, InvHolds, PTL DEF Spec
=============================================================================
