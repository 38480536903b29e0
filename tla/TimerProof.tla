----------------------------- MODULE TimerProof ------------------------------
(***************************************************************************)
(* Proofs about Timer for any set of timers, any number of threads and any *)
(* delays: no live timer is lost, and a one-shot callback is handed out at *)
(* most once and never after a successful cancel().                        *)
(***************************************************************************)
EXTENDS Timer, TLAPS

USE DEF manager, clients, idling, time, ghost

\* A timer waiting for the lock in addTimer() is not yet in the set.
AddingApart == adding \cap m_timers = {}

\* A timer that was never added has no callback.
BornInv == \A t \in Timers : m_cb[t] => t \in born

\* OneShot is not inductive: that a timer which still has its callback has been
\* neither handed out nor cancelled is what makes the hand-out the first one.
ShotInv ==
    \A t \in Timers \ Recurring :
        /\ t \notin born \/ m_cb[t] => /\ \A th \in Threads : t \notin cbs[th]
                                       /\ fires[t] = 0 /\ t \notin stopped
        /\ fires[t] <= 1
        /\ \A th \in Threads : t \in cbs[th] =>
              /\ fires[t] = 0 /\ t \notin stopped
              /\ \A u \in Threads : t \in cbs[u] => u = th
        /\ t \in stopped => fires[t] = 0

Inv == TypeOK /\ NoLostTimer /\ AddingApart /\ BornInv /\ ShotInv

\* What addTimer(val, lock) does to the type of the variables it changes.
LEMMA InsertType ==
    ASSUME TypeOK, NEW t \in Timers, NEW next \in Int, NEW rest \in SUBSET Timers,
           Insert(t, next, rest)
    PROVE  /\ m_timers' = rest \cup {t}
           /\ m_timers' \subseteq Timers
           /\ m_next' \in [Timers -> Int]
           /\ m_tickled' \in BOOLEAN
           /\ announcing' \in 0..Clients
BY TimerAssumption, SMTT(30) DEF TypeOK, Insert

\* The timeout is one, or none; the conversion to int keeps a short one.
LEMMA TimeoutType ==
    ASSUME NEW d \in Int
    PROVE  AsTimeout(d) \in Nat \cup {Forever}
<1>1. 2 * IntLimit \in Nat \ {0}
    BY TimerAssumption
<1>2. d % (2 * IntLimit) \in Nat
    BY <1>1
<1> QED BY <1>2 DEF AsTimeout

LEMMA ShortTimeout ==
    ASSUME NEW d \in Nat, d < IntLimit
    PROVE  AsTimeout(d) = d
<1> DEFINE n == 2 * IntLimit
<1>1. n \in Nat /\ d < n /\ IntLimit \in Nat
    BY TimerAssumption
<1>2. d % n = d
    BY <1>1
<1> QED BY <1>1, <1>2 DEF AsTimeout

\* The initial state satisfies the inductive invariant.
LEMMA InitInv == Init => Inv
<1> SUFFICES ASSUME Init PROVE Inv
    OBVIOUS
<1>1. TypeOK
  <2>1. /\ m_next \in [Timers -> Int] /\ m_ms \in [Timers -> Nat]
        /\ pc \in [Threads -> IdlePoints \cup {"busy"}]
        /\ now_ms \in [Threads -> Nat] /\ left \in [Threads -> Nat \cup {Forever}]
        /\ fires \in [Timers -> Nat]
      BY DEF Init
  <2>2. m_cb \in [Timers -> BOOLEAN]
      BY Zenon DEF Init
  <2>3. cbs \in [Threads -> SUBSET Timers]
      BY DEF Init
  <2>4. /\ m_previousTime \in Nat /\ announcing \in 0..Clients
        /\ clock \in Nat /\ jumps \in Nat
      BY TimerAssumption DEF Init
  <2> QED BY <2>1, <2>2, <2>3, <2>4 DEF Init, TypeOK
<1>2. NoLostTimer /\ AddingApart /\ BornInv
    BY DEF Init, NoLostTimer, AddingApart, BornInv
<1>3. ShotInv
  <2> SUFFICES ASSUME NEW t \in Timers \ Recurring
               PROVE  /\ \A th \in Threads : t \notin cbs[th]
                      /\ fires[t] = 0 /\ t \notin stopped /\ 0 <= 1
      BY DEF ShotInv
  <2>1. \A th \in Threads : cbs[th] = {}
      BY DEF Init
  <2>2. fires[t] = 0 /\ t \notin stopped
      BY DEF Init
  <2> QED BY <2>1, <2>2
<1> QED BY <1>1, <1>2, <1>3 DEF Inv

\* Every step keeps the types.
LEMMA StepType == TypeOK /\ [Next]_vars => TypeOK'
<1> SUFFICES ASSUME TypeOK, [Next]_vars PROVE TypeOK'
    OBVIOUS
<1> USE TimerAssumption
<1>1. ASSUME NEW t \in Timers, NEW ms \in Delays, NewTimer(t, ms) PROVE TypeOK'
    BY <1>1 DEF TypeOK, NewTimer
<1>2. ASSUME NEW t \in Timers, AddTimer(t) PROVE TypeOK'
  <2>1. m_next[t] \in Int /\ m_timers \in SUBSET Timers
      BY DEF TypeOK
  <2>2. /\ m_timers' \subseteq Timers /\ m_next' \in [Timers -> Int]
        /\ m_tickled' \in BOOLEAN /\ announcing' \in 0..Clients
      BY <1>2, <2>1, InsertType DEF AddTimer
  <2> QED BY <1>2, <2>2 DEF TypeOK, AddTimer
<1>3. ASSUME NEW t \in Timers, Cancel(t) PROVE TypeOK'
    BY <1>3 DEF TypeOK, Cancel
<1>4. ASSUME NEW t \in Timers, Refresh(t) PROVE TypeOK'
  <2>1. clock + m_ms[t] \in Int /\ (m_timers \ {t}) \in SUBSET Timers
      BY DEF TypeOK
  <2>2. /\ m_timers' \subseteq Timers /\ m_next' \in [Timers -> Int]
        /\ m_tickled' \in BOOLEAN /\ announcing' \in 0..Clients
      BY <1>4, <2>1, InsertType DEF Refresh
  <2> QED BY <1>4, <2>2 DEF TypeOK, Refresh
<1>5. ASSUME NEW t \in Timers, NEW ms \in Delays, NEW b \in BOOLEAN, Reset(t, ms, b)
      PROVE  TypeOK'
  <2> DEFINE start == IF b THEN clock ELSE m_next[t] - m_ms[t]
  <2>1. start + ms \in Int /\ (m_timers \ {t}) \in SUBSET Timers
      BY DEF TypeOK
  <2>2. Insert(t, start + ms, m_timers \ {t})
      BY <1>5 DEF Reset
  <2>3. /\ m_timers' \subseteq Timers /\ m_next' \in [Timers -> Int]
        /\ m_tickled' \in BOOLEAN /\ announcing' \in 0..Clients
      BY <2>1, <2>2, InsertType
  <2> QED BY <1>5, <2>3 DEF TypeOK, Reset
<1>6. ASSUME OnTimerInsertedAtFront PROVE TypeOK'
    BY <1>6 DEF TypeOK, OnTimerInsertedAtFront
<1>7. ASSUME NEW th \in Threads, EnterIdle(th) PROVE TypeOK'
    BY <1>7 DEF TypeOK, EnterIdle, IdlePoints
<1>8. ASSUME NEW th \in Threads, GetNextTimer(th) PROVE TypeOK'
  <2>1. left' \in [Threads -> Nat \cup {Forever}]
    <3>1. CASE m_timers = {} /\ left' = [left EXCEPT ![th] = Forever]
        BY <3>1 DEF TypeOK
    <3>2. CASE \E t \in Earliest :
                  left' = [left EXCEPT ![th] = IF clock >= m_next[t] THEN 0
                                               ELSE AsTimeout(m_next[t] - clock)]
      <4>1. PICK t \in Earliest :
                  left' = [left EXCEPT ![th] = IF clock >= m_next[t] THEN 0
                                               ELSE AsTimeout(m_next[t] - clock)]
          BY <3>2
      <4>2. t \in Timers
          BY <4>1 DEF Earliest, TypeOK
      <4>3. AsTimeout(m_next[t] - clock) \in Nat \cup {Forever}
          BY <4>2, TimeoutType DEF TypeOK
      <4> QED BY <4>1, <4>3 DEF TypeOK
    <3> QED BY <1>8, <3>1, <3>2 DEF GetNextTimer
  <2> QED BY <1>8, <2>1 DEF TypeOK, GetNextTimer, IdlePoints
<1>9. ASSUME NEW th \in Threads, WakesForTickle(th) PROVE TypeOK'
    BY <1>9 DEF TypeOK, WakesForTickle, IdlePoints
<1>10. ASSUME NEW th \in Threads, WakesInTime(th) \/ WakesForOther(th) PROVE TypeOK'
    BY <1>10 DEF TypeOK, WakesInTime, WakesForOther, IdlePoints
<1>11. ASSUME NEW th \in Threads, ListExpired(th) \/ ListCheck(th) PROVE TypeOK'
    BY <1>11 DEF TypeOK, ListExpired, ListCheck, IdlePoints
<1>12. ASSUME NEW th \in Threads, ListCollect(th) PROVE TypeOK'
    BY <1>12 DEF TypeOK, ListCollect, IdlePoints
<1>13. ASSUME NEW th \in Threads, Dispatch(th) PROVE TypeOK'
    BY <1>13 DEF TypeOK, Dispatch, IdlePoints
<1>14. ASSUME Tick PROVE TypeOK'
    BY <1>14 DEF TypeOK, Tick, Forever
<1>15. ASSUME SetBack PROVE TypeOK'
    BY <1>15 DEF TypeOK, SetBack
<1>16. ASSUME UNCHANGED vars PROVE TypeOK'
    BY <1>16 DEF TypeOK, vars
<1> QED BY <1>1, <1>2, <1>3, <1>4, <1>5, <1>6, <1>7, <1>8, <1>9, <1>10, <1>11, <1>12, <1>13,
           <1>14, <1>15, <1>16 DEF Next, ClientStep, ThreadStep

\* The variables the remaining parts of the invariant speak of.
core == <<m_timers, m_cb, adding, cbs, fires, born, stopped>>

\* A step that leaves these variables alone keeps the invariant.
LEMMA CoreUnchanged ==
    ASSUME NoLostTimer, AddingApart, BornInv, ShotInv, UNCHANGED core
    PROVE  NoLostTimer' /\ AddingApart' /\ BornInv' /\ ShotInv'
BY DEF core, NoLostTimer, AddingApart, BornInv, ShotInv

\* Every step keeps the invariant.
LEMMA StepInv == Inv /\ [Next]_vars => Inv'
<1> SUFFICES ASSUME Inv, [Next]_vars PROVE NoLostTimer' /\ AddingApart' /\ BornInv' /\ ShotInv'
    BY StepType DEF Inv
<1> USE DEF Inv
<1>1. ASSUME NEW t \in Timers, NEW ms \in Delays, NewTimer(t, ms)
      PROVE  NoLostTimer' /\ AddingApart' /\ BornInv' /\ ShotInv'
  <2>1. t \notin m_timers /\ t \notin adding
      BY <1>1 DEF NoLostTimer, BornInv, NewTimer
  <2> QED BY <1>1, <2>1 DEF TypeOK, NoLostTimer, AddingApart, BornInv, ShotInv, NewTimer
<1>2. ASSUME NEW t \in Timers, AddTimer(t)
      PROVE  NoLostTimer' /\ AddingApart' /\ BornInv' /\ ShotInv'
  <2>1. m_timers' = m_timers \cup {t}
      BY <1>2 DEF AddTimer, Insert
  <2> QED BY <1>2, <2>1 DEF TypeOK, NoLostTimer, AddingApart, BornInv, ShotInv, AddTimer
<1>3. ASSUME NEW t \in Timers, Cancel(t)
      PROVE  NoLostTimer' /\ AddingApart' /\ BornInv' /\ ShotInv'
    BY <1>3 DEF TypeOK, NoLostTimer, AddingApart, BornInv, ShotInv, Cancel
<1>4. ASSUME NEW t \in Timers, Refresh(t)
      PROVE  NoLostTimer' /\ AddingApart' /\ BornInv' /\ ShotInv'
  <2>1. m_timers' = m_timers
      BY <1>4 DEF Refresh, Insert
  <2> QED BY <1>4, <2>1, CoreUnchanged DEF core, Refresh
<1>5. ASSUME NEW t \in Timers, NEW ms \in Delays, NEW b \in BOOLEAN, Reset(t, ms, b)
      PROVE  NoLostTimer' /\ AddingApart' /\ BornInv' /\ ShotInv'
  <2>1. m_timers' = m_timers
      BY <1>5 DEF Reset, Insert
  <2> QED BY <1>5, <2>1, CoreUnchanged DEF core, Reset
<1>6. ASSUME NEW th \in Threads, ListCollect(th)
      PROVE  NoLostTimer' /\ AddingApart' /\ BornInv' /\ ShotInv'
  <2> DEFINE expired == IF Rollover(now_ms[th]) THEN m_timers
                        ELSE {t \in m_timers : m_next[t] <= now_ms[th]}
  <2>1. /\ expired \subseteq m_timers
        /\ m_timers' = m_timers \ (expired \ Recurring)
        /\ m_cb' = [t \in Timers |-> m_cb[t] /\ t \notin expired \ Recurring]
        /\ cbs' = [cbs EXCEPT ![th] = expired]
        /\ UNCHANGED <<adding, born, stopped, fires>>
      BY <1>6 DEF ListCollect
  <2> HIDE DEF expired
  <2>2. NoLostTimer' /\ AddingApart' /\ BornInv'
      BY <2>1 DEF TypeOK, NoLostTimer, AddingApart, BornInv
  <2>3. ASSUME NEW t \in Timers \ Recurring, t \in expired PROVE m_cb[t] /\ t \in born
      BY <2>1, <2>3 DEF NoLostTimer, BornInv
  <2>4. ShotInv'
      BY <2>1, <2>3 DEF TypeOK, ShotInv
  <2> QED BY <2>2, <2>4
<1>7. ASSUME NEW th \in Threads, Dispatch(th)
      PROVE  NoLostTimer' /\ AddingApart' /\ BornInv' /\ ShotInv'
  <2>1. NoLostTimer' /\ AddingApart' /\ BornInv'
      BY <1>7 DEF NoLostTimer, AddingApart, BornInv, Dispatch
  <2>2. ShotInv'
      BY <1>7 DEF TypeOK, ShotInv, Dispatch
  <2> QED BY <2>1, <2>2
<1>8. ASSUME \/ OnTimerInsertedAtFront \/ Tick \/ SetBack \/ UNCHANGED vars
             \/ \E th \in Threads : \/ EnterIdle(th) \/ GetNextTimer(th)
                                    \/ WakesForTickle(th) \/ WakesInTime(th)
                                    \/ WakesForOther(th)
                                    \/ ListExpired(th) \/ ListCheck(th)
      PROVE  NoLostTimer' /\ AddingApart' /\ BornInv' /\ ShotInv'
  <2>1. UNCHANGED core
      BY <1>8 DEF core, vars, OnTimerInsertedAtFront, Tick, SetBack, EnterIdle, GetNextTimer,
                  WakesForTickle, WakesInTime, WakesForOther, ListExpired, ListCheck
  <2> QED BY <2>1, CoreUnchanged
<1> QED BY <1>1, <1>2, <1>3, <1>4, <1>5, <1>6, <1>7, <1>8 DEF Next, ClientStep, ThreadStep

\* Every reachable state satisfies the inductive invariant.
LEMMA InvHolds == Spec => []Inv
BY InitInv, StepInv, PTL DEF Spec

\* Type correctness of the timer manager and of the threads that drive it.
THEOREM TimerTypeCorrect == Spec => []TypeOK
<1>1. Inv => TypeOK
    BY DEF Inv
<1> QED BY <1>1, InvHolds, PTL

\* cancel(), refresh(), reset() and listExpiredCb(), in any order and from any
\* number of threads, never lose a live timer and never keep a dead one.
THEOREM NoTimerIsLost == Spec => []NoLostTimer
<1>1. Inv => NoLostTimer
    BY DEF Inv
<1> QED BY <1>1, InvHolds, PTL

\* A one-shot callback is handed out at most once, by one thread, and not at all
\* once cancel() has returned true.
THEOREM OneShotFiresOnce == Spec => []OneShot
<1>1. Inv => OneShot
  <2> SUFFICES ASSUME Inv, NEW t \in Timers \ Recurring
               PROVE  LET hands == {th \in Threads : t \in cbs[th]}
                      IN  /\ fires[t] <= 1
                          /\ \A th \in hands : hands = {th} /\ fires[t] = 0
                          /\ t \in stopped => hands = {} /\ fires[t] = 0
      BY DEF OneShot
  <2> DEFINE hands == {th \in Threads : t \in cbs[th]}
  <2>1. ASSUME NEW th \in hands PROVE hands = {th} /\ fires[t] = 0
      BY DEF Inv, ShotInv
  <2>2. fires[t] <= 1 /\ (t \in stopped => hands = {} /\ fires[t] = 0)
      BY DEF Inv, ShotInv
  <2> QED BY <2>1, <2>2
<1> QED BY <1>1, InvHolds, PTL
-----------------------------------------------------------------------------
(* Who watches the first deadline *)

AllSleep == \A th \in Threads : pc[th] = "sleep"
\* A byte is in the pipe, or a client is about to write one.
Called == pipe = "ready" \/ announcing > 0
Watches(th) ==
    /\ left[th] # Forever
    /\ \A t \in m_timers : clock + left[th] <= m_next[t] \/ left[th] = 0

\* m_tickled lets addTimer() omit the call of onTimerInsertedAtFront(): it is set only
\* while an earlier call is still to be answered.
TickledInv == m_tickled /\ AllSleep => Called

\* While the clock is not set back no deadline is further away than a period, so that
\* with short periods no sleeper was given a negative timeout.
PeriodInv ==
    /\ \A t \in Timers : m_ms[t] \in Delays \cup {0}
    /\ jumps = 0 => /\ \A t \in Timers : m_next[t] <= clock + m_ms[t]
                    /\ \A th \in Threads : now_ms[th] <= clock

WatchInv == Inv /\ PeriodInv /\ TickledInv /\ FirstDeadlineIsWatched

\* Every step keeps the distance of the deadlines.
LEMMA StepPeriod == TypeOK /\ PeriodInv /\ [Next]_vars => PeriodInv'
<1> SUFFICES ASSUME TypeOK, PeriodInv, [Next]_vars PROVE PeriodInv'
    OBVIOUS
<1> USE TimerAssumption
<1>1. ASSUME UNCHANGED <<m_ms, jumps, clock, now_ms>>, NEW t \in Timers, NEW next \in Int,
             NEW rest \in SUBSET Timers, Insert(t, next, rest), jumps = 0 => next <= clock + m_ms[t]
      PROVE  PeriodInv'
    BY <1>1 DEF TypeOK, PeriodInv, Insert
<1>2. ASSUME NEW t \in Timers, NEW ms \in Delays, NewTimer(t, ms) PROVE PeriodInv'
    BY <1>2 DEF TypeOK, PeriodInv, NewTimer
<1>3. ASSUME NEW t \in Timers, AddTimer(t) PROVE PeriodInv'
    BY <1>1, <1>3 DEF TypeOK, PeriodInv, AddTimer
<1>4. ASSUME NEW t \in Timers, Refresh(t) PROVE PeriodInv'
    BY <1>1, <1>4 DEF TypeOK, Refresh
<1>5. ASSUME NEW t \in Timers, NEW ms \in Delays, NEW b \in BOOLEAN, Reset(t, ms, b) PROVE PeriodInv'
  <2> DEFINE start == IF b THEN clock ELSE m_next[t] - m_ms[t]
  <2>1. start + ms \in Int /\ Insert(t, start + ms, m_timers \ {t}) /\ m_ms' = [m_ms EXCEPT ![t] = ms]
        /\ UNCHANGED <<jumps, clock, now_ms>> /\ (jumps = 0 => start <= clock)
      BY <1>5 DEF TypeOK, PeriodInv, Reset
  <2> HIDE DEF start
  <2>2. m_next' = [m_next EXCEPT ![t] = start + ms]
      BY <2>1 DEF Insert
  <2>3. ASSUME jumps = 0 PROVE start + ms <= clock + ms
    <3>1. start \in Int
        BY DEF TypeOK, start
    <3> QED BY <2>1, <2>3, <3>1 DEF TypeOK
  <2> QED BY <2>1, <2>2, <2>3 DEF TypeOK, PeriodInv
<1>6. ASSUME NEW th \in Threads, ListCollect(th) PROVE PeriodInv'
  <2>1. PICK collected \in SUBSET Timers :
            m_next' = [t \in Timers |-> IF t \in collected THEN now_ms[th] + m_ms[t] ELSE m_next[t]]
      BY <1>6 DEF TypeOK, ListCollect
  <2> QED BY <1>6, <2>1 DEF TypeOK, PeriodInv, ListCollect
<1>7. ASSUME NEW th \in Threads, ListExpired(th) \/ Dispatch(th) PROVE PeriodInv'
    BY <1>7 DEF TypeOK, PeriodInv, ListExpired, Dispatch
<1>8. ASSUME Tick \/ SetBack PROVE PeriodInv'
    BY <1>8 DEF TypeOK, PeriodInv, Tick, SetBack
<1>9. ASSUME UNCHANGED <<m_next, m_ms, jumps, clock, now_ms>> PROVE PeriodInv'
    BY <1>9 DEF PeriodInv
<1>10. ASSUME NEW th \in Threads, \/ EnterIdle(th) \/ GetNextTimer(th) \/ WakesForTickle(th)
                                  \/ WakesInTime(th) \/ WakesForOther(th) \/ ListCheck(th)
       PROVE  PeriodInv'
    BY <1>9, <1>10 DEF EnterIdle, GetNextTimer, WakesForTickle, WakesInTime, WakesForOther, ListCheck
<1>11. ASSUME \/ OnTimerInsertedAtFront \/ UNCHANGED vars \/ \E t \in Timers : Cancel(t)
       PROVE  PeriodInv'
    BY <1>9, <1>11 DEF OnTimerInsertedAtFront, vars, Cancel
<1> QED BY <1>2, <1>3, <1>4, <1>5, <1>6, <1>7, <1>8, <1>10, <1>11 DEF Next, ClientStep, ThreadStep

\* addTimer(val, lock) into a set whose first deadline is watched.
LEMMA InsertWatched ==
    ASSUME TypeOK, NEW t \in Timers, NEW next \in Int, NEW rest \in SUBSET m_timers, t \notin rest,
           Insert(t, next, rest), UNCHANGED <<pc, left, pipe, clock, jumps>>,
           TickledInv, FirstDeadlineIsWatched
    PROVE  TickledInv' /\ FirstDeadlineIsWatched'
<1>1. PICK first \in BOOLEAN :
        /\ ~first => \E u \in rest : m_next[u] <= next
        /\ m_timers' = rest \cup {t}
        /\ m_next' = [m_next EXCEPT ![t] = next]
        /\ m_tickled' = (m_tickled \/ first)
        /\ announcing' = announcing + (IF first /\ ~m_tickled THEN 1 ELSE 0)
    BY DEF Insert
<1>2. announcing \in Nat /\ m_tickled \in BOOLEAN /\ clock \in Nat
    BY TimerAssumption DEF TypeOK
<1>3. Called => Called'
    BY <1>1, <1>2 DEF Called
<1>4. TickledInv'
  <2>1. CASE m_tickled
      BY <1>3, <2>1 DEF TickledInv, AllSleep
  <2>2. CASE ~m_tickled /\ first
      BY <1>1, <1>2, <2>2 DEF TickledInv, Called
  <2>3. CASE ~m_tickled /\ ~first
      BY <1>1, <1>2, <2>3 DEF TickledInv
  <2> QED BY <1>2, <2>1, <2>2, <2>3
<1>5. ASSUME ShortDelays, jumps = 0, AllSleep PROVE Called' \/ \E th \in Threads : Watches(th)'
  <2>1. CASE first
      BY <1>1, <1>4, <1>5, <2>1 DEF TickledInv, AllSleep
  <2>2. CASE ~first
    <3>1. PICK u \in rest : m_next[u] <= next
        BY <1>1, <2>2
    <3>2. CASE Called
        BY <1>3, <3>2
    <3>3. ASSUME NEW th \in Threads, Watches(th) PROVE Watches(th)'
      <4>1. left[th] # Forever /\ left[th] \in Int
          BY <3>3 DEF Watches, TypeOK, Forever
      <4>2. ASSUME NEW v \in m_timers', left[th] # 0 PROVE clock + left[th] <= m_next'[v]
        <5>1. CASE v = t
          <6>1. m_next'[v] = next /\ m_next[u] \in Int
              BY <1>1, <5>1 DEF TypeOK
          <6>2. clock + left[th] <= m_next[u]
              BY <3>3, <4>2 DEF Watches
          <6> QED BY <1>2, <3>1, <4>1, <6>1, <6>2
        <5>2. CASE v # t
          <6>1. v \in m_timers /\ m_next'[v] = m_next[v]
              BY <1>1, <4>2, <5>2 DEF TypeOK
          <6> QED BY <3>3, <4>2, <6>1 DEF Watches
        <5> QED BY <5>1, <5>2
      <4> QED BY <4>1, <4>2 DEF Watches
    <3>4. Called \/ \E th \in Threads : Watches(th)
        BY <1>5, <3>1 DEF FirstDeadlineIsWatched, AllSleep, Called, Watches
    <3> QED BY <3>2, <3>3, <3>4
  <2> QED BY <2>1, <2>2
<1> QED BY <1>4, <1>5 DEF FirstDeadlineIsWatched, AllSleep, Called, Watches

\* Every step keeps the first deadline watched.
LEMMA StepWatched ==
    ASSUME WatchInv, [Next]_vars
    PROVE  TickledInv' /\ FirstDeadlineIsWatched'
<1>0. Inv /\ TypeOK /\ PeriodInv /\ TickledInv /\ FirstDeadlineIsWatched
    BY DEF WatchInv, Inv
<1>1. ASSUME ~AllSleep' PROVE TickledInv' /\ FirstDeadlineIsWatched'
    BY <1>1 DEF TickledInv, FirstDeadlineIsWatched, AllSleep
<1>2. ASSUME UNCHANGED <<m_tickled, announcing, pipe, pc, left, clock, jumps>>, m_timers' \subseteq m_timers,
             \A t \in m_timers : m_next'[t] = m_next[t]
      PROVE  TickledInv' /\ FirstDeadlineIsWatched'
  <2>1. TickledInv'
      BY <1>0, <1>2 DEF TickledInv, AllSleep, Called
  <2>2. FirstDeadlineIsWatched'
      BY <1>0, <1>2 DEF FirstDeadlineIsWatched
  <2> QED BY <2>1, <2>2
<1>3. ASSUME NEW t \in Timers, NEW ms \in Delays, NewTimer(t, ms)
      PROVE  TickledInv' /\ FirstDeadlineIsWatched'
  <2>1. t \notin m_timers
      BY <1>0, <1>3 DEF Inv, NoLostTimer, BornInv, NewTimer
  <2>2. \A u \in m_timers : m_next'[u] = m_next[u]
      BY <1>0, <1>3, <2>1 DEF NewTimer, TypeOK
  <2> QED BY <1>2, <1>3, <2>2 DEF NewTimer
<1>4. ASSUME NEW t \in Timers, AddTimer(t) PROVE TickledInv' /\ FirstDeadlineIsWatched'
  <2>1. t \notin m_timers /\ m_next[t] \in Int /\ m_timers \in SUBSET m_timers
      BY <1>0, <1>4 DEF Inv, AddingApart, AddTimer, TypeOK
  <2>2. Insert(t, m_next[t], m_timers) /\ UNCHANGED <<pc, left, pipe, clock, jumps>>
      BY <1>4 DEF AddTimer
  <2> QED BY <1>0, <2>1, <2>2, InsertWatched
<1>5. ASSUME NEW t \in Timers, Refresh(t) PROVE TickledInv' /\ FirstDeadlineIsWatched'
  <2>1. clock + m_ms[t] \in Int /\ m_timers \ {t} \in SUBSET m_timers /\ t \notin m_timers \ {t}
      BY <1>0 DEF TypeOK
  <2>2. Insert(t, clock + m_ms[t], m_timers \ {t}) /\ UNCHANGED <<pc, left, pipe, clock, jumps>>
      BY <1>5 DEF Refresh
  <2> QED BY <1>0, <2>1, <2>2, InsertWatched
<1>6. ASSUME NEW t \in Timers, NEW ms \in Delays, NEW b \in BOOLEAN, Reset(t, ms, b)
      PROVE  TickledInv' /\ FirstDeadlineIsWatched'
  <2>1. PICK next \in Int : Insert(t, next, m_timers \ {t})
    <3>1. (IF b THEN clock ELSE m_next[t] - m_ms[t]) + ms \in Int
        BY <1>0, TimerAssumption DEF TypeOK
    <3> QED BY <1>6, <3>1 DEF Reset
  <2>2. UNCHANGED <<pc, left, pipe, clock, jumps>>
      BY <1>6 DEF Reset
  <2>3. m_timers \ {t} \in SUBSET m_timers /\ t \notin m_timers \ {t}
      OBVIOUS
  <2> QED BY <1>0, <2>1, <2>2, <2>3, InsertWatched
<1>7. ASSUME NEW t \in Timers, Cancel(t) PROVE TickledInv' /\ FirstDeadlineIsWatched'
    BY <1>2, <1>7 DEF Cancel
<1>8. ASSUME OnTimerInsertedAtFront PROVE TickledInv' /\ FirstDeadlineIsWatched'
  <2>1. AllSleep' => pipe' = "ready"
    <3> SUFFICES ASSUME AllSleep PROVE pipe' = "ready"
        BY <1>8 DEF OnTimerInsertedAtFront, AllSleep
    <3>1. HasIdleThreads
        BY TimerAssumption DEF AllSleep, HasIdleThreads, IdlePoints
    <3> QED BY <1>8, <3>1 DEF OnTimerInsertedAtFront
  <2> QED BY <2>1 DEF TickledInv, FirstDeadlineIsWatched, AllSleep, Called
<1>9. ASSUME NEW th \in Threads, pc'[th] # "sleep" PROVE TickledInv' /\ FirstDeadlineIsWatched'
    BY <1>1, <1>9 DEF AllSleep
<1>10. ASSUME NEW th \in Threads, \/ EnterIdle(th) \/ WakesForTickle(th) \/ WakesInTime(th)
                                  \/ WakesForOther(th) \/ ListExpired(th) \/ ListCheck(th)
                                  \/ ListCollect(th) \/ Dispatch(th)
       PROVE  TickledInv' /\ FirstDeadlineIsWatched'
  <2>1. pc'[th] # "sleep"
      BY <1>0, <1>10 DEF TypeOK, EnterIdle, WakesForTickle, WakesInTime, WakesForOther, ListExpired,
                         ListCheck, ListCollect, Dispatch
  <2> QED BY <1>9, <2>1
<1>11. ASSUME NEW th \in Threads, GetNextTimer(th) PROVE TickledInv' /\ FirstDeadlineIsWatched'
  <2>1. TickledInv'
      BY <1>11 DEF GetNextTimer, TickledInv
  <2>2. ASSUME ShortDelays, jumps' = 0, m_timers' # {} PROVE Watches(th)'
    <3>1. PICK t \in Earliest :
              left' = [left EXCEPT ![th] = IF clock >= m_next[t] THEN 0
                                           ELSE AsTimeout(m_next[t] - clock)]
        BY <1>11, <2>2 DEF GetNextTimer
    <3>2. t \in Timers /\ m_next[t] \in Int /\ clock \in Nat /\ \A u \in m_timers : m_next[t] <= m_next[u]
        BY <1>0 DEF Earliest, TypeOK
    <3>3. ASSUME clock < m_next[t] PROVE AsTimeout(m_next[t] - clock) = m_next[t] - clock
      <4>1. m_next[t] <= clock + m_ms[t] /\ m_ms[t] \in Nat /\ m_ms[t] \in Delays \cup {0}
          BY <1>0, <1>11, <2>2, <3>2 DEF PeriodInv, TypeOK, GetNextTimer
      <4>2. m_ms[t] < IntLimit
          BY <2>2, <4>1, TimerAssumption DEF ShortDelays
      <4> QED BY <3>2, <3>3, <4>1, <4>2, ShortTimeout, TimerAssumption
    <3>4. left'[th] = IF clock >= m_next[t] THEN 0 ELSE m_next[t] - clock
        BY <1>0, <3>1, <3>2, <3>3 DEF TypeOK
    <3>5. left'[th] # Forever /\ (left'[th] = 0 \/ clock + left'[th] = m_next[t])
        BY <3>2, <3>4 DEF Forever
    <3> QED BY <1>11, <3>2, <3>5 DEF GetNextTimer, Watches
  <2>3. FirstDeadlineIsWatched'
      BY <2>2 DEF FirstDeadlineIsWatched, Watches, ShortDelays
  <2> QED BY <2>1, <2>3
<1>12. ASSUME Tick PROVE TickledInv' /\ FirstDeadlineIsWatched'
  <2>1. TickledInv'
      BY <1>0, <1>12 DEF Tick, TickledInv, AllSleep, Called
  <2>2. ASSUME NEW th \in Threads, pc[th] = "sleep", Watches(th) PROVE Watches(th)'
    <3>1. left[th] \in Nat /\ clock \in Nat /\ clock' = clock + 1 /\ UNCHANGED <<m_timers, m_next>>
        BY <1>0, <1>12, <2>2 DEF Tick, Watches, TypeOK
    <3>2. left'[th] = IF left[th] > 0 THEN left[th] - 1 ELSE left[th]
        BY <1>12, <2>2 DEF Tick
    <3>3. left'[th] # Forever /\ (left'[th] = 0 \/ clock' + left'[th] = clock + left[th])
          /\ (left[th] = 0 => left'[th] = 0)
        BY <3>1, <3>2 DEF Forever
    <3> QED BY <2>2, <3>1, <3>3 DEF Watches
  <2>3. FirstDeadlineIsWatched'
    <3> SUFFICES ASSUME ShortDelays, jumps' = 0, m_timers' # {}, AllSleep'
                 PROVE  Called' \/ \E th \in Threads : Watches(th)'
        BY DEF FirstDeadlineIsWatched, AllSleep, Called, Watches, ShortDelays
    <3>1. jumps = 0 /\ m_timers # {} /\ AllSleep /\ (Called => Called')
        BY <1>12 DEF Tick, AllSleep, Called
    <3>2. Called \/ \E th \in Threads : Watches(th)
        BY <1>0, <3>1 DEF FirstDeadlineIsWatched, AllSleep, Called, Watches
    <3> QED BY <2>2, <3>1, <3>2 DEF AllSleep
  <2> QED BY <2>1, <2>3
<1>13. ASSUME SetBack PROVE TickledInv' /\ FirstDeadlineIsWatched'
  <2>1. jumps' # 0
      BY <1>0, <1>13 DEF SetBack, TypeOK
  <2> QED BY <1>0, <1>13, <2>1 DEF SetBack, TickledInv, AllSleep, Called, FirstDeadlineIsWatched
<1>14. ASSUME UNCHANGED vars PROVE TickledInv' /\ FirstDeadlineIsWatched'
    BY <1>2, <1>14 DEF vars
<1> QED BY <1>3, <1>4, <1>5, <1>6, <1>7, <1>8, <1>10, <1>11, <1>12, <1>13, <1>14
        DEF Next, ClientStep, ThreadStep

\* If all threads sleep in epoll_wait(), one of them wakes for the first deadline, or a
\* tickle is there or on its way, although addTimer() tickles only once between two calls
\* of getNextTimer() and writes the byte after it has released the lock (as long as no
\* period is 2^31 ms or more).
THEOREM DeadlineIsAlwaysWatched == Spec => []FirstDeadlineIsWatched
<1>1. Init => WatchInv
  <2>1. Init => TickledInv /\ FirstDeadlineIsWatched
      BY DEF Init, TickledInv, FirstDeadlineIsWatched
  <2>2. Init => PeriodInv
      BY TimerAssumption DEF Init, PeriodInv
  <2> QED BY <2>1, <2>2, InitInv DEF WatchInv
<1>2. WatchInv /\ [Next]_vars => WatchInv'
    BY StepInv, StepPeriod, StepWatched DEF WatchInv, Inv
<1>3. WatchInv => FirstDeadlineIsWatched
    BY DEF WatchInv
<1> QED BY <1>1, <1>2, <1>3, PTL DEF Spec
=============================================================================
