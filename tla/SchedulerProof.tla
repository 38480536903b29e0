--------------------------- MODULE SchedulerProof ---------------------------
(***************************************************************************)
(* Proofs about Scheduler for any number of threads, fibers and functions. *)
(***************************************************************************)
EXTENDS Scheduler, FiniteSetTheorems, SequenceTheorems, TLAPS

IdlePCs == {"idle", "rest"}

\* What a thread holds at each point of run(). With TypeOK it says that Cur(t) is
\* a fiber whenever run() uses it as one.
HandOK ==
    \A t \in Threads :
        /\ pc[t] = "enter" => ft[t] \in Task
        /\ pc[t] \in OnStack \cup {"settle"} =>
              ft[t] \in FiberObj \/ (ft[t] = None /\ cb_fiber[t] \in CbFibers)
        /\ pc[t] \notin Counted \cup {"settle"} => ft[t] = None

\* Outside of run() the pool has no worker left once it is stopped, and the
\* caller is inside run() only while stop() waits for it.
OwnerOK ==
    /\ owner = "out" /\ m_stopping => \A w \in Workers : pc[w] = "off"
    /\ UseCaller /\ owner # "call" => pc[Caller] \in {"off", "exit"}

CountInv == TypeOK /\ HandOK /\ OwnerOK /\ ActiveCountExact /\ IdleCountExact

\* The pool has finitely many threads, so that they can be counted.
LEMMA ThreadsFinite == IsFiniteSet(Threads)
  BY ConstantsAssumption, FS_AddElement DEF Threads

\* A pool that has not been started satisfies the counting invariant.
LEMMA InitCountInv == Init => CountInv
<1> SUFFICES ASSUME Init PROVE CountInv
  OBVIOUS
<1>1. TypeOK
  <2>1. m_fibers \in Seq([task : Task, thread : Threads \cup {AnyThread}])
    BY DEF Init
  <2>2. m_stopping \in BOOLEAN /\ m_autoStop \in BOOLEAN
    BY DEF Init
  <2>3. idle_term \in [Threads -> BOOLEAN]
    BY DEF Init
  <2> QED BY <2>1, <2>2, <2>3 DEF Init, TypeOK, States, PCs
<1>2. HandOK /\ OwnerOK
  BY DEF Init, HandOK, OwnerOK, OnStack, Counted, Threads
<1>3. ActiveCountExact
  <2>1. {t \in Threads : pc[t] \in Counted} = {}
    BY DEF Init, Counted
  <2> QED BY <2>1, FS_EmptySet DEF ActiveCountExact, Init
<1>4. IdleCountExact
  <2>1. {t \in Threads : pc[t] \in {"idle", "rest"}} = {}
    BY DEF Init
  <2> QED BY <2>1, FS_EmptySet DEF IdleCountExact, Init
<1> QED BY <1>1, <1>2, <1>3, <1>4 DEF CountInv
-----------------------------------------------------------------------------
(* What one thread's move does to the two counters. *)

\* A thread that moves into a set of program points adds one to those that are there,
LEMMA CountUp ==
  ASSUME NEW p \in [Threads -> PCs], NEW t \in Threads, NEW x, NEW A,
         p[t] \notin A, x \in A
  PROVE  Cardinality({u \in Threads : [p EXCEPT ![t] = x][u] \in A})
           = Cardinality({u \in Threads : p[u] \in A}) + 1
<1> DEFINE S == {u \in Threads : p[u] \in A}
<1>1. {u \in Threads : [p EXCEPT ![t] = x][u] \in A} = S \cup {t}
  OBVIOUS
<1>2. IsFiniteSet(S)
  BY ThreadsFinite, FS_Subset
<1>3. t \notin S
  OBVIOUS
<1> HIDE DEF S
<1>4. Cardinality(S \cup {t}) = Cardinality(S) + 1
  BY <1>2, <1>3, FS_AddElement
<1> QED BY <1>1, <1>4 DEF S

\* a thread that is there makes the number positive,
LEMMA CountPositive ==
  ASSUME NEW p \in [Threads -> PCs], NEW t \in Threads, NEW A, p[t] \in A
  PROVE  LET S == {u \in Threads : p[u] \in A} IN
         /\ Cardinality(S \ {t}) = Cardinality(S) - 1
         /\ Cardinality(S) - 1 \in Nat
<1> DEFINE S == {u \in Threads : p[u] \in A}
<1>1. IsFiniteSet(S)
  BY ThreadsFinite, FS_Subset
<1>2. t \in S
  OBVIOUS
<1> HIDE DEF S
<1>3. IsFiniteSet(S \ {t}) /\ Cardinality(S \ {t}) = Cardinality(S) - 1
  BY <1>1, <1>2, FS_RemoveElement
<1>4. Cardinality(S \ {t}) \in Nat
  BY <1>3, FS_CardinalityType
<1> QED BY <1>3, <1>4 DEF S

\* a thread that moves out of it takes one away,
LEMMA CountDown ==
  ASSUME NEW p \in [Threads -> PCs], NEW t \in Threads, NEW x, NEW A,
         p[t] \in A, x \notin A
  PROVE  Cardinality({u \in Threads : [p EXCEPT ![t] = x][u] \in A})
           = Cardinality({u \in Threads : p[u] \in A}) - 1
<1>1. {u \in Threads : [p EXCEPT ![t] = x][u] \in A} = {u \in Threads : p[u] \in A} \ {t}
  OBVIOUS
<1> QED BY <1>1, CountPositive

\* and a move inside or outside of it changes nothing.
LEMMA CountSame ==
  ASSUME NEW p \in [Threads -> PCs], NEW t \in Threads, NEW x, NEW A,
         p[t] \in A <=> x \in A
  PROVE  {u \in Threads : [p EXCEPT ![t] = x][u] \in A} = {u \in Threads : p[u] \in A}
  OBVIOUS

\* An increment of m_activeThreadCount with a move to a counted point keeps it exact,
LEMMA ActiveUp ==
  ASSUME TypeOK, ActiveCountExact, NEW t \in Threads, NEW x,
         pc' = [pc EXCEPT ![t] = x], pc[t] \notin Counted, x \in Counted,
         m_activeThreadCount' = m_activeThreadCount + 1
  PROVE  ActiveCountExact'
<1>1. pc \in [Threads -> PCs]
  BY DEF TypeOK
<1>2. Cardinality({u \in Threads : [pc EXCEPT ![t] = x][u] \in Counted})
           = Cardinality({u \in Threads : pc[u] \in Counted}) + 1
  BY <1>1, CountUp
<1> QED BY <1>2 DEF ActiveCountExact

\* as does a decrement with a move away from one, which never goes below zero,
LEMMA ActiveDown ==
  ASSUME TypeOK, ActiveCountExact, NEW t \in Threads, NEW x,
         pc' = [pc EXCEPT ![t] = x], pc[t] \in Counted, x \notin Counted,
         m_activeThreadCount' = m_activeThreadCount - 1
  PROVE  ActiveCountExact' /\ m_activeThreadCount' \in Nat
<1>1. pc \in [Threads -> PCs]
  BY DEF TypeOK
<1>2. Cardinality({u \in Threads : [pc EXCEPT ![t] = x][u] \in Counted})
           = Cardinality({u \in Threads : pc[u] \in Counted}) - 1
  BY <1>1, CountDown
<1>3. Cardinality({u \in Threads : pc[u] \in Counted}) - 1 \in Nat
  BY <1>1, CountPositive
<1> QED BY <1>2, <1>3 DEF ActiveCountExact

\* and a move that neither enters nor leaves the counted points.
LEMMA ActiveSame ==
  ASSUME TypeOK, ActiveCountExact, NEW t \in Threads, NEW x,
         pc' = [pc EXCEPT ![t] = x], pc[t] \in Counted <=> x \in Counted,
         m_activeThreadCount' = m_activeThreadCount
  PROVE  ActiveCountExact'
<1>1. {u \in Threads : pc'[u] \in Counted} = {u \in Threads : pc[u] \in Counted}
  BY CountSame DEF TypeOK
<1> QED BY <1>1 DEF ActiveCountExact

\* The same for m_idleThreadCount: entering the idle fiber,
LEMMA IdleUp ==
  ASSUME TypeOK, IdleCountExact, NEW t \in Threads, NEW x,
         pc' = [pc EXCEPT ![t] = x], pc[t] \notin IdlePCs, x \in IdlePCs,
         m_idleThreadCount' = m_idleThreadCount + 1
  PROVE  IdleCountExact'
<1>1. pc \in [Threads -> PCs]
  BY DEF TypeOK
<1>2. Cardinality({u \in Threads : [pc EXCEPT ![t] = x][u] \in IdlePCs})
           = Cardinality({u \in Threads : pc[u] \in IdlePCs}) + 1
  BY <1>1, CountUp
<1> QED BY <1>2 DEF IdleCountExact, IdlePCs

\* leaving it,
LEMMA IdleDown ==
  ASSUME TypeOK, IdleCountExact, NEW t \in Threads, NEW x,
         pc' = [pc EXCEPT ![t] = x], pc[t] \in IdlePCs, x \notin IdlePCs,
         m_idleThreadCount' = m_idleThreadCount - 1
  PROVE  IdleCountExact' /\ m_idleThreadCount' \in Nat
<1>1. pc \in [Threads -> PCs]
  BY DEF TypeOK
<1>2. Cardinality({u \in Threads : [pc EXCEPT ![t] = x][u] \in IdlePCs})
           = Cardinality({u \in Threads : pc[u] \in IdlePCs}) - 1
  BY <1>1, CountDown
<1>3. Cardinality({u \in Threads : pc[u] \in IdlePCs}) - 1 \in Nat
  BY <1>1, CountPositive
<1> QED BY <1>2, <1>3 DEF IdleCountExact, IdlePCs

\* and everything else.
LEMMA IdleSame ==
  ASSUME TypeOK, IdleCountExact, NEW t \in Threads, NEW x,
         pc' = [pc EXCEPT ![t] = x], pc[t] \in IdlePCs <=> x \in IdlePCs,
         m_idleThreadCount' = m_idleThreadCount
  PROVE  IdleCountExact'
<1>1. {u \in Threads : pc'[u] \in IdlePCs} = {u \in Threads : pc[u] \in IdlePCs}
  BY CountSame DEF TypeOK
<1> QED BY <1>1 DEF IdleCountExact, IdlePCs

\* A thread that moves inside run() does so while the pool is running.
LEMMA ThreadKeepsOwnerOK ==
  ASSUME TypeOK, OwnerOK, NEW t \in Threads, NEW x,
         pc[t] \notin {"off", "exit"}, pc' = [pc EXCEPT ![t] = x],
         owner' = owner, m_stopping' = m_stopping
  PROVE  OwnerOK'
  BY ConstantsAssumption DEF TypeOK, OwnerOK, Threads
-----------------------------------------------------------------------------
(* One lemma per step of a thread. *)

\* Where run() or a body uses the fiber in hand, it is one.
LEMMA CurIsFiber ==
  ASSUME HandOK, NEW t \in Threads, pc[t] \in OnStack \cup {"settle"}
  PROVE  Cur(t) \in FiberObj
  BY ConstantsAssumption DEF HandOK, Cur, FiberObj, Task

\* A queue entry is a task with a thread or -1.
LEMMA EntryType ==
  ASSUME TypeOK, NEW i \in DOMAIN m_fibers
  PROVE  /\ m_fibers[i].task \in Task
         /\ m_fibers[i].thread \in Threads \cup {AnyThread}
<1> DEFINE E == [task : Task, thread : Threads \cup {AnyThread}]
<1>1. m_fibers \in Seq(E)
  BY DEF TypeOK
<1>2. i \in 1..Len(m_fibers)
  BY <1>1
<1>3. m_fibers[i] \in E
  BY <1>1, <1>2, ElementOfSeq
<1> QED BY <1>3

\* The bound on yields keeps its type.
LEMMA CountYieldType ==
  ASSUME TypeOK, NEW t \in Threads, CountYield(t)
  PROVE  yields' \in [Work -> Nat]
<1> DEFINE x == Item(Cur(t))
<1>1. yields' = [yields EXCEPT ![x] = yields[x] + 1] /\ yields \in [Work -> Nat]
  BY DEF CountYield, TypeOK
<1> HIDE DEF x
<1>2. CASE x \in Work
  <2>1. yields[x] + 1 \in Nat
    BY <1>1, <1>2
  <2> QED BY <1>1, <2>1
<1>3. CASE x \notin Work
  <2>1. yields' = yields
    BY <1>1, <1>3
  <2> QED BY <1>1, <2>1
<1> QED BY <1>2, <1>3

\* push_back() keeps the type of the queue,
LEMMA AppendType ==
  ASSUME NEW S, NEW s \in Seq(S), NEW e \in S
  PROVE  Append(s, e) \in Seq(S)
  OBVIOUS

\* and so does erase().
LEMMA RemoveAtType ==
  ASSUME NEW S, NEW s \in Seq(S), NEW i \in DOMAIN s
  PROVE  RemoveAt(s, i) \in Seq(S)
  BY DEF RemoveAt

\* PickTask keeps the counters exact.
LEMMA PickTaskCountInv ==
  ASSUME CountInv, NEW t \in Threads, PickTask(t)
  PROVE  CountInv'
<1> USE DEF CountInv
<1>1. ActiveCountExact'
  BY ActiveUp DEF PickTask, pool, Counted
<1>2. IdleCountExact'
  BY IdleSame DEF PickTask, pool, IdlePCs
<1>3. OwnerOK'
  BY ThreadKeepsOwnerOK DEF PickTask, pool
<1>4. HandOK'
  <2>1. PICK i \in DOMAIN m_fibers : ft' = [ft EXCEPT ![t] = m_fibers[i].task]
    BY DEF PickTask, Eligible
  <2>2. m_fibers[i].task \in Task
    BY EntryType
  <2> QED BY <2>1, <2>2 DEF PickTask, TypeOK, HandOK, Counted, OnStack
<1>5. TypeOK'
  <2>1. PICK i \in DOMAIN m_fibers : /\ ft' = [ft EXCEPT ![t] = m_fibers[i].task]
                                     /\ m_fibers' = RemoveAt(m_fibers, i)
    BY DEF PickTask, Eligible
  <2>2. m_fibers[i].task \in Task
    BY EntryType
  <2>3. m_fibers' \in Seq([task : Task, thread : Threads \cup {AnyThread}])
    BY <2>1, RemoveAtType DEF TypeOK
  <2> QED BY <2>1, <2>2, <2>3 DEF PickTask, TypeOK, ghost, PCs
<1> QED BY <1>1, <1>2, <1>3, <1>4, <1>5

\* EnterIdle keeps the counters exact.
LEMMA EnterIdleCountInv ==
  ASSUME CountInv, NEW t \in Threads, EnterIdle(t)
  PROVE  CountInv'
<1> USE DEF CountInv
<1>1. ActiveCountExact'
  BY ActiveSame DEF EnterIdle, pool, Counted
<1>2. IdleCountExact'
  BY IdleUp DEF EnterIdle, pool, IdlePCs
<1>3. OwnerOK'
  BY ThreadKeepsOwnerOK DEF EnterIdle, pool
<1>4. HandOK'
  BY ConstantsAssumption DEF EnterIdle, TypeOK, HandOK, hand, Counted, OnStack
<1>5. TypeOK'
  BY <1>1, <1>2, ConstantsAssumption DEF EnterIdle, TypeOK, HandOK, pool, hand, ghost, PCs, States, Over, OnStack
<1> QED BY <1>1, <1>2, <1>3, <1>4, <1>5

\* RunReturns keeps the counters exact.
LEMMA RunReturnsCountInv ==
  ASSUME CountInv, NEW t \in Threads, RunReturns(t)
  PROVE  CountInv'
<1> USE DEF CountInv
<1>1. ActiveCountExact'
  BY ActiveSame DEF RunReturns, pool, Counted
<1>2. IdleCountExact'
  BY IdleSame DEF RunReturns, pool, IdlePCs
<1>3. OwnerOK'
  BY ThreadKeepsOwnerOK DEF RunReturns, pool
<1>4. HandOK'
  BY ConstantsAssumption DEF RunReturns, TypeOK, HandOK, hand, Counted, OnStack
<1>5. TypeOK'
  <2>1. idle_term' \in [Threads -> BOOLEAN]
    BY DEF RunReturns, TypeOK
  <2> QED BY <2>1 DEF RunReturns, SYLAR_ASSERT, Aborts, TypeOK, pool, ghost, PCs
<1> QED BY <1>1, <1>2, <1>3, <1>4, <1>5

\* Idle keeps the counters exact.
LEMMA IdleCountInv ==
  ASSUME CountInv, NEW t \in Threads, Idle(t)
  PROVE  CountInv'
<1> USE DEF CountInv
<1>1. ActiveCountExact'
  BY ActiveSame DEF Idle, pool, Counted
<1>2. IdleCountExact'
  BY IdleSame DEF Idle, pool, IdlePCs
<1>3. OwnerOK'
  BY ThreadKeepsOwnerOK DEF Idle, pool
<1>4. HandOK'
  BY ConstantsAssumption DEF Idle, TypeOK, HandOK, hand, Counted, OnStack
<1>5. TypeOK'
  <2>1. stopping \in BOOLEAN
    BY DEF stopping
  <2>2. idle_term' \in [Threads -> BOOLEAN]
    BY <2>1 DEF Idle, TypeOK
  <2> QED BY <2>2 DEF Idle, TypeOK, pool, ghost, PCs
<1> QED BY <1>1, <1>2, <1>3, <1>4, <1>5

\* IdleReturns keeps the counters exact.
LEMMA IdleReturnsCountInv ==
  ASSUME CountInv, NEW t \in Threads, IdleReturns(t)
  PROVE  CountInv'
<1> USE DEF CountInv
<1>1. ActiveCountExact'
  BY ActiveSame DEF IdleReturns, pool, Counted
<1>2. IdleCountExact' /\ m_idleThreadCount' \in Nat
  BY IdleDown DEF IdleReturns, pool, IdlePCs
<1>3. OwnerOK'
  BY ThreadKeepsOwnerOK DEF IdleReturns, pool
<1>4. HandOK'
  BY ConstantsAssumption DEF IdleReturns, TypeOK, HandOK, hand, Counted, OnStack
<1>5. TypeOK'
  BY <1>1, <1>2, ConstantsAssumption DEF IdleReturns, TypeOK, HandOK, pool, hand, ghost, PCs, States, Over, OnStack
<1> QED BY <1>1, <1>2, <1>3, <1>4, <1>5

\* DropFinished keeps the counters exact.
LEMMA DropFinishedCountInv ==
  ASSUME CountInv, NEW t \in Threads, DropFinished(t)
  PROVE  CountInv'
<1> USE DEF CountInv
<1>1. ActiveCountExact' /\ m_activeThreadCount' \in Nat
  BY ActiveDown DEF DropFinished, pool, Counted
<1>2. IdleCountExact'
  BY IdleSame DEF DropFinished, pool, IdlePCs
<1>3. OwnerOK'
  BY ThreadKeepsOwnerOK DEF DropFinished, pool
<1>4. HandOK'
  BY ConstantsAssumption DEF DropFinished, TypeOK, HandOK, hand, Counted, OnStack
<1>5. TypeOK'
  BY <1>1, <1>2, ConstantsAssumption DEF DropFinished, TypeOK, HandOK, pool, hand, ghost, PCs, States, Over, OnStack
<1> QED BY <1>1, <1>2, <1>3, <1>4, <1>5

\* EnterFiber keeps the counters exact.
LEMMA EnterFiberCountInv ==
  ASSUME CountInv, NEW t \in Threads, EnterFiber(t)
  PROVE  CountInv'
<1> USE DEF CountInv
<1>1. ActiveCountExact'
  BY ActiveSame DEF EnterFiber, pool, Counted
<1>2. IdleCountExact'
  BY IdleSame DEF EnterFiber, pool, IdlePCs
<1>3. OwnerOK'
  BY ThreadKeepsOwnerOK DEF EnterFiber, pool
<1>4. HandOK'
  BY ConstantsAssumption DEF EnterFiber, TypeOK, HandOK, hand, Counted, OnStack
<1>5. TypeOK'
  <2>1. failed' \in Aborts \cup {"none"}
    BY DEF EnterFiber, TypeOK, Aborts
  <2> QED BY <2>1 DEF EnterFiber, TypeOK, pool, hand, ghost, PCs, States
<1> QED BY <1>1, <1>2, <1>3, <1>4, <1>5

\* EnterCb keeps the counters exact.
LEMMA EnterCbCountInv ==
  ASSUME CountInv, NEW t \in Threads, EnterCb(t)
  PROVE  CountInv'
<1> USE DEF CountInv
<1>1. ActiveCountExact'
  BY ActiveSame DEF EnterCb, pool, Counted
<1>2. IdleCountExact'
  BY IdleSame DEF EnterCb, pool, IdlePCs
<1>3. OwnerOK'
  BY ThreadKeepsOwnerOK DEF EnterCb, pool
<1>4. HandOK'
  <2>1. PICK f \in CbFiberFor(t) : cb_fiber' = [cb_fiber EXCEPT ![t] = f]
    BY DEF EnterCb
  <2>2. f \in CbFibers
    BY DEF CbFiberFor, TypeOK
  <2>3. pc' = [pc EXCEPT ![t] = "body"] /\ ft' = [ft EXCEPT ![t] = None]
    BY DEF EnterCb
  <2> QED BY <2>1, <2>2, <2>3 DEF TypeOK, HandOK, Counted, OnStack
<1>5. TypeOK'
  <2>1. PICK f \in CbFiberFor(t) :
           /\ SYLAR_ASSERT(cb_fiber[t] # None => m_state[f] \in Over \cup {"INIT"},
                           "reset: m_state")
           /\ cb_fiber' = [cb_fiber EXCEPT ![t] = f]
           /\ m_cb' = [m_cb EXCEPT ![f] = ft[t]]
           /\ m_state' = [m_state EXCEPT ![f] = "EXEC"]
    BY DEF EnterCb
  <2>2. f \in CbFibers
    BY DEF CbFiberFor, TypeOK
  <2>3. failed' \in Aborts \cup {"none"}
    BY <2>1 DEF SYLAR_ASSERT, Aborts, TypeOK
  <2>4. m_cb' \in [CbFibers -> Cbs \cup {None}]
    BY <2>1, <2>2 DEF EnterCb, TypeOK
  <2> QED BY <2>1, <2>2, <2>3, <2>4 DEF EnterCb, TypeOK, pool, ghost, PCs, States
<1> QED BY <1>1, <1>2, <1>3, <1>4, <1>5

\* MainFunc keeps the counters exact.
LEMMA MainFuncCountInv ==
  ASSUME CountInv, NEW t \in Threads, NEW end \in Over, MainFunc(t, end)
  PROVE  CountInv'
<1> USE DEF CountInv
<1>1. ActiveCountExact'
  BY ActiveSame DEF MainFunc, pool, Counted
<1>2. IdleCountExact'
  BY IdleSame DEF MainFunc, pool, IdlePCs
<1>3. OwnerOK'
  BY ThreadKeepsOwnerOK DEF MainFunc, pool
<1>4. HandOK'
  BY ConstantsAssumption DEF MainFunc, TypeOK, HandOK, hand, Counted, OnStack
<1>5. TypeOK'
  BY <1>1, <1>2, ConstantsAssumption DEF MainFunc, TypeOK, HandOK, pool, hand, ghost, PCs, States, Over, OnStack
<1> QED BY <1>1, <1>2, <1>3, <1>4, <1>5

\* YieldToReady keeps the counters exact.
LEMMA YieldToReadyCountInv ==
  ASSUME CountInv, NEW t \in Threads, YieldToReady(t)
  PROVE  CountInv'
<1> USE DEF CountInv
<1>1. ActiveCountExact'
  BY ActiveSame DEF YieldToReady, pool, Counted
<1>2. IdleCountExact'
  BY IdleSame DEF YieldToReady, pool, IdlePCs
<1>3. OwnerOK'
  BY ThreadKeepsOwnerOK DEF YieldToReady, pool
<1>4. HandOK'
  BY ConstantsAssumption DEF YieldToReady, TypeOK, HandOK, hand, Counted, OnStack
<1>5. TypeOK'
  <2>1. failed' \in Aborts \cup {"none"}
    BY DEF YieldToReady, SYLAR_ASSERT, Aborts, TypeOK
  <2>2. yields' \in [Work -> Nat]
    BY CountYieldType DEF YieldToReady
  <2> QED BY <2>1, <2>2 DEF YieldToReady, TypeOK, pool, hand, ghost, PCs, States
<1> QED BY <1>1, <1>2, <1>3, <1>4, <1>5

\* Park keeps the counters exact.
LEMMA ParkCountInv ==
  ASSUME CountInv, NEW t \in Threads, Park(t)
  PROVE  CountInv'
<1> USE DEF CountInv
<1>1. ActiveCountExact'
  BY ActiveSame DEF Park, pool, Counted
<1>2. IdleCountExact'
  BY IdleSame DEF Park, pool, IdlePCs
<1>3. OwnerOK'
  BY ThreadKeepsOwnerOK DEF Park, pool
<1>4. HandOK'
  BY ConstantsAssumption DEF Park, TypeOK, HandOK, hand, Counted, OnStack
<1>5. TypeOK'
  <2>1. Cur(t) \in FiberObj
    BY CurIsFiber DEF Park, OnStack
  <2>2. yields' \in [Work -> Nat]
    BY CountYieldType DEF Park
  <2> QED BY <2>1, <2>2 DEF Park, TypeOK, pool, hand, PCs
<1> QED BY <1>1, <1>2, <1>3, <1>4, <1>5

\* SwitchTo keeps the counters exact.
LEMMA SwitchToCountInv ==
  ASSUME CountInv, NEW t \in Threads, NEW thread \in Pins, SwitchTo(t, thread)
  PROVE  CountInv'
<1> USE DEF CountInv
<1>1. ActiveCountExact'
  BY ActiveSame DEF SwitchTo, pool, Counted
<1>2. IdleCountExact'
  BY IdleSame DEF SwitchTo, pool, IdlePCs
<1>3. OwnerOK'
  BY ThreadKeepsOwnerOK DEF SwitchTo, pool
<1>4. HandOK'
  BY ConstantsAssumption DEF SwitchTo, TypeOK, HandOK, hand, Counted, OnStack
<1>5. TypeOK'
  <2>1. Cur(t) \in FiberObj
    BY CurIsFiber DEF SwitchTo, OnStack
  <2>2. yields' \in [Work -> Nat]
    BY CountYieldType DEF SwitchTo
  <2>3. Entry(Cur(t), thread) \in [task : Task, thread : Threads \cup {AnyThread}]
    BY <2>1, ConstantsAssumption DEF Entry, FiberObj, Task
  <2>4. m_fibers' \in Seq([task : Task, thread : Threads \cup {AnyThread}])
    BY <2>3 DEF SwitchTo, TypeOK
  <2> QED BY <2>2, <2>4 DEF SwitchTo, TypeOK, pool, hand, PCs
<1> QED BY <1>1, <1>2, <1>3, <1>4, <1>5

\* YieldToHold keeps the counters exact.
LEMMA YieldToHoldCountInv ==
  ASSUME CountInv, NEW t \in Threads, YieldToHold(t)
  PROVE  CountInv'
<1> USE DEF CountInv
<1>1. ActiveCountExact'
  BY ActiveSame DEF YieldToHold, pool, Counted
<1>2. IdleCountExact'
  BY IdleSame DEF YieldToHold, pool, IdlePCs
<1>3. OwnerOK'
  BY ThreadKeepsOwnerOK DEF YieldToHold, pool
<1>4. HandOK'
  BY ConstantsAssumption DEF YieldToHold, TypeOK, HandOK, hand, Counted, OnStack
<1>5. TypeOK'
  <2>1. failed' \in Aborts \cup {"none"}
    BY DEF YieldToHold, SYLAR_ASSERT, Aborts, TypeOK
  <2> QED BY <2>1 DEF YieldToHold, TypeOK, pool, hand, ghost, PCs, States
<1> QED BY <1>1, <1>2, <1>3, <1>4, <1>5

\* SwapOut keeps the counters exact.
LEMMA SwapOutCountInv ==
  ASSUME CountInv, NEW t \in Threads, SwapOut(t)
  PROVE  CountInv'
<1> USE DEF CountInv
<1>1. ActiveCountExact' /\ m_activeThreadCount' \in Nat
  BY ActiveDown DEF SwapOut, pool, Counted
<1>2. IdleCountExact'
  BY IdleSame DEF SwapOut, pool, IdlePCs
<1>3. OwnerOK'
  BY ThreadKeepsOwnerOK DEF SwapOut, pool
<1>4. HandOK'
  BY ConstantsAssumption DEF SwapOut, TypeOK, HandOK, hand, Counted, OnStack
<1>5. TypeOK'
  BY <1>1, <1>2, ConstantsAssumption DEF SwapOut, TypeOK, HandOK, pool, hand, ghost, PCs, States, Over, OnStack
<1> QED BY <1>1, <1>2, <1>3, <1>4, <1>5

\* Settle keeps the counters exact.
LEMMA SettleCountInv ==
  ASSUME CountInv, NEW t \in Threads, Settle(t)
  PROVE  CountInv'
<1> USE DEF CountInv
<1>1. ActiveCountExact'
  BY ActiveSame DEF Settle, pool, Counted
<1>2. IdleCountExact'
  BY IdleSame DEF Settle, pool, IdlePCs
<1>3. OwnerOK'
  BY ThreadKeepsOwnerOK DEF Settle, pool
<1>4. HandOK'
  BY ConstantsAssumption DEF Settle, TypeOK, HandOK, hand, Counted, OnStack
<1>5. TypeOK'
  <2>1. Cur(t) \in FiberObj
    BY CurIsFiber DEF Settle
  <2>2. Entry(Cur(t), AnyThread) \in [task : Task, thread : Threads \cup {AnyThread}]
    BY <2>1 DEF Entry, FiberObj, Task
  <2>3. m_fibers' \in Seq([task : Task, thread : Threads \cup {AnyThread}])
    <3>1. m_fibers' = m_fibers \/ m_fibers' = Append(m_fibers, Entry(Cur(t), AnyThread))
      BY DEF Settle
    <3>2. m_fibers \in Seq([task : Task, thread : Threads \cup {AnyThread}])
      BY DEF TypeOK
    <3>3. Append(m_fibers, Entry(Cur(t), AnyThread))
            \in Seq([task : Task, thread : Threads \cup {AnyThread}])
      BY <2>2, <3>2, AppendType
    <3> QED BY <3>1, <3>2, <3>3
  <2>4. m_state' \in [FiberObj -> States]
    BY DEF Settle, TypeOK, States
  <2>5. m_cb' \in [CbFibers -> Cbs \cup {None}]
    BY DEF Settle, TypeOK
  <2>6. cb_fiber' \in [Threads -> CbFibers \cup {None}]
    BY DEF Settle, TypeOK
  <2> QED BY <2>3, <2>4, <2>5, <2>6 DEF Settle, TypeOK, pool, ghost, PCs
<1> QED BY <1>1, <1>2, <1>3, <1>4, <1>5

-----------------------------------------------------------------------------
(* The steps of the pool's owner and of the clients. *)

\* No thread moves: the counters' right-hand sides stay as they are.
LEMMA NobodyMovesCounts ==
  ASSUME ActiveCountExact, IdleCountExact, UNCHANGED pc,
         UNCHANGED <<m_activeThreadCount, m_idleThreadCount>>
  PROVE  ActiveCountExact' /\ IdleCountExact'
  BY DEF ActiveCountExact, IdleCountExact

\* Threads move between points that neither counter counts.
LEMMA UncountedMoves ==
  ASSUME ActiveCountExact, IdleCountExact,
         \A t \in Threads : pc'[t] = pc[t] \/ (/\ pc[t] \in {"off", "pick", "exit"}
                                               /\ pc'[t] \in {"off", "pick", "exit"}),
         UNCHANGED <<m_activeThreadCount, m_idleThreadCount>>
  PROVE  ActiveCountExact' /\ IdleCountExact'
<1>1. {t \in Threads : pc'[t] \in Counted} = {t \in Threads : pc[t] \in Counted}
  BY DEF Counted
<1>2. {t \in Threads : pc'[t] \in {"idle", "rest"}} = {t \in Threads : pc[t] \in {"idle", "rest"}}
  OBVIOUS
<1> QED BY <1>1, <1>2 DEF ActiveCountExact, IdleCountExact

\* Start(), schedule() and wake-ups keep the counters exact.
LEMMA ClientCountInv ==
  ASSUME CountInv, ClientStep
  PROVE  CountInv'
<1> USE DEF CountInv
<1>1. CASE Start
  <2>1. \A t \in Workers : pc[t] = "off"
    BY <1>1 DEF Start, OwnerOK
  <2>2. ActiveCountExact' /\ IdleCountExact'
    BY <1>1, <2>1, UncountedMoves DEF Start, TypeOK
  <2>3. HandOK'
    BY <1>1, <2>1 DEF Start, HandOK, TypeOK, hand, Counted, OnStack
  <2>4. OwnerOK'
    BY <1>1, ConstantsAssumption DEF Start, OwnerOK, TypeOK, Threads
  <2>5. TypeOK'
    <3>1. failed' \in Aborts \cup {"none"}
      BY <1>1 DEF Start, SYLAR_ASSERT, Aborts, TypeOK
    <3>2. m_stopping' \in BOOLEAN
      BY <1>1 DEF Start
    <3> QED BY <1>1, <3>1, <3>2 DEF Start, TypeOK, hand, ghost, PCs
  <2> QED BY <2>2, <2>3, <2>4, <2>5
<1>2. CASE Stop
  <2>1. ActiveCountExact' /\ IdleCountExact'
    BY <1>2, NobodyMovesCounts DEF Stop
  <2>2. HandOK' /\ OwnerOK'
    BY <1>2 DEF Stop, HandOK, OwnerOK, hand
  <2>3. TypeOK'
    <3>1. m_stopping' \in BOOLEAN /\ m_autoStop' \in BOOLEAN
      BY <1>2 DEF Stop
    <3> QED BY <1>2, <3>1 DEF Stop, TypeOK, hand, ghost
  <2> QED BY <2>1, <2>2, <2>3
<1>3. ASSUME NEW thread \in Pins, NEW w \in Work, Schedule(w, thread)
      PROVE  CountInv'
  <2>1. ActiveCountExact' /\ IdleCountExact'
    BY <1>3, NobodyMovesCounts DEF Schedule, pool
  <2>2. HandOK' /\ OwnerOK'
    BY <1>3 DEF Schedule, HandOK, OwnerOK, hand, pool
  <2>3. Entry(w, thread) \in [task : Task, thread : Threads \cup {AnyThread}]
    BY ConstantsAssumption DEF Entry, Task, Work
  <2>4. m_fibers' \in Seq([task : Task, thread : Threads \cup {AnyThread}])
    BY <1>3, <2>3, AppendType DEF Schedule, TypeOK
  <2>5. TypeOK'
    BY <1>3, <2>4 DEF Schedule, TypeOK, hand, pool
  <2> QED BY <2>1, <2>2, <2>5
<1>4. ASSUME NEW thread \in Pins, NEW f \in Fibers, ScheduleAgain(f, thread)
      PROVE  CountInv'
  <2>1. ActiveCountExact' /\ IdleCountExact'
    BY <1>4, NobodyMovesCounts DEF ScheduleAgain, pool
  <2>2. HandOK' /\ OwnerOK'
    BY <1>4 DEF ScheduleAgain, HandOK, OwnerOK, hand, pool
  <2>3. Entry(f, thread) \in [task : Task, thread : Threads \cup {AnyThread}]
    BY ConstantsAssumption DEF Entry, Task
  <2>4. m_fibers' \in Seq([task : Task, thread : Threads \cup {AnyThread}])
    BY <1>4, <2>3, AppendType DEF ScheduleAgain, TypeOK
  <2>5. TypeOK'
    BY <1>4, <2>4 DEF ScheduleAgain, TypeOK, hand, pool, ghost
  <2> QED BY <2>1, <2>2, <2>5
<1>5. ASSUME NEW f \in FiberObj, Wake(f)
      PROVE  CountInv'
  <2>1. ActiveCountExact' /\ IdleCountExact'
    BY <1>5, NobodyMovesCounts DEF Wake, pool
  <2>2. HandOK' /\ OwnerOK'
    BY <1>5 DEF Wake, HandOK, OwnerOK, hand, pool
  <2>3. Entry(f, AnyThread) \in [task : Task, thread : Threads \cup {AnyThread}]
    BY DEF Entry, Task, FiberObj
  <2>4. m_fibers' \in Seq([task : Task, thread : Threads \cup {AnyThread}])
    BY <1>5, <2>3, AppendType DEF Wake, TypeOK
  <2>5. TypeOK'
    BY <1>5, <2>4 DEF Wake, TypeOK, hand, pool, ghost
  <2> QED BY <2>1, <2>2, <2>5
<1> QED BY <1>1, <1>2, <1>3, <1>4, <1>5 DEF ClientStep

\* stop() keeps the counters exact.
LEMMA StopCountInv ==
  ASSUME CountInv, StopStep
  PROVE  CountInv'
<1> USE DEF CountInv
<1>1. CASE StopReturnsEarly
  <2>1. ActiveCountExact' /\ IdleCountExact'
    BY <1>1, NobodyMovesCounts DEF StopReturnsEarly
  <2>2. HandOK' /\ OwnerOK' /\ TypeOK'
    BY <1>1 DEF StopReturnsEarly, HandOK, OwnerOK, TypeOK, hand, ghost
  <2> QED BY <2>1, <2>2
<1>2. CASE StopCalls
  <2>1. pc[Caller] \in {"off", "exit"} /\ Caller \in Threads
    BY <1>2 DEF StopCalls, OwnerOK, Threads
  <2>2. ActiveCountExact' /\ IdleCountExact'
    BY <1>2, <2>1, UncountedMoves DEF StopCalls, TypeOK
  <2>3. HandOK'
    BY <1>2, <2>1 DEF StopCalls, HandOK, TypeOK, hand, Counted, OnStack
  <2>4. OwnerOK'
    BY <1>2 DEF StopCalls, OwnerOK
  <2>5. TypeOK'
    <3>1. failed' \in Aborts \cup {"none"}
      BY <1>2 DEF StopCalls, SYLAR_ASSERT, Aborts, TypeOK
    <3> QED BY <1>2, <3>1 DEF StopCalls, TypeOK, hand, ghost, PCs, States
  <2> QED BY <2>2, <2>3, <2>4, <2>5
<1>3. CASE StopCallEnds
  <2>1. ActiveCountExact' /\ IdleCountExact'
    BY <1>3, NobodyMovesCounts DEF StopCallEnds
  <2>2. HandOK' /\ OwnerOK' /\ TypeOK'
    BY <1>3 DEF StopCallEnds, HandOK, OwnerOK, TypeOK, hand, ghost, States
  <2> QED BY <2>1, <2>2
<1>4. CASE StopSkipsCall
  <2>1. ActiveCountExact' /\ IdleCountExact'
    BY <1>4, NobodyMovesCounts DEF StopSkipsCall
  <2>2. HandOK' /\ OwnerOK' /\ TypeOK'
    BY <1>4 DEF StopSkipsCall, HandOK, OwnerOK, TypeOK, hand, ghost
  <2> QED BY <2>1, <2>2
<1>5. CASE StopJoins
  <2>1. ActiveCountExact' /\ IdleCountExact'
    BY <1>5, UncountedMoves DEF StopJoins, TypeOK
  <2>2. HandOK'
    BY <1>5 DEF StopJoins, HandOK, TypeOK, hand, Counted, OnStack
  <2>3. OwnerOK'
    BY <1>5, ConstantsAssumption DEF StopJoins, OwnerOK, Threads
  <2>4. TypeOK'
    BY <1>5 DEF StopJoins, TypeOK, hand, ghost, PCs
  <2> QED BY <2>1, <2>2, <2>3, <2>4
<1> QED BY <1>1, <1>2, <1>3, <1>4, <1>5 DEF StopStep

\* Every step of a pool thread keeps the counters exact.
LEMMA ThreadCountInv ==
  ASSUME CountInv, NEW t \in Threads, ThreadStep(t)
  PROVE  CountInv'
  BY PickTaskCountInv, EnterIdleCountInv, RunReturnsCountInv, IdleCountInv,
     IdleReturnsCountInv, DropFinishedCountInv, EnterFiberCountInv, EnterCbCountInv,
     MainFuncCountInv, YieldToReadyCountInv, ParkCountInv, SwitchToCountInv,
     YieldToHoldCountInv, SwapOutCountInv, SettleCountInv
  DEF ThreadStep

\* A step that changes nothing keeps the counters exact.
LEMMA StutterCountInv ==
  ASSUME CountInv, UNCHANGED vars
  PROVE  CountInv'
<1> USE DEF CountInv
<1>1. ActiveCountExact' /\ IdleCountExact'
  BY NobodyMovesCounts DEF vars, pool
<1>2. HandOK' /\ OwnerOK' /\ TypeOK'
  BY DEF vars, pool, hand, ghost, HandOK, OwnerOK, TypeOK
<1> QED BY <1>1, <1>2

\* Every step keeps the counters exact.
LEMMA NextCountInv == CountInv /\ [Next]_vars => CountInv'
  BY ClientCountInv, StopCountInv, ThreadCountInv, StutterCountInv DEF Next, Terminated

\* CountInv is inductive: both counters of the pool are exact in every state.
THEOREM CountInvHolds == Spec => []CountInv
<1>1. Init => CountInv
  BY InitCountInv
<1>2. CountInv /\ [Next]_vars => CountInv'
  BY NextCountInv
<1> QED BY <1>1, <1>2, PTL DEF Spec

\* Every variable of the pool keeps its type; in particular neither counter is
\* ever decremented below zero (both are unsigned in the code).
THEOREM TypeCorrect == Spec => []TypeOK
<1>1. CountInv => TypeOK
  BY DEF CountInv
<1> QED BY <1>1, CountInvHolds, PTL

\* m_activeThreadCount is exact for any number of threads and tasks, with fibers
\* scheduled at any time, up to the first abort.
THEOREM ActiveCountIsExact == Spec => []ActiveCountExact
<1>1. CountInv => ActiveCountExact
  BY DEF CountInv
<1> QED BY <1>1, CountInvHolds, PTL

\* m_idleThreadCount is exact in the same sense.
THEOREM IdleCountIsExact == Spec => []IdleCountExact
<1>1. CountInv => IdleCountExact
  BY DEF CountInv
<1> QED BY <1>1, CountInvHolds, PTL
-----------------------------------------------------------------------------
(* Who has a fiber. While no fiber is scheduled before it has been swapped out, *)
(* every task is in one place only: in the queue once, in the hand of one       *)
(* thread, or with an event source; the last two overlap from the moment a body *)
(* registers its fiber until run() has set it to HOLD.                          *)

QueueDistinct ==
    \A i, j \in DOMAIN m_fibers : i # j => m_fibers[i].task # m_fibers[j].task

QueueUnheld ==
    \A i \in DOMAIN m_fibers :
        /\ m_fibers[i].task \notin parked
        /\ \A t \in Threads : m_fibers[i].task # ft[t] /\ m_fibers[i].task # cb_fiber[t]

HandsDisjoint ==
    /\ \A t, u \in Threads : t # u /\ ft[t] # None => ft[t] # ft[u]
    /\ \A t, u \in Threads : ft[t] # None => ft[t] # cb_fiber[u]
    /\ \A t, u \in Threads : t # u /\ cb_fiber[t] # None => cb_fiber[t] # cb_fiber[u]

ParkedLeaving ==
    \A t \in Threads : \A f \in parked :
        f = ft[t] \/ f = cb_fiber[t] =>
            /\ pc[t] \in {"yield", "swap", "settle"} /\ f = Cur(t)
            /\ pc[t] # "yield" => m_state[f] = "HOLD"

NewUntouched ==
    \A w \in Work : phase[w] = "new" =>
        /\ w \notin parked
        /\ \A i \in DOMAIN m_fibers : m_fibers[i].task # w
        /\ \A t \in Threads : ft[t] # w

ExclInv == QueueDistinct /\ QueueUnheld /\ HandsDisjoint /\ ParkedLeaving /\ NewUntouched

\* A pool that has not been started has no task anywhere.
LEMMA InitExclInv == Init => ExclInv
<1> SUFFICES ASSUME Init PROVE ExclInv
  OBVIOUS
<1>1. DOMAIN m_fibers = {} /\ parked = {}
  BY DEF Init
<1>2. QueueDistinct /\ QueueUnheld /\ ParkedLeaving
  BY <1>1 DEF QueueDistinct, QueueUnheld, ParkedLeaving
<1>3. HandsDisjoint
  BY DEF Init, HandsDisjoint
<1>4. NewUntouched
  BY <1>1, ConstantsAssumption DEF Init, NewUntouched, Work, Task
<1> QED BY <1>2, <1>3, <1>4 DEF ExclInv

\* Behind an erased entry the queue moves up by one.
LEMMA RemoveAtElem ==
  ASSUME NEW S, NEW s \in Seq(S), NEW i \in DOMAIN s, NEW k \in DOMAIN RemoveAt(s, i)
  PROVE  LET j == IF k < i THEN k ELSE k + 1
         IN  j \in DOMAIN s /\ j # i /\ RemoveAt(s, i)[k] = s[j]
<1> DEFINE a == SubSeq(s, 1, i - 1)
           b == SubSeq(s, i + 1, Len(s))
<1>1. i \in 1..Len(s) /\ Len(s) \in Nat
  OBVIOUS
<1>2. a \in Seq(S) /\ Len(a) = i - 1 /\ \A n \in 1..(i - 1) : a[n] = s[n]
  BY <1>1
<1>3. b \in Seq(S) /\ Len(b) = Len(s) - i /\ \A n \in 1..(Len(s) - i) : b[n] = s[i + n]
  BY <1>1
<1> HIDE DEF a, b
<1>4. k \in 1..(Len(s) - 1)
  BY <1>1, <1>2, <1>3 DEF RemoveAt, a, b
<1>5. RemoveAt(s, i) = a \o b
  BY DEF RemoveAt, a, b
<1>6. CASE k < i
  BY <1>1, <1>2, <1>3, <1>4, <1>5, <1>6
<1>7. CASE ~(k < i)
  <2>1. (a \o b)[k] = b[k - (i - 1)]
    BY <1>1, <1>2, <1>3, <1>4, <1>7
  <2>2. b[k - (i - 1)] = s[k + 1]
    BY <1>1, <1>3, <1>4, <1>7
  <2> QED BY <1>1, <1>4, <1>5, <1>7, <2>1, <2>2
<1> QED BY <1>6, <1>7

\* An entry of the longer queue was there before or is the appended one.
LEMMA AppendElem ==
  ASSUME NEW S, NEW s \in Seq(S), NEW e, NEW k \in DOMAIN Append(s, e)
  PROVE  \/ k \in DOMAIN s /\ Append(s, e)[k] = s[k]
         \/ k = Len(s) + 1 /\ k \notin DOMAIN s /\ Append(s, e)[k] = e
  OBVIOUS

\* No null pointer is queued or parked.
LEMMA NoNulls ==
  ASSUME TypeOK
  PROVE  /\ \A i \in DOMAIN m_fibers : m_fibers[i].task # None
         /\ None \notin parked
  BY EntryType, ConstantsAssumption DEF TypeOK, FiberObj, Task

\* The fiber in one thread's hand is in no other's.
LEMMA CurElsewhere ==
  ASSUME HandsDisjoint, NEW t \in Threads, NEW u \in Threads, u # t, Cur(t) # None
  PROVE  Cur(t) # ft[u] /\ Cur(t) # cb_fiber[u]
  BY DEF HandsDisjoint, Cur

\* A step that moves thread t to x, changes the state and the parking of fiber s
\* at most, and leaves t with no parked fiber but the one it is swapping out.
MovesOnly(t, x, s) ==
    /\ pc' = [pc EXCEPT ![t] = x]
    /\ \A u \in Threads : u # t => ft'[u] = ft[u] /\ cb_fiber'[u] = cb_fiber[u]
    /\ \A f \in parked' : f \in parked \/ f = s
    /\ \A u \in Threads : u # t => s # ft[u] /\ s # cb_fiber[u]
    /\ \A f \in FiberObj : f # s => m_state'[f] = m_state[f]
    /\ \A f \in parked' : f = ft'[t] \/ f = cb_fiber'[t] =>
           /\ x \in {"yield", "swap", "settle"} /\ f = Cur(t)'
           /\ x # "yield" => m_state'[f] = "HOLD"

\* It leaves the other threads' parked fibers alone.
LEMMA ParkedStep ==
  ASSUME TypeOK, ParkedLeaving, NEW t \in Threads, NEW x, NEW s, MovesOnly(t, x, s)
  PROVE  ParkedLeaving'
<1> USE DEF MovesOnly
<1> SUFFICES ASSUME NEW u \in Threads, NEW f \in parked', f = ft'[u] \/ f = cb_fiber'[u]
             PROVE  /\ pc'[u] \in {"yield", "swap", "settle"} /\ f = Cur(u)'
                    /\ pc'[u] # "yield" => m_state'[f] = "HOLD"
  BY DEF ParkedLeaving
<1>1. CASE u = t
  BY <1>1 DEF TypeOK
<1>2. CASE u # t
  <2>1. f \in parked /\ f # s /\ f \in FiberObj
    BY <1>2 DEF TypeOK
  <2>2. pc'[u] = pc[u] /\ ft'[u] = ft[u] /\ cb_fiber'[u] = cb_fiber[u]
    BY <1>2 DEF TypeOK
  <2>3. m_state'[f] = m_state[f] /\ Cur(u)' = Cur(u)
    BY <2>1, <2>2 DEF Cur
  <2> QED BY <2>1, <2>2, <2>3 DEF ParkedLeaving
<1> QED BY <1>1, <1>2

\* EnterIdle keeps each task in one place.
LEMMA EnterIdleExclInv ==
  ASSUME CountInv, ExclInv, NEW t \in Threads, EnterIdle(t)
  PROVE  ExclInv'
<1> USE DEF ExclInv
<1>1. QueueDistinct'
  BY DEF EnterIdle, QueueDistinct
<1>2. QueueUnheld'
  BY NoNulls DEF EnterIdle, QueueUnheld, hand, CountInv, TypeOK
<1>3. HandsDisjoint'
  BY DEF EnterIdle, HandsDisjoint, hand, CountInv, TypeOK
<1>4. ParkedLeaving'
  <2>1. \A f \in parked : f # ft[t] /\ f # cb_fiber[t]
    BY DEF EnterIdle, ParkedLeaving
  <2>2. parked' = parked /\ m_state' = m_state
    BY DEF EnterIdle
  <2>3. \A f \in parked : f # ft'[t] /\ f # cb_fiber'[t]
    BY <2>1, NoNulls DEF EnterIdle, hand, CountInv, TypeOK
  <2>4. \A u \in Threads : u # t => ft'[u] = ft[u] /\ cb_fiber'[u] = cb_fiber[u]
    BY DEF EnterIdle, hand, CountInv, TypeOK
  <2>5. \A u \in Threads : u # t => pc'[u] = pc[u]
    BY DEF EnterIdle, CountInv, TypeOK
  <2> QED BY <2>2, <2>3, <2>4, <2>5 DEF ParkedLeaving, Cur
<1>5. NewUntouched'
  BY ConstantsAssumption DEF EnterIdle, NewUntouched, hand, ghost, CountInv, TypeOK, Work, Task
<1> QED BY <1>1, <1>2, <1>3, <1>4, <1>5

\* RunReturns keeps each task in one place.
LEMMA RunReturnsExclInv ==
  ASSUME CountInv, ExclInv, NEW t \in Threads, RunReturns(t)
  PROVE  ExclInv'
<1> USE DEF ExclInv
<1>1. QueueDistinct'
  BY DEF RunReturns, QueueDistinct
<1>2. QueueUnheld'
  BY NoNulls DEF RunReturns, QueueUnheld, hand, CountInv, TypeOK
<1>3. HandsDisjoint'
  BY DEF RunReturns, HandsDisjoint, hand, CountInv, TypeOK
<1>4. ParkedLeaving'
  <2>1. \A f \in parked : f # ft[t] /\ f # cb_fiber[t]
    BY DEF RunReturns, ParkedLeaving
  <2>2. parked' = parked /\ m_state' = m_state
    BY DEF RunReturns
  <2>3. \A f \in parked : f # ft'[t] /\ f # cb_fiber'[t]
    BY <2>1, NoNulls DEF RunReturns, hand, CountInv, TypeOK
  <2>4. \A u \in Threads : u # t => ft'[u] = ft[u] /\ cb_fiber'[u] = cb_fiber[u]
    BY DEF RunReturns, hand, CountInv, TypeOK
  <2>5. \A u \in Threads : u # t => pc'[u] = pc[u]
    BY DEF RunReturns, CountInv, TypeOK
  <2> QED BY <2>2, <2>3, <2>4, <2>5 DEF ParkedLeaving, Cur
<1>5. NewUntouched'
  BY ConstantsAssumption DEF RunReturns, NewUntouched, hand, ghost, CountInv, TypeOK, Work, Task
<1> QED BY <1>1, <1>2, <1>3, <1>4, <1>5

\* Idle keeps each task in one place.
LEMMA IdleExclInv ==
  ASSUME CountInv, ExclInv, NEW t \in Threads, Idle(t)
  PROVE  ExclInv'
<1> USE DEF ExclInv
<1>1. QueueDistinct'
  BY DEF Idle, QueueDistinct
<1>2. QueueUnheld'
  BY NoNulls DEF Idle, QueueUnheld, hand, CountInv, TypeOK
<1>3. HandsDisjoint'
  BY DEF Idle, HandsDisjoint, hand, CountInv, TypeOK
<1>4. ParkedLeaving'
  <2>1. \A f \in parked : f # ft[t] /\ f # cb_fiber[t]
    BY DEF Idle, ParkedLeaving
  <2>2. parked' = parked /\ m_state' = m_state
    BY DEF Idle
  <2>3. \A f \in parked : f # ft'[t] /\ f # cb_fiber'[t]
    BY <2>1, NoNulls DEF Idle, hand, CountInv, TypeOK
  <2>4. \A u \in Threads : u # t => ft'[u] = ft[u] /\ cb_fiber'[u] = cb_fiber[u]
    BY DEF Idle, hand, CountInv, TypeOK
  <2>5. \A u \in Threads : u # t => pc'[u] = pc[u]
    BY DEF Idle, CountInv, TypeOK
  <2> QED BY <2>2, <2>3, <2>4, <2>5 DEF ParkedLeaving, Cur
<1>5. NewUntouched'
  BY ConstantsAssumption DEF Idle, NewUntouched, hand, ghost, CountInv, TypeOK, Work, Task
<1> QED BY <1>1, <1>2, <1>3, <1>4, <1>5

\* IdleReturns keeps each task in one place.
LEMMA IdleReturnsExclInv ==
  ASSUME CountInv, ExclInv, NEW t \in Threads, IdleReturns(t)
  PROVE  ExclInv'
<1> USE DEF ExclInv
<1>1. QueueDistinct'
  BY DEF IdleReturns, QueueDistinct
<1>2. QueueUnheld'
  BY NoNulls DEF IdleReturns, QueueUnheld, hand, CountInv, TypeOK
<1>3. HandsDisjoint'
  BY DEF IdleReturns, HandsDisjoint, hand, CountInv, TypeOK
<1>4. ParkedLeaving'
  <2>1. \A f \in parked : f # ft[t] /\ f # cb_fiber[t]
    BY DEF IdleReturns, ParkedLeaving
  <2>2. parked' = parked /\ m_state' = m_state
    BY DEF IdleReturns
  <2>3. \A f \in parked : f # ft'[t] /\ f # cb_fiber'[t]
    BY <2>1, NoNulls DEF IdleReturns, hand, CountInv, TypeOK
  <2>4. \A u \in Threads : u # t => ft'[u] = ft[u] /\ cb_fiber'[u] = cb_fiber[u]
    BY DEF IdleReturns, hand, CountInv, TypeOK
  <2>5. \A u \in Threads : u # t => pc'[u] = pc[u]
    BY DEF IdleReturns, CountInv, TypeOK
  <2> QED BY <2>2, <2>3, <2>4, <2>5 DEF ParkedLeaving, Cur
<1>5. NewUntouched'
  BY ConstantsAssumption DEF IdleReturns, NewUntouched, hand, ghost, CountInv, TypeOK, Work, Task
<1> QED BY <1>1, <1>2, <1>3, <1>4, <1>5

\* DropFinished keeps each task in one place.
LEMMA DropFinishedExclInv ==
  ASSUME CountInv, ExclInv, NEW t \in Threads, DropFinished(t)
  PROVE  ExclInv'
<1> USE DEF ExclInv
<1>1. QueueDistinct'
  BY DEF DropFinished, QueueDistinct
<1>2. QueueUnheld'
  BY NoNulls DEF DropFinished, QueueUnheld, hand, CountInv, TypeOK
<1>3. HandsDisjoint'
  BY DEF DropFinished, HandsDisjoint, hand, CountInv, TypeOK
<1>4. ParkedLeaving'
  <2>1. \A f \in parked : f # ft[t] /\ f # cb_fiber[t]
    BY DEF DropFinished, ParkedLeaving
  <2>2. parked' = parked /\ m_state' = m_state
    BY DEF DropFinished
  <2>3. \A f \in parked : f # ft'[t] /\ f # cb_fiber'[t]
    BY <2>1, NoNulls DEF DropFinished, hand, CountInv, TypeOK
  <2>4. \A u \in Threads : u # t => ft'[u] = ft[u] /\ cb_fiber'[u] = cb_fiber[u]
    BY DEF DropFinished, hand, CountInv, TypeOK
  <2>5. \A u \in Threads : u # t => pc'[u] = pc[u]
    BY DEF DropFinished, CountInv, TypeOK
  <2> QED BY <2>2, <2>3, <2>4, <2>5 DEF ParkedLeaving, Cur
<1>5. NewUntouched'
  BY ConstantsAssumption DEF DropFinished, NewUntouched, hand, ghost, CountInv, TypeOK, Work, Task
<1> QED BY <1>1, <1>2, <1>3, <1>4, <1>5

\* EnterFiber keeps each task in one place.
LEMMA EnterFiberExclInv ==
  ASSUME CountInv, ExclInv, NEW t \in Threads, EnterFiber(t)
  PROVE  ExclInv'
<1> USE DEF ExclInv
<1>1. QueueDistinct'
  BY DEF EnterFiber, QueueDistinct
<1>2. QueueUnheld'
  BY NoNulls DEF EnterFiber, QueueUnheld, hand, CountInv, TypeOK
<1>3. HandsDisjoint'
  BY DEF EnterFiber, HandsDisjoint, hand, CountInv, TypeOK
<1>4. ParkedLeaving'
  <2>1. Cur(t) # None
    BY ConstantsAssumption DEF EnterFiber, Cur, FiberObj, Task
  <2>2. \A u \in Threads : u # t => Cur(t) # ft[u] /\ Cur(t) # cb_fiber[u]
    BY <2>1, CurElsewhere
  <2>3. \A f \in FiberObj : f # Cur(t) => m_state'[f] = m_state[f]
    BY ConstantsAssumption DEF EnterFiber, CountInv, TypeOK, Cur, FiberObj, Task
  <2>4. \A f \in parked' : f = ft'[t] \/ f = cb_fiber'[t] =>
             /\ "body" \in {"yield", "swap", "settle"} /\ f = Cur(t)'
             /\ "body" # "yield" => m_state'[f] = "HOLD"
    BY DEF EnterFiber, ParkedLeaving, hand
  <2>5. \A f \in parked' : f \in parked \/ f = Cur(t)
    BY DEF EnterFiber
  <2>6. pc' = [pc EXCEPT ![t] = "body"] /\ ft' = ft /\ cb_fiber' = cb_fiber
    BY DEF EnterFiber, hand
  <2>7. \A u \in Threads : u # t => ft'[u] = ft[u] /\ cb_fiber'[u] = cb_fiber[u]
    BY <2>6
  <2>8. TypeOK /\ ParkedLeaving /\ pc' = [pc EXCEPT ![t] = "body"]
    BY <2>6 DEF CountInv
  <2>9. MovesOnly(t, "body", Cur(t))
    BY <2>2, <2>3, <2>4, <2>5, <2>7, <2>8 DEF MovesOnly
  <2> QED BY <2>8, <2>9, ParkedStep
<1>5. NewUntouched'
  BY ConstantsAssumption DEF EnterFiber, NewUntouched, hand, ghost, CountInv, TypeOK, Work, Task
<1> QED BY <1>1, <1>2, <1>3, <1>4, <1>5

\* MainFunc keeps each task in one place.
LEMMA MainFuncExclInv ==
  ASSUME CountInv, ExclInv, NEW t \in Threads, NEW end \in Over, MainFunc(t, end)
  PROVE  ExclInv'
<1> USE DEF ExclInv
<1>1. QueueDistinct'
  BY DEF MainFunc, QueueDistinct
<1>2. QueueUnheld'
  BY NoNulls DEF MainFunc, QueueUnheld, hand, CountInv, TypeOK
<1>3. HandsDisjoint'
  BY DEF MainFunc, HandsDisjoint, hand, CountInv, TypeOK
<1>4. ParkedLeaving'
  <2>1. Cur(t) # None
    BY CurIsFiber, ConstantsAssumption DEF MainFunc, CountInv, OnStack, FiberObj, Task
  <2>2. \A u \in Threads : u # t => Cur(t) # ft[u] /\ Cur(t) # cb_fiber[u]
    BY <2>1, CurElsewhere
  <2>3. \A f \in FiberObj : f # Cur(t) => m_state'[f] = m_state[f]
    BY DEF MainFunc, CountInv, TypeOK
  <2>4. \A f \in parked' : f = ft'[t] \/ f = cb_fiber'[t] =>
             /\ "swap" \in {"yield", "swap", "settle"} /\ f = Cur(t)'
             /\ "swap" # "yield" => m_state'[f] = "HOLD"
    BY DEF MainFunc, ParkedLeaving, hand
  <2>5. \A f \in parked' : f \in parked \/ f = Cur(t)
    BY DEF MainFunc
  <2>6. pc' = [pc EXCEPT ![t] = "swap"] /\ ft' = ft /\ cb_fiber' = cb_fiber
    BY DEF MainFunc, hand
  <2>7. \A u \in Threads : u # t => ft'[u] = ft[u] /\ cb_fiber'[u] = cb_fiber[u]
    BY <2>6
  <2>8. TypeOK /\ ParkedLeaving /\ pc' = [pc EXCEPT ![t] = "swap"]
    BY <2>6 DEF CountInv
  <2>9. MovesOnly(t, "swap", Cur(t))
    BY <2>2, <2>3, <2>4, <2>5, <2>7, <2>8 DEF MovesOnly
  <2> QED BY <2>8, <2>9, ParkedStep
<1>5. NewUntouched'
  BY ConstantsAssumption DEF MainFunc, NewUntouched, hand, ghost, CountInv, TypeOK, Work, Task
<1> QED BY <1>1, <1>2, <1>3, <1>4, <1>5

\* YieldToReady keeps each task in one place.
LEMMA YieldToReadyExclInv ==
  ASSUME CountInv, ExclInv, NEW t \in Threads, YieldToReady(t)
  PROVE  ExclInv'
<1> USE DEF ExclInv
<1>1. QueueDistinct'
  BY DEF YieldToReady, QueueDistinct
<1>2. QueueUnheld'
  BY NoNulls DEF YieldToReady, QueueUnheld, hand, CountInv, TypeOK
<1>3. HandsDisjoint'
  BY DEF YieldToReady, HandsDisjoint, hand, CountInv, TypeOK
<1>4. ParkedLeaving'
  <2>1. Cur(t) # None
    BY CurIsFiber, ConstantsAssumption DEF YieldToReady, CountInv, OnStack, FiberObj, Task
  <2>2. \A u \in Threads : u # t => Cur(t) # ft[u] /\ Cur(t) # cb_fiber[u]
    BY <2>1, CurElsewhere
  <2>3. \A f \in FiberObj : f # Cur(t) => m_state'[f] = m_state[f]
    BY DEF YieldToReady, CountInv, TypeOK
  <2>4. \A f \in parked' : f = ft'[t] \/ f = cb_fiber'[t] =>
             /\ "swap" \in {"yield", "swap", "settle"} /\ f = Cur(t)'
             /\ "swap" # "yield" => m_state'[f] = "HOLD"
    BY DEF YieldToReady, ParkedLeaving, hand
  <2>5. \A f \in parked' : f \in parked \/ f = Cur(t)
    BY DEF YieldToReady
  <2>6. pc' = [pc EXCEPT ![t] = "swap"] /\ ft' = ft /\ cb_fiber' = cb_fiber
    BY DEF YieldToReady, hand
  <2>7. \A u \in Threads : u # t => ft'[u] = ft[u] /\ cb_fiber'[u] = cb_fiber[u]
    BY <2>6
  <2>8. TypeOK /\ ParkedLeaving /\ pc' = [pc EXCEPT ![t] = "swap"]
    BY <2>6 DEF CountInv
  <2>9. MovesOnly(t, "swap", Cur(t))
    BY <2>2, <2>3, <2>4, <2>5, <2>7, <2>8 DEF MovesOnly
  <2> QED BY <2>8, <2>9, ParkedStep
<1>5. NewUntouched'
  BY ConstantsAssumption DEF YieldToReady, NewUntouched, hand, ghost, CountInv, TypeOK, Work, Task
<1> QED BY <1>1, <1>2, <1>3, <1>4, <1>5

\* YieldToHold keeps each task in one place.
LEMMA YieldToHoldExclInv ==
  ASSUME CountInv, ExclInv, NEW t \in Threads, YieldToHold(t)
  PROVE  ExclInv'
<1> USE DEF ExclInv
<1>1. QueueDistinct'
  BY DEF YieldToHold, QueueDistinct
<1>2. QueueUnheld'
  BY NoNulls DEF YieldToHold, QueueUnheld, hand, CountInv, TypeOK
<1>3. HandsDisjoint'
  BY DEF YieldToHold, HandsDisjoint, hand, CountInv, TypeOK
<1>4. ParkedLeaving'
  <2>1. Cur(t) # None
    BY CurIsFiber, ConstantsAssumption DEF YieldToHold, CountInv, OnStack, FiberObj, Task
  <2>2. \A u \in Threads : u # t => Cur(t) # ft[u] /\ Cur(t) # cb_fiber[u]
    BY <2>1, CurElsewhere
  <2>3. \A f \in FiberObj : f # Cur(t) => m_state'[f] = m_state[f]
    BY DEF YieldToHold, CountInv, TypeOK
  <2>4. \A f \in parked' : f = ft'[t] \/ f = cb_fiber'[t] =>
             /\ "swap" \in {"yield", "swap", "settle"} /\ f = Cur(t)'
             /\ "swap" # "yield" => m_state'[f] = "HOLD"
    BY <2>1 DEF YieldToHold, ParkedLeaving, hand, Cur, CountInv, TypeOK
  <2>5. \A f \in parked' : f \in parked \/ f = Cur(t)
    BY DEF YieldToHold
  <2>6. pc' = [pc EXCEPT ![t] = "swap"] /\ ft' = ft /\ cb_fiber' = cb_fiber
    BY DEF YieldToHold, hand
  <2>7. \A u \in Threads : u # t => ft'[u] = ft[u] /\ cb_fiber'[u] = cb_fiber[u]
    BY <2>6
  <2>8. TypeOK /\ ParkedLeaving /\ pc' = [pc EXCEPT ![t] = "swap"]
    BY <2>6 DEF CountInv
  <2>9. MovesOnly(t, "swap", Cur(t))
    BY <2>2, <2>3, <2>4, <2>5, <2>7, <2>8 DEF MovesOnly
  <2> QED BY <2>8, <2>9, ParkedStep
<1>5. NewUntouched'
  BY ConstantsAssumption DEF YieldToHold, NewUntouched, hand, ghost, CountInv, TypeOK, Work, Task
<1> QED BY <1>1, <1>2, <1>3, <1>4, <1>5

\* SwapOut keeps each task in one place.
LEMMA SwapOutExclInv ==
  ASSUME CountInv, ExclInv, NEW t \in Threads, SwapOut(t)
  PROVE  ExclInv'
<1> USE DEF ExclInv
<1>1. QueueDistinct'
  BY DEF SwapOut, QueueDistinct
<1>2. QueueUnheld'
  BY NoNulls DEF SwapOut, QueueUnheld, hand, CountInv, TypeOK
<1>3. HandsDisjoint'
  BY DEF SwapOut, HandsDisjoint, hand, CountInv, TypeOK
<1>4. ParkedLeaving'
  <2>1. Cur(t) # None
    BY CurIsFiber, ConstantsAssumption DEF SwapOut, CountInv, OnStack, FiberObj, Task
  <2>2. \A u \in Threads : u # t => Cur(t) # ft[u] /\ Cur(t) # cb_fiber[u]
    BY <2>1, CurElsewhere
  <2>3. \A f \in FiberObj : f # Cur(t) => m_state'[f] = m_state[f]
    BY DEF SwapOut, CountInv, TypeOK
  <2>4. \A f \in parked' : f = ft'[t] \/ f = cb_fiber'[t] =>
             /\ "settle" \in {"yield", "swap", "settle"} /\ f = Cur(t)'
             /\ "settle" # "yield" => m_state'[f] = "HOLD"
    BY DEF SwapOut, ParkedLeaving, hand, Cur
  <2>5. \A f \in parked' : f \in parked \/ f = Cur(t)
    BY DEF SwapOut
  <2>6. pc' = [pc EXCEPT ![t] = "settle"] /\ ft' = ft /\ cb_fiber' = cb_fiber
    BY DEF SwapOut, hand
  <2>7. \A u \in Threads : u # t => ft'[u] = ft[u] /\ cb_fiber'[u] = cb_fiber[u]
    BY <2>6
  <2>8. TypeOK /\ ParkedLeaving /\ pc' = [pc EXCEPT ![t] = "settle"]
    BY <2>6 DEF CountInv
  <2>9. MovesOnly(t, "settle", Cur(t))
    BY <2>2, <2>3, <2>4, <2>5, <2>7, <2>8 DEF MovesOnly
  <2> QED BY <2>8, <2>9, ParkedStep
<1>5. NewUntouched'
  BY ConstantsAssumption DEF SwapOut, NewUntouched, hand, ghost, CountInv, TypeOK, Work, Task
<1> QED BY <1>1, <1>2, <1>3, <1>4, <1>5

\* Park keeps each task in one place.
LEMMA ParkExclInv ==
  ASSUME CountInv, ExclInv, NEW t \in Threads, Park(t)
  PROVE  ExclInv'
<1> USE DEF ExclInv
<1>1. QueueDistinct'
  BY DEF Park, QueueDistinct
<1>2. QueueUnheld'
  <2>1. \A i \in DOMAIN m_fibers : m_fibers[i].task # Cur(t)
    BY DEF QueueUnheld, Cur
  <2> QED BY <2>1 DEF Park, QueueUnheld, hand
<1>3. HandsDisjoint'
  BY DEF Park, HandsDisjoint, hand, CountInv, TypeOK
<1>4. ParkedLeaving'
  <2>1. Cur(t) # None
    BY CurIsFiber, ConstantsAssumption DEF Park, CountInv, OnStack, FiberObj, Task
  <2>2. \A u \in Threads : u # t => Cur(t) # ft[u] /\ Cur(t) # cb_fiber[u]
    BY <2>1, CurElsewhere
  <2>3. \A f \in FiberObj : f # Cur(t) => m_state'[f] = m_state[f]
    BY DEF Park, CountInv, TypeOK
  <2>4. \A f \in parked' : f = ft'[t] \/ f = cb_fiber'[t] =>
             /\ "yield" \in {"yield", "swap", "settle"} /\ f = Cur(t)'
             /\ "yield" # "yield" => m_state'[f] = "HOLD"
    <3>1. \A f \in parked : f # ft[t] /\ f # cb_fiber[t]
      BY DEF Park, ParkedLeaving
    <3>2. ft' = ft /\ cb_fiber' = cb_fiber
      BY DEF Park, hand
    <3>3. Cur(t)' = Cur(t)
      BY <3>2 DEF Cur
    <3> QED BY <3>1, <3>2, <3>3 DEF Park
  <2>5. \A f \in parked' : f \in parked \/ f = Cur(t)
    BY DEF Park
  <2>6. pc' = [pc EXCEPT ![t] = "yield"] /\ ft' = ft /\ cb_fiber' = cb_fiber
    BY DEF Park, hand
  <2>7. \A u \in Threads : u # t => ft'[u] = ft[u] /\ cb_fiber'[u] = cb_fiber[u]
    BY <2>6
  <2>8. TypeOK /\ ParkedLeaving /\ pc' = [pc EXCEPT ![t] = "yield"]
    BY <2>6 DEF CountInv
  <2>9. MovesOnly(t, "yield", Cur(t))
    BY <2>2, <2>3, <2>4, <2>5, <2>7, <2>8 DEF MovesOnly
  <2> QED BY <2>8, <2>9, ParkedStep
<1>5. NewUntouched'
  <2>1. \A w \in Work : phase[w] = "new" => w # ft[t]
    BY DEF NewUntouched
  <2>2. \A w \in Work : w # cb_fiber[t]
    BY ConstantsAssumption DEF CountInv, TypeOK, Work, Task
  <2>3. \A w \in Work : phase[w] = "new" => w # Cur(t)
    BY <2>1, <2>2 DEF Cur
  <2> QED BY <2>3 DEF Park, NewUntouched, hand
<1> QED BY <1>1, <1>2, <1>3, <1>4, <1>5

\* PickTask keeps each task in one place.
LEMMA PickTaskExclInv ==
  ASSUME CountInv, ExclInv, NEW t \in Threads, PickTask(t)
  PROVE  ExclInv'
<1> USE DEF ExclInv
<1>1. PICK i \in DOMAIN m_fibers : /\ ft' = [ft EXCEPT ![t] = m_fibers[i].task]
                                   /\ m_fibers' = RemoveAt(m_fibers, i)
  BY DEF PickTask, Eligible
<1> DEFINE x == m_fibers[i].task
<1>2. \A k \in DOMAIN m_fibers' : LET j == IF k < i THEN k ELSE k + 1
         IN  j \in DOMAIN m_fibers /\ j # i /\ m_fibers'[k] = m_fibers[j]
  BY <1>1, RemoveAtElem DEF CountInv, TypeOK
<1>3. DOMAIN m_fibers' \subseteq Nat /\ i \in Nat
  <2>1. m_fibers' \in Seq([task : Task, thread : Threads \cup {AnyThread}])
    BY <1>1, RemoveAtType DEF CountInv, TypeOK
  <2> QED BY <2>1 DEF CountInv, TypeOK
<1>4. /\ x \notin parked
      /\ \A u \in Threads : x # ft[u] /\ x # cb_fiber[u]
      /\ x # None
  BY NoNulls DEF QueueUnheld, CountInv
<1>5. pc' = [pc EXCEPT ![t] = "enter"] /\ cb_fiber' = cb_fiber /\ parked' = parked
      /\ m_state' = m_state /\ phase' = phase
  BY DEF PickTask, ghost
<1>6. \A k \in DOMAIN m_fibers' : \E j \in DOMAIN m_fibers :
         j # i /\ m_fibers'[k] = m_fibers[j]
  BY <1>2
<1>7. \A k \in DOMAIN m_fibers' : m_fibers'[k].task # x
  BY <1>6 DEF QueueDistinct
<1>8. QueueDistinct'
  <2> SUFFICES ASSUME NEW k \in DOMAIN m_fibers', NEW l \in DOMAIN m_fibers', k # l
               PROVE  m_fibers'[k].task # m_fibers'[l].task
    BY DEF QueueDistinct
  <2> DEFINE J(n) == IF n < i THEN n ELSE n + 1
  <2>1. J(k) # J(l)
    BY <1>3
  <2>2. J(k) \in DOMAIN m_fibers /\ m_fibers'[k] = m_fibers[J(k)]
    BY <1>2
  <2>3. J(l) \in DOMAIN m_fibers /\ m_fibers'[l] = m_fibers[J(l)]
    BY <1>2
  <2> HIDE DEF J
  <2> QED BY <2>1, <2>2, <2>3 DEF QueueDistinct
<1>9. QueueUnheld'
  <2> SUFFICES ASSUME NEW k \in DOMAIN m_fibers'
               PROVE  /\ m_fibers'[k].task \notin parked'
                      /\ \A u \in Threads : /\ m_fibers'[k].task # ft'[u]
                                            /\ m_fibers'[k].task # cb_fiber'[u]
    BY DEF QueueUnheld
  <2>1. PICK j \in DOMAIN m_fibers : j # i /\ m_fibers'[k] = m_fibers[j]
    BY <1>6
  <2> QED BY <2>1, <1>1, <1>5, <1>7 DEF QueueUnheld, CountInv, TypeOK
<1>10. HandsDisjoint'
  <2> HIDE DEF x
  <2>1. ft' = [ft EXCEPT ![t] = x]
    BY <1>1 DEF x
  <2> QED BY <1>4, <1>5, <2>1 DEF HandsDisjoint, CountInv, TypeOK
<1>11. ParkedLeaving'
  <2> HIDE DEF x
  <2>1. ft' = [ft EXCEPT ![t] = x]
    BY <1>1 DEF x
  <2>2. \A f \in parked : f # ft[t] /\ f # cb_fiber[t]
    BY DEF PickTask, ParkedLeaving
  <2> QED BY <1>4, <1>5, <2>1, <2>2 DEF ParkedLeaving, Cur, CountInv, TypeOK
<1>12. NewUntouched'
  <2>1. \A w \in Work : phase[w] = "new" => w # x
    BY DEF NewUntouched
  <2>2. \A w \in Work : phase[w] = "new" => \A k \in DOMAIN m_fibers' : m_fibers'[k].task # w
    BY <1>6 DEF NewUntouched
  <2>3. \A w \in Work : phase[w] = "new" => \A u \in Threads : ft'[u] # w
    BY <1>1, <2>1 DEF NewUntouched, CountInv, TypeOK
  <2> QED BY <1>5, <2>2, <2>3 DEF NewUntouched
<1> QED BY <1>8, <1>9, <1>10, <1>11, <1>12

\* EnterCb keeps each task in one place.
LEMMA EnterCbExclInv ==
  ASSUME CountInv, ExclInv, NEW t \in Threads, EnterCb(t)
  PROVE  ExclInv'
<1> USE DEF ExclInv
<1>1. PICK g \in CbFiberFor(t) : /\ cb_fiber' = [cb_fiber EXCEPT ![t] = g]
                                 /\ m_state' = [m_state EXCEPT ![g] = "EXEC"]
  BY DEF EnterCb
<1>2. g \in CbFibers /\ g # None /\ g \in Task
  BY ConstantsAssumption DEF CbFiberFor, CountInv, TypeOK, Task
<1>3. \A u \in Threads : g # ft[u] /\ (u # t => g # cb_fiber[u])
  <2>1. CASE cb_fiber[t] # None
    <3>1. g = cb_fiber[t]
      BY <2>1 DEF CbFiberFor
    <3> QED BY <1>2, <3>1 DEF HandsDisjoint
  <2>2. CASE cb_fiber[t] = None
    BY <2>2 DEF CbFiberFor, Unreferenced
  <2> QED BY <2>1, <2>2
<1>4. g \notin parked /\ \A i \in DOMAIN m_fibers : m_fibers[i].task # g
  <2>1. CASE cb_fiber[t] # None
    <3>1. g = cb_fiber[t] /\ pc[t] = "enter"
      BY <2>1 DEF CbFiberFor, EnterCb
    <3> QED BY <3>1 DEF ParkedLeaving, QueueUnheld
  <2>2. CASE cb_fiber[t] = None
    BY <2>2 DEF CbFiberFor, Unreferenced, QueuedTasks
  <2> QED BY <2>1, <2>2
<1>5. /\ pc' = [pc EXCEPT ![t] = "body"] /\ ft' = [ft EXCEPT ![t] = None]
      /\ parked' = parked /\ m_fibers' = m_fibers /\ phase' = phase /\ pc[t] = "enter"
  BY DEF EnterCb, ghost
<1>6. QueueDistinct'
  BY <1>5 DEF QueueDistinct
<1>7. QueueUnheld'
  BY <1>1, <1>4, <1>5, NoNulls DEF QueueUnheld, CountInv, TypeOK
<1>8. HandsDisjoint'
  BY <1>1, <1>2, <1>3, <1>5 DEF HandsDisjoint, CountInv, TypeOK
<1>9. ParkedLeaving'
  <2>1. \A f \in parked : f # ft'[t] /\ f # cb_fiber'[t]
    BY <1>1, <1>4, <1>5, NoNulls DEF CountInv, TypeOK
  <2>2. MovesOnly(t, "body", g)
    BY <1>1, <1>2, <1>3, <1>5, <2>1 DEF MovesOnly, CountInv, TypeOK
  <2> QED BY <2>2, ParkedStep DEF CountInv
<1>10. NewUntouched'
  BY <1>5, ConstantsAssumption DEF NewUntouched, CountInv, TypeOK, Work, Task
<1> QED BY <1>6, <1>7, <1>8, <1>9, <1>10

\* A task that is nowhere may be put at the end of the queue.
LEMMA AppendExcl ==
  ASSUME TypeOK, QueueDistinct, QueueUnheld, NEW x, NEW thread,
         m_fibers' = Append(m_fibers, Entry(x, thread)),
         \A i \in DOMAIN m_fibers : m_fibers[i].task # x,
         \A i \in DOMAIN m_fibers : /\ m_fibers[i].task \notin parked'
                                    /\ \A u \in Threads : /\ m_fibers[i].task # ft'[u]
                                                          /\ m_fibers[i].task # cb_fiber'[u],
         x \notin parked',
         \A u \in Threads : x # ft'[u] /\ x # cb_fiber'[u]
  PROVE  QueueDistinct' /\ QueueUnheld'
<1>1. \A k \in DOMAIN m_fibers' : \/ k \in DOMAIN m_fibers /\ m_fibers'[k] = m_fibers[k]
                                  \/ /\ k = Len(m_fibers) + 1 /\ k \notin DOMAIN m_fibers
                                     /\ m_fibers'[k] = Entry(x, thread)
  BY AppendElem DEF TypeOK
<1>2. Entry(x, thread).task = x
  BY DEF Entry
<1>3. QueueDistinct'
  BY <1>1, <1>2 DEF QueueDistinct
<1>4. QueueUnheld'
  BY <1>1, <1>2 DEF QueueUnheld
<1> QED BY <1>3, <1>4

\* Settle keeps each task in one place.
LEMMA SettleExclInv ==
  ASSUME CountInv, ExclInv, NEW t \in Threads, Settle(t)
  PROVE  ExclInv'
<1> USE DEF ExclInv
<1> DEFINE f == Cur(t)
           isCb == ft[t] = None
           over == m_state[f] \in Over
           ready == m_state[f] = "READY"
<1>1. /\ pc[t] = "settle" /\ pc' = [pc EXCEPT ![t] = "pick"]
      /\ ft' = [ft EXCEPT ![t] = None] /\ parked' = parked /\ phase' = phase
      /\ cb_fiber' = IF isCb /\ ~over THEN [cb_fiber EXCEPT ![t] = None] ELSE cb_fiber
      /\ m_fibers' = IF ready THEN Append(m_fibers, Entry(f, AnyThread)) ELSE m_fibers
  BY DEF Settle, ghost
<1>2. \A x \in FiberObj : x # f => m_state'[x] = m_state[x]
  BY DEF Settle, CountInv, TypeOK
<1>3. f \in FiberObj /\ f # None /\ f \in Task
  BY <1>1, CurIsFiber, ConstantsAssumption DEF CountInv, FiberObj, Task
<1>4. \A u \in Threads : u # t => f # ft[u] /\ f # cb_fiber[u]
  BY <1>3, CurElsewhere
<1>5. f \in parked => m_state[f] = "HOLD"
  BY <1>1 DEF ParkedLeaving, Cur
<1>6. \A i \in DOMAIN m_fibers : m_fibers[i].task # f
  BY DEF QueueUnheld, Cur
<1>7. ~over => f # ft'[t] /\ f # cb_fiber'[t]
  <2>1. CASE isCb
    BY <1>1, <1>3, <2>1 DEF CountInv, TypeOK
  <2>2. CASE ~isCb
    BY <1>1, <1>3, <2>2 DEF CountInv, TypeOK, HandsDisjoint, Cur
  <2> QED BY <2>1, <2>2
<1>8. \A u \in Threads : u # t => ft'[u] = ft[u] /\ cb_fiber'[u] = cb_fiber[u]
  BY <1>1 DEF CountInv, TypeOK
<1>9. ft'[t] = None /\ cb_fiber'[t] \in {None, cb_fiber[t]}
  BY <1>1 DEF CountInv, TypeOK
<1>10. QueueDistinct' /\ QueueUnheld'
  <2>1. \A i \in DOMAIN m_fibers : /\ m_fibers[i].task \notin parked'
                                   /\ \A u \in Threads : /\ m_fibers[i].task # ft'[u]
                                                         /\ m_fibers[i].task # cb_fiber'[u]
    BY <1>1, <1>8, <1>9, NoNulls DEF QueueUnheld, CountInv
  <2>2. CASE ready
    <3>1. ~over /\ f \notin parked'
      BY <1>1, <1>5, <2>2 DEF Over
    <3>2. \A u \in Threads : f # ft'[u] /\ f # cb_fiber'[u]
      BY <1>4, <1>7, <1>8, <3>1
    <3> QED BY <1>1, <1>6, <2>1, <2>2, <3>1, <3>2, AppendExcl DEF CountInv
  <2>3. CASE ~ready
    BY <1>1, <2>1, <2>3 DEF QueueDistinct, QueueUnheld
  <2> QED BY <2>2, <2>3
<1>11. HandsDisjoint'
  BY <1>8, <1>9 DEF HandsDisjoint
<1>12. ParkedLeaving'
  <2>1. \A x \in parked : x # ft'[t] /\ x # cb_fiber'[t]
    <3> SUFFICES ASSUME NEW x \in parked, x = cb_fiber'[t] PROVE FALSE
      BY <1>9, NoNulls DEF CountInv
    <3>1. x = cb_fiber[t]
      BY <1>9, NoNulls DEF CountInv
    <3>2. x = f /\ m_state[f] = "HOLD"
      BY <1>1, <1>5, <3>1 DEF ParkedLeaving
    <3> QED BY <1>7, <3>2 DEF Over
  <2> HIDE DEF f
  <2>2. MovesOnly(t, "pick", f)
    BY <1>1, <1>2, <1>4, <1>8, <2>1 DEF MovesOnly
  <2> QED BY <2>2, ParkedStep DEF CountInv
<1>13. NewUntouched'
  <2>1. \A w \in Work : phase[w] = "new" => w # f
    BY ConstantsAssumption DEF NewUntouched, Cur, CountInv, TypeOK, Work
  <2>2. \A k \in DOMAIN m_fibers' : \/ k \in DOMAIN m_fibers /\ m_fibers'[k] = m_fibers[k]
                                    \/ m_fibers'[k].task = f
    BY <1>1, AppendElem DEF Entry, CountInv, TypeOK
  <2>3. \A w \in Work : phase[w] = "new" => \A k \in DOMAIN m_fibers' : m_fibers'[k].task # w
    BY <2>1, <2>2 DEF NewUntouched
  <2>4. \A w \in Work : phase[w] = "new" => \A u \in Threads : ft'[u] # w
    BY <1>8, <1>9, ConstantsAssumption DEF NewUntouched, Work, Task
  <2> QED BY <1>1, <2>3, <2>4 DEF NewUntouched
<1> QED BY <1>10, <1>11, <1>12, <1>13

\* schedule() of a new item puts it into one place.
LEMMA ScheduleExclInv ==
  ASSUME CountInv, ExclInv, NEW w \in Work, NEW thread \in Pins, Schedule(w, thread)
  PROVE  ExclInv'
<1> USE DEF ExclInv
<1>1. /\ m_fibers' = Append(m_fibers, Entry(w, thread)) /\ phase[w] = "new"
      /\ phase' = [phase EXCEPT ![w] = "live"]
      /\ UNCHANGED <<ft, cb_fiber, pc, parked, m_state>>
  BY DEF Schedule, hand
<1>2. \A u \in Threads : w # cb_fiber[u]
  BY ConstantsAssumption DEF CountInv, TypeOK, Work, Task
<1>3. /\ w \notin parked /\ \A u \in Threads : w # ft[u]
      /\ \A i \in DOMAIN m_fibers : m_fibers[i].task # w
  BY <1>1 DEF NewUntouched
<1>4. \A i \in DOMAIN m_fibers : /\ m_fibers[i].task \notin parked'
                                 /\ \A u \in Threads : /\ m_fibers[i].task # ft'[u]
                                                       /\ m_fibers[i].task # cb_fiber'[u]
  BY <1>1 DEF QueueUnheld
<1>5. w \notin parked' /\ \A u \in Threads : w # ft'[u] /\ w # cb_fiber'[u]
  BY <1>1, <1>2, <1>3
<1>6. QueueDistinct' /\ QueueUnheld'
  BY <1>1, <1>3, <1>4, <1>5, AppendExcl DEF CountInv
<1>7. HandsDisjoint' /\ ParkedLeaving'
  BY <1>1 DEF HandsDisjoint, ParkedLeaving, Cur
<1>8. NewUntouched'
  <2>1. \A k \in DOMAIN m_fibers' : \/ k \in DOMAIN m_fibers /\ m_fibers'[k] = m_fibers[k]
                                    \/ m_fibers'[k].task = w
    BY <1>1, AppendElem DEF Entry, CountInv, TypeOK
  <2>2. \A v \in Work : phase'[v] = "new" => v # w /\ phase[v] = "new"
    BY <1>1 DEF CountInv, TypeOK
  <2> QED BY <1>1, <2>1, <2>2 DEF NewUntouched
<1> QED BY <1>6, <1>7, <1>8

\* A wake-up moves a fiber from its event source to the queue.
LEMMA WakeExclInv ==
  ASSUME ~EarlySchedule, CountInv, ExclInv, NEW f \in FiberObj, Wake(f)
  PROVE  ExclInv'
<1> USE DEF ExclInv
<1>1. /\ m_fibers' = Append(m_fibers, Entry(f, AnyThread)) /\ f \in parked
      /\ parked' = parked \ {f} /\ Settled(f)
      /\ UNCHANGED <<ft, cb_fiber, pc, phase, m_state>>
  BY DEF Wake, hand, ghost
<1>2. \A u \in Threads : f # ft[u] /\ f # cb_fiber[u]
  BY <1>1 DEF Settled, ParkedLeaving, OnStack
<1>3. \A i \in DOMAIN m_fibers : m_fibers[i].task # f
  BY <1>1 DEF QueueUnheld
<1>4. \A i \in DOMAIN m_fibers : /\ m_fibers[i].task \notin parked'
                                 /\ \A u \in Threads : /\ m_fibers[i].task # ft'[u]
                                                       /\ m_fibers[i].task # cb_fiber'[u]
  BY <1>1 DEF QueueUnheld
<1>5. f \notin parked' /\ \A u \in Threads : f # ft'[u] /\ f # cb_fiber'[u]
  BY <1>1, <1>2
<1>6. QueueDistinct' /\ QueueUnheld'
  BY <1>1, <1>3, <1>4, <1>5, AppendExcl DEF CountInv
<1>7. HandsDisjoint' /\ ParkedLeaving'
  BY <1>1 DEF HandsDisjoint, ParkedLeaving, Cur
<1>8. NewUntouched'
  <2>1. \A k \in DOMAIN m_fibers' : \/ k \in DOMAIN m_fibers /\ m_fibers'[k] = m_fibers[k]
                                    \/ m_fibers'[k].task = f
    BY <1>1, AppendElem DEF Entry, CountInv, TypeOK
  <2>2. \A w \in Work : phase[w] = "new" => w # f
    BY <1>1 DEF NewUntouched
  <2> QED BY <1>1, <2>1, <2>2 DEF NewUntouched
<1> QED BY <1>6, <1>7, <1>8

\* Steps that leave the queue, the hands and the parked fibers as they are and
\* move threads only where they hold nothing.
LEMMA OwnerExclInv ==
  ASSUME CountInv, ExclInv, Start \/ Stop \/ StopStep \/ UNCHANGED vars
  PROVE  ExclInv'
<1> USE DEF ExclInv
<1>1. UNCHANGED <<m_fibers, ft, cb_fiber, parked, phase, m_state>>
  BY DEF Start, Stop, StopStep, StopReturnsEarly, StopCalls, StopCallEnds,
         StopSkipsCall, StopJoins, vars, hand, ghost
<1>2. \A t \in Threads : pc[t] \in {"yield", "swap", "settle"} => pc'[t] = pc[t]
  <2>1. CASE Start
    BY <2>1 DEF Start, OwnerOK, CountInv, TypeOK
  <2>2. CASE StopCalls
    BY <2>2 DEF StopCalls, OwnerOK, CountInv, TypeOK
  <2>3. CASE StopJoins
    BY <2>3 DEF StopJoins, CountInv, TypeOK
  <2>4. CASE Stop \/ StopReturnsEarly \/ StopCallEnds \/ StopSkipsCall \/ UNCHANGED vars
    BY <2>4 DEF Stop, StopReturnsEarly, StopCallEnds, StopSkipsCall, vars
  <2> QED BY <2>1, <2>2, <2>3, <2>4 DEF StopStep
<1>3. QueueDistinct' /\ QueueUnheld' /\ HandsDisjoint' /\ NewUntouched'
  BY <1>1 DEF QueueDistinct, QueueUnheld, HandsDisjoint, NewUntouched
<1>4. ParkedLeaving'
  BY <1>1, <1>2 DEF ParkedLeaving, Cur
<1> QED BY <1>3, <1>4

\* Every step of a pool thread keeps each task in one place.
LEMMA ThreadExclInv ==
  ASSUME ~EarlySchedule, CountInv, ExclInv, NEW t \in Threads, ThreadStep(t)
  PROVE  ExclInv'
<1>1. \A thread \in Pins : ~SwitchTo(t, thread)
  BY DEF SwitchTo
<1> QED
  BY <1>1, PickTaskExclInv, EnterIdleExclInv, RunReturnsExclInv, IdleExclInv,
     IdleReturnsExclInv, DropFinishedExclInv, EnterFiberExclInv, EnterCbExclInv,
     MainFuncExclInv, YieldToReadyExclInv, ParkExclInv, YieldToHoldExclInv,
     SwapOutExclInv, SettleExclInv
  DEF ThreadStep

\* Every step keeps each task in one place, if no fiber is scheduled early.
LEMMA NextExclInv ==
  ASSUME ~EarlySchedule, CountInv, ExclInv, [Next]_vars
  PROVE  ExclInv'
<1>1. CASE ClientStep
  <2>1. \A f \in Fibers : \A thread \in Pins : ~ScheduleAgain(f, thread)
    BY DEF ScheduleAgain
  <2> QED BY <1>1, <2>1, ScheduleExclInv, WakeExclInv, OwnerExclInv DEF ClientStep
<1>2. CASE StopStep
  BY <1>2, OwnerExclInv
<1>3. CASE \E t \in Threads : ThreadStep(t)
  BY <1>3, ThreadExclInv
<1>4. CASE UNCHANGED vars
  BY <1>4, OwnerExclInv
<1> QED BY <1>1, <1>2, <1>3, <1>4 DEF Next, Terminated

\* A task in one place is run by one thread.
LEMMA ExclImpliesOneThread ==
  ASSUME CountInv, ExclInv
  PROVE  OneThreadPerFiber
<1> SUFFICES ASSUME NEW t \in Threads, NEW u \in Threads, t # u,
                    pc[t] \in OnStack, pc[u] \in OnStack
             PROVE  Cur(t) # Cur(u)
  BY DEF OneThreadPerFiber
<1>1. Cur(t) \in FiberObj /\ Cur(t) # None
  BY CurIsFiber, ConstantsAssumption DEF CountInv, FiberObj, Task
<1>2. Cur(t) # ft[u] /\ Cur(t) # cb_fiber[u]
  BY <1>1, CurElsewhere DEF ExclInv
<1> QED BY <1>2 DEF Cur

\* As long as no fiber is scheduled before run() has left it, no two threads ever
\* execute on one fiber's stack, for any number of threads, fibers and functions.
\* This is the part of the pool that is right on its own: what breaks it is a
\* wake-up that comes before swapcontext() has saved the context.
THEOREM OneThread ==
  ASSUME ~EarlySchedule
  PROVE  Spec => []OneThreadPerFiber
<1>1. Init => CountInv /\ ExclInv
  BY InitCountInv, InitExclInv
<1>2. (CountInv /\ ExclInv) /\ [Next]_vars => (CountInv /\ ExclInv)'
  BY NextCountInv, NextExclInv
<1>3. CountInv /\ ExclInv => OneThreadPerFiber
  BY ExclImpliesOneThread
<1> QED BY <1>1, <1>2, <1>3, PTL DEF Spec
-----------------------------------------------------------------------------
(* None of the assertions fails. *)

\* A fiber's m_state is EXEC exactly while a thread executes its body: the states
\* that MainFunc(), the yields and run() write agree with where the threads are.
ExecIsBody ==
    \A f \in FiberObj :
        m_state[f] = "EXEC" <=> \E t \in Threads : pc[t] \in {"body", "yield"} /\ Cur(t) = f

\* A cb_fiber that run() keeps without executing it has finished or was reset.
CbFiberOver ==
    \A t \in Threads :
        cb_fiber[t] # None /\ ~(pc[t] \in OnStack \cup {"settle"} /\ ft[t] = None)
            => m_state[cb_fiber[t]] \in Over \cup {"INIT"}

\* The root fiber is entered by the first stop() and only by a pool with
\* use_caller; m_stopping holds all through stop().
RootOnce ==
    /\ owner # "out" => stops > 0 /\ m_stopping
    /\ owner = "call" => UseCaller
    /\ m_rootFiber # "INIT" => UseCaller /\ stops > 0 /\ owner # "stop" /\ m_stopping

AbortInv == ExecIsBody /\ CbFiberOver /\ RootOnce /\ NoAbort

\* A pool that has not been started has run nothing.
LEMMA InitAbortInv == Init => AbortInv
<1> SUFFICES ASSUME Init PROVE AbortInv
  OBVIOUS
<1>1. ExecIsBody /\ CbFiberOver
  BY DEF Init, ExecIsBody, CbFiberOver
<1>2. RootOnce /\ NoAbort
  BY DEF Init, RootOnce, NoAbort
<1> QED BY <1>1, <1>2 DEF AbortInv

\* A step of thread t that writes the state of fiber s at most: s is t's alone,
\* is the fiber t executes if it executes one, and becomes EXEC if and only if t
\* executes it afterwards.
WritesOnly(t, s) ==
    /\ \A u \in Threads : u # t => /\ pc'[u] = pc[u] /\ ft'[u] = ft[u]
                                   /\ cb_fiber'[u] = cb_fiber[u]
    /\ s \in FiberObj => \A u \in Threads : u # t => s # ft[u] /\ s # cb_fiber[u]
    /\ \A f \in FiberObj : f # s => m_state'[f] = m_state[f]
    /\ pc[t] \in {"body", "yield"} => Cur(t) = s
    /\ pc'[t] \in {"body", "yield"} => Cur(t)' = s
    /\ s \in FiberObj => (m_state'[s] = "EXEC" <=> pc'[t] \in {"body", "yield"})

\* Such a step keeps EXEC where the bodies are.
LEMMA WritesKeepExec ==
  ASSUME ExecIsBody, NEW t \in Threads, NEW s, WritesOnly(t, s)
  PROVE  ExecIsBody'
<1> USE DEF WritesOnly
<1> SUFFICES ASSUME NEW f \in FiberObj
             PROVE  m_state'[f] = "EXEC"
                      <=> \E u \in Threads : pc'[u] \in {"body", "yield"} /\ Cur(u)' = f
  BY DEF ExecIsBody
<1>1. \A u \in Threads : u # t => pc'[u] = pc[u] /\ Cur(u)' = Cur(u)
  BY DEF Cur
<1>2. CASE f = s
  <2>1. \A u \in Threads : u # t => Cur(u) # s
    BY <1>2 DEF Cur
  <2> QED BY <1>1, <1>2, <2>1
<1>3. CASE f # s
  <2>1. m_state'[f] = m_state[f]
    BY <1>3
  <2> QED BY <1>1, <1>3, <2>1 DEF ExecIsBody
<1> QED BY <1>2, <1>3

\* It keeps the cb_fibers of the other threads finished, and t's own if run() of t
\* does not keep an unfinished one.
LEMMA WritesKeepCb ==
  ASSUME TypeOK, CbFiberOver, NEW t \in Threads, NEW s, WritesOnly(t, s),
         cb_fiber'[t] # None /\ ~(pc'[t] \in OnStack \cup {"settle"} /\ ft'[t] = None)
            => m_state'[cb_fiber'[t]] \in Over \cup {"INIT"}
  PROVE  CbFiberOver'
<1> USE DEF WritesOnly
<1> SUFFICES ASSUME NEW u \in Threads, cb_fiber'[u] # None,
                    ~(pc'[u] \in OnStack \cup {"settle"} /\ ft'[u] = None)
             PROVE  m_state'[cb_fiber'[u]] \in Over \cup {"INIT"}
  BY DEF CbFiberOver
<1>1. CASE u = t
  BY <1>1
<1>2. CASE u # t
  <2>1. pc'[u] = pc[u] /\ ft'[u] = ft[u] /\ cb_fiber'[u] = cb_fiber[u]
    BY <1>2
  <2>2. cb_fiber[u] \in FiberObj /\ cb_fiber[u] # s
    BY <1>2, <2>1 DEF TypeOK, FiberObj
  <2>3. m_state[cb_fiber[u]] \in Over \cup {"INIT"}
    BY <2>1 DEF CbFiberOver
  <2> QED BY <2>1, <2>2, <2>3
<1> QED BY <1>1, <1>2

\* run() between two tasks: the scan, the idle fiber, the dropped fiber, the
\* return from swapIn(). No state is written.
LEMMA QuietAbortInv ==
  ASSUME CountInv, ExclInv, AbortInv, NEW t \in Threads,
         \/ PickTask(t) \/ EnterIdle(t) \/ Idle(t) \/ IdleReturns(t)
         \/ DropFinished(t) \/ SwapOut(t)
  PROVE  AbortInv'
<1> USE DEF AbortInv
<1>1. PICK x \in PCs : pc' = [pc EXCEPT ![t] = x] /\ x \notin {"body", "yield"}
                       /\ (x = "settle" <=> pc[t] = "swap") /\ x \notin OnStack
  BY DEF PickTask, EnterIdle, Idle, IdleReturns, DropFinished, SwapOut, PCs, OnStack
<1>2. pc[t] \notin {"body", "yield", "settle"}
  BY DEF PickTask, EnterIdle, Idle, IdleReturns, DropFinished, SwapOut
<1>3. UNCHANGED <<m_state, cb_fiber, m_rootFiber, owner, stops, m_stopping, failed>>
  BY DEF PickTask, EnterIdle, Idle, IdleReturns, DropFinished, SwapOut, hand, pool
<1>4. \A u \in Threads : u # t => ft'[u] = ft[u]
  BY DEF PickTask, EnterIdle, Idle, IdleReturns, DropFinished, SwapOut, hand,
         CountInv, TypeOK
<1>5. pc[t] = "swap" => ft' = ft
  BY DEF PickTask, EnterIdle, Idle, IdleReturns, DropFinished, SwapOut, hand
<1>6. None \notin FiberObj
  BY ConstantsAssumption DEF FiberObj, Task
<1>7. pc'[t] = x /\ \A u \in Threads : u # t => pc'[u] = pc[u]
  BY <1>1 DEF CountInv, TypeOK
<1>8. WritesOnly(t, None)
  BY <1>1, <1>2, <1>3, <1>4, <1>6, <1>7 DEF WritesOnly
<1>9. ExecIsBody'
  BY <1>8, WritesKeepExec
<1>10. cb_fiber'[t] # None /\ ~(pc'[t] \in OnStack \cup {"settle"} /\ ft'[t] = None)
            => m_state'[cb_fiber'[t]] \in Over \cup {"INIT"}
  BY <1>1, <1>2, <1>3, <1>5, <1>7 DEF CbFiberOver, OnStack
<1>11. CbFiberOver'
  BY <1>8, <1>10, WritesKeepCb DEF CountInv
<1>12. RootOnce' /\ NoAbort'
  BY <1>3 DEF RootOnce, NoAbort
<1> QED BY <1>9, <1>11, <1>12

\* ~Fiber() of the cb_fiber that run() drops when it returns finds it finished.
LEMMA RunReturnsAbortInv ==
  ASSUME CountInv, ExclInv, AbortInv, NEW t \in Threads, RunReturns(t)
  PROVE  AbortInv'
<1> USE DEF AbortInv
<1>1. /\ pc[t] = "pick" /\ pc' = [pc EXCEPT ![t] = "exit"]
      /\ cb_fiber' = [cb_fiber EXCEPT ![t] = None]
      /\ UNCHANGED <<m_state, ft, m_rootFiber, owner, stops, m_stopping>>
  BY DEF RunReturns, pool
<1>2. cb_fiber[t] # None => m_state[cb_fiber[t]] \in Over \cup {"INIT"}
  BY <1>1 DEF CbFiberOver, OnStack
<1>3. NoAbort'
  BY <1>2 DEF RunReturns, SYLAR_ASSERT, NoAbort
<1>4. None \notin FiberObj
  BY ConstantsAssumption DEF FiberObj, Task
<1>5. /\ pc'[t] = "exit" /\ cb_fiber'[t] = None
      /\ \A u \in Threads : u # t => pc'[u] = pc[u] /\ cb_fiber'[u] = cb_fiber[u]
  BY <1>1 DEF CountInv, TypeOK
<1>6. WritesOnly(t, None)
  BY <1>1, <1>4, <1>5 DEF WritesOnly
<1>7. ExecIsBody'
  BY <1>6, WritesKeepExec
<1>8. CbFiberOver'
  BY <1>5, <1>6, WritesKeepCb DEF CountInv
<1>9. RootOnce'
  BY <1>1 DEF RootOnce
<1> QED BY <1>3, <1>7, <1>8, <1>9

\* swapIn() finds a fiber that nobody executes, neither by its state nor by its
\* stack.
LEMMA EnterFiberAbortInv ==
  ASSUME CountInv, ExclInv, AbortInv, NEW t \in Threads, EnterFiber(t)
  PROVE  AbortInv'
<1> USE DEF AbortInv, ExclInv
<1>1. PICK s \in FiberObj : s = ft[t]
  BY DEF EnterFiber
<1>2. /\ pc[t] = "enter" /\ pc' = [pc EXCEPT ![t] = "body"]
      /\ m_state' = [m_state EXCEPT ![s] = "EXEC"]
      /\ UNCHANGED <<ft, cb_fiber, m_rootFiber, owner, stops, m_stopping>>
  BY <1>1 DEF EnterFiber, hand, pool
<1>3. s # None
  BY <1>1, ConstantsAssumption DEF FiberObj, Task
<1>4. \A u \in Threads : (u # t => s # ft[u]) /\ s # cb_fiber[u]
  BY <1>1, <1>3 DEF HandsDisjoint
<1>5. \A u \in Threads : u # t => Cur(u) # s
  BY <1>4 DEF Cur
<1>6. m_state[s] # "EXEC"
  BY <1>2, <1>5 DEF ExecIsBody
<1>7. ~InUse(s)
  BY <1>2, <1>5 DEF InUse, OnStack
<1>8. NoAbort'
  BY <1>1, <1>6, <1>7 DEF EnterFiber, NoAbort
<1>9. /\ pc'[t] = "body" /\ \A u \in Threads : u # t => pc'[u] = pc[u]
      /\ m_state'[s] = "EXEC" /\ \A f \in FiberObj : f # s => m_state'[f] = m_state[f]
  BY <1>2 DEF CountInv, TypeOK
<1>10. Cur(t)' = s
  BY <1>1, <1>2, <1>3 DEF Cur
<1>11. WritesOnly(t, s)
  BY <1>2, <1>4, <1>9, <1>10 DEF WritesOnly
<1>12. ExecIsBody'
  BY <1>11, WritesKeepExec
<1>13. cb_fiber[t] # None => /\ cb_fiber[t] \in FiberObj
                             /\ m_state[cb_fiber[t]] \in Over \cup {"INIT"}
  BY <1>2 DEF CbFiberOver, OnStack, CountInv, TypeOK, FiberObj
<1>14. CbFiberOver'
  BY <1>2, <1>4, <1>9, <1>11, <1>13, WritesKeepCb DEF CountInv
<1>15. RootOnce'
  BY <1>2 DEF RootOnce
<1> QED BY <1>8, <1>12, <1>14, <1>15

\* reset() of the cb_fiber for the next function finds it finished.
LEMMA EnterCbAbortInv ==
  ASSUME CountInv, ExclInv, AbortInv, NEW t \in Threads, EnterCb(t)
  PROVE  AbortInv'
<1> USE DEF AbortInv, ExclInv
<1>1. PICK g \in CbFiberFor(t) :
         /\ SYLAR_ASSERT(cb_fiber[t] # None => m_state[g] \in Over \cup {"INIT"},
                         "reset: m_state")
         /\ cb_fiber' = [cb_fiber EXCEPT ![t] = g]
         /\ m_state' = [m_state EXCEPT ![g] = "EXEC"]
  BY DEF EnterCb
<1>2. /\ pc[t] = "enter" /\ pc' = [pc EXCEPT ![t] = "body"] /\ ft[t] # None
      /\ ft' = [ft EXCEPT ![t] = None]
      /\ UNCHANGED <<m_rootFiber, owner, stops, m_stopping>>
  BY ConstantsAssumption DEF EnterCb, pool, Task
<1>3. cb_fiber[t] # None => g = cb_fiber[t] /\ m_state[g] \in Over \cup {"INIT"}
  BY <1>2 DEF CbFiberFor, CbFiberOver, OnStack
<1>4. NoAbort'
  BY <1>1, <1>3 DEF SYLAR_ASSERT, NoAbort
<1>5. g \in FiberObj
  BY DEF CbFiberFor, CountInv, TypeOK, FiberObj
<1>6. \A u \in Threads : u # t => g # ft[u] /\ g # cb_fiber[u]
  <2>1. CASE cb_fiber[t] # None
    BY <1>3, <2>1, ConstantsAssumption DEF HandsDisjoint
  <2>2. CASE cb_fiber[t] = None
    BY <2>2 DEF CbFiberFor, Unreferenced
  <2> QED BY <2>1, <2>2
<1>7. /\ pc'[t] = "body" /\ ft'[t] = None /\ cb_fiber'[t] = g
      /\ \A u \in Threads : u # t => /\ pc'[u] = pc[u] /\ ft'[u] = ft[u]
                                     /\ cb_fiber'[u] = cb_fiber[u]
      /\ m_state'[g] = "EXEC" /\ \A f \in FiberObj : f # g => m_state'[f] = m_state[f]
  BY <1>1, <1>2, <1>5 DEF CountInv, TypeOK
<1>8. Cur(t)' = g
  BY <1>7 DEF Cur
<1>9. WritesOnly(t, g)
  BY <1>2, <1>6, <1>7, <1>8 DEF WritesOnly
<1>10. ExecIsBody'
  BY <1>9, WritesKeepExec
<1>11. CbFiberOver'
  BY <1>7, <1>9, WritesKeepCb DEF CountInv, OnStack
<1>12. RootOnce'
  BY <1>2 DEF RootOnce
<1> QED BY <1>4, <1>10, <1>11, <1>12

\* A body that returns, throws, parks or yields is in state EXEC.
LEMMA BodyAbortInv ==
  ASSUME CountInv, ExclInv, AbortInv, NEW t \in Threads,
         \/ \E end \in Over : MainFunc(t, end)
         \/ YieldToReady(t) \/ Park(t) \/ YieldToHold(t)
  PROVE  AbortInv'
<1> USE DEF AbortInv, ExclInv
<1>1. pc[t] \in {"body", "yield"}
  BY DEF MainFunc, YieldToReady, Park, YieldToHold
<1>2. PICK s \in FiberObj : s = Cur(t)
  BY <1>1, CurIsFiber DEF CountInv, OnStack
<1>3. m_state[s] = "EXEC"
  BY <1>1, <1>2 DEF ExecIsBody
<1>4. UNCHANGED <<ft, cb_fiber, m_rootFiber, owner, stops, m_stopping>>
  BY DEF MainFunc, YieldToReady, Park, YieldToHold, hand, pool
<1>5. NoAbort'
  BY <1>2, <1>3 DEF MainFunc, YieldToReady, Park, YieldToHold, SYLAR_ASSERT, NoAbort
<1>6. PICK x \in {"swap", "yield"} : pc' = [pc EXCEPT ![t] = x]
                                     /\ (x = "yield" <=> Park(t))
  <2>1. CASE Park(t)
    BY <2>1 DEF Park
  <2>2. CASE ~Park(t)
    BY <2>2 DEF MainFunc, YieldToReady, YieldToHold
  <2> QED BY <2>1, <2>2
<1>7. m_state'[s] = "EXEC" <=> x = "yield"
  <2>1. CASE Park(t)
    BY <1>3, <1>6, <2>1 DEF Park
  <2>2. CASE ~Park(t)
    BY <1>2, <1>6, <2>2 DEF MainFunc, YieldToReady, YieldToHold, Over, CountInv, TypeOK
  <2> QED BY <2>1, <2>2
<1>8. \A f \in FiberObj : f # s => m_state'[f] = m_state[f]
  BY <1>2 DEF MainFunc, YieldToReady, Park, YieldToHold, CountInv, TypeOK
<1>9. s # None
  BY ConstantsAssumption DEF FiberObj, Task
<1>10. \A u \in Threads : u # t => s # ft[u] /\ s # cb_fiber[u]
  BY <1>2, <1>9, CurElsewhere
<1>11. pc'[t] = x /\ \A u \in Threads : u # t => pc'[u] = pc[u]
  BY <1>6 DEF CountInv, TypeOK
<1>12. Cur(t)' = s
  BY <1>2, <1>4 DEF Cur
<1>13. WritesOnly(t, s)
  BY <1>2, <1>4, <1>6, <1>7, <1>8, <1>10, <1>11, <1>12 DEF WritesOnly
<1>14. ExecIsBody'
  BY <1>13, WritesKeepExec
<1>15. CbFiberOver'
  <2>1. CASE ft[t] = None
    BY <1>4, <1>6, <1>11, <1>13, <2>1, WritesKeepCb DEF CountInv, OnStack
  <2>2. CASE ft[t] # None
    <3>1. s = ft[t] /\ s # cb_fiber[t]
      BY <1>2, <2>2 DEF Cur, HandsDisjoint
    <3>2. cb_fiber[t] # None => /\ cb_fiber[t] \in FiberObj
                                /\ m_state[cb_fiber[t]] \in Over \cup {"INIT"}
      BY <2>2 DEF CbFiberOver, CountInv, TypeOK, FiberObj
    <3> QED BY <1>4, <1>8, <1>13, <3>1, <3>2, WritesKeepCb DEF CountInv
  <2> QED BY <2>1, <2>2
<1>16. RootOnce'
  BY <1>4 DEF RootOnce
<1> QED BY <1>5, <1>14, <1>15, <1>16

\* run() leaves no fiber EXEC that has come back, and keeps a cb_fiber only if it
\* has finished.
LEMMA SettleAbortInv ==
  ASSUME CountInv, ExclInv, AbortInv, NEW t \in Threads, Settle(t)
  PROVE  AbortInv'
<1> USE DEF AbortInv, ExclInv
<1>1. PICK s \in FiberObj : s = Cur(t)
  BY CurIsFiber DEF Settle, CountInv
<1>2. /\ pc[t] = "settle" /\ pc' = [pc EXCEPT ![t] = "pick"]
      /\ ft' = [ft EXCEPT ![t] = None]
      /\ cb_fiber' = IF ft[t] = None /\ m_state[s] \notin Over
                     THEN [cb_fiber EXCEPT ![t] = None] ELSE cb_fiber
      /\ m_state' = CASE m_state[s] \in Over /\ ft[t] = None -> [m_state EXCEPT ![s] = "INIT"]
                      [] m_state[s] \notin Over /\ m_state[s] # "READY" ->
                           [m_state EXCEPT ![s] = "HOLD"]
                      [] OTHER -> m_state
      /\ UNCHANGED <<m_rootFiber, owner, stops, m_stopping, failed>>
  BY <1>1 DEF Settle, pool
<1>3. m_state'[s] # "EXEC" /\ \A f \in FiberObj : f # s => m_state'[f] = m_state[f]
  BY <1>2 DEF CountInv, TypeOK, Over
<1>4. s # None
  BY ConstantsAssumption DEF FiberObj, Task
<1>5. \A u \in Threads : u # t => s # ft[u] /\ s # cb_fiber[u]
  BY <1>1, <1>4, CurElsewhere
<1>6. /\ pc'[t] = "pick" /\ ft'[t] = None
      /\ \A u \in Threads : u # t => /\ pc'[u] = pc[u] /\ ft'[u] = ft[u]
                                     /\ cb_fiber'[u] = cb_fiber[u]
  BY <1>2 DEF CountInv, TypeOK
<1>7. WritesOnly(t, s)
  BY <1>2, <1>3, <1>5, <1>6 DEF WritesOnly
<1>8. ExecIsBody'
  BY <1>7, WritesKeepExec
<1>9. cb_fiber'[t] # None => m_state'[cb_fiber'[t]] \in Over \cup {"INIT"}
  <2>1. CASE ft[t] = None
    <3>1. s = cb_fiber[t]
      BY <1>1, <2>1 DEF Cur
    <3>2. CASE m_state[s] \in Over
      BY <1>2, <2>1, <3>1, <3>2 DEF CountInv, TypeOK
    <3>3. CASE m_state[s] \notin Over
      BY <1>2, <2>1, <3>3 DEF CountInv, TypeOK
    <3> QED BY <3>2, <3>3
  <2>2. CASE ft[t] # None
    <3>1. s = ft[t] /\ s # cb_fiber[t] /\ cb_fiber' = cb_fiber
      BY <1>1, <1>2, <2>2 DEF Cur, HandsDisjoint
    <3>2. cb_fiber[t] # None => /\ cb_fiber[t] \in FiberObj
                                /\ m_state[cb_fiber[t]] \in Over \cup {"INIT"}
      BY <2>2 DEF CbFiberOver, CountInv, TypeOK, FiberObj
    <3> QED BY <1>3, <3>1, <3>2
  <2> QED BY <2>1, <2>2
<1>10. CbFiberOver'
  BY <1>7, <1>9, WritesKeepCb DEF CountInv
<1>11. RootOnce' /\ NoAbort'
  BY <1>2 DEF RootOnce, NoAbort
<1> QED BY <1>8, <1>10, <1>11

\* The owner: start() finds no thread, and the root fiber is entered once.
LEMMA OwnerAbortInv ==
  ASSUME UseCaller => MaxStops <= 1, CountInv, AbortInv,
         Start \/ Stop \/ StopStep \/ UNCHANGED vars
  PROVE  AbortInv'
<1> USE DEF AbortInv
<1>1. UNCHANGED <<ft, cb_fiber, m_state>>
  BY DEF Start, Stop, StopStep, StopReturnsEarly, StopCalls, StopCallEnds,
         StopSkipsCall, StopJoins, vars, hand
<1>2. \A t \in Threads : /\ pc'[t] \in {"body", "yield"} <=> pc[t] \in {"body", "yield"}
                         /\ pc[t] \in OnStack \cup {"settle"} => pc'[t] = pc[t]
  <2>1. CASE Start
    BY <2>1 DEF Start, OwnerOK, CountInv, TypeOK, OnStack
  <2>2. CASE StopCalls
    BY <2>2 DEF StopCalls, OwnerOK, CountInv, TypeOK, OnStack
  <2>3. CASE StopJoins
    BY <2>3 DEF StopJoins, CountInv, TypeOK, OnStack
  <2>4. CASE Stop \/ StopReturnsEarly \/ StopCallEnds \/ StopSkipsCall \/ UNCHANGED vars
    BY <2>4 DEF Stop, StopReturnsEarly, StopCallEnds, StopSkipsCall, vars
  <2> QED BY <2>1, <2>2, <2>3, <2>4 DEF StopStep
<1>3. ExecIsBody'
  BY <1>1, <1>2 DEF ExecIsBody, Cur
<1>4. CbFiberOver'
  BY <1>1, <1>2 DEF CbFiberOver
<1>5. RootOnce' /\ NoAbort'
  <2> USE DEF RootOnce, NoAbort
  <2>1. CASE Start
    <3>1. m_rootFiber = "INIT"
      BY <2>1, ConstantsAssumption DEF Start, CountInv, TypeOK
    <3>2. \A w \in Workers : pc[w] = "off"
      BY <2>1 DEF Start, CountInv, OwnerOK
    <3> QED BY <2>1, <3>1, <3>2 DEF Start, SYLAR_ASSERT
  <2>2. CASE Stop
    BY <2>2 DEF Stop, CountInv, TypeOK
  <2>3. CASE StopCalls
    BY <2>3 DEF StopCalls, SYLAR_ASSERT
  <2>4. CASE StopReturnsEarly
    BY <2>4 DEF StopReturnsEarly
  <2>5. CASE StopCallEnds
    BY <2>5 DEF StopCallEnds
  <2>6. CASE StopSkipsCall
    BY <2>6 DEF StopSkipsCall
  <2>7. CASE StopJoins
    BY <2>7 DEF StopJoins
  <2>8. CASE UNCHANGED vars
    BY <2>8 DEF vars, pool
  <2> QED BY <2>1, <2>2, <2>3, <2>4, <2>5, <2>6, <2>7, <2>8 DEF StopStep
<1> QED BY <1>3, <1>4, <1>5

\* Every step keeps the fiber states true to what the threads do.
LEMMA NextAbortInv ==
  ASSUME ~EarlySchedule, UseCaller => MaxStops <= 1, CountInv, ExclInv, AbortInv,
         [Next]_vars
  PROVE  AbortInv'
<1>1. CASE ClientStep
  <2>1. CASE Start \/ Stop
    BY <2>1, OwnerAbortInv
  <2>2. CASE ~(Start \/ Stop)
    <3>1. UNCHANGED <<pool, ft, cb_fiber, m_state, pc, failed>>
      BY <1>1, <2>2 DEF ClientStep, Schedule, ScheduleAgain, Wake, hand
    <3> QED BY <3>1 DEF AbortInv, ExecIsBody, CbFiberOver, RootOnce, NoAbort, Cur, pool
  <2> QED BY <2>1, <2>2
<1>2. CASE StopStep
  BY <1>2, OwnerAbortInv
<1>3. CASE \E t \in Threads : ThreadStep(t)
  <2>1. PICK t \in Threads : ThreadStep(t)
    BY <1>3
  <2>2. \A thread \in Pins : ~SwitchTo(t, thread)
    BY DEF SwitchTo
  <2> QED BY <2>1, <2>2, QuietAbortInv, RunReturnsAbortInv, EnterFiberAbortInv,
             EnterCbAbortInv, BodyAbortInv, SettleAbortInv DEF ThreadStep
<1>4. CASE UNCHANGED vars
  BY <1>4, OwnerAbortInv
<1> QED BY <1>1, <1>2, <1>3, <1>4 DEF Next, Terminated

\* None of the assertions of Fiber and Scheduler fails, and no context is entered
\* that another thread still runs on, for any number of threads, fibers and
\* functions, as long as no fiber is scheduled before run() has left it and a pool
\* with use_caller is stopped once: its root fiber cannot be entered again.
THEOREM AssertionsHold ==
  ASSUME ~EarlySchedule, UseCaller => MaxStops <= 1
  PROVE  Spec => []NoAbort
<1>1. Init => CountInv /\ ExclInv /\ AbortInv
  BY InitCountInv, InitExclInv, InitAbortInv
<1>2. (CountInv /\ ExclInv /\ AbortInv) /\ [Next]_vars => (CountInv /\ ExclInv /\ AbortInv)'
  BY NextCountInv, NextExclInv, NextAbortInv
<1>3. CountInv /\ ExclInv /\ AbortInv => NoAbort
  BY DEF AbortInv
<1> QED BY <1>1, <1>2, <1>3, PTL DEF Spec
-----------------------------------------------------------------------------
(* The pool implements TaskPool. *)

\* The fiber's work item has been scheduled and has not finished.
Live(f) == Item(f) \in Work /\ phase[Item(f)] = "live"

\* What thread t does with fiber f: it is about to swap in, executes it or comes back.
Spot(t, f) ==
    IF ft[t] = f /\ pc[t] = "enter" THEN "enter"
    ELSE IF Cur(t) = f /\ pc[t] \in OnStack \cup {"settle"} THEN pc[t] ELSE "none"

\* A function that waits in the queue or in a hand and has no fiber yet.
Pending(w) == w \in QueuedTasks \/ \E t \in Threads : ft[t] = w /\ pc[t] = "enter"

\* Somebody will get the fiber on: the queue, a thread, or an event source.
Placed(f) == f \in QueuedTasks \cup parked \/ \E t \in Threads : Spot(t, f) # "none"

\* The place of a fiber agrees with its state and with the life of its item.
FiberOK(f) ==
    /\ Item(f) \in Work /\ phase[Item(f)] = "new" => m_state[f] = "INIT"
    /\ f \in QueuedTasks => Live(f) /\ m_state[f] \in {"INIT", "HOLD", "READY"}
    /\ f \in parked => Live(f) /\ m_state[f] \in {"EXEC", "HOLD"}
    /\ \A t \in Threads :
        /\ Spot(t, f) = "enter" => Live(f) /\ m_state[f] \in {"INIT", "HOLD", "READY"}
        /\ Spot(t, f) \in {"body", "yield"} => Live(f)
        /\ Spot(t, f) = "yield" => f \in parked
        /\ Spot(t, f) \in {"swap", "settle"} =>
              \/ m_state[f] \in Over /\ Item(f) \in Work /\ phase[Item(f)] = "done"
              \/ m_state[f] = "READY" /\ Live(f)
              \/ m_state[f] = "HOLD" /\ Live(f) /\ f \in parked

FiberInv == \A f \in FiberObj : FiberOK(f)

\* run() keeps a cb_fiber that it is not executing.
Keeps(t) == cb_fiber[t] # None /\ ~(pc[t] \in OnStack \cup {"settle"} /\ ft[t] = None)

\* A function has one fiber from the moment it is run until it has finished.
CbInv ==
    /\ \A w \in Cbs : Pending(w) => phase[w] = "live" /\ \A f \in CbFibers : m_cb[f] # w
    /\ \A f, g \in CbFibers : f # g /\ m_cb[f] = m_cb[g] =>
           m_cb[f] = None \/ phase[m_cb[f]] = "done"
    /\ \A f \in CbFibers : m_cb[f] # None => phase[m_cb[f]] # "new"
    /\ \A t \in Threads : Keeps(t) => m_cb[cb_fiber[t]] = None

\* No item that was accepted is forgotten.
AliveInv ==
    \A w \in Work : phase[w] = "live" =>
        \/ w \in Cbs /\ Pending(w)
        \/ \E f \in FiberObj : Item(f) = w /\ Placed(f)

\* Threads leave only in stop(), and the last one leaves an empty queue, as any
\* thread may take any task.
ExitInv ==
    /\ \A i \in DOMAIN m_fibers : m_fibers[i].thread = AnyThread
    /\ \A t \in Threads : idle_term[t] => m_stopping /\ pc[t] \notin {"off", "exit"}
    /\ ~m_stopping => \A w \in Workers : pc[w] \notin {"off", "exit"}
    /\ owner # "out" /\ (Workers # {} \/ owner # "stop")
          /\ (\A t \in Threads : pc[t] \in {"off", "exit"}) => m_fibers = <<>>

ServeInv == FiberInv /\ CbInv /\ AliveInv /\ ExitInv

\* A fiber that a step does not touch.
Same(f) ==
    /\ Item(f)' = Item(f) /\ m_state'[f] = m_state[f]
    /\ f \in QueuedTasks' <=> f \in QueuedTasks
    /\ f \in parked' <=> f \in parked
    /\ \A u \in Threads : Spot(u, f)' = Spot(u, f)

\* A step that touches no fiber but s, and the life of no item but that of s.
Touches(s) ==
    /\ \A f \in FiberObj : f # s => Same(f)
    /\ \A w \in Work : phase'[w] # phase[w] => \A f \in FiberObj : f # s => Item(f) # w

\* A fiber's item is a work item or, for a callback fiber without a function, none.
LEMMA ItemType ==
  ASSUME TypeOK, NEW f \in FiberObj
  PROVE  Item(f) \in Work \cup {None}
  BY ConstantsAssumption DEF TypeOK, Item, FiberObj, Work, Task

\* Somebody holds the fiber to swap it in.
LEMMA InHandSpot ==
  ASSUME NEW f PROVE InHand(f) <=> \E t \in Threads : Spot(t, f) = "enter"
<1>1. ASSUME NEW t \in Threads, ft[t] = f, pc[t] = "enter" PROVE Spot(t, f) = "enter"
  BY <1>1 DEF Spot
<1>2. ASSUME NEW t \in Threads, Spot(t, f) = "enter" PROVE ft[t] = f /\ pc[t] = "enter"
  BY <1>2 DEF Spot, OnStack
<1> QED BY <1>1, <1>2 DEF InHand

\* The same after a step.
LEMMA InHandSpotNext ==
  ASSUME NEW f PROVE InHand(f)' <=> \E t \in Threads : Spot(t, f)' = "enter"
<1>1. ASSUME NEW t \in Threads, ft'[t] = f, pc'[t] = "enter" PROVE Spot(t, f)' = "enter"
  BY <1>1 DEF Spot
<1>2. ASSUME NEW t \in Threads, Spot(t, f)' = "enter" PROVE ft'[t] = f /\ pc'[t] = "enter"
  BY <1>2 DEF Spot, OnStack
<1> QED BY <1>1, <1>2 DEF InHand

\* Such a step keeps the other fibers right and in their places.
LEMMA TouchesFibers ==
  ASSUME TypeOK, FiberInv, NEW s, Touches(s), NEW f \in FiberObj, f # s
  PROVE  FiberOK(f)' /\ (Placed(f)' <=> Placed(f))
<1>1. Same(f)
  BY DEF Touches
<1>2. Item(f) \in Work => phase'[Item(f)] = phase[Item(f)]
  BY DEF Touches
<1>3. FiberOK(f)
  BY DEF FiberInv
<1>4. Live(f)' <=> Live(f)
  BY <1>1, <1>2 DEF Live, Same
<1>5. FiberOK(f)'
  BY <1>1, <1>2, <1>3, <1>4 DEF FiberOK, Same
<1>6. Placed(f)' <=> Placed(f)
  BY <1>1 DEF Placed, Same
<1> QED BY <1>5, <1>6

\* What TaskPool sees of an item stays as it is.
Alike(w) == Status(w)' = Status(w) /\ Runners(w)' = Runners(w)

\* Some run() loop will enter the fiber.
Waits(f) ==
    \/ f \in QueuedTasks
    \/ \E t \in Threads : Spot(t, f) = "enter" \/ (Spot(t, f) = "settle" /\ m_state[f] = "READY")

\* The threads that execute an item execute one of its fibers.
RunnersAgree ==
    \A w : \A t \in Threads :
        t \in Runners(w) <=> \E f \in FiberObj : Item(f) = w /\ Spot(t, f) \in OnStack

LEMMA RunnersBy == HandOK => RunnersAgree
<1> SUFFICES ASSUME HandOK, NEW w, NEW t \in Threads
             PROVE  t \in Runners(w) <=> \E f \in FiberObj : Item(f) = w /\ Spot(t, f) \in OnStack
  BY DEF RunnersAgree
<1>1. ASSUME t \in Runners(w) PROVE \E f \in FiberObj : Item(f) = w /\ Spot(t, f) \in OnStack
  <2>1. pc[t] \in OnStack /\ Item(Cur(t)) = w
    BY <1>1 DEF Runners
  <2>2. Cur(t) \in FiberObj
    BY <2>1, CurIsFiber
  <2>3. Spot(t, Cur(t)) = pc[t]
    BY <2>1 DEF Spot, OnStack
  <2> QED BY <2>1, <2>2, <2>3
<1>2. ASSUME NEW f \in FiberObj, Item(f) = w, Spot(t, f) \in OnStack PROVE t \in Runners(w)
  <2>1. pc[t] \in OnStack /\ Cur(t) = f
    BY <1>2 DEF Spot, OnStack
  <2> QED BY <1>2, <2>1 DEF Runners
<1> QED BY <1>1, <1>2

\* The same after a step.
LEMMA RunnersByNext == HandOK' => RunnersAgree'
  BY RunnersBy, PTL

\* What the pool still holds to run is a function without a fiber, or a fiber.
ServedAgrees ==
    \A w \in Work : Served(w) <=> \/ w \in Cbs /\ Pending(w)
                                 \/ \E f \in FiberObj : Item(f) = w /\ Waits(f)

LEMMA ServedBy == HandOK => ServedAgrees
<1> SUFFICES ASSUME HandOK, NEW w \in Work
             PROVE  Served(w) <=> \/ w \in Cbs /\ Pending(w)
                                  \/ \E f \in FiberObj : Item(f) = w /\ Waits(f)
  BY DEF ServedAgrees
<1> DEFINE Held(x) == \/ x \in QueuedTasks \/ InHand(x)
                      \/ \E t \in Threads : pc[t] = "settle" /\ Cur(t) = x /\ m_state[x] = "READY"
<1>1. Served(w) <=> Held(w) \/ \E f \in FiberObj : Item(f) = w /\ Held(f)
  BY DEF Served, Carriers
<1>2. ASSUME NEW f PROVE Held(f) <=> Waits(f)
  <2>1. \A t \in Threads : Spot(t, f) = "settle" <=> pc[t] = "settle" /\ Cur(t) = f
    BY DEF Spot, OnStack
  <2> QED BY <2>1, InHandSpot DEF Waits
<1>3. CASE w \in Cbs
  <2>1. Held(w) <=> Pending(w)
    <3>1. \A t \in Threads : pc[t] = "settle" => Cur(t) # w
      BY <1>3, CurIsFiber, ConstantsAssumption DEF FiberObj
    <3> QED BY <3>1 DEF Pending, InHand
  <2> QED BY <1>1, <1>2, <1>3, <2>1
<1>4. CASE w \notin Cbs
  <2>1. w \in FiberObj /\ Item(w) = w
    BY <1>4 DEF Work, FiberObj, Item
  <2> QED BY <1>1, <1>2, <1>4, <2>1
<1> QED BY <1>3, <1>4

\* The same after a step.
LEMMA ServedByNext == HandOK' => ServedAgrees'
  BY ServedBy, PTL

\* An item none of whose fibers is touched, and that gets no fiber, looks the same.
LEMMA TouchesStatus ==
  ASSUME CountInv, CountInv', NEW s, Touches(s), NEW w \in Work, phase'[w] = phase[w],
         s \in FiberObj => Item(s) # w /\ Item(s)' # w,
         w \in Cbs => (Pending(w)' <=> Pending(w))
  PROVE  Alike(w)
<1> USE DEF CountInv
<1>1. ASSUME NEW f \in FiberObj
      PROVE  /\ Item(f)' = w <=> Item(f) = w
             /\ Item(f) = w => /\ Waits(f)' <=> Waits(f)
                               /\ f \in parked' <=> f \in parked
                               /\ \A u \in Threads : Spot(u, f)' = Spot(u, f)
  <2>1. CASE f = s
    BY <2>1
  <2>2. CASE f # s
    <3>1. Same(f)
      BY <2>2 DEF Touches
    <3> QED BY <3>1 DEF Same, Waits
  <2> QED BY <2>1, <2>2
<1>2. Runners(w)' = Runners(w)
  <2>1. \A t \in Threads : t \in Runners(w)' <=> t \in Runners(w)
    BY <1>1, RunnersBy, RunnersByNext DEF RunnersAgree
  <2> QED BY <2>1 DEF Runners
<1>3. Served(w)' <=> Served(w)
  BY <1>1, ServedBy, ServedByNext DEF ServedAgrees
<1>4. (Carriers(w) \cap parked # {})' <=> Carriers(w) \cap parked # {}
  BY <1>1 DEF Carriers
<1> QED BY <1>2, <1>3, <1>4 DEF Status, Alike

\* A live item has one fiber at most.
OneFiber == \A f, g \in FiberObj : Item(f) = Item(g) /\ Live(f) => f = g

\* It follows from the part of the invariant about functions.
LEMMA CbInvOneFiber == TypeOK /\ CbInv => OneFiber
<1> SUFFICES ASSUME TypeOK, CbInv, NEW f \in FiberObj, NEW g \in FiberObj,
                    Item(f) = Item(g), Live(f)
             PROVE  f = g
  BY DEF OneFiber
<1>1. CASE f \in Fibers /\ g \in Fibers
  BY <1>1 DEF Item
<1>2. CASE f \in CbFibers /\ g \in CbFibers
  BY <1>2, ConstantsAssumption DEF Item, CbInv, Live, Work, Task
<1>3. CASE f \in Fibers /\ g \in CbFibers
  BY <1>3, ConstantsAssumption DEF Item, TypeOK, Task
<1>4. CASE f \in CbFibers /\ g \in Fibers
  BY <1>4, ConstantsAssumption DEF Item, TypeOK, Task
<1> QED BY <1>1, <1>2, <1>3, <1>4 DEF FiberObj

\* The status of an item is that of its fiber.
FiberStatus(f) ==
    IF \E t \in Threads : Spot(t, f) \in OnStack THEN "running"
    ELSE IF Waits(f) THEN "pending"
    ELSE IF f \in parked THEN "parked"
    ELSE "lost"

StatusAgrees ==
    \A f \in FiberObj : Live(f) =>
        /\ Status(Item(f)) = FiberStatus(f)
        /\ \A t \in Threads : t \in Runners(Item(f)) <=> Spot(t, f) \in OnStack

\* It holds, as a live item has one fiber at most.
LEMMA StatusOfFiber == CountInv /\ CbInv => StatusAgrees
<1> SUFFICES ASSUME CountInv, CbInv, NEW f \in FiberObj, Live(f)
             PROVE  /\ Status(Item(f)) = FiberStatus(f)
                    /\ \A t \in Threads : t \in Runners(Item(f)) <=> Spot(t, f) \in OnStack
  BY DEF StatusAgrees
<1> USE DEF CountInv
<1>1. \A g \in FiberObj : Item(g) = Item(f) <=> g = f
  BY CbInvOneFiber DEF OneFiber
<1>2. phase[Item(f)] = "live" /\ Item(f) \in Work
  BY DEF Live
<1>3. \A t \in Threads : t \in Runners(Item(f)) <=> Spot(t, f) \in OnStack
  BY <1>1, RunnersBy DEF RunnersAgree
<1>4. ~(Item(f) \in Cbs /\ Pending(Item(f)))
  <2>1. f \in Fibers \/ f \in CbFibers
    BY DEF FiberObj
  <2> QED BY <2>1, ConstantsAssumption DEF CbInv, Item, FiberObj
<1>5. Served(Item(f)) <=> Waits(f)
  BY <1>1, <1>2, <1>4, ServedBy DEF ServedAgrees
<1>6. Carriers(Item(f)) = {f}
  BY <1>1 DEF Carriers
<1>7. Runners(Item(f)) # {} <=> \E t \in Threads : Spot(t, f) \in OnStack
  BY <1>3 DEF Runners
<1> QED BY <1>2, <1>3, <1>5, <1>6, <1>7 DEF Status, FiberStatus

\* The same of the state after a step.
LEMMA StatusOfFiberNext == CountInv' /\ CbInv' => StatusAgrees'
  BY StatusOfFiber, PTL

\* An item has one thread at most on its stacks.
AloneInv == \A w \in Work : \A t, u \in Runners(w) : t = u

\* The threads on an item that has not been accepted: none.
LEMMA NewIsNotRun ==
  ASSUME HandOK, FiberInv, NEW w \in Work, phase[w] = "new"
  PROVE  Runners(w) = {}
<1> SUFFICES ASSUME NEW t \in Threads, t \in Runners(w) PROVE FALSE
  BY DEF Runners
<1>1. PICK f \in FiberObj : Item(f) = w /\ Spot(t, f) \in OnStack
  BY RunnersBy DEF RunnersAgree
<1>2. FiberOK(f)
  BY DEF FiberInv
<1> QED BY <1>1, <1>2 DEF FiberOK, Live, OnStack

\* schedule() adds its task to the queue, for any thread.
LEMMA AppendQueued ==
  ASSUME TypeOK, NEW x, NEW thread, m_fibers' = Append(m_fibers, Entry(x, thread))
  PROVE  /\ \A y : y \in QueuedTasks' <=> y \in QueuedTasks \/ y = x
         /\ thread = AnyThread /\ (\A i \in DOMAIN m_fibers : m_fibers[i].thread = AnyThread)
              => \A i \in DOMAIN m_fibers' : m_fibers'[i].thread = AnyThread
<1>1. PICK S : m_fibers \in Seq(S)
  BY DEF TypeOK
<1>2. \A k \in DOMAIN m_fibers' : \/ k \in DOMAIN m_fibers /\ m_fibers'[k] = m_fibers[k]
                                  \/ m_fibers'[k] = Entry(x, thread)
  BY <1>1, AppendElem
<1>3. \A k \in DOMAIN m_fibers : k \in DOMAIN m_fibers' /\ m_fibers'[k] = m_fibers[k]
  BY <1>1
<1>4. \E k \in DOMAIN m_fibers' : m_fibers'[k] = Entry(x, thread)
  <2>1. Len(m_fibers) + 1 \in DOMAIN m_fibers' /\ m_fibers'[Len(m_fibers) + 1] = Entry(x, thread)
    BY <1>1
  <2> QED BY <2>1
<1>5. Entry(x, thread).task = x /\ Entry(x, thread).thread = thread
  BY DEF Entry
<1>6. \A y : y \in QueuedTasks' <=> y \in QueuedTasks \/ y = x
  BY <1>2, <1>3, <1>4, <1>5 DEF QueuedTasks
<1> QED BY <1>2, <1>5, <1>6

\* The scan takes its task out of the queue.
LEMMA RemoveQueued ==
  ASSUME TypeOK, QueueDistinct, NEW i \in DOMAIN m_fibers, m_fibers' = RemoveAt(m_fibers, i)
  PROVE  /\ \A y : y \in QueuedTasks' <=> y \in QueuedTasks /\ y # m_fibers[i].task
         /\ (\A j \in DOMAIN m_fibers : m_fibers[j].thread = AnyThread)
              => \A j \in DOMAIN m_fibers' : m_fibers'[j].thread = AnyThread
<1>1. PICK S : m_fibers \in Seq(S)
  BY DEF TypeOK
<1>2. \A k \in DOMAIN m_fibers' : \E j \in DOMAIN m_fibers : j # i /\ m_fibers'[k] = m_fibers[j]
  BY <1>1, RemoveAtElem
<1>3. ASSUME NEW j \in DOMAIN m_fibers, j # i
      PROVE  \E k \in DOMAIN m_fibers' : m_fibers'[k] = m_fibers[j]
  <2> DEFINE k == IF j < i THEN j ELSE j - 1
  <2>1. i \in 1..Len(m_fibers) /\ j \in 1..Len(m_fibers) /\ Len(m_fibers) \in Nat
    BY <1>1
  <2>2. k \in 1..(Len(m_fibers) - 1)
    BY <2>1, <1>3
  <2>3. DOMAIN m_fibers' = 1..(Len(m_fibers) - 1)
    <3>1. Len(SubSeq(m_fibers, 1, i - 1)) = i - 1
          /\ Len(SubSeq(m_fibers, i + 1, Len(m_fibers))) = Len(m_fibers) - i
      BY <1>1, <2>1
    <3>2. SubSeq(m_fibers, 1, i - 1) \in Seq(S) /\ SubSeq(m_fibers, i + 1, Len(m_fibers)) \in Seq(S)
      BY <1>1, <2>1
    <3> QED BY <3>1, <3>2, <2>1 DEF RemoveAt
  <2>4. m_fibers'[k] = m_fibers[IF k < i THEN k ELSE k + 1]
    <3>1. k \in DOMAIN RemoveAt(m_fibers, i)
      BY <2>2, <2>3
    <3> HIDE DEF k
    <3> QED BY <3>1, <1>1, RemoveAtElem
  <2>5. (IF k < i THEN k ELSE k + 1) = j
    BY <2>1, <1>3
  <2> QED BY <2>2, <2>3, <2>4, <2>5
<1>4. \A y : y \in QueuedTasks' <=> y \in QueuedTasks /\ y # m_fibers[i].task
  <2>1. ASSUME NEW y \in QueuedTasks' PROVE y \in QueuedTasks /\ y # m_fibers[i].task
    BY <1>2 DEF QueuedTasks, QueueDistinct
  <2>2. ASSUME NEW y \in QueuedTasks, y # m_fibers[i].task PROVE y \in QueuedTasks'
    BY <1>3, <2>2 DEF QueuedTasks
  <2> QED BY <2>1, <2>2
<1> QED BY <1>2, <1>4

\* A thread that does not move does with each fiber what it did.
LEMMA SpotElsewhere ==
  ASSUME NEW u, pc'[u] = pc[u], ft'[u] = ft[u], cb_fiber'[u] = cb_fiber[u]
  PROVE  /\ \A f : Spot(u, f)' = Spot(u, f)
         /\ Cur(u)' = Cur(u)
  BY DEF Spot, Cur

\* The fiber in one thread's hand has no spot with another.
LEMMA SpotAlone ==
  ASSUME NEW u, NEW s, s # ft[u], s # cb_fiber[u]
  PROVE  Spot(u, s) = "none" /\ Cur(u) # s
  BY DEF Spot, Cur

\* A step of thread t with fiber s at most.
Handles(t, s) ==
    /\ \A u \in Threads : u # t => /\ pc'[u] = pc[u] /\ ft'[u] = ft[u]
                                   /\ cb_fiber'[u] = cb_fiber[u]
    /\ \A f \in FiberObj : f # s =>
          /\ m_state'[f] = m_state[f] /\ Item(f)' = Item(f)
          /\ f \in QueuedTasks' <=> f \in QueuedTasks
          /\ f \in parked' <=> f \in parked
    /\ pc[t] = "enter" => ft[t] \notin FiberObj \ {s}
    /\ pc'[t] = "enter" => ft'[t] \notin FiberObj \ {s}
    /\ pc[t] \in OnStack \cup {"settle"} => Cur(t) = s
    /\ pc'[t] \in OnStack \cup {"settle"} => Cur(t)' = s
    /\ \A w \in Work : phase'[w] # phase[w] => \A f \in FiberObj : f # s => Item(f) # w

\* It touches no other fiber.
LEMMA HandlesTouches ==
  ASSUME NEW t \in Threads, NEW s, Handles(t, s)
  PROVE  Touches(s)
<1> USE DEF Handles
<1> SUFFICES ASSUME NEW f \in FiberObj, f # s PROVE Same(f)
  BY DEF Touches
<1>1. ASSUME NEW u \in Threads, u # t PROVE Spot(u, f)' = Spot(u, f)
  BY <1>1, SpotElsewhere
<1>2. Spot(t, f) = "none"
  BY DEF Spot, OnStack
<1>3. Spot(t, f)' = "none"
  BY DEF Spot, OnStack
<1> QED BY <1>1, <1>2, <1>3 DEF Same

\* It leaves the other threads on the items they execute.
LEMMA HandlesRunners ==
  ASSUME HandOK, NEW t \in Threads, NEW s, Handles(t, s), NEW w,
         \A u \in Threads : u # t => s # ft[u] /\ s # cb_fiber[u],
         t \in Runners(w)' <=> t \in Runners(w)
  PROVE  Runners(w)' = Runners(w)
<1>1. ASSUME NEW u \in Threads, u # t PROVE u \in Runners(w)' <=> u \in Runners(w)
  <2>1. pc'[u] = pc[u] /\ Cur(u)' = Cur(u) /\ Cur(u) # s
    BY <1>1, SpotElsewhere, SpotAlone DEF Handles
  <2>2. pc[u] \in OnStack => Cur(u) \in FiberObj
    BY CurIsFiber
  <2>3. pc[u] \in OnStack => Item(Cur(u))' = Item(Cur(u))
    <3>1. PICK f : f = Cur(u)
      OBVIOUS
    <3>2. pc[u] \in OnStack => Item(f)' = Item(f)
      BY <2>1, <2>2, <3>1 DEF Handles
    <3>3. Item(Cur(u))' = Item(f)'
      BY <2>1, <3>1 DEF Item
    <3> QED BY <3>1, <3>2, <3>3
  <2> QED BY <2>1, <2>3 DEF Runners
<1>2. \A u \in Threads : u \in Runners(w)' <=> u \in Runners(w)
  BY <1>1
<1> QED BY <1>2 DEF Runners

\* The fiber comes out right if nobody else has it.
LEMMA FibersStep ==
  ASSUME TypeOK, FiberInv, NEW s, Touches(s), s \in FiberObj => FiberOK(s)'
  PROVE  FiberInv'
  BY TouchesFibers DEF FiberInv

\* No item is lost if its fiber keeps a place or has finished.
LEMMA AliveStep ==
  ASSUME TypeOK, FiberInv, AliveInv, NEW s, Touches(s),
         \A w \in Work : phase'[w] = "live" =>
             \/ phase[w] = "live"
             \/ w \in Cbs /\ Pending(w)'
             \/ s \in FiberObj /\ Item(s)' = w /\ Placed(s)',
         \A w \in Cbs : Pending(w) =>
             \/ Pending(w)'
             \/ s \in FiberObj /\ Item(s)' = w /\ Placed(s)',
         s \in FiberObj /\ Live(s) =>
             \/ Item(s)' = Item(s) /\ Placed(s)'
             \/ phase'[Item(s)] = "done"
  PROVE  AliveInv'
<1> SUFFICES ASSUME NEW w \in Work, phase'[w] = "live"
             PROVE  \/ w \in Cbs /\ Pending(w)'
                    \/ \E f \in FiberObj : Item(f)' = w /\ Placed(f)'
  BY DEF AliveInv
<1>1. CASE phase[w] # "live"
  BY <1>1
<1>2. CASE w \in Cbs /\ Pending(w)
  BY <1>2
<1>3. CASE phase[w] = "live" /\ \E f \in FiberObj : Item(f) = w /\ Placed(f)
  <2>1. PICK f \in FiberObj : Item(f) = w /\ Placed(f)
    BY <1>3
  <2>2. CASE f # s
    <3>1. Item(f)' = w
      BY <2>1, <2>2 DEF Touches, Same
    <3>2. Placed(f)'
      BY <2>1, <2>2, TouchesFibers
    <3> QED BY <3>1, <3>2
  <2>3. CASE f = s
    BY <1>3, <2>1, <2>3 DEF Live
  <2> QED BY <2>2, <2>3
<1> QED BY <1>1, <1>2, <1>3 DEF AliveInv

\* The life of an item goes on in one direction.
Ages == \A w \in Work : \/ phase'[w] = phase[w]
                        \/ phase[w] = "new" /\ phase'[w] = "live"
                        \/ phase'[w] = "done"

\* The functions of the callback fibers stay right while no fiber gets another one.
LEMMA CbStep ==
  ASSUME TypeOK, CbInv, m_cb' = m_cb, Ages,
         \A w \in Cbs : Pending(w)' => Pending(w) \/ phase[w] = "new",
         \A w \in Cbs : Pending(w)' => phase'[w] = "live",
         \A u \in Threads : Keeps(u)' => m_cb[cb_fiber'[u]] = None
  PROVE  CbInv'
<1>1. \A f \in CbFibers : m_cb[f] # None => m_cb[f] \in Work
  BY DEF TypeOK, Work
<1>2. \A w \in Cbs : Pending(w)' => phase'[w] = "live" /\ \A f \in CbFibers : m_cb'[f] # w
  BY ConstantsAssumption DEF CbInv, Task
<1>3. \A f, g \in CbFibers : f # g /\ m_cb'[f] = m_cb'[g] =>
          m_cb'[f] = None \/ phase'[m_cb'[f]] = "done"
  BY <1>1 DEF CbInv, Ages
<1>4. \A f \in CbFibers : m_cb'[f] # None => phase'[m_cb'[f]] # "new"
  BY <1>1 DEF CbInv, Ages
<1> QED BY <1>2, <1>3, <1>4 DEF CbInv

\* All that TaskPool sees stays as it is.
LEMMA PoolStutters ==
  ASSUME \A w \in Work : Alike(w), owner' # "out" <=> owner # "out"
  PROVE  UNCHANGED TP!vars
<1>1. /\ [w \in Work |-> Status(w)]' = [w \in Work |-> Status(w)]
      /\ [w \in Work |-> Runners(w)]' = [w \in Work |-> Runners(w)]
  BY DEF Alike
<1> QED BY <1>1 DEF TP!vars

\* One item goes from one status to another.
LEMMA PoolBecomes ==
  ASSUME NEW w \in Work, NEW from, NEW to, NEW who, Status(w) = from, Status(w)' = to,
         Runners(w)' = who, \A v \in Work : v # w => Alike(v), owner' = owner
  PROVE  TP!Become(w, from, to, who)
<1>1. [v \in Work |-> Status(v)]' = [[v \in Work |-> Status(v)] EXCEPT ![w] = to]
  BY DEF Alike
<1>2. [v \in Work |-> Runners(v)]' = [[v \in Work |-> Runners(v)] EXCEPT ![w] = who]
  BY DEF Alike
<1>3. [v \in Work |-> Status(v)][w] = from
  OBVIOUS
<1> QED BY <1>1, <1>2, <1>3 DEF TP!Become

\* What all steps of a thread assume.
PoolInv == CountInv /\ ExclInv /\ AbortInv /\ ServeInv /\ AloneInv

\* A step of TaskPool, or none.
PoolStep == TP!Next \/ UNCHANGED TP!vars

\* EnterIdle, Idle, IdleReturns and RunReturns leave all fibers alone.
LEMMA QuietServe ==
  ASSUME PoolInv, CountInv', ExitInv', NEW t \in Threads,
         EnterIdle(t) \/ Idle(t) \/ IdleReturns(t) \/ RunReturns(t)
  PROVE  ServeInv' /\ PoolStep
<1> USE DEF PoolInv, ServeInv
<1>1. /\ UNCHANGED <<m_fibers, m_state, m_cb, parked, phase, owner, ft>>
      /\ \A u \in Threads : u # t => pc'[u] = pc[u] /\ cb_fiber'[u] = cb_fiber[u]
      /\ pc[t] \in {"pick", "idle", "rest"} /\ pc'[t] \in {"pick", "idle", "rest", "exit"}
      /\ cb_fiber'[t] = cb_fiber[t] \/ cb_fiber'[t] = None
  BY DEF EnterIdle, Idle, IdleReturns, RunReturns, pool, hand, ghost, CountInv, TypeOK
<1>2. QueuedTasks' = QueuedTasks /\ \A f : Item(f)' = Item(f)
  BY <1>1 DEF QueuedTasks, Item
<1>3. None \notin FiberObj
  BY ConstantsAssumption DEF FiberObj, Task
<1>4. Handles(t, None)
  BY <1>1, <1>2, <1>3 DEF Handles, OnStack
<1>5. Touches(None)
  BY <1>4, HandlesTouches
<1>6. \A w : Pending(w)' <=> Pending(w)
  BY <1>1, <1>2 DEF Pending
<1>7. \A u \in Threads : Keeps(u)' => m_cb[cb_fiber'[u]] = None
  <2>1. \A u \in Threads : Keeps(u)' => Keeps(u) /\ cb_fiber'[u] = cb_fiber[u]
    BY <1>1 DEF Keeps, OnStack
  <2> QED BY <2>1 DEF CbInv
<1>8. CbInv'
  <2>1. Ages
    BY <1>1 DEF Ages
  <2>2. \A w \in Cbs : Pending(w)' => phase'[w] = "live"
    BY <1>1, <1>6 DEF CbInv
  <2> QED BY <1>1, <1>6, <1>7, <2>1, <2>2, CbStep DEF CountInv
<1>9. FiberInv'
  BY <1>3, <1>5, FibersStep DEF CountInv
<1>10. AliveInv'
  BY <1>1, <1>3, <1>5, <1>6, AliveStep DEF CountInv
<1>11. \A w \in Work : Alike(w)
  BY <1>1, <1>3, <1>5, <1>6, TouchesStatus
<1>12. PoolStep
  BY <1>1, <1>11, PoolStutters DEF PoolStep
<1> QED BY <1>8, <1>9, <1>10, <1>12

\* PickTask moves a task from the queue into a hand.
LEMMA PickTaskServe ==
  ASSUME PoolInv, CountInv', ExitInv', NEW t \in Threads, PickTask(t)
  PROVE  ServeInv' /\ PoolStep
<1> USE DEF PoolInv, ServeInv
<1>1. PICK i \in DOMAIN m_fibers : /\ ft' = [ft EXCEPT ![t] = m_fibers[i].task]
                                   /\ m_fibers' = RemoveAt(m_fibers, i)
  BY DEF PickTask, Eligible
<1>2. PICK x \in Task : x = m_fibers[i].task
  BY EntryType DEF CountInv
<1>3. /\ pc[t] = "pick" /\ pc'[t] = "enter" /\ ft'[t] = x
      /\ \A u \in Threads : u # t => pc'[u] = pc[u] /\ ft'[u] = ft[u]
      /\ UNCHANGED <<cb_fiber, m_state, m_cb, parked, phase, owner>>
  BY <1>1, <1>2 DEF PickTask, ghost, CountInv, TypeOK
<1>4. /\ x \in QueuedTasks /\ x \notin parked
      /\ \A u \in Threads : x # ft[u] /\ x # cb_fiber[u]
  BY <1>2 DEF QueuedTasks, ExclInv, QueueUnheld
<1>5. \A y : y \in QueuedTasks' <=> y \in QueuedTasks /\ y # x
  BY <1>1, <1>2, RemoveQueued DEF CountInv, ExclInv
<1>6. \A f : Item(f)' = Item(f)
  BY <1>3 DEF Item
<1>7. Handles(t, x)
  BY <1>3, <1>5, <1>6 DEF Handles, OnStack
<1>8. Touches(x)
  BY <1>7, HandlesTouches
<1>9. Spot(t, x)' = "enter" /\ \A u \in Threads : u # t => Spot(u, x)' = "none"
  <2>1. Spot(t, x)' = "enter"
    BY <1>3 DEF Spot
  <2>2. ASSUME NEW u \in Threads, u # t PROVE Spot(u, x)' = "none"
    BY <1>3, <1>4, <2>2, SpotElsewhere, SpotAlone
  <2> QED BY <2>1, <2>2
<1>10. x \in FiberObj => FiberOK(x)'
  <2> SUFFICES ASSUME x \in FiberObj PROVE FiberOK(x)'
    OBVIOUS
  <2>1. Live(x) /\ m_state[x] \in {"INIT", "HOLD", "READY"}
    BY <1>4 DEF FiberInv, FiberOK
  <2>2. Live(x)'
    BY <2>1, <1>3, <1>6 DEF Live
  <2> QED BY <2>1, <2>2, <1>3, <1>4, <1>5, <1>6, <1>9 DEF FiberOK, Live
<1>11. \A w : Pending(w)' <=> Pending(w)
  <2>1. Pending(x)'
    BY <1>3 DEF Pending
  <2>2. Pending(x)
    BY <1>4 DEF Pending
  <2>3. ASSUME NEW w, w # x PROVE Pending(w)' <=> Pending(w)
    BY <1>3, <1>5, <2>3 DEF Pending
  <2> QED BY <2>1, <2>2, <2>3
<1>12. CbInv'
  <2>1. Ages
    BY <1>3 DEF Ages
  <2>2. \A w \in Cbs : Pending(w)' => phase'[w] = "live"
    BY <1>3, <1>11 DEF CbInv
  <2>3. \A u \in Threads : Keeps(u)' => m_cb[cb_fiber'[u]] = None
    <3>1. \A u \in Threads : Keeps(u)' => Keeps(u)
      BY <1>3 DEF Keeps, OnStack
    <3> QED BY <1>3, <3>1 DEF CbInv
  <2> QED BY <1>3, <1>11, <2>1, <2>2, <2>3, CbStep DEF CountInv
<1>13. FiberInv'
  BY <1>8, <1>10, FibersStep DEF CountInv
<1>14. AliveInv'
  <2>1. Placed(x)'
    BY <1>9 DEF Placed
  <2> QED BY <1>3, <1>6, <1>8, <1>11, <2>1, AliveStep DEF CountInv
<1>15. \A w \in Work : Alike(w)
  <2>1. ASSUME NEW w \in Work, x \in FiberObj => Item(x) # w PROVE Alike(w)
    BY <2>1, <1>3, <1>6, <1>8, <1>11, TouchesStatus
  <2>2. ASSUME x \in FiberObj PROVE Alike(Item(x))
    <3>1. Live(x) /\ m_state[x] \in {"INIT", "HOLD", "READY"}
      BY <1>4, <2>2 DEF FiberInv, FiberOK
    <3>2. Live(x)'
      BY <3>1, <1>3, <1>6 DEF Live
    <3>3. FiberStatus(x) = "pending"
      <4>1. \A u \in Threads : Spot(u, x) = "none"
        BY <1>4, SpotAlone
      <4> QED BY <1>4, <4>1 DEF FiberStatus, Waits, OnStack
    <3>4. FiberStatus(x)' = "pending"
      BY <1>9 DEF FiberStatus, Waits, OnStack
    <3>5. Status(Item(x)) = "pending"
      BY <3>1, <3>3, <2>2, StatusOfFiber DEF StatusAgrees
    <3>6. Status(Item(x))' = "pending"
      BY <3>2, <3>4, <2>2, <1>12, StatusOfFiberNext DEF StatusAgrees
    <3>7. Runners(Item(x))' = Runners(Item(x))
      <4>1. \A u \in Threads : u \notin Runners(Item(x))'
        BY <1>9, <1>12, <2>2, <3>2, StatusOfFiberNext DEF StatusAgrees, OnStack
      <4>2. \A u \in Threads : u \notin Runners(Item(x))
        BY <1>4, <2>2, <3>1, SpotAlone, StatusOfFiber DEF StatusAgrees, OnStack
      <4> QED BY <4>1, <4>2 DEF Runners
    <3> QED BY <3>5, <3>6, <3>7 DEF Alike
  <2>3. x \in FiberObj => \A w \in Work : w = Item(x) => Alike(w)
    BY <2>2, <1>6 DEF Alike
  <2> QED BY <2>1, <2>3
<1>16. PoolStep
  BY <1>3, <1>15, PoolStutters DEF PoolStep
<1> QED BY <1>12, <1>13, <1>14, <1>16

\* A step of thread t with the fiber s in its hand that leaves it there.
WorksOn(t, s, x) ==
    /\ pc' = [pc EXCEPT ![t] = x] /\ x \in OnStack \cup {"settle"}
    /\ \/ pc[t] = "enter" /\ ft[t] = s
       \/ pc[t] \in OnStack \cup {"settle"} /\ Cur(t) = s
    /\ UNCHANGED <<m_fibers, ft, cb_fiber, m_cb, owner>>
    /\ \A f \in FiberObj : f # s => /\ m_state'[f] = m_state[f]
                                    /\ f \in parked' <=> f \in parked
    /\ \A w \in Work : phase'[w] = phase[w] \/ (w = Item(s) /\ phase'[w] = "done")

\* Nobody else has the fiber.
LEMMA WorksOnFacts ==
  ASSUME CountInv, ExclInv, NEW t \in Threads, NEW s \in FiberObj, NEW x, WorksOn(t, s, x)
  PROVE  /\ Spot(t, s) = pc[t] /\ Spot(t, s)' = x
         /\ \A u \in Threads : u # t => Spot(u, s) = "none" /\ Spot(u, s)' = "none"
         /\ s \notin QueuedTasks /\ s \notin QueuedTasks'
         /\ ~InHand(s)' /\ \A f : Item(f)' = Item(f)
         /\ pc'[t] = x /\ \A u \in Threads : u # t => pc'[u] = pc[u]
<1> USE DEF WorksOn
<1>1. s # None
  BY ConstantsAssumption DEF FiberObj, Task
<1>2. Cur(t) = s /\ Cur(t)' = s
  BY <1>1 DEF Cur
<1>3. pc'[t] = x /\ \A u \in Threads : u # t => pc'[u] = pc[u]
  BY DEF CountInv, TypeOK
<1>4. Spot(t, s) = pc[t] /\ Spot(t, s)' = x
  BY <1>2, <1>3 DEF Spot, OnStack
<1>5. \A u \in Threads : u # t => s # ft[u] /\ s # cb_fiber[u]
  BY <1>1, <1>2, CurElsewhere DEF ExclInv
<1>6. ASSUME NEW u \in Threads, u # t PROVE Spot(u, s) = "none" /\ Spot(u, s)' = "none"
  BY <1>3, <1>5, <1>6, SpotAlone, SpotElsewhere
<1>7. s \notin QueuedTasks
  <2>1. s = ft[t] \/ s = cb_fiber[t]
    BY <1>2 DEF Cur
  <2> QED BY <2>1 DEF QueuedTasks, ExclInv, QueueUnheld
<1>8. QueuedTasks' = QueuedTasks /\ \A f : Item(f)' = Item(f)
  BY DEF QueuedTasks, Item
<1>9. ~InHand(s)'
  <2>1. \A u \in Threads : Spot(u, s)' # "enter"
    BY <1>4, <1>6 DEF OnStack
  <2> QED BY <2>1, InHandSpotNext
<1> QED BY <1>3, <1>4, <1>6, <1>7, <1>8, <1>9

\* All other fibers and items are left alone.
LEMMA WorksOnServe ==
  ASSUME PoolInv, CountInv', ExitInv', NEW t \in Threads, NEW s \in FiberObj, NEW x,
         WorksOn(t, s, x), Live(s) \/ phase' = phase, FiberOK(s)'
  PROVE  ServeInv' /\ \A v \in Work : v # Item(s) => Alike(v)
<1> USE DEF PoolInv, ServeInv
<1>1. /\ Spot(t, s) = pc[t] /\ Spot(t, s)' = x
      /\ \A u \in Threads : u # t => Spot(u, s) = "none" /\ Spot(u, s)' = "none"
      /\ s \notin QueuedTasks /\ s \notin QueuedTasks' /\ \A f : Item(f)' = Item(f)
      /\ pc'[t] = x /\ \A u \in Threads : u # t => pc'[u] = pc[u]
  BY WorksOnFacts
<1>2. /\ UNCHANGED <<m_fibers, ft, cb_fiber, m_cb, owner>>
      /\ \A w \in Work : phase'[w] = phase[w] \/ (w = Item(s) /\ phase'[w] = "done")
      /\ x \in OnStack \cup {"settle"}
  BY DEF WorksOn
<1>3. QueuedTasks' = QueuedTasks
  BY <1>2 DEF QueuedTasks
<1>4. \A w \in Work : phase'[w] # phase[w] => \A f \in FiberObj : f # s => Item(f) # w
  <2>1. CASE phase' = phase
    BY <2>1
  <2>2. CASE Live(s)
    BY <2>2, <1>2, CbInvOneFiber DEF OneFiber, CountInv
  <2> QED BY <2>1, <2>2
<1>5. Handles(t, s)
  <2>1. s # None
    BY ConstantsAssumption DEF FiberObj, Task
  <2>2. Cur(t) = s /\ Cur(t)' = s
    BY <2>1 DEF WorksOn, Cur
  <2> QED BY <2>1, <2>2, <1>1, <1>2, <1>3, <1>4 DEF Handles, WorksOn, OnStack
<1>6. Touches(s)
  BY <1>5, HandlesTouches
<1>7. FiberInv'
  BY <1>6, FibersStep DEF CountInv
<1>8. \A w \in Cbs : Pending(w)' <=> Pending(w)
  <2>1. ASSUME NEW w \in Cbs, ft[t] = w PROVE pc[t] # "enter"
    <3>1. w \notin FiberObj
      BY ConstantsAssumption DEF FiberObj
    <3> QED BY <2>1, <3>1 DEF WorksOn, OnStack
  <2>2. x # "enter"
    BY <1>2 DEF OnStack
  <2> QED BY <1>1, <1>2, <1>3, <2>1, <2>2 DEF Pending
<1>9. CbInv'
  <2>1. Ages
    BY <1>2 DEF Ages
  <2>2. \A w \in Cbs : Pending(w)' => phase'[w] = "live"
    <3> SUFFICES ASSUME NEW w \in Cbs, Pending(w) PROVE phase'[w] = "live"
      BY <1>8
    <3>1. phase[w] = "live" /\ w \in Work /\ \A f \in CbFibers : m_cb[f] # w
      BY DEF CbInv, Work
    <3>2. Item(s) # w
      BY <3>1, ConstantsAssumption DEF Item, FiberObj
    <3> QED BY <3>1, <3>2, <1>2
  <2>3. \A u \in Threads : Keeps(u)' => m_cb[cb_fiber'[u]] = None
    <3>1. \A u \in Threads : Keeps(u)' => Keeps(u)
      <4>1. \A u \in Threads : u # t /\ Keeps(u)' => Keeps(u)
        BY <1>1, <1>2 DEF Keeps
      <4>2. Keeps(t)' => Keeps(t)
        BY <1>1, <1>2 DEF Keeps
      <4> QED BY <4>1, <4>2
    <3> QED BY <1>2, <3>1 DEF CbInv
  <2> QED BY <1>2, <1>8, <2>1, <2>2, <2>3, CbStep DEF CountInv
<1>10. AliveInv'
  <2>1. Placed(s)'
    BY <1>1, <1>2 DEF Placed, OnStack
  <2>2. \A w \in Work : phase'[w] = "live" => phase[w] = "live"
    BY <1>2
  <2> QED BY <1>1, <1>6, <1>8, <2>1, <2>2, AliveStep DEF CountInv
<1>11. \A v \in Work : v # Item(s) => Alike(v)
  BY <1>1, <1>2, <1>6, <1>8, TouchesStatus
<1> QED BY <1>7, <1>9, <1>10, <1>11

\* While a thread stays on the stack, its item runs on for TaskPool.
LEMMA StaysOn ==
  ASSUME CountInv, NEW t \in Threads, NEW s \in FiberObj, NEW x, WorksOn(t, s, x),
         pc[t] \in OnStack, x \in OnStack
  PROVE  Alike(Item(s))
<1> USE DEF WorksOn
<1>1. s # None
  BY ConstantsAssumption DEF FiberObj, Task
<1>2. pc[t] # "enter" /\ Cur(t) = s
  BY DEF OnStack
<1>3. pc'[t] = x /\ \A u \in Threads : u # t => pc'[u] = pc[u]
  BY DEF CountInv, TypeOK
<1>4. /\ \A u \in Threads : pc'[u] \in OnStack <=> pc[u] \in OnStack
      /\ \A f : Item(f)' = Item(f)
  BY <1>3 DEF Item
<1>5. \A u \in Threads : Cur(u)' = Cur(u)
  BY DEF Cur
<1>6. \A w : Runners(w)' = Runners(w)
  <2>1. \A u \in Threads : Item(Cur(u))' = Item(Cur(u))
    BY DEF Cur, Item
  <2> QED BY <1>4, <2>1 DEF Runners
<1>7. t \in Runners(Item(s))
  BY <1>2 DEF Runners
<1>8. t \in Runners(Item(s))'
  <2>1. Item(Cur(t))' = Item(s)'
    BY <1>2 DEF Cur, Item
  <2> QED BY <1>3, <2>1 DEF Runners
<1>9. Runners(Item(s))' = Runners(Item(s))
  <2>1. Item(s)' = Item(s)
    BY <1>4
  <2>2. \A u \in Threads : Item(Cur(u))' = Item(Cur(u))
    BY DEF Cur, Item
  <2> QED BY <1>4, <2>1, <2>2 DEF Runners
<1> QED BY <1>7, <1>8, <1>9 DEF Alike, Status

\* Where nothing was left of the item but this thread, nothing of it is on a stack.
LEMMA LeavesAlone ==
  ASSUME CountInv, AloneInv, NEW t \in Threads, NEW s \in FiberObj, NEW x, WorksOn(t, s, x),
         pc[t] \in OnStack, x \notin OnStack, Item(s) \in Work
  PROVE  Runners(Item(s)) = {t} /\ Runners(Item(s))' = {}
<1> USE DEF WorksOn
<1>1. pc[t] # "enter" /\ Cur(t) = s
  BY DEF OnStack
<1>2. pc'[t] = x /\ \A u \in Threads : u # t => pc'[u] = pc[u]
  BY DEF CountInv, TypeOK
<1>3. t \in Runners(Item(s))
  BY <1>1 DEF Runners
<1>4. Runners(Item(s)) = {t}
  BY <1>3 DEF AloneInv
<1>5. ASSUME NEW u \in Threads, u \in Runners(Item(s))' PROVE FALSE
  <2>1. pc'[u] \in OnStack /\ Item(Cur(u))' = Item(s)'
    BY <1>5 DEF Runners
  <2>2. u # t /\ pc[u] \in OnStack
    BY <1>2, <2>1
  <2>3. Item(Cur(u))' = Item(Cur(u)) /\ Item(s)' = Item(s)
    BY DEF Cur, Item
  <2>4. u \in Runners(Item(s))
    BY <2>1, <2>2, <2>3 DEF Runners
  <2> QED BY <1>4, <2>2, <2>4
<1> QED BY <1>4, <1>5 DEF Runners

\* swapIn(): the item begins to run.
LEMMA EnterFiberServe ==
  ASSUME PoolInv, CountInv', ExitInv', NEW t \in Threads, EnterFiber(t)
  PROVE  ServeInv' /\ PoolStep
<1> USE DEF PoolInv, ServeInv
<1>1. PICK s \in FiberObj : s = ft[t]
  BY DEF EnterFiber
<1>2. /\ pc[t] = "enter" /\ pc' = [pc EXCEPT ![t] = "body"]
      /\ m_state' = [m_state EXCEPT ![s] = "EXEC"]
      /\ UNCHANGED <<m_fibers, ft, cb_fiber, m_cb, owner, parked, phase>>
  BY <1>1 DEF EnterFiber, hand, pool, ghost
<1>3. m_state'[s] = "EXEC" /\ \A f \in FiberObj : f # s => m_state'[f] = m_state[f]
  BY <1>2 DEF CountInv, TypeOK
<1>4. WorksOn(t, s, "body")
  BY <1>1, <1>2, <1>3 DEF WorksOn, OnStack
<1>5. /\ Spot(t, s) = "enter" /\ Spot(t, s)' = "body"
      /\ \A u \in Threads : u # t => Spot(u, s) = "none" /\ Spot(u, s)' = "none"
      /\ s \notin QueuedTasks' /\ \A f : Item(f)' = Item(f)
  BY <1>2, <1>4, WorksOnFacts
<1>6. Live(s) /\ m_state[s] \in {"INIT", "HOLD", "READY"}
  BY <1>5 DEF FiberInv, FiberOK
<1>7. Live(s)'
  BY <1>2, <1>5, <1>6 DEF Live
<1>8. s \notin parked
  BY <1>1, <1>2 DEF ExclInv, ParkedLeaving
<1>9. FiberOK(s)'
  BY <1>2, <1>5, <1>7, <1>8 DEF FiberOK, Live
<1>10. ServeInv' /\ \A v \in Work : v # Item(s) => Alike(v)
  BY <1>2, <1>4, <1>9, WorksOnServe
<1>11. Status(Item(s)) = "pending"
  <2>1. FiberStatus(s) = "pending"
    <3>1. \A u \in Threads : Spot(u, s) \notin OnStack
      BY <1>5 DEF OnStack
    <3> QED BY <1>5, <3>1 DEF FiberStatus, Waits
  <2> QED BY <1>6, <2>1, StatusOfFiber DEF StatusAgrees
<1>12. Status(Item(s))' = "running"
  <2>1. FiberStatus(s)' = "running"
    BY <1>5 DEF FiberStatus, OnStack
  <2> QED BY <1>7, <1>10, <2>1, StatusOfFiberNext DEF StatusAgrees
<1>13. PICK w \in Work : w = Item(s)
  BY <1>6 DEF Live
<1>14. Status(w) = "pending" /\ Status(w)' = "running"
  BY <1>5, <1>11, <1>12, <1>13
<1>15. Runners(w) = {} /\ Runners(w)' = {t}
  <2>1. \A u \in Threads : u \notin Runners(Item(s))
    BY <1>5, <1>6, StatusOfFiber DEF StatusAgrees, OnStack
  <2>2. \A u \in Threads : u \in Runners(Item(s))' <=> u = t
    BY <1>5, <1>7, <1>10, StatusOfFiberNext DEF StatusAgrees, OnStack
  <2>3. Runners(Item(s))' = Runners(w)'
    BY <1>5, <1>13 DEF Runners
  <2> QED BY <1>13, <2>1, <2>2, <2>3 DEF Runners
<1>16. TP!Become(w, "pending", "running", {t})
  BY <1>2, <1>10, <1>13, <1>14, <1>15, PoolBecomes
<1>17. TP!Run(w, t)
  BY <1>15, <1>16 DEF TP!Run
<1> QED BY <1>10, <1>17 DEF PoolStep, TP!Next

\* The item whose body a thread executes is running.
LEMMA BodyRuns ==
  ASSUME PoolInv, NEW t \in Threads, pc[t] \in {"body", "yield"}
  PROVE  /\ Cur(t) \in FiberObj /\ Live(Cur(t)) /\ m_state[Cur(t)] = "EXEC"
         /\ Item(Cur(t)) \in Work /\ Status(Item(Cur(t))) = "running"
<1> USE DEF PoolInv, ServeInv
<1>1. Cur(t) \in FiberObj
  BY CurIsFiber DEF CountInv, OnStack
<1>2. Spot(t, Cur(t)) = pc[t]
  BY DEF Spot, OnStack
<1>3. Live(Cur(t))
  BY <1>1, <1>2 DEF FiberInv, FiberOK
<1>4. m_state[Cur(t)] = "EXEC"
  BY <1>1 DEF AbortInv, ExecIsBody
<1>5. Status(Item(Cur(t))) = "running"
  BY DEF Status, Runners, OnStack
<1> QED BY <1>1, <1>3, <1>4, <1>5 DEF Live

\* MainFunc(): the thread is still on the finished item's stack.
LEMMA MainFuncServe ==
  ASSUME PoolInv, CountInv', ExitInv', NEW t \in Threads, NEW end \in Over, MainFunc(t, end)
  PROVE  ServeInv' /\ PoolStep
<1> USE DEF PoolInv, ServeInv
<1>1. PICK s \in FiberObj : s = Cur(t) /\ Live(s) /\ Item(s) \in Work
                            /\ Status(Item(s)) = "running"
  BY BodyRuns DEF MainFunc
<1>2. /\ pc[t] = "body" /\ pc' = [pc EXCEPT ![t] = "swap"]
      /\ m_state' = [m_state EXCEPT ![s] = end]
      /\ phase' = [phase EXCEPT ![Item(s)] = "done"]
      /\ UNCHANGED <<m_fibers, ft, cb_fiber, m_cb, owner, parked>>
  BY <1>1 DEF MainFunc, hand, pool
<1>3. /\ m_state'[s] = end /\ \A f \in FiberObj : f # s => m_state'[f] = m_state[f]
      /\ phase'[Item(s)] = "done" /\ \A w \in Work : w # Item(s) => phase'[w] = phase[w]
  BY <1>1, <1>2 DEF CountInv, TypeOK
<1>4. WorksOn(t, s, "swap")
  BY <1>1, <1>2, <1>3 DEF WorksOn, OnStack
<1>5. /\ Spot(t, s)' = "swap" /\ \A u \in Threads : u # t => Spot(u, s)' = "none"
      /\ s \notin QueuedTasks' /\ \A f : Item(f)' = Item(f)
  BY <1>4, WorksOnFacts
<1>6. s \notin parked
  <2>1. s = ft[t] \/ s = cb_fiber[t]
    BY <1>1 DEF Cur
  <2> QED BY <2>1, <1>2 DEF ExclInv, ParkedLeaving
<1>7. FiberOK(s)'
  BY <1>1, <1>2, <1>3, <1>5, <1>6 DEF FiberOK
<1>8. ServeInv' /\ \A v \in Work : v # Item(s) => Alike(v)
  BY <1>1, <1>4, <1>7, WorksOnServe
<1>9. Alike(Item(s))
  BY <1>2, <1>4, StaysOn DEF OnStack
<1>10. \A v \in Work : Alike(v)
  BY <1>5, <1>8, <1>9 DEF Alike
<1> QED BY <1>2, <1>8, <1>10, PoolStutters DEF PoolStep

\* YieldToReady(): the state says so, but the thread is still on the stack.
LEMMA YieldToReadyServe ==
  ASSUME PoolInv, CountInv', ExitInv', NEW t \in Threads, YieldToReady(t)
  PROVE  ServeInv' /\ PoolStep
<1> USE DEF PoolInv, ServeInv
<1>1. PICK s \in FiberObj : s = Cur(t) /\ Live(s) /\ Item(s) \in Work
                            /\ Status(Item(s)) = "running"
  BY BodyRuns DEF YieldToReady
<1>2. /\ pc[t] = "body" /\ pc' = [pc EXCEPT ![t] = "swap"]
      /\ m_state' = [m_state EXCEPT ![s] = "READY"]
      /\ UNCHANGED <<m_fibers, ft, cb_fiber, m_cb, owner, parked, phase>>
  BY <1>1 DEF YieldToReady, hand, pool
<1>3. m_state'[s] = "READY" /\ \A f \in FiberObj : f # s => m_state'[f] = m_state[f]
  BY <1>1, <1>2 DEF CountInv, TypeOK
<1>4. WorksOn(t, s, "swap")
  BY <1>1, <1>2, <1>3 DEF WorksOn, OnStack
<1>5. /\ Spot(t, s)' = "swap" /\ \A u \in Threads : u # t => Spot(u, s)' = "none"
      /\ s \notin QueuedTasks' /\ \A f : Item(f)' = Item(f)
  BY <1>4, WorksOnFacts
<1>6. s \notin parked
  <2>1. s = ft[t] \/ s = cb_fiber[t]
    BY <1>1 DEF Cur
  <2> QED BY <2>1, <1>2 DEF ExclInv, ParkedLeaving
<1>7. Live(s)'
  BY <1>1, <1>2, <1>5 DEF Live
<1>8. FiberOK(s)'
  BY <1>2, <1>3, <1>5, <1>6, <1>7 DEF FiberOK, Live
<1>9. ServeInv' /\ \A v \in Work : v # Item(s) => Alike(v)
  BY <1>2, <1>4, <1>8, WorksOnServe
<1>10. Alike(Item(s))
  BY <1>2, <1>4, StaysOn DEF OnStack
<1>11. \A v \in Work : Alike(v)
  BY <1>5, <1>9, <1>10 DEF Alike
<1> QED BY <1>2, <1>9, <1>11, PoolStutters DEF PoolStep

\* A body that registers its fiber with an event source still runs.
LEMMA ParkServe ==
  ASSUME PoolInv, CountInv', ExitInv', NEW t \in Threads, Park(t)
  PROVE  ServeInv' /\ PoolStep
<1> USE DEF PoolInv, ServeInv
<1>1. PICK s \in FiberObj : s = Cur(t) /\ Live(s) /\ Item(s) \in Work
                            /\ m_state[s] = "EXEC" /\ Status(Item(s)) = "running"
  BY BodyRuns DEF Park
<1>2. /\ pc[t] = "body" /\ pc' = [pc EXCEPT ![t] = "yield"] /\ parked' = parked \cup {s}
      /\ UNCHANGED <<m_fibers, ft, cb_fiber, m_cb, owner, m_state, phase>>
  BY <1>1 DEF Park, hand, pool
<1>3. WorksOn(t, s, "yield")
  BY <1>1, <1>2 DEF WorksOn, OnStack
<1>4. /\ Spot(t, s)' = "yield" /\ \A u \in Threads : u # t => Spot(u, s)' = "none"
      /\ s \notin QueuedTasks' /\ \A f : Item(f)' = Item(f)
  BY <1>3, WorksOnFacts
<1>5. Live(s)'
  BY <1>1, <1>2, <1>4 DEF Live
<1>6. FiberOK(s)'
  BY <1>1, <1>2, <1>4, <1>5 DEF FiberOK, Live
<1>7. ServeInv' /\ \A v \in Work : v # Item(s) => Alike(v)
  BY <1>2, <1>3, <1>6, WorksOnServe
<1>8. Alike(Item(s))
  BY <1>2, <1>3, StaysOn DEF OnStack
<1>9. \A v \in Work : Alike(v)
  BY <1>4, <1>7, <1>8 DEF Alike
<1> QED BY <1>2, <1>7, <1>9, PoolStutters DEF PoolStep

\* YieldToHold(): so it is here.
LEMMA YieldToHoldServe ==
  ASSUME PoolInv, CountInv', ExitInv', NEW t \in Threads, YieldToHold(t)
  PROVE  ServeInv' /\ PoolStep
<1> USE DEF PoolInv, ServeInv
<1>1. PICK s \in FiberObj : s = Cur(t) /\ Live(s) /\ Item(s) \in Work
                            /\ Status(Item(s)) = "running"
  BY BodyRuns DEF YieldToHold
<1>2. /\ pc[t] = "yield" /\ pc' = [pc EXCEPT ![t] = "swap"]
      /\ m_state' = [m_state EXCEPT ![s] = "HOLD"]
      /\ UNCHANGED <<m_fibers, ft, cb_fiber, m_cb, owner, parked, phase>>
  BY <1>1 DEF YieldToHold, hand, pool, ghost
<1>3. m_state'[s] = "HOLD" /\ \A f \in FiberObj : f # s => m_state'[f] = m_state[f]
  BY <1>1, <1>2 DEF CountInv, TypeOK
<1>4. WorksOn(t, s, "swap")
  BY <1>1, <1>2, <1>3 DEF WorksOn, OnStack
<1>5. /\ Spot(t, s) = "yield" /\ Spot(t, s)' = "swap"
      /\ \A u \in Threads : u # t => Spot(u, s)' = "none"
      /\ s \notin QueuedTasks' /\ ~InHand(s)' /\ \A f : Item(f)' = Item(f)
  BY <1>2, <1>4, WorksOnFacts
<1>6. s \in parked
  BY <1>5 DEF FiberInv, FiberOK
<1>7. Live(s)'
  BY <1>1, <1>2, <1>5 DEF Live
<1>8. FiberOK(s)'
  BY <1>2, <1>3, <1>5, <1>6, <1>7 DEF FiberOK, Live
<1>9. ServeInv' /\ \A v \in Work : v # Item(s) => Alike(v)
  BY <1>2, <1>4, <1>8, WorksOnServe
<1>10. Alike(Item(s))
  BY <1>2, <1>4, StaysOn DEF OnStack
<1>11. \A v \in Work : Alike(v)
  BY <1>5, <1>9, <1>10 DEF Alike
<1> QED BY <1>2, <1>9, <1>11, PoolStutters DEF PoolStep

\* The return from swapIn(): the item has finished, is ready to be queued, or is parked.
LEMMA SwapOutServe ==
  ASSUME PoolInv, CountInv', ExitInv', NEW t \in Threads, SwapOut(t)
  PROVE  ServeInv' /\ PoolStep
<1> USE DEF PoolInv, ServeInv
<1>1. PICK s \in FiberObj : s = Cur(t)
  BY CurIsFiber DEF SwapOut, CountInv, OnStack
<1>2. /\ pc[t] = "swap" /\ pc' = [pc EXCEPT ![t] = "settle"]
      /\ UNCHANGED <<m_fibers, ft, cb_fiber, m_cb, owner, parked, m_state, phase>>
  BY DEF SwapOut, hand, ghost
<1>3. WorksOn(t, s, "settle")
  BY <1>1, <1>2 DEF WorksOn, OnStack
<1>4. /\ Spot(t, s) = "swap" /\ Spot(t, s)' = "settle"
      /\ \A u \in Threads : u # t => Spot(u, s) = "none" /\ Spot(u, s)' = "none"
      /\ s \notin QueuedTasks' /\ s \notin QueuedTasks /\ ~InHand(s)'
      /\ \A f : Item(f)' = Item(f)
  BY <1>2, <1>3, WorksOnFacts
<1>5. FiberOK(s)
  BY DEF FiberInv
<1>6. Live(s)' <=> Live(s)
  BY <1>2, <1>4 DEF Live
<1>7. FiberOK(s)'
  BY <1>2, <1>4, <1>5, <1>6 DEF FiberOK
<1>8. ServeInv' /\ \A v \in Work : v # Item(s) => Alike(v)
  BY <1>2, <1>3, <1>7, WorksOnServe
<1>9. PICK w \in Work : w = Item(s)
  BY <1>4, <1>5 DEF FiberOK, Live
<1>10. Runners(w) = {t} /\ Runners(w)' = {}
  <2>1. Runners(Item(s)) = {t} /\ Runners(Item(s))' = {}
    BY <1>2, <1>3, <1>9, LeavesAlone DEF OnStack
  <2>2. Runners(Item(s))' = Runners(w)'
    BY <1>4, <1>9 DEF Runners
  <2> QED BY <1>9, <2>1, <2>2
<1>11. Status(w) = "running"
  BY <1>10 DEF Status
<1>12. \A v \in Work : v # w => Alike(v)
  BY <1>8, <1>9
<1>13. \A u \in Threads : Spot(u, s)' \notin OnStack /\ Spot(u, s)' # "enter"
  BY <1>4 DEF OnStack
<1>14. CASE phase[w] = "done"
  <2>1. Status(w)' = "done"
    BY <1>2, <1>10, <1>14 DEF Status
  <2>2. TP!Become(w, "running", "done", {})
    BY <1>2, <1>10, <1>11, <1>12, <2>1, PoolBecomes
  <2> QED BY <1>8, <1>10, <2>2 DEF PoolStep, TP!Next, TP!Finish, TP!Leave
<1>15. CASE m_state[s] = "READY" /\ Live(s)
  <2>1. FiberStatus(s)' = "pending"
    BY <1>2, <1>4, <1>13, <1>15 DEF FiberStatus, Waits
  <2>2. Status(Item(s))' = "pending"
    BY <1>6, <1>8, <1>15, <2>1, StatusOfFiberNext DEF StatusAgrees
  <2>3. Status(w)' = "pending"
    BY <1>4, <1>9, <2>2
  <2>4. TP!Become(w, "running", "pending", {})
    BY <1>2, <1>10, <1>11, <1>12, <2>3, PoolBecomes
  <2> QED BY <1>8, <1>10, <2>4 DEF PoolStep, TP!Next, TP!Yield, TP!Leave
<1>16. CASE m_state[s] = "HOLD" /\ Live(s) /\ s \in parked
  <2>1. FiberStatus(s)' = "parked"
    BY <1>2, <1>4, <1>13, <1>16 DEF FiberStatus, Waits
  <2>2. Status(Item(s))' = "parked"
    BY <1>6, <1>8, <1>16, <2>1, StatusOfFiberNext DEF StatusAgrees
  <2>3. Status(w)' = "parked"
    BY <1>4, <1>9, <2>2
  <2>4. TP!Become(w, "running", "parked", {})
    BY <1>2, <1>10, <1>11, <1>12, <2>3, PoolBecomes
  <2> QED BY <1>8, <1>10, <2>4 DEF PoolStep, TP!Next, TP!Park, TP!Leave
<1> QED BY <1>4, <1>5, <1>9, <1>14, <1>15, <1>16 DEF FiberOK

\* The queue holds no finished fiber: the test behind the scan never finds one.
LEMMA DropFinishedServe ==
  ASSUME PoolInv, NEW t \in Threads, DropFinished(t)
  PROVE  FALSE
<1>1. PICK s \in FiberObj : s = ft[t] /\ pc[t] = "enter" /\ m_state[s] \in Over
  BY DEF DropFinished
<1>2. Spot(t, s) = "enter"
  BY <1>1 DEF Spot
<1> QED BY <1>1, <1>2 DEF PoolInv, ServeInv, FiberInv, FiberOK, Over

\* The fiber that a function gets carries no live item.
LEMMA CbFiberIsFree ==
  ASSUME PoolInv, NEW t \in Threads, pc[t] = "enter", ft[t] \in Cbs, NEW g \in CbFiberFor(t)
  PROVE  /\ g \in CbFibers /\ g \in FiberObj /\ g \notin QueuedTasks /\ g \notin parked
         /\ \A u \in Threads : u # t => g # ft[u] /\ g # cb_fiber[u]
         /\ m_cb[g] = None \/ phase[m_cb[g]] = "done"
<1> USE DEF PoolInv, ServeInv
<1>1. CASE cb_fiber[t] # None
  <2>1. g = cb_fiber[t] /\ g \in CbFibers
    BY <1>1 DEF CbFiberFor, CountInv, TypeOK
  <2>2. Keeps(t)
    BY <1>1 DEF Keeps, OnStack
  <2>3. m_cb[g] = None
    BY <2>1, <2>2 DEF CbInv
  <2>4. g \notin QueuedTasks
    BY <2>1 DEF QueuedTasks, ExclInv, QueueUnheld
  <2>5. g \notin parked
    BY <2>1 DEF ExclInv, ParkedLeaving
  <2>6. \A u \in Threads : u # t => g # ft[u] /\ g # cb_fiber[u]
    <3>1. g # None
      BY <1>1, <2>1
    <3> QED BY <2>1, <3>1 DEF ExclInv, HandsDisjoint
  <2> QED BY <2>1, <2>3, <2>4, <2>5, <2>6 DEF FiberObj
<1>2. CASE cb_fiber[t] = None
  <2>1. g \in CbFibers /\ Unreferenced(g)
    BY <1>2 DEF CbFiberFor
  <2>2. g \in FiberObj /\ Item(g) = m_cb[g]
    BY <2>1, ConstantsAssumption DEF FiberObj, Item
  <2>3. ~Placed(g)
    <3>1. \A u \in Threads : Spot(u, g) = "none"
      BY <2>1, SpotAlone DEF Unreferenced
    <3> QED BY <2>1, <3>1 DEF Placed, Unreferenced
  <2>4. ~Live(g)
    <3> SUFFICES ASSUME Live(g) PROVE FALSE
      OBVIOUS
    <3>1. Item(g) \in Work /\ phase[Item(g)] = "live"
      BY DEF Live
    <3>2. ~Pending(Item(g)) \/ Item(g) \notin Cbs
      BY <2>1, <2>2 DEF CbInv
    <3>3. PICK f \in FiberObj : Item(f) = Item(g) /\ Placed(f)
      BY <3>1, <3>2 DEF AliveInv
    <3>4. f = g
      BY <2>2, <3>3, CbInvOneFiber DEF OneFiber, CountInv
    <3> QED BY <2>3, <3>3, <3>4
  <2>5. m_cb[g] = None \/ phase[m_cb[g]] = "done"
    <3> SUFFICES ASSUME m_cb[g] # None PROVE phase[m_cb[g]] = "done"
      OBVIOUS
    <3>1. m_cb[g] \in Work
      BY <2>1 DEF CountInv, TypeOK, Work
    <3>2. phase[m_cb[g]] # "new" /\ phase[m_cb[g]] # "live"
      BY <2>1, <2>2, <2>4, <3>1 DEF CbInv, Live
    <3> QED BY <3>1, <3>2 DEF CountInv, TypeOK
  <2> QED BY <2>1, <2>2, <2>5 DEF Unreferenced
<1> QED BY <1>1, <1>2

\* reset() or a new fiber: the function begins to run.
LEMMA EnterCbServe ==
  ASSUME PoolInv, CountInv', ExitInv', NEW t \in Threads, EnterCb(t)
  PROVE  ServeInv' /\ PoolStep
<1> USE DEF PoolInv, ServeInv
<1>1. PICK w \in Cbs : w = ft[t]
  BY DEF EnterCb
<1>2. PICK g \in CbFiberFor(t) : /\ cb_fiber' = [cb_fiber EXCEPT ![t] = g]
                                 /\ m_cb' = [m_cb EXCEPT ![g] = w]
                                 /\ m_state' = [m_state EXCEPT ![g] = "EXEC"]
  BY <1>1 DEF EnterCb
<1>3. /\ g \in CbFibers /\ g \in FiberObj /\ g \notin QueuedTasks /\ g \notin parked
      /\ \A u \in Threads : u # t => g # ft[u] /\ g # cb_fiber[u]
      /\ m_cb[g] = None \/ phase[m_cb[g]] = "done"
  BY CbFiberIsFree DEF EnterCb
<1>4. /\ pc[t] = "enter" /\ pc'[t] = "body" /\ ft'[t] = None /\ cb_fiber'[t] = g
      /\ \A u \in Threads : u # t => pc'[u] = pc[u] /\ ft'[u] = ft[u] /\ cb_fiber'[u] = cb_fiber[u]
      /\ UNCHANGED <<m_fibers, parked, phase, owner>>
  <2>1. /\ pc[t] = "enter" /\ pc' = [pc EXCEPT ![t] = "body"] /\ ft' = [ft EXCEPT ![t] = None]
        /\ UNCHANGED <<m_fibers, parked, phase, owner>>
    BY DEF EnterCb, ghost, pool
  <2> QED BY <1>2, <2>1 DEF CountInv, TypeOK
<1>5. /\ m_state'[g] = "EXEC" /\ \A f \in FiberObj : f # g => m_state'[f] = m_state[f]
      /\ m_cb'[g] = w /\ \A f \in CbFibers : f # g => m_cb'[f] = m_cb[f]
  BY <1>2, <1>3 DEF CountInv, TypeOK
<1>6. w \in Work /\ w \notin FiberObj /\ w # None /\ g # None /\ g \notin Fibers
  BY <1>1, <1>3, ConstantsAssumption DEF Work, FiberObj, Task
<1>7. /\ Item(g)' = w /\ Item(g) = m_cb[g]
      /\ \A f \in FiberObj : f # g => Item(f)' = Item(f)
  BY <1>3, <1>5, <1>6 DEF Item, FiberObj
<1>8. QueuedTasks' = QueuedTasks
  BY <1>4 DEF QueuedTasks
<1>9. Cur(t)' = g
  BY <1>4 DEF Cur
<1>10. Handles(t, g)
  BY <1>1, <1>4, <1>5, <1>6, <1>7, <1>8, <1>9 DEF Handles, OnStack
<1>11. Touches(g)
  BY <1>10, HandlesTouches
<1>12. Pending(w) /\ phase[w] = "live" /\ \A f \in CbFibers : m_cb[f] # w
  BY <1>1, <1>4 DEF Pending, CbInv
<1>13. \A v \in Cbs : Pending(v)' <=> Pending(v) /\ v # w
  <2>1. w \notin QueuedTasks /\ \A u \in Threads : u # t => ft[u] # w
    BY <1>1, <1>6 DEF QueuedTasks, ExclInv, QueueUnheld, HandsDisjoint
  <2> QED BY <1>1, <1>4, <1>8, <2>1 DEF Pending
<1>14. Live(g)'
  BY <1>4, <1>6, <1>7, <1>12 DEF Live
<1>15. Spot(t, g)' = "body" /\ \A u \in Threads : u # t => Spot(u, g)' = "none"
  <2>1. Spot(t, g)' = "body"
    BY <1>4, <1>9 DEF Spot, OnStack
  <2>2. ASSUME NEW u \in Threads, u # t PROVE Spot(u, g)' = "none"
    BY <1>3, <1>4, <2>2, SpotAlone, SpotElsewhere
  <2> QED BY <2>1, <2>2
<1>16. FiberOK(g)'
  BY <1>3, <1>4, <1>8, <1>14, <1>15 DEF FiberOK, Live
<1>17. FiberInv'
  BY <1>11, <1>16, FibersStep DEF CountInv
<1>18. CbInv'
  <2>1. \A v \in Cbs : Pending(v)' => phase'[v] = "live" /\ \A f \in CbFibers : m_cb'[f] # v
    BY <1>4, <1>5, <1>13 DEF CbInv
  <2>2. \A f, h \in CbFibers : f # h /\ m_cb'[f] = m_cb'[h] =>
            m_cb'[f] = None \/ phase'[m_cb'[f]] = "done"
    <3>1. \A f \in CbFibers : m_cb'[f] = w => f = g
      BY <1>5, <1>12
    <3> QED BY <1>4, <1>5, <3>1 DEF CbInv
  <2>3. \A f \in CbFibers : m_cb'[f] # None => phase'[m_cb'[f]] # "new"
    BY <1>4, <1>5, <1>12 DEF CbInv
  <2>4. \A u \in Threads : Keeps(u)' => m_cb'[cb_fiber'[u]] = None
    <3>1. ~Keeps(t)'
      BY <1>4 DEF Keeps, OnStack
    <3>2. ASSUME NEW u \in Threads, u # t, Keeps(u)' PROVE m_cb'[cb_fiber'[u]] = None
      <4>1. Keeps(u) /\ cb_fiber'[u] = cb_fiber[u] /\ cb_fiber[u] # g
        BY <1>3, <1>4, <3>2 DEF Keeps
      <4>2. cb_fiber[u] \in CbFibers
        BY <4>1 DEF Keeps, CountInv, TypeOK
      <4> QED BY <1>5, <4>1, <4>2 DEF CbInv
    <3> QED BY <3>1, <3>2
  <2> QED BY <2>1, <2>2, <2>3, <2>4 DEF CbInv
<1>19. AliveInv'
  <2>1. Placed(g)'
    BY <1>15 DEF Placed
  <2>2. ~Live(g)
    BY <1>3, <1>6, <1>7, ConstantsAssumption DEF Live, Work, Task
  <2> QED BY <1>3, <1>4, <1>7, <1>11, <1>13, <2>1, <2>2, AliveStep DEF CountInv
<1>20. \A v \in Work : v # w => Alike(v)
  <2> SUFFICES ASSUME NEW v \in Work, v # w PROVE Alike(v)
    OBVIOUS
  <2>1. CASE Item(g) # v
    BY <1>4, <1>7, <1>11, <1>13, <2>1, TouchesStatus
  <2>2. CASE Item(g) = v
    <3>1. phase[v] = "done" /\ phase'[v] = "done"
      BY <1>3, <1>4, <1>7, <2>2, ConstantsAssumption DEF Work, Task
    <3>2. t \notin Runners(v) /\ t \notin Runners(v)'
      <4>1. t \notin Runners(v)
        BY <1>4 DEF Runners, OnStack
      <4>2. Item(Cur(t))' = w
        <5>1. Item(Cur(t))' = Item(g)'
          BY <1>9 DEF Item
        <5> QED BY <5>1, <1>7
      <4> QED BY <4>1, <4>2 DEF Runners
    <3>3. Runners(v)' = Runners(v)
      BY <1>3, <1>10, <3>2, HandlesRunners DEF CountInv
    <3> QED BY <3>1, <3>3 DEF Status, Alike
  <2> QED BY <2>1, <2>2
<1>21. Runners(w) = {}
  <2>1. \A f \in FiberObj : Item(f) # w
    BY <1>6, <1>12 DEF Item, FiberObj
  <2> QED BY <2>1, RunnersBy DEF RunnersAgree, CountInv, Runners
<1>22. Status(w) = "pending"
  <2>1. Served(w)
    BY <1>1, <1>6, <1>12, ServedBy DEF ServedAgrees, CountInv
  <2> QED BY <1>12, <1>21, <2>1 DEF Status
<1>23. Status(w)' = "running"
  <2>1. FiberStatus(g)' = "running"
    BY <1>15 DEF FiberStatus, OnStack
  <2>2. Status(Item(g))' = "running"
    BY <1>3, <1>14, <1>18, <2>1, StatusOfFiberNext DEF StatusAgrees
  <2> QED BY <1>7, <2>2
<1>24. Runners(w)' = {t}
  <2>1. \A u \in Threads : u \in Runners(Item(g))' <=> u = t
    BY <1>3, <1>14, <1>15, <1>18, StatusOfFiberNext DEF StatusAgrees, OnStack
  <2>2. Runners(Item(g))' = Runners(w)'
    BY <1>7 DEF Runners
  <2> QED BY <2>1, <2>2 DEF Runners
<1>25. TP!Become(w, "pending", "running", {t})
  BY <1>4, <1>6, <1>20, <1>22, <1>23, <1>24, PoolBecomes
<1>26. TP!Run(w, t)
  BY <1>6, <1>21, <1>25 DEF TP!Run
<1> QED BY <1>6, <1>17, <1>18, <1>19, <1>26 DEF PoolStep, TP!Next

\* What run() finds when a fiber has come back: it has finished, is to be queued
\* again, or is parked; and what it does then.
LEMMA SettleFacts ==
  ASSUME PoolInv, NEW t \in Threads, Settle(t), NEW s, s = Cur(t)
  PROVE  /\ s \in FiberObj /\ s # None /\ s \notin QueuedTasks /\ pc[t] = "settle"
         /\ Spot(t, s) = "settle"
         /\ \A u \in Threads : u # t => s # ft[u] /\ s # cb_fiber[u]
         /\ pc'[t] = "pick" /\ ft'[t] = None
         /\ \A u \in Threads : u # t => pc'[u] = pc[u] /\ ft'[u] = ft[u] /\ cb_fiber'[u] = cb_fiber[u]
         /\ UNCHANGED <<parked, phase, owner>>
         /\ \/ /\ m_state[s] \in Over /\ Item(s) \in Work /\ phase[Item(s)] = "done"
               /\ s \notin parked /\ m_fibers' = m_fibers /\ cb_fiber' = cb_fiber
               /\ \/ ft[t] = None /\ cb_fiber[t] = s /\ m_cb' = [m_cb EXCEPT ![s] = None]
                     /\ m_state' = [m_state EXCEPT ![s] = "INIT"]
                  \/ ft[t] # None /\ m_cb' = m_cb /\ m_state' = m_state
            \/ /\ Live(s) /\ m_cb' = m_cb /\ cb_fiber'[t] = (IF ft[t] = None THEN None ELSE cb_fiber[t])
               /\ \/ m_state[s] = "READY" /\ m_state' = m_state /\ s \notin parked
                     /\ m_fibers' = Append(m_fibers, Entry(s, AnyThread))
                  \/ m_state[s] = "HOLD" /\ m_state' = m_state /\ s \in parked
                     /\ m_fibers' = m_fibers
<1> USE DEF PoolInv, ServeInv
<1>1. /\ pc[t] = "settle" /\ pc' = [pc EXCEPT ![t] = "pick"] /\ ft' = [ft EXCEPT ![t] = None]
      /\ UNCHANGED <<parked, phase, owner>>
  BY DEF Settle, pool, ghost
<1>2. s \in FiberObj
  BY <1>1, CurIsFiber DEF CountInv
<1>3. s # None
  BY <1>2, ConstantsAssumption DEF FiberObj, Task
<1>4. s = ft[t] \/ s = cb_fiber[t]
  BY DEF Cur
<1>5. s \notin QueuedTasks
  BY <1>4 DEF QueuedTasks, ExclInv, QueueUnheld
<1>6. Spot(t, s) = "settle"
  BY <1>1 DEF Spot
<1>7. \A u \in Threads : u # t => s # ft[u] /\ s # cb_fiber[u]
  BY <1>3, CurElsewhere DEF ExclInv
<1>8. FiberOK(s)
  BY <1>2 DEF FiberInv
<1>9. \A u \in Threads : u # t => cb_fiber'[u] = cb_fiber[u]
  BY DEF Settle, CountInv, TypeOK
<1>10. /\ pc'[t] = "pick" /\ ft'[t] = None
       /\ \A u \in Threads : u # t => pc'[u] = pc[u] /\ ft'[u] = ft[u] /\ cb_fiber'[u] = cb_fiber[u]
  BY <1>1, <1>9 DEF CountInv, TypeOK
<1>11. CASE m_state[s] \in Over /\ Item(s) \in Work /\ phase[Item(s)] = "done"
  <2>1. m_state[s] # "READY"
    BY <1>11 DEF Over
  <2>2. s \notin parked
    BY <1>8, <1>11 DEF FiberOK, Over
  <2>3. m_fibers' = m_fibers /\ cb_fiber' = cb_fiber
    BY <1>11, <2>1 DEF Settle
  <2>4. CASE ft[t] = None
    BY <1>1, <1>2, <1>3, <1>5, <1>6, <1>7, <1>10, <1>11, <2>2, <2>3, <2>4 DEF Settle, Cur
  <2>5. CASE ft[t] # None
    BY <1>1, <1>2, <1>3, <1>5, <1>6, <1>7, <1>10, <1>11, <2>1, <2>2, <2>3, <2>5 DEF Settle
  <2> QED BY <2>4, <2>5
<1>12. CASE m_state[s] = "READY" /\ Live(s)
  <2>1. m_state[s] \notin Over
    BY <1>12 DEF Over
  <2>2. s \notin parked
    BY <1>8, <1>12 DEF FiberOK
  <2>3. m_fibers' = Append(m_fibers, Entry(s, AnyThread)) /\ m_cb' = m_cb /\ m_state' = m_state
    BY <1>12, <2>1 DEF Settle
  <2>4. cb_fiber'[t] = (IF ft[t] = None THEN None ELSE cb_fiber[t])
    BY <2>1 DEF Settle, CountInv, TypeOK
  <2> QED BY <1>1, <1>2, <1>3, <1>5, <1>6, <1>7, <1>10, <1>12, <2>2, <2>3, <2>4
<1>13. CASE m_state[s] = "HOLD" /\ Live(s) /\ s \in parked
  <2>1. m_state[s] \notin Over /\ m_state[s] # "READY"
    BY <1>13 DEF Over
  <2>2. m_fibers' = m_fibers /\ m_cb' = m_cb /\ m_state' = [m_state EXCEPT ![s] = "HOLD"]
    BY <2>1 DEF Settle
  <2>3. m_state' = m_state
    BY <1>2, <1>13, <2>2 DEF CountInv, TypeOK
  <2>4. cb_fiber'[t] = (IF ft[t] = None THEN None ELSE cb_fiber[t])
    BY <2>1 DEF Settle, CountInv, TypeOK
  <2> QED BY <1>1, <1>2, <1>3, <1>5, <1>6, <1>7, <1>10, <1>13, <2>2, <2>3, <2>4
<1> QED BY <1>6, <1>8, <1>11, <1>12, <1>13 DEF FiberOK

\* Back in run(): the item is forgotten if it has finished, queued or left parked.
LEMMA SettleServe ==
  ASSUME PoolInv, CountInv', ExitInv', NEW t \in Threads, Settle(t)
  PROVE  ServeInv' /\ PoolStep
<1> USE DEF PoolInv, ServeInv
<1>1. PICK s : s = Cur(t)
  OBVIOUS
<1>2. /\ s \in FiberObj /\ s # None /\ s \notin QueuedTasks /\ pc[t] = "settle"
      /\ \A u \in Threads : u # t => s # ft[u] /\ s # cb_fiber[u]
      /\ pc'[t] = "pick" /\ ft'[t] = None
      /\ \A u \in Threads : u # t => pc'[u] = pc[u] /\ ft'[u] = ft[u] /\ cb_fiber'[u] = cb_fiber[u]
      /\ UNCHANGED <<parked, phase, owner>>
  BY <1>1, SettleFacts
<1>3. \A y : y # s => (y \in QueuedTasks' <=> y \in QueuedTasks)
  <2>1. CASE m_fibers' = m_fibers
    BY <2>1 DEF QueuedTasks
  <2>2. CASE m_fibers' = Append(m_fibers, Entry(s, AnyThread))
    BY <2>2, AppendQueued DEF CountInv
  <2> QED BY <1>1, <2>1, <2>2, SettleFacts
<1>4. \A f \in FiberObj : f # s => m_state'[f] = m_state[f] /\ Item(f)' = Item(f)
  <2>1. \/ m_state' = m_state
        \/ m_state' = [m_state EXCEPT ![s] = "INIT"]
    BY <1>1, SettleFacts
  <2>2. m_cb' = m_cb \/ m_cb' = [m_cb EXCEPT ![s] = None]
    BY <1>1, SettleFacts
  <2>3. \A f \in FiberObj : f # s => m_state'[f] = m_state[f]
    BY <2>1 DEF CountInv, TypeOK
  <2>4. \A f \in CbFibers : f # s => m_cb'[f] = m_cb[f]
    BY <2>2 DEF CountInv, TypeOK
  <2> QED BY <2>3, <2>4 DEF Item, FiberObj
<1>5. Handles(t, s)
  BY <1>1, <1>2, <1>3, <1>4 DEF Handles, OnStack
<1>6. Touches(s)
  BY <1>5, HandlesTouches
<1>7. \A u \in Threads : Spot(u, s)' = "none"
  <2>1. Spot(t, s)' = "none"
    BY <1>2 DEF Spot, OnStack
  <2>2. ASSUME NEW u \in Threads, u # t PROVE Spot(u, s)' = "none"
    BY <1>2, <2>2, SpotAlone, SpotElsewhere
  <2> QED BY <2>1, <2>2
<1>8. \A v \in Cbs : Pending(v)' <=> Pending(v)
  <2>1. \A v \in Cbs : v # s
    BY <1>2, ConstantsAssumption DEF FiberObj
  <2> QED BY <1>2, <1>3, <2>1 DEF Pending
<1>9. ~InHand(s) /\ ~InHand(s)'
  <2>1. \A u \in Threads : ~(ft[u] = s /\ pc[u] = "enter")
    BY <1>2
  <2>2. \A u \in Threads : Spot(u, s)' # "enter"
    BY <1>7
  <2> QED BY <2>1, <2>2, InHandSpotNext DEF InHand
<1>10. \A w : Runners(w)' = Runners(w)
  <2>1. \A w : t \notin Runners(w) /\ t \notin Runners(w)'
    BY <1>2 DEF Runners, OnStack
  <2> QED BY <1>2, <1>5, <2>1, HandlesRunners DEF CountInv
<1>11. CASE /\ m_state[s] \in Over /\ Item(s) \in Work /\ phase[Item(s)] = "done"
            /\ s \notin parked /\ m_fibers' = m_fibers /\ ft[t] = None /\ cb_fiber[t] = s
            /\ cb_fiber' = cb_fiber /\ m_cb' = [m_cb EXCEPT ![s] = None]
  <2>1. s \in CbFibers /\ s \notin Fibers
    BY <1>2, <1>11, ConstantsAssumption DEF CountInv, TypeOK
  <2>2. m_cb'[s] = None /\ \A f \in CbFibers : f # s => m_cb'[f] = m_cb[f]
    BY <1>11, <2>1 DEF CountInv, TypeOK
  <2>3. Item(s)' = None
    BY <2>1, <2>2 DEF Item
  <2>4. None \notin Work
    BY ConstantsAssumption DEF Work, Task
  <2>5. FiberOK(s)'
    <3>1. s \notin QueuedTasks' /\ s \notin parked'
      BY <1>2, <1>11 DEF QueuedTasks
    <3> QED BY <1>7, <2>3, <2>4, <3>1 DEF FiberOK
  <2>6. FiberInv'
    BY <1>6, <2>5, FibersStep DEF CountInv
  <2>7. ~Live(s)
    BY <1>11 DEF Live
  <2>8. AliveInv'
    BY <1>2, <1>6, <1>8, <2>7, AliveStep DEF CountInv
  <2>9. CbInv'
    <3>1. \A v \in Cbs : Pending(v)' => phase'[v] = "live" /\ \A f \in CbFibers : m_cb'[f] # v
      <4>1. None \notin Cbs
        BY ConstantsAssumption DEF Task
      <4> QED BY <1>2, <1>8, <2>2, <4>1 DEF CbInv
    <3>2. \A f, h \in CbFibers : f # h /\ m_cb'[f] = m_cb'[h] =>
              m_cb'[f] = None \/ phase'[m_cb'[f]] = "done"
      BY <1>2, <2>2 DEF CbInv
    <3>3. \A f \in CbFibers : m_cb'[f] # None => phase'[m_cb'[f]] # "new"
      BY <1>2, <2>2 DEF CbInv
    <3>4. \A u \in Threads : Keeps(u)' => m_cb'[cb_fiber'[u]] = None
      <4>1. ASSUME NEW u \in Threads, u # t, Keeps(u)' PROVE m_cb'[cb_fiber'[u]] = None
        <5>1. Keeps(u) /\ cb_fiber'[u] = cb_fiber[u] /\ cb_fiber[u] # s
          BY <1>2, <4>1 DEF Keeps
        <5>2. cb_fiber[u] \in CbFibers
          BY <5>1 DEF Keeps, CountInv, TypeOK
        <5> QED BY <2>2, <5>1, <5>2 DEF CbInv
      <4>2. m_cb'[cb_fiber'[t]] = None
        BY <1>11, <2>2
      <4> QED BY <4>1, <4>2
    <3> QED BY <3>1, <3>2, <3>3, <3>4 DEF CbInv
  <2>10. \A v \in Work : Alike(v)
    <3>1. \A v \in Work : v # Item(s) => Alike(v)
      BY <1>2, <1>6, <1>8, <2>3, <2>4, TouchesStatus
    <3>2. \A v \in Work : v = Item(s) => Alike(v)
      BY <1>2, <1>11, <1>10 DEF Status, Alike
    <3> QED BY <3>1, <3>2
  <2> QED BY <1>2, <2>6, <2>8, <2>9, <2>10, PoolStutters DEF PoolStep
<1>12. CASE /\ m_cb' = m_cb /\ m_state' = m_state
            /\ \/ /\ m_state[s] \in Over /\ Item(s) \in Work /\ phase[Item(s)] = "done"
                  /\ s \notin parked /\ m_fibers' = m_fibers /\ ft[t] # None /\ cb_fiber' = cb_fiber
               \/ /\ Live(s) /\ cb_fiber'[t] = (IF ft[t] = None THEN None ELSE cb_fiber[t])
                  /\ \/ m_state[s] = "READY" /\ s \notin parked
                        /\ m_fibers' = Append(m_fibers, Entry(s, AnyThread))
                     \/ m_state[s] = "HOLD" /\ s \in parked /\ m_fibers' = m_fibers
  <2>1. Item(s)' = Item(s) /\ Item(s) \in Work
    BY <1>12 DEF Item, Live
  <2>2. Live(s)' <=> Live(s)
    BY <1>2, <2>1 DEF Live
  <2>3. s \in QueuedTasks' <=> m_fibers' = Append(m_fibers, Entry(s, AnyThread))
    <3>1. CASE m_fibers' = Append(m_fibers, Entry(s, AnyThread))
      BY <3>1, AppendQueued DEF CountInv
    <3>2. CASE m_fibers' = m_fibers
      <4>1. s \notin QueuedTasks'
        BY <1>2, <3>2 DEF QueuedTasks
      <4> QED BY <3>1, <4>1
    <3> QED BY <1>12, <3>1, <3>2
  <2>4. FiberOK(s)' /\ (Live(s) => Placed(s)')
    <3>1. CASE m_state[s] \in Over /\ phase[Item(s)] = "done" /\ s \notin parked /\ m_fibers' = m_fibers
      <4>1. s \notin QueuedTasks'
        BY <1>2, <3>1 DEF QueuedTasks
      <4> QED BY <1>2, <1>7, <2>1, <3>1, <4>1 DEF FiberOK, Live
    <3>2. CASE Live(s) /\ m_state[s] = "READY" /\ s \notin parked /\ s \in QueuedTasks'
      BY <1>2, <1>7, <1>12, <2>1, <2>2, <3>2 DEF FiberOK, Live, Placed
    <3>3. CASE Live(s) /\ m_state[s] = "HOLD" /\ s \in parked
      BY <1>2, <1>7, <1>12, <2>1, <2>2, <3>3 DEF FiberOK, Live, Placed
    <3> QED BY <1>12, <2>3, <3>1, <3>2, <3>3
  <2>5. FiberInv'
    BY <1>6, <2>4, FibersStep DEF CountInv
  <2>6. AliveInv'
    BY <1>2, <1>6, <1>8, <2>1, <2>4, AliveStep DEF CountInv
  <2>7. \A u \in Threads : Keeps(u)' => m_cb[cb_fiber'[u]] = None
    <3>1. ASSUME NEW u \in Threads, u # t, Keeps(u)' PROVE m_cb[cb_fiber'[u]] = None
      <4>1. Keeps(u) /\ cb_fiber'[u] = cb_fiber[u]
        BY <1>2, <3>1 DEF Keeps
      <4> QED BY <4>1 DEF CbInv
    <3>2. ASSUME Keeps(t)' PROVE m_cb[cb_fiber'[t]] = None
      <4>1. ft[t] # None /\ cb_fiber'[t] = cb_fiber[t]
        BY <1>12, <3>2 DEF Keeps
      <4>2. Keeps(t)
        BY <3>2, <4>1 DEF Keeps
      <4> QED BY <4>1, <4>2 DEF CbInv
    <3> QED BY <3>1, <3>2
  <2>8. CbInv'
    <3>1. Ages
      BY <1>2 DEF Ages
    <3>2. \A v \in Cbs : Pending(v)' => phase'[v] = "live"
      BY <1>2, <1>8 DEF CbInv
    <3> QED BY <1>8, <1>12, <2>7, <3>1, <3>2, CbStep DEF CountInv
  <2>9. \A v \in Work : v = Item(s) => Status(v)' = Status(v)
    <3> SUFFICES ASSUME NEW v \in Work, v = Item(s) PROVE Status(v)' = Status(v)
      OBVIOUS
    <3>1. CASE Live(s)
      <4>1. Status(v) = FiberStatus(s)
        BY <1>2, <3>1, StatusOfFiber DEF StatusAgrees
      <4>2. Status(Item(s))' = FiberStatus(s)'
        BY <1>2, <2>2, <2>8, <3>1, StatusOfFiberNext DEF StatusAgrees
      <4>3. Status(v)' = FiberStatus(s)'
        BY <2>1, <4>2
      <4>4. \A u \in Threads : Spot(u, s) = "none" \/ u = t
        BY <1>2, SpotAlone
      <4>5. Spot(t, s) = "settle"
        BY <1>1, SettleFacts
      <4>6. CASE m_state[s] = "READY" /\ m_fibers' = Append(m_fibers, Entry(s, AnyThread))
        <5>1. FiberStatus(s) = "pending"
          BY <4>4, <4>5, <4>6 DEF FiberStatus, Waits, OnStack
        <5>2. FiberStatus(s)' = "pending"
          BY <1>7, <2>3, <4>6 DEF FiberStatus, Waits, OnStack
        <5> QED BY <4>1, <4>3, <5>1, <5>2
      <4>7. CASE m_state[s] = "HOLD" /\ s \in parked /\ m_fibers' = m_fibers
        <5>1. FiberStatus(s) = "parked"
          BY <1>2, <4>4, <4>5, <4>7 DEF FiberStatus, Waits, OnStack
        <5>2. s \notin QueuedTasks'
          BY <1>2, <4>7 DEF QueuedTasks
        <5>3. FiberStatus(s)' = "parked"
          BY <1>2, <1>7, <4>7, <5>2 DEF FiberStatus, Waits, OnStack
        <5> QED BY <4>1, <4>3, <5>1, <5>3
      <4>8. phase[Item(s)] # "done"
        BY <3>1 DEF Live
      <4> QED BY <1>12, <4>6, <4>7, <4>8
    <3>2. CASE ~Live(s)
      <4>1. phase[v] = "done" /\ phase'[v] = "done"
        BY <1>2, <1>12, <3>2
      <4> QED BY <1>10, <4>1 DEF Status
    <3> QED BY <3>1, <3>2
  <2>10. \A v \in Work : Alike(v)
    <3>1. \A v \in Work : v # Item(s) => Alike(v)
      BY <1>2, <1>6, <1>8, <2>1, TouchesStatus
    <3>2. \A v \in Work : v = Item(s) => Alike(v)
      BY <1>10, <2>9 DEF Alike
    <3> QED BY <3>1, <3>2
  <2> QED BY <1>2, <2>5, <2>6, <2>8, <2>10, PoolStutters DEF PoolStep
<1> QED BY <1>1, <1>11, <1>12, SettleFacts

\* Whoever may call schedule() while stop() waits is a running item.
LEMMA ClientAccepted ==
  ASSUME PoolInv, ClientRuns
  PROVE  TP!Accepting
<1>1. CASE owner = "out"
  BY <1>1 DEF TP!Accepting
<1>2. CASE \E t \in Threads : pc[t] = "body"
  <2>1. PICK t \in Threads : pc[t] = "body"
    BY <1>2
  <2>2. PICK w \in Work : Status(w) = "running"
    BY <2>1, BodyRuns
  <2>3. w \in TP!Running
    BY <2>2 DEF TP!Running
  <2> QED BY <2>3 DEF TP!Accepting
<1> QED BY <1>1, <1>2 DEF ClientRuns

\* A client that puts x into the queue leaves all other fibers alone.
LEMMA ClientTouches ==
  ASSUME TypeOK, NEW x, NEW thread, m_fibers' = Append(m_fibers, Entry(x, thread)),
         UNCHANGED <<m_state, m_cb, pc, ft, cb_fiber>>,
         \A f : f # x => (f \in parked' <=> f \in parked),
         \A w \in Work : phase'[w] # phase[w] => \A f \in FiberObj : f # x => Item(f) # w
  PROVE  /\ Touches(x)
         /\ \A u \in Threads : \A f : Spot(u, f)' = Spot(u, f)
         /\ \A f : Item(f)' = Item(f) /\ (InHand(f)' <=> InHand(f))
         /\ \A y : y \in QueuedTasks' <=> y \in QueuedTasks \/ y = x
         /\ \A w : w # x => (Pending(w)' <=> Pending(w))
         /\ \A u \in Threads : Keeps(u)' <=> Keeps(u)
<1>1. \A y : y \in QueuedTasks' <=> y \in QueuedTasks \/ y = x
  BY AppendQueued
<1>2. \A u \in Threads : \A f : Spot(u, f)' = Spot(u, f)
  BY SpotElsewhere
<1>3. \A f : Item(f)' = Item(f) /\ (InHand(f)' <=> InHand(f))
  BY DEF Item, InHand
<1>4. \A u \in Threads : Keeps(u)' <=> Keeps(u)
  BY DEF Keeps
<1>5. Touches(x)
  BY <1>1, <1>2, <1>3 DEF Touches, Same
<1>6. \A w : w # x => (Pending(w)' <=> Pending(w))
  BY <1>1 DEF Pending
<1> QED BY <1>1, <1>2, <1>3, <1>4, <1>5, <1>6

\* schedule() accepts a new item.
LEMMA ScheduleServe ==
  ASSUME PoolInv, CountInv', ExitInv', NEW w \in Work, NEW thread, Schedule(w, thread)
  PROVE  ServeInv' /\ PoolStep
<1> USE DEF PoolInv, ServeInv
<1>1. /\ phase[w] = "new" /\ phase' = [phase EXCEPT ![w] = "live"]
      /\ m_fibers' = Append(m_fibers, Entry(w, thread))
      /\ UNCHANGED <<m_state, m_cb, pc, ft, cb_fiber, parked, owner>>
  BY DEF Schedule, hand, pool
<1>2. phase'[w] = "live" /\ \A v \in Work : v # w => phase'[v] = phase[v]
  BY <1>1 DEF CountInv, TypeOK
<1>3. \A f \in CbFibers : m_cb[f] # w
  BY <1>1, ConstantsAssumption DEF CbInv, Work, Task
<1>4. \A f \in FiberObj : f # w => Item(f) # w
  BY <1>3 DEF Item, FiberObj
<1>5. /\ Touches(w)
      /\ \A u \in Threads : \A f : Spot(u, f)' = Spot(u, f)
      /\ \A f : Item(f)' = Item(f) /\ (InHand(f)' <=> InHand(f))
      /\ \A y : y \in QueuedTasks' <=> y \in QueuedTasks \/ y = w
      /\ \A v : v # w => (Pending(v)' <=> Pending(v))
      /\ \A u \in Threads : Keeps(u)' <=> Keeps(u)
  BY <1>1, <1>2, <1>4, ClientTouches DEF CountInv
<1>6. w \notin parked /\ w \notin QueuedTasks /\ \A u \in Threads : ft[u] # w
  BY <1>1 DEF ExclInv, NewUntouched, QueuedTasks
<1>7. w \in FiberObj => w \in Fibers /\ Item(w) = w /\ m_state[w] = "INIT" /\ Live(w)'
  <2> SUFFICES ASSUME w \in FiberObj
               PROVE  w \in Fibers /\ Item(w) = w /\ m_state[w] = "INIT" /\ Live(w)'
    OBVIOUS
  <2>1. w \in Fibers /\ Item(w) = w
    BY ConstantsAssumption DEF Work, FiberObj, Item
  <2>2. m_state[w] = "INIT"
    BY <1>1, <2>1 DEF FiberInv, FiberOK
  <2> QED BY <1>2, <1>5, <2>1, <2>2 DEF Live
<1>8. w \in FiberObj => FiberOK(w)'
  <2> SUFFICES ASSUME w \in FiberObj PROVE FiberOK(w)'
    OBVIOUS
  <2>1. \A u \in Threads : Spot(u, w)' = "none"
    <3>1. \A u \in Threads : w # cb_fiber[u]
      BY <1>7, ConstantsAssumption DEF CountInv, TypeOK, Task
    <3> QED BY <1>5, <1>6, <3>1, SpotAlone
  <2> QED BY <1>1, <1>6, <1>7, <2>1 DEF FiberOK, Live
<1>9. FiberInv'
  BY <1>5, <1>8, FibersStep DEF CountInv
<1>10. Pending(w)' /\ (w \in FiberObj => Placed(w)')
  BY <1>5 DEF Pending, Placed
<1>11. w \in FiberObj \/ w \in Cbs
  BY DEF Work, FiberObj
<1>12. AliveInv'
  <2>1. w \in FiberObj => Item(w)' = w
    BY <1>5, <1>7
  <2>2. ~(w \in FiberObj /\ Live(w))
    BY <1>1, <1>7 DEF Live
  <2> QED BY <1>2, <1>5, <1>10, <1>11, <2>1, <2>2, AliveStep DEF CountInv
<1>13. CbInv'
  <2>1. Ages
    BY <1>1, <1>2 DEF Ages
  <2>2. \A v \in Cbs : Pending(v)' => phase'[v] = "live"
    BY <1>2, <1>5 DEF CbInv, Work
  <2>3. \A v \in Cbs : Pending(v)' => Pending(v) \/ phase[v] = "new"
    BY <1>1, <1>5
  <2>4. \A u \in Threads : Keeps(u)' => m_cb[cb_fiber'[u]] = None
    BY <1>1, <1>5 DEF CbInv
  <2> QED BY <1>1, <2>1, <2>2, <2>3, <2>4, CbStep DEF CountInv
<1>14. \A v \in Work : v # w => Alike(v)
  BY <1>2, <1>5, <1>7, TouchesStatus
<1>15. Status(w) = "new" /\ Runners(w) = {} /\ Runners(w)' = {}
  <2>1. Runners(w) = {}
    BY <1>1, NewIsNotRun DEF CountInv
  <2>2. \A u \in Threads : Item(Cur(u))' = Item(Cur(u))
    BY <1>1 DEF Item, Cur
  <2> QED BY <1>1, <2>1, <2>2 DEF Status, Runners
<1>16. Status(w)' = "pending"
  <2>1. Served(w)'
    <3>1. w \in FiberObj => Item(w)' = w /\ Waits(w)'
      BY <1>5, <1>7 DEF Waits
    <3> QED BY <1>10, <1>11, <3>1, ServedByNext DEF ServedAgrees, CountInv
  <2> QED BY <1>2, <1>15, <2>1 DEF Status
<1>17. TP!Become(w, "new", "pending", {})
  BY <1>1, <1>14, <1>15, <1>16, PoolBecomes
<1>18. TP!Accepting
  BY ClientAccepted DEF Schedule
<1> QED BY <1>9, <1>12, <1>13, <1>17, <1>18 DEF PoolStep, TP!Next, TP!Submit

\* The event of a parked fiber happens.
LEMMA WakeServe ==
  ASSUME ~EarlySchedule, PoolInv, CountInv', ExitInv', NEW s \in FiberObj, Wake(s)
  PROVE  ServeInv' /\ PoolStep
<1> USE DEF PoolInv, ServeInv
<1>1. /\ s \in parked /\ Settled(s) /\ parked' = parked \ {s}
      /\ m_fibers' = Append(m_fibers, Entry(s, AnyThread))
      /\ UNCHANGED <<m_state, m_cb, pc, ft, cb_fiber, phase, owner>>
  BY DEF Wake, hand, pool, ghost
<1>2. /\ Touches(s)
      /\ \A u \in Threads : \A f : Spot(u, f)' = Spot(u, f)
      /\ \A f : Item(f)' = Item(f) /\ (InHand(f)' <=> InHand(f))
      /\ \A y : y \in QueuedTasks' <=> y \in QueuedTasks \/ y = s
      /\ \A v : v # s => (Pending(v)' <=> Pending(v))
      /\ \A u \in Threads : Keeps(u)' <=> Keeps(u)
  BY <1>1, ClientTouches DEF CountInv
<1>3. Live(s) /\ m_state[s] \in {"EXEC", "HOLD"}
  BY <1>1 DEF FiberInv, FiberOK
<1>4. m_state[s] = "HOLD"
  <2>1. ASSUME m_state[s] = "EXEC" PROVE FALSE
    <3>1. PICK u \in Threads : pc[u] \in {"body", "yield"} /\ Cur(u) = s
      BY <2>1 DEF AbortInv, ExecIsBody
    <3> QED BY <1>1, <3>1 DEF Settled, OnStack
  <2> QED BY <1>3, <2>1
<1>5. \A u \in Threads : Spot(u, s) = "none" /\ ~(ft[u] = s /\ pc[u] = "enter")
  <2> SUFFICES ASSUME NEW u \in Threads
               PROVE  Spot(u, s) = "none" /\ ~(ft[u] = s /\ pc[u] = "enter")
    OBVIOUS
  <2>1. ~(ft[u] = s /\ pc[u] = "enter")
    BY <1>1 DEF ExclInv, ParkedLeaving
  <2>2. ~(Cur(u) = s /\ pc[u] \in OnStack \cup {"settle"})
    BY <1>1 DEF Settled
  <2> QED BY <2>1, <2>2 DEF Spot
<1>6. s \notin QueuedTasks
  BY <1>1 DEF QueuedTasks, ExclInv, QueueUnheld
<1>7. Live(s)'
  BY <1>1, <1>2, <1>3 DEF Live
<1>8. FiberOK(s)'
  BY <1>1, <1>2, <1>4, <1>5, <1>7 DEF FiberOK, Live
<1>9. FiberInv'
  BY <1>2, <1>8, FibersStep DEF CountInv
<1>10. \A v \in Cbs : v # s
  BY ConstantsAssumption DEF FiberObj
<1>11. AliveInv'
  <2>1. Placed(s)'
    BY <1>2 DEF Placed
  <2> QED BY <1>1, <1>2, <1>10, <2>1, AliveStep DEF CountInv
<1>12. CbInv'
  <2>1. Ages
    BY <1>1 DEF Ages
  <2>2. \A v \in Cbs : Pending(v)' => phase'[v] = "live"
    BY <1>1, <1>2, <1>10 DEF CbInv
  <2>3. \A u \in Threads : Keeps(u)' => m_cb[cb_fiber'[u]] = None
    BY <1>1, <1>2 DEF CbInv
  <2> QED BY <1>1, <1>2, <1>10, <2>1, <2>2, <2>3, CbStep DEF CountInv
<1>13. PICK w \in Work : w = Item(s)
  BY <1>3 DEF Live
<1>14. Status(w) = "parked"
  <2>1. FiberStatus(s) = "parked"
    BY <1>1, <1>4, <1>5, <1>6 DEF FiberStatus, Waits, Spot, OnStack
  <2> QED BY <1>3, <1>13, <2>1, StatusOfFiber DEF StatusAgrees
<1>15. Status(w)' = "pending"
  <2>1. FiberStatus(s)' = "pending"
    BY <1>2, <1>5 DEF FiberStatus, Waits, OnStack
  <2>2. Status(Item(s))' = "pending"
    BY <1>7, <1>12, <2>1, StatusOfFiberNext DEF StatusAgrees
  <2> QED BY <1>2, <1>13, <2>2
<1>16. \A v \in Work : v # w => Alike(v)
  BY <1>1, <1>2, <1>10, <1>13, TouchesStatus
<1>17. Runners(w)' = {}
  <2>1. \A u \in Threads : u \notin Runners(Item(s))'
    BY <1>2, <1>5, <1>7, <1>12, StatusOfFiberNext DEF StatusAgrees, OnStack
  <2>2. Runners(Item(s))' = Runners(w)'
    BY <1>2, <1>13 DEF Runners
  <2> QED BY <2>1, <2>2 DEF Runners
<1>18. TP!Become(w, "parked", "pending", {})
  BY <1>1, <1>14, <1>15, <1>16, <1>17, PoolBecomes
<1>19. TP!Accepting
  BY ClientAccepted DEF Wake
<1> QED BY <1>9, <1>11, <1>12, <1>18, <1>19 DEF PoolStep, TP!Next, TP!Wake

\* start() and stop() move threads in and out of run() only.
LEMMA OwnerTouches ==
  ASSUME PoolInv, Start \/ Stop \/ StopStep
  PROVE  /\ UNCHANGED <<m_fibers, ft, cb_fiber, idle_term, m_state, m_cb, parked, phase>>
         /\ \A u \in Threads : \/ pc'[u] = pc[u]
                               \/ pc[u] \in {"off", "exit"} /\ pc'[u] \in {"off", "pick"}
<1> USE DEF PoolInv
<1>1. UNCHANGED <<m_fibers, ft, cb_fiber, idle_term, m_state, m_cb, parked, phase>>
  BY DEF Start, Stop, StopStep, StopReturnsEarly, StopCalls, StopCallEnds, StopSkipsCall,
         StopJoins, hand, ghost
<1>2. CASE Start
  <2>1. pc' = [t \in Threads |-> IF t \in Workers THEN "pick" ELSE pc[t]]
        /\ \A w \in Workers : pc[w] = "off"
    BY <1>2 DEF Start, CountInv, OwnerOK
  <2> QED BY <1>1, <2>1
<1>3. CASE Stop \/ StopReturnsEarly \/ StopCallEnds \/ StopSkipsCall
  BY <1>1, <1>3 DEF Stop, StopReturnsEarly, StopCallEnds, StopSkipsCall
<1>4. CASE StopCalls
  <2>1. pc' = [pc EXCEPT ![Caller] = "pick"] /\ pc[Caller] \in {"off", "exit"}
    BY <1>4 DEF StopCalls, CountInv, OwnerOK
  <2> QED BY <1>1, <2>1 DEF CountInv, TypeOK
<1>5. CASE StopJoins
  <2>1. pc' = [t \in Threads |-> IF t \in Workers THEN "off" ELSE pc[t]]
        /\ \A w \in Workers : pc[w] \in {"off", "exit"}
    BY <1>5 DEF StopJoins
  <2> QED BY <1>1, <2>1
<1> QED BY <1>2, <1>3, <1>4, <1>5 DEF StopStep

\* With no thread in run() and an empty queue, what is left is parked.
LEMMA NothingRuns ==
  ASSUME PoolInv, m_fibers = <<>>, \A t \in Threads : pc[t] \in {"off", "exit"}
  PROVE  TP!Unfinished = {}
<1> USE DEF PoolInv, ServeInv
<1>1. QueuedTasks = {}
  BY DEF QueuedTasks
<1>2. ASSUME NEW w \in Work, phase[w] = "live" PROVE Status(w) = "parked"
  <2>1. ~Pending(w)
    BY <1>1 DEF Pending
  <2>2. PICK f \in FiberObj : Item(f) = w /\ Placed(f)
    BY <1>2, <2>1 DEF AliveInv
  <2>3. \A t \in Threads : Spot(t, f) = "none"
    BY DEF Spot, OnStack
  <2>4. f \in parked
    BY <1>1, <2>2, <2>3 DEF Placed
  <2>5. Live(f)
    BY <2>4 DEF FiberInv, FiberOK
  <2>6. FiberStatus(f) = "parked"
    BY <1>1, <2>3, <2>4 DEF FiberStatus, Waits, OnStack
  <2> QED BY <2>2, <2>5, <2>6, StatusOfFiber DEF StatusAgrees
<1>3. ASSUME NEW w \in Work, phase[w] # "live" PROVE Status(w) \in {"new", "done"}
  <2>1. phase[w] \in {"new", "done"}
    BY <1>3 DEF CountInv, TypeOK
  <2>2. Runners(w) = {}
    BY DEF Runners, OnStack
  <2> QED BY <2>1, <2>2 DEF Status
<1>4. \A w \in Work : Status(w) \notin {"pending", "running"}
  BY <1>2, <1>3
<1> QED BY <1>4 DEF TP!Unfinished

\* stop() begins, and returns when nothing is left that could run.
LEMMA OwnerServe ==
  ASSUME PoolInv, CountInv', ExitInv', Start \/ Stop \/ StopStep
  PROVE  ServeInv' /\ PoolStep
<1> USE DEF PoolInv, ServeInv
<1>1. /\ UNCHANGED <<m_fibers, ft, cb_fiber, idle_term, m_state, m_cb, parked, phase>>
      /\ \A u \in Threads : \/ pc'[u] = pc[u]
                            \/ pc[u] \in {"off", "exit"} /\ pc'[u] \in {"off", "pick"}
  BY OwnerTouches
<1>2. QueuedTasks' = QueuedTasks /\ \A f : Item(f)' = Item(f)
  BY <1>1 DEF QueuedTasks, Item
<1>3. ASSUME NEW u \in Threads, NEW f PROVE Spot(u, f)' = Spot(u, f)
  <2>1. CASE pc'[u] = pc[u]
    BY <1>1, <2>1, SpotElsewhere
  <2>2. CASE pc[u] \in {"off", "exit"} /\ pc'[u] \in {"off", "pick"}
    BY <2>2 DEF Spot, OnStack
  <2> QED BY <1>1, <2>1, <2>2
<1>4. None \notin FiberObj
  BY ConstantsAssumption DEF FiberObj, Task
<1>5. Touches(None)
  BY <1>1, <1>2, <1>3 DEF Touches, Same
<1>6. \A w : Pending(w)' <=> Pending(w)
  <2>1. \A u \in Threads : pc'[u] = "enter" <=> pc[u] = "enter"
    BY <1>1
  <2> QED BY <1>1, <1>2, <2>1 DEF Pending
<1>7. FiberInv'
  BY <1>4, <1>5, FibersStep DEF CountInv
<1>8. AliveInv'
  BY <1>1, <1>4, <1>5, <1>6, AliveStep DEF CountInv
<1>9. CbInv'
  <2>1. Ages
    BY <1>1 DEF Ages
  <2>2. \A w \in Cbs : Pending(w)' => phase'[w] = "live"
    BY <1>1, <1>6 DEF CbInv
  <2>3. \A u \in Threads : Keeps(u)' => m_cb[cb_fiber'[u]] = None
    <3>1. \A u \in Threads : Keeps(u)' => Keeps(u)
      BY <1>1 DEF Keeps, OnStack
    <3> QED BY <1>1, <3>1 DEF CbInv
  <2> QED BY <1>1, <1>6, <2>1, <2>2, <2>3, CbStep DEF CountInv
<1>10. \A w \in Work : Alike(w)
  BY <1>1, <1>4, <1>5, <1>6, TouchesStatus
<1>11. /\ [w \in Work |-> Status(w)]' = [w \in Work |-> Status(w)]
       /\ [w \in Work |-> Runners(w)]' = [w \in Work |-> Runners(w)]
  BY <1>10 DEF Alike
<1>12. CASE Start \/ StopCalls \/ StopCallEnds \/ StopSkipsCall
  <2>1. owner' # "out" <=> owner # "out"
    BY <1>12 DEF Start, StopCalls, StopCallEnds, StopSkipsCall
  <2> QED BY <1>7, <1>8, <1>9, <1>10, <2>1, PoolStutters DEF PoolStep
<1>13. CASE Stop
  <2>1. TP!BeginClose
    BY <1>11, <1>13 DEF Stop, TP!BeginClose
  <2> QED BY <1>7, <1>8, <1>9, <2>1 DEF PoolStep, TP!Next
<1>14. CASE StopReturnsEarly \/ StopJoins
  <2>1. owner # "out" /\ owner' = "out" /\ owner # "call"
    BY <1>14 DEF StopReturnsEarly, StopJoins
  <2>2. \A t \in Threads : pc[t] \in {"off", "exit"}
    BY <1>14, <2>1 DEF StopReturnsEarly, StopJoins, Threads, CountInv, OwnerOK
  <2>3. m_fibers = <<>>
    <3>1. CASE StopReturnsEarly
      BY <3>1 DEF StopReturnsEarly, stopping
    <3>2. CASE StopJoins
      BY <2>1, <2>2, <3>2 DEF StopJoins, ExitInv
    <3> QED BY <1>14, <3>1, <3>2
  <2>4. TP!Unfinished = {}
    BY <2>2, <2>3, NothingRuns
  <2>5. TP!EndClose
    BY <1>11, <2>1, <2>4 DEF TP!EndClose
  <2> QED BY <1>7, <1>8, <1>9, <2>5 DEF PoolStep, TP!Next
<1> QED BY <1>12, <1>13, <1>14 DEF StopStep

\* A step of a thread that stays in run() keeps what is known of the exit.
LEMMA StaysInRun ==
  ASSUME ExitInv, NEW t \in Threads, pc[t] \notin {"off", "exit"}, pc'[t] \notin {"off", "exit"},
         \A u \in Threads : u # t => pc'[u] = pc[u] /\ idle_term'[u] = idle_term[u],
         idle_term'[t] => idle_term[t] \/ m_stopping, UNCHANGED <<m_stopping, owner>>,
         \A i \in DOMAIN m_fibers' : m_fibers'[i].thread = AnyThread
  PROVE  ExitInv'
<1>1. \A u \in Threads : idle_term'[u] => m_stopping' /\ pc'[u] \notin {"off", "exit"}
  BY DEF ExitInv
<1>2. ~m_stopping' => \A w \in Workers : pc'[w] \notin {"off", "exit"}
  <2>1. Workers \subseteq Threads
    BY DEF Threads
  <2> QED BY <2>1 DEF ExitInv
<1> QED BY <1>1, <1>2 DEF ExitInv

\* The last thread finds the queue empty: nothing in it is pinned to another thread
\* or executing.
LEMMA RunReturnsExitInv ==
  ASSUME PoolInv, NEW t \in Threads, RunReturns(t)
  PROVE  ExitInv'
<1> USE DEF PoolInv, ServeInv
<1>1. /\ pc[t] = "pick" /\ Eligible(t) = {} /\ idle_term[t]
      /\ pc'[t] = "exit" /\ ~idle_term'[t]
      /\ \A u \in Threads : u # t => pc'[u] = pc[u] /\ idle_term'[u] = idle_term[u]
      /\ UNCHANGED <<m_fibers, m_stopping, owner>>
  BY DEF RunReturns, pool, CountInv, TypeOK
<1>2. m_fibers = <<>>
  <2>1. ASSUME NEW i \in DOMAIN m_fibers PROVE FALSE
    <3>1. m_fibers[i].thread = AnyThread
      BY DEF ExitInv
    <3>2. PICK f \in FiberObj : f = m_fibers[i].task /\ m_state[f] = "EXEC"
      BY <1>1, <3>1 DEF Eligible
    <3>3. f \in QueuedTasks
      BY <3>2 DEF QueuedTasks
    <3> QED BY <3>2, <3>3 DEF FiberInv, FiberOK
  <2>2. PICK S : m_fibers \in Seq(S)
    BY DEF CountInv, TypeOK
  <2>3. DOMAIN m_fibers = {}
    BY <2>1
  <2> QED BY <2>2, <2>3
<1>3. m_stopping
  BY <1>1 DEF ExitInv
<1> QED BY <1>1, <1>2, <1>3 DEF ExitInv

\* Every step of a thread.
LEMMA ThreadExitInv ==
  ASSUME ~EarlySchedule, PoolInv, NEW t \in Threads, ThreadStep(t)
  PROVE  ExitInv'
<1> USE DEF PoolInv, ServeInv
<1>1. CASE RunReturns(t)
  BY <1>1, RunReturnsExitInv
<1>2. CASE Idle(t)
  <2>1. /\ pc[t] = "idle" /\ pc'[t] = "rest" /\ idle_term'[t] = stopping
        /\ \A u \in Threads : u # t => pc'[u] = pc[u] /\ idle_term'[u] = idle_term[u]
        /\ UNCHANGED <<m_fibers, m_stopping, owner>>
    BY <1>2 DEF Idle, pool, CountInv, TypeOK
  <2>2. idle_term'[t] => m_stopping
    BY <2>1 DEF stopping
  <2>3. \A i \in DOMAIN m_fibers' : m_fibers'[i].thread = AnyThread
    BY <2>1 DEF ExitInv
  <2> QED BY <2>1, <2>2, <2>3, StaysInRun
<1>3. CASE PickTask(t)
  <2>1. PICK i \in DOMAIN m_fibers : m_fibers' = RemoveAt(m_fibers, i)
    BY <1>3 DEF PickTask, Eligible
  <2>2. /\ pc[t] = "pick" /\ pc'[t] = "enter" /\ UNCHANGED <<idle_term, m_stopping, owner>>
        /\ \A u \in Threads : u # t => pc'[u] = pc[u]
    BY <1>3 DEF PickTask, CountInv, TypeOK
  <2>3. \A j \in DOMAIN m_fibers' : m_fibers'[j].thread = AnyThread
    BY <2>1, RemoveQueued DEF CountInv, ExclInv, ExitInv
  <2> QED BY <2>2, <2>3, StaysInRun
<1>4. CASE Settle(t)
  <2>1. /\ pc[t] = "settle" /\ pc'[t] = "pick" /\ UNCHANGED <<idle_term, m_stopping, owner>>
        /\ \A u \in Threads : u # t => pc'[u] = pc[u]
    BY <1>4 DEF Settle, pool, CountInv, TypeOK
  <2>2. \A j \in DOMAIN m_fibers' : m_fibers'[j].thread = AnyThread
    <3>1. CASE m_fibers' = m_fibers
      BY <3>1 DEF ExitInv
    <3>2. CASE m_fibers' = Append(m_fibers, Entry(Cur(t), AnyThread))
      BY <3>2, AppendQueued DEF CountInv, ExitInv
    <3> QED BY <1>4, <3>1, <3>2 DEF Settle
  <2> QED BY <2>1, <2>2, StaysInRun
<1>5. CASE EnterCb(t)
  <2>1. /\ pc[t] = "enter" /\ pc' = [pc EXCEPT ![t] = "body"]
        /\ UNCHANGED <<m_fibers, idle_term, m_stopping, owner>>
    BY <1>5 DEF EnterCb, pool
  <2>2. pc'[t] = "body" /\ \A u \in Threads : u # t => pc'[u] = pc[u]
    BY <2>1 DEF CountInv, TypeOK
  <2>3. \A i \in DOMAIN m_fibers' : m_fibers'[i].thread = AnyThread
    BY <2>1 DEF ExitInv
  <2> QED BY <2>1, <2>2, <2>3, StaysInRun
<1>6. CASE EnterIdle(t) \/ IdleReturns(t) \/ DropFinished(t) \/ SwapOut(t)
  <2>1. /\ pc[t] \notin {"off", "exit"} /\ pc'[t] \notin {"off", "exit"}
        /\ UNCHANGED <<m_fibers, idle_term, m_stopping, owner>>
        /\ \A u \in Threads : u # t => pc'[u] = pc[u]
    BY <1>6 DEF EnterIdle, IdleReturns, DropFinished, SwapOut, hand, CountInv, TypeOK
  <2>2. \A i \in DOMAIN m_fibers' : m_fibers'[i].thread = AnyThread
    BY <2>1 DEF ExitInv
  <2> QED BY <2>1, <2>2, StaysInRun
<1>7. CASE EnterFiber(t) \/ (\E end \in Over : MainFunc(t, end)) \/ YieldToReady(t)
           \/ Park(t) \/ YieldToHold(t)
  <2>1. /\ pc[t] \notin {"off", "exit"} /\ pc'[t] \notin {"off", "exit"}
        /\ UNCHANGED <<m_fibers, idle_term, m_stopping, owner>>
        /\ \A u \in Threads : u # t => pc'[u] = pc[u]
    BY <1>7 DEF EnterFiber, MainFunc, YieldToReady, Park, YieldToHold, hand, pool, CountInv, TypeOK
  <2>2. \A i \in DOMAIN m_fibers' : m_fibers'[i].thread = AnyThread
    BY <2>1 DEF ExitInv
  <2> QED BY <2>1, <2>2, StaysInRun
<1>8. \A thread : ~SwitchTo(t, thread)
  BY DEF SwitchTo
<1> QED BY <1>1, <1>2, <1>3, <1>4, <1>5, <1>6, <1>7, <1>8 DEF ThreadStep

\* schedule() is called from outside of stop() or by a body, so that its task has a
\* thread to run it.
LEMMA AppendExitInv ==
  ASSUME PoolInv, NEW x, ClientRuns, m_fibers' = Append(m_fibers, Entry(x, AnyThread)),
         UNCHANGED <<pc, idle_term, m_stopping, owner>>
  PROVE  ExitInv'
<1> USE DEF PoolInv, ServeInv
<1>1. \A i \in DOMAIN m_fibers' : m_fibers'[i].thread = AnyThread
  BY AppendQueued DEF CountInv, ExitInv
<1>2. owner = "out" \/ ~(\A t \in Threads : pc[t] \in {"off", "exit"})
  BY DEF ClientRuns
<1> QED BY <1>1, <1>2 DEF ExitInv

\* start() and stop().
LEMMA OwnerExitInv ==
  ASSUME PoolInv, Start \/ Stop \/ StopStep
  PROVE  ExitInv'
<1> USE DEF PoolInv, ServeInv
<1>1. /\ UNCHANGED <<m_fibers, idle_term>>
      /\ \A u \in Threads : \/ pc'[u] = pc[u]
                            \/ pc[u] \in {"off", "exit"} /\ pc'[u] \in {"off", "pick"}
  BY OwnerTouches
<1>2. \A i \in DOMAIN m_fibers' : m_fibers'[i].thread = AnyThread
  BY <1>1 DEF ExitInv
<1>3. Workers \subseteq Threads /\ Caller \notin Workers /\ (UseCaller => Caller \in Threads)
  BY ConstantsAssumption DEF Threads
<1>4. CASE Start
  <2>1. /\ owner = "out" /\ m_stopping /\ ~m_stopping' /\ owner' = owner
        /\ pc' = [t \in Threads |-> IF t \in Workers THEN "pick" ELSE pc[t]]
    BY <1>4 DEF Start
  <2>2. \A t \in Threads : pc[t] \in {"off", "exit"}
    BY <2>1 DEF CountInv, OwnerOK, Threads
  <2>3. \A t \in Threads : ~idle_term'[t]
    BY <1>1, <2>2 DEF ExitInv
  <2>4. \A w \in Workers : pc'[w] = "pick"
    BY <1>3, <2>1
  <2> QED BY <1>2, <2>1, <2>3, <2>4 DEF ExitInv
<1>5. CASE Stop
  <2>1. ~m_stopping /\ m_stopping' /\ owner' = "stop" /\ pc' = pc
    BY <1>5 DEF Stop
  <2>2. \A w \in Workers : pc'[w] \notin {"off", "exit"}
    BY <2>1 DEF ExitInv
  <2>3. \A t \in Threads : ~idle_term'[t]
    BY <1>1, <2>1 DEF ExitInv
  <2> QED BY <1>2, <1>3, <2>1, <2>2, <2>3 DEF ExitInv
<1>6. CASE StopReturnsEarly \/ StopCallEnds \/ StopSkipsCall
  <2>1. m_stopping /\ m_stopping' /\ pc' = pc
    BY <1>6 DEF StopReturnsEarly, StopCallEnds, StopSkipsCall, AbortInv, RootOnce
  <2>2. \A t \in Threads : idle_term'[t] => pc'[t] \notin {"off", "exit"}
    BY <1>1, <2>1 DEF ExitInv
  <2>3. owner' # "out" /\ (\A t \in Threads : pc[t] \in {"off", "exit"}) => m_fibers = <<>>
    <3>1. CASE StopReturnsEarly
      BY <3>1 DEF StopReturnsEarly
    <3>2. CASE StopCallEnds
      BY <3>2 DEF StopCallEnds, ExitInv
    <3>3. CASE StopSkipsCall
      <4>1. CASE UseCaller
        BY <3>3, <4>1 DEF StopSkipsCall, stopping
      <4>2. CASE ~UseCaller
        <5>1. Workers # {}
          BY <4>2, ConstantsAssumption DEF Threads
        <5> QED BY <3>3, <5>1 DEF StopSkipsCall, ExitInv
      <4> QED BY <4>1, <4>2
    <3> QED BY <1>6, <3>1, <3>2, <3>3
  <2> QED BY <1>1, <1>2, <2>1, <2>2, <2>3 DEF ExitInv
<1>7. CASE StopCalls
  <2>1. UseCaller /\ m_stopping /\ m_stopping' /\ pc' = [pc EXCEPT ![Caller] = "pick"]
    BY <1>7 DEF StopCalls, AbortInv, RootOnce
  <2>2. pc'[Caller] = "pick" /\ \A u \in Threads : u # Caller => pc'[u] = pc[u]
    BY <1>3, <2>1 DEF CountInv, TypeOK
  <2>3. \A t \in Threads : idle_term'[t] => pc'[t] \notin {"off", "exit"}
    BY <1>1, <2>2 DEF ExitInv
  <2> QED BY <1>2, <1>3, <2>1, <2>2, <2>3 DEF ExitInv
<1>8. CASE StopJoins
  <2>1. m_stopping /\ m_stopping' /\ owner' = "out"
        /\ pc' = [t \in Threads |-> IF t \in Workers THEN "off" ELSE pc[t]]
        /\ \A w \in Workers : pc[w] \in {"off", "exit"}
    BY <1>8 DEF StopJoins, AbortInv, RootOnce
  <2>2. \A t \in Threads : idle_term'[t] => pc'[t] \notin {"off", "exit"}
    BY <1>1, <2>1 DEF ExitInv
  <2> QED BY <1>2, <2>1, <2>2 DEF ExitInv
<1> QED BY <1>4, <1>5, <1>6, <1>7, <1>8 DEF StopStep

\* A pool that has not been started has accepted nothing.
LEMMA InitServe == Init => ServeInv /\ AloneInv /\ TP!Init
<1> SUFFICES ASSUME Init PROVE ServeInv /\ AloneInv /\ TP!Init
  OBVIOUS
<1>1. DOMAIN m_fibers = {} /\ QueuedTasks = {} /\ parked = {}
  BY DEF Init, QueuedTasks
<1>2. /\ \A f \in FiberObj : m_state[f] = "INIT"
      /\ \A t \in Threads : /\ pc[t] = "off" /\ ft[t] = None /\ cb_fiber[t] = None
                            /\ ~idle_term[t]
      /\ \A f \in CbFibers : m_cb[f] = None
      /\ \A w \in Work : phase[w] = "new"
      /\ m_stopping /\ owner = "out"
  BY DEF Init
<1>3. \A t \in Threads : \A f : Spot(t, f) = "none"
  BY <1>2 DEF Spot, OnStack
<1>4. FiberInv
  BY <1>1, <1>2, <1>3 DEF FiberInv, FiberOK
<1>5. CbInv
  BY <1>1, <1>2 DEF CbInv, Pending, Keeps
<1>6. AliveInv /\ ExitInv
  BY <1>1, <1>2 DEF AliveInv, ExitInv
<1>7. \A w \in Work : Status(w) = "new" /\ Runners(w) = {}
  BY <1>2 DEF Status, Runners, OnStack
<1>8. TP!Init
  BY <1>2, <1>7 DEF TP!Init
<1> QED BY <1>4, <1>5, <1>6, <1>7, <1>8 DEF ServeInv, AloneInv

\* A step that changes nothing.
LEMMA StutterServe ==
  ASSUME PoolInv, CountInv', UNCHANGED vars
  PROVE  ServeInv' /\ PoolStep
<1> USE DEF PoolInv, ServeInv
<1>1. UNCHANGED <<m_fibers, ft, cb_fiber, idle_term, m_state, m_cb, parked, phase, pc, owner, m_stopping>>
  BY DEF vars, pool, hand, ghost
<1>2. QueuedTasks' = QueuedTasks /\ (\A f : Item(f)' = Item(f))
      /\ \A u \in Threads : \A f : Spot(u, f)' = Spot(u, f)
  BY <1>1 DEF QueuedTasks, Item, Spot, Cur
<1>3. None \notin FiberObj
  BY ConstantsAssumption DEF FiberObj, Task
<1>4. Touches(None)
  BY <1>1, <1>2 DEF Touches, Same
<1>5. FiberInv'
  BY <1>3, <1>4, FibersStep DEF CountInv
<1>6. CbInv' /\ ExitInv'
  BY <1>1 DEF CbInv, ExitInv, Pending, QueuedTasks, Keeps
<1>7. \A w : Pending(w)' <=> Pending(w)
  BY <1>1, <1>2 DEF Pending
<1>8. AliveInv'
  BY <1>1, <1>3, <1>4, <1>7, AliveStep DEF CountInv
<1>9. \A w \in Work : Alike(w)
  BY <1>1, <1>3, <1>4, <1>7, TouchesStatus
<1> QED BY <1>1, <1>5, <1>6, <1>8, <1>9, PoolStutters DEF PoolStep

\* Every step of the scheduler is a step of TaskPool or none.
LEMMA NextServe ==
  ASSUME ~EarlySchedule, Pins \subseteq {AnyThread}, PoolInv, CountInv', [Next]_vars
  PROVE  ServeInv' /\ PoolStep
<1>1. CASE Start \/ Stop \/ StopStep
  BY <1>1, OwnerExitInv, OwnerServe
<1>2. ASSUME NEW thread \in Pins, NEW w \in Work, Schedule(w, thread)
      PROVE  ServeInv' /\ PoolStep
  <2>1. ExitInv'
    <3>1. thread = AnyThread /\ ClientRuns /\ m_fibers' = Append(m_fibers, Entry(w, thread))
          /\ UNCHANGED <<pc, idle_term, m_stopping, owner>>
      BY <1>2 DEF Schedule, hand, pool
    <3> QED BY <3>1, AppendExitInv
  <2> QED BY <1>2, <2>1, ScheduleServe
<1>3. ASSUME NEW f \in FiberObj, Wake(f) PROVE ServeInv' /\ PoolStep
  <2>1. ExitInv'
    <3>1. ClientRuns /\ m_fibers' = Append(m_fibers, Entry(f, AnyThread))
          /\ UNCHANGED <<pc, idle_term, m_stopping, owner>>
      BY <1>3 DEF Wake, hand, pool
    <3> QED BY <3>1, AppendExitInv
  <2> QED BY <1>3, <2>1, WakeServe
<1>4. \A f \in Fibers : \A thread \in Pins : ~ScheduleAgain(f, thread)
  BY DEF ScheduleAgain
<1>5. ASSUME NEW t \in Threads, ThreadStep(t) PROVE ServeInv' /\ PoolStep
  <2>1. ExitInv'
    BY <1>5, ThreadExitInv
  <2>2. \A thread \in Pins : ~SwitchTo(t, thread)
    BY DEF SwitchTo
  <2>3. CASE PickTask(t)
    BY <2>1, <2>3, PickTaskServe
  <2>4. CASE EnterIdle(t) \/ Idle(t) \/ IdleReturns(t) \/ RunReturns(t)
    BY <2>1, <2>4, QuietServe
  <2>5. CASE DropFinished(t)
    BY <2>5, DropFinishedServe
  <2>6. CASE EnterFiber(t)
    BY <2>1, <2>6, EnterFiberServe
  <2>7. CASE EnterCb(t)
    BY <2>1, <2>7, EnterCbServe
  <2>8. CASE \E end \in Over : MainFunc(t, end)
    BY <2>1, <2>8, MainFuncServe
  <2>9. CASE YieldToReady(t)
    BY <2>1, <2>9, YieldToReadyServe
  <2>10. CASE Park(t)
    BY <2>1, <2>10, ParkServe
  <2>11. CASE YieldToHold(t)
    BY <2>1, <2>11, YieldToHoldServe
  <2>12. CASE SwapOut(t)
    BY <2>1, <2>12, SwapOutServe
  <2>13. CASE Settle(t)
    BY <2>1, <2>13, SettleServe
  <2> QED BY <1>5, <2>2, <2>3, <2>4, <2>5, <2>6, <2>7, <2>8, <2>9, <2>10, <2>11, <2>12,
             <2>13 DEF ThreadStep
<1>6. CASE UNCHANGED vars
  BY <1>6, StutterServe
<1> QED BY <1>1, <1>2, <1>3, <1>4, <1>5, <1>6 DEF Next, Terminated, ClientStep

\* One thread at most on an item, by the guards of TaskPool.
LEMMA AloneStep ==
  ASSUME AloneInv, PoolStep
  PROVE  AloneInv'
<1>1. CASE UNCHANGED TP!vars \/ TP!BeginClose \/ TP!EndClose
  <2>1. [w \in Work |-> Runners(w)]' = [w \in Work |-> Runners(w)]
    BY <1>1 DEF TP!vars, TP!BeginClose, TP!EndClose
  <2>2. \A w \in Work : Runners(w)' = Runners(w)
    BY <2>1
  <2> QED BY <2>2 DEF AloneInv
<1>2. ASSUME NEW w \in Work, NEW from, NEW to, NEW who, TP!Become(w, from, to, who),
             \A t, u \in who : t = u
      PROVE  AloneInv'
  <2>1. [v \in Work |-> Runners(v)]' = [[v \in Work |-> Runners(v)] EXCEPT ![w] = who]
    BY <1>2 DEF TP!Become
  <2>2. \A v \in Work : Runners(v)' = IF v = w THEN who ELSE Runners(v)
    BY <2>1
  <2> QED BY <1>2, <2>2 DEF AloneInv
<1>3. ASSUME NEW w \in Work, TP!Submit(w) \/ TP!Wake(w) \/ TP!Yield(w) \/ TP!Park(w) \/ TP!Finish(w)
      PROVE  AloneInv'
  <2>1. PICK from, to : TP!Become(w, from, to, {})
    BY <1>3 DEF TP!Submit, TP!Wake, TP!Yield, TP!Park, TP!Finish, TP!Leave
  <2> QED BY <1>2, <2>1
<1>4. ASSUME NEW w \in Work, NEW t \in Threads, TP!Run(w, t) PROVE AloneInv'
  <2>1. TP!Become(w, "pending", "running", {t})
    BY <1>4 DEF TP!Run
  <2> QED BY <1>2, <2>1
<1> QED BY <1>1, <1>3, <1>4 DEF PoolStep, TP!Next

\* The scheduler implements the abstract task pool for any number of threads, fibers
\* and functions: an accepted item has one thread on its stack at most, is never lost
\* between two run() loops or between an event and the queue, is not entered again
\* after MainFunc() has set TERM or EXCEPT, and stop() returns only when all work has
\* finished or is parked. Assumed: no fiber is
\* scheduled before run() has left it, a pool with use_caller is stopped once, and
\* no task is pinned to one thread.
THEOREM IsATaskPool ==
  ASSUME ~EarlySchedule, UseCaller => MaxStops <= 1, Pins \subseteq {AnyThread}
  PROVE  Spec => ImplementsTaskPool
<1>1. Init => PoolInv /\ TP!Init
  BY InitCountInv, InitExclInv, InitAbortInv, InitServe DEF PoolInv
<1>2. PoolInv /\ [Next]_vars => PoolInv' /\ [TP!Next]_(TP!vars)
  <2> SUFFICES ASSUME PoolInv, [Next]_vars PROVE PoolInv' /\ [TP!Next]_(TP!vars)
    OBVIOUS
  <2>1. CountInv' /\ ExclInv' /\ AbortInv'
    BY NextCountInv, NextExclInv, NextAbortInv DEF PoolInv
  <2>2. ServeInv' /\ PoolStep
    BY <2>1, NextServe
  <2>3. AloneInv'
    BY <2>2, AloneStep DEF PoolInv
  <2> QED BY <2>1, <2>2, <2>3 DEF PoolInv, PoolStep
<1> QED BY <1>1, <1>2, PTL DEF Spec, ImplementsTaskPool, TP!Spec
=============================================================================
