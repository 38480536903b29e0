---------------------------- MODULE ProcessProof -----------------------------
(***************************************************************************)
(* What holds of the threads, the variables, the loggers and the context   *)
(* table of every process, for any number of threads and whatever else the *)
(* threads do.                                                             *)
(***************************************************************************)
EXTENDS Process, ContextTableProof, ConfigProof

\* Where one thread and its object can be: the semaphore is up exactly between the
\* notify() of run() and the return of the constructor, run() is past the notify()
\* in every object whose constructor has returned, and past the assignment of m_id.
Pair(t) ==
    /\ m_semaphore[t] \in {0, 1}
    /\ obj[t] = "none" => at[t] = "none" /\ m_semaphore[t] = 0
    /\ obj[t] = "waiting" => \/ at[t] \in {"start", "known"} /\ m_semaphore[t] = 0
                             \/ at[t] \in {"cb", "ended"} /\ m_semaphore[t] = 1
    /\ obj[t] \in {"usable", "destroyed"} => at[t] \in {"cb", "ended"} /\ m_semaphore[t] = 0
    /\ at[t] \in {"known", "cb", "ended"} => m_id[t]

HandshakeInv ==
    /\ obj \in [Tids -> {"none", "waiting", "usable", "destroyed"}]
    /\ at \in [Tids -> {"none", "start", "known", "cb", "ended"}]
    /\ m_id \in [Tids -> BOOLEAN]
    /\ m_semaphore \in [Tids -> Nat]
    /\ \A t \in Tids : Pair(t)

\* The owner and the new thread keep it.
LEMMA OwnerKeeps ==
    ASSUME HandshakeInv, NEW t \in Tids, OwnerStep(t) \/ StartStep(t)
    PROVE  HandshakeInv'
<1>1. CASE Construct(t)
    BY <1>1 DEF Construct, HandshakeInv, Pair
<1>2. CASE Constructed(t)
    BY <1>2 DEF Constructed, HandshakeInv, Pair
<1>3. CASE Join(t)
    BY <1>3 DEF Join, HandshakeInv, Pair
<1>4. CASE Destroy(t)
    BY <1>4 DEF Destroy, HandshakeInv, Pair
<1>5. CASE Run(t)
    BY <1>5 DEF Run, HandshakeInv, Pair
<1>6. CASE Notify(t)
    BY <1>6 DEF Notify, HandshakeInv, Pair
<1> QED BY <1>1, <1>2, <1>3, <1>4, <1>5, <1>6 DEF OwnerStep, StartStep

\* The end of a callback keeps it too.
LEMMA ReturnKeeps ==
    ASSUME HandshakeInv, NEW t \in Tids, Return(t)
    PROVE  HandshakeInv'
BY DEF Return, HandshakeInv, Pair

\* A step of the process is one of the owner or of a starting thread, the end of a
\* callback, or leaves the threads' objects alone.
LEMMA ThreadsMove ==
    ASSUME [ProcessNext]_allVars
    PROVE  \/ \E t \in Tids : OwnerStep(t) \/ StartStep(t)
           \/ \E t \in Tids : Return(t)
           \/ UNCHANGED threadVars
<1>1. ASSUME NEW t \in Tids, OwnerDoes(t) \/ Starts(t) PROVE OwnerStep(t) \/ StartStep(t)
    BY <1>1 DEF OwnerDoes, Starts
<1>2. ASSUME NEW t \in Tids, Ends(t) PROVE Return(t)
    BY <1>2 DEF Ends
<1>3. ASSUME NEW t \in Tids, Begins(t) \/ GoesOn(t) \/ Registers(t) PROVE UNCHANGED threadVars
    BY <1>3 DEF Begins, GoesOn, Registers
<1>4. EventsEnd => UNCHANGED threadVars
    BY DEF EventsEnd
<1>5. Finished \/ UNCHANGED allVars => UNCHANGED threadVars
    BY DEF Finished, allVars
<1> QED BY <1>1, <1>2, <1>3, <1>4, <1>5 DEF ProcessNext

\* A new thread uses its Thread object only while the constructor waits, and every
\* object that has been constructed knows its thread.
THEOREM HandshakeAlwaysHolds == ProcessSpec => []HandshakeHolds
<1>1. ProcessInit => HandshakeInv
    BY DEF ProcessInit, ThreadInit, HandshakeInv, Pair
<1>2. HandshakeInv /\ [ProcessNext]_allVars => HandshakeInv'
  <2> SUFFICES ASSUME HandshakeInv, [ProcessNext]_allVars PROVE HandshakeInv'
      OBVIOUS
  <2>1. CASE UNCHANGED threadVars
      BY <2>1 DEF threadVars, HandshakeInv, Pair
  <2> QED BY <2>1, ThreadsMove, OwnerKeeps, ReturnKeeps
<1>3. HandshakeInv => HandshakeHolds
    BY DEF HandshakeInv, Pair, HandshakeHolds
<1> QED BY <1>1, <1>2, <1>3, PTL DEF ProcessSpec

\* Every step of the process is one of the context table or leaves it alone.
LEMMA TableMoves ==
    ASSUME [ProcessNext]_allVars
    PROVE  [Next]_vars
<1>1. ASSUME NEW t \in Tids, OwnerDoes(t) \/ Starts(t) \/ Ends(t) \/ Begins(t) \/ GoesOn(t)
      PROVE  UNCHANGED vars
    BY <1>1 DEF OwnerDoes, Starts, Ends, Begins, GoesOn, tableVars
<1>2. ASSUME NEW t \in Tids, Registers(t) PROVE Next
    BY <1>2, ProcessAssumption DEF Registers, Next
<1>3. EventsEnd => Next
    BY DEF EventsEnd, Next
<1>4. Finished \/ UNCHANGED allVars => UNCHANGED vars
    BY DEF Finished, allVars, tableVars
<1> QED BY <1>1, <1>2, <1>3, <1>4 DEF ProcessNext

\* m_fdContexts[fd] is read in range by the threads of every process.
THEOREM ProcessInRange == ProcessSpec => []InRange
<1>1. ProcessInit => RangeInv
    BY RangeInit DEF ProcessInit
<1>2. RangeInv /\ [ProcessNext]_allVars => RangeInv'
    BY TableMoves, RangeStep
<1>3. RangeInv => InRange
    BY DEF RangeInv, InRange
<1> QED BY <1>1, <1>2, <1>3, PTL DEF ProcessSpec

\* A step of the process, as the variables and the loggers see it.
LEMMA LogsMove ==
    ASSUME [ProcessNext]_allVars
    PROVE  \/ UNCHANGED configVars /\ UNCHANGED logVars
           \/ \E t \in Clients : \/ (BeginsConfig(t) \/ ConfigStep(t)) /\ UNCHANGED logVars
                                 \/ BeginsLog(t) \/ LogStep(t)
<1>1. ASSUME NEW t \in Tids, OwnerDoes(t) \/ Starts(t) \/ Ends(t) \/ Registers(t)
      PROVE  UNCHANGED configVars /\ UNCHANGED logVars
    BY <1>1 DEF OwnerDoes, Starts, Ends, Registers
<1>2. ASSUME NEW t \in Tids, Begins(t)
      PROVE  (BeginsConfig(t) /\ UNCHANGED logVars) \/ BeginsLog(t)
    BY <1>2 DEF Begins, BeginsConfig
<1>3. ASSUME NEW t \in Tids, GoesOn(t)
      PROVE  (ConfigStep(t) /\ UNCHANGED logVars) \/ LogStep(t)
    BY <1>3 DEF GoesOn
<1>4. EventsEnd \/ Finished \/ UNCHANGED allVars => UNCHANGED configVars /\ UNCHANGED logVars
    BY DEF EventsEnd, Finished, allVars
<1> QED BY <1>1, <1>2, <1>3, <1>4, ProcessAssumption DEF ProcessNext

\* What holds of the variables in every process.
LEMMA ConfigAlways == ConfigInv /\ [ProcessNext]_allVars => ConfigInv'
<1> SUFFICES ASSUME ConfigInv, [ProcessNext]_allVars PROVE ConfigInv'
    OBVIOUS
<1>1. CASE UNCHANGED configVars
    BY <1>1, StutterKeeps
<1>2. ASSUME NEW t \in Clients, BeginsConfig(t) PROVE ConfigInv'
  <2>1. CASE \/ \E s \in Settings : SetValue(t, s[1], s[2])
             \/ \E d \in Documents : LoadFromYaml(t, d)
      BY <2>1, BeginsKeep
  <2>2. CASE \E n \in Names : \/ Lookup(t, n)
                              \/ AddListener(t, n, "throw")
                              \/ \E id \in 1..MaxListeners : DelListener(t, n, id)
                              \/ ClearListener(t, n)
      BY <2>2, ListenersKeep
  <2> QED BY <1>2, <2>1, <2>2 DEF BeginsConfig
<1>3. ASSUME NEW t \in Clients, ConfigStep(t) PROVE ConfigInv'
    BY <1>3, SetValueKeeps, BeginsKeep DEF ConfigStep
<1>4. ASSUME NEW t \in Clients, BeginsLog(t) PROVE UNCHANGED configVars
    BY <1>4 DEF BeginsLog, StartLog, SetFormatter, AddAppender, DelAppender, AppenderSetFormatter
<1> QED BY <1>1, <1>2, <1>3, <1>4, LogsMove, LogKeeps

\* Whatever threads set, load, add and remove: once a change that one call has made
\* alone is stored, the copy its listener keeps is the value.
THEOREM CopiesAlwaysAgree == ProcessSpec => []CopiesAgree
<1>1. ProcessInit => ConfigInv
    BY ConfigInvInit DEF ProcessInit
<1>2. ConfigInv /\ [ProcessNext]_allVars => ConfigInv'
    BY ConfigAlways
<1>3. ConfigInv => CopiesAgree
    BY DEF ConfigInv
<1> QED BY <1>1, <1>2, <1>3, PTL DEF ProcessSpec
-----------------------------------------------------------------------------
(* The loggers, and the listener that configures them. *)

\* A value of "logs" as a listener is given it, and one that a variable may have.
Value(x) ==
    /\ Defines(x) /\ \A N \in DOMAIN x : N \notin Own /\ HasPatterns(x[N])
    /\ "root" \in DOMAIN x /\ Len(x["root"].appenders) # 0
AnyValue(x) == DOMAIN x = {} \/ Value(x)

\* The values that the assumption allows are such.
LEMMA LogsValueIs ==
    ASSUME NEW x, LogsValue(x)
    PROVE  Value(x)
<1>1. \A N \in DOMAIN x : LoggerOf(N) = N
    BY Zenon DEF LogsValue, LoggerOf
<1>2. DOMAIN x \subseteq LogNames \ Own
    BY Zenon DEF LogsValue
<1>3. /\ "root" \in DOMAIN x /\ x["root"].appenders # <<>>
      /\ \A N \in DOMAIN x : /\ x[N].formatter # None
                             /\ x[N].appenders \in Seq(Range(x[N].appenders))
                             /\ \A a \in Range(x[N].appenders) : a.formatter # None
    BY Zenon DEF LogsValue
<1>4. ASSUME NEW N \in DOMAIN x
      PROVE  HasPatterns(x[N])
  <2>1. PICK s : s = x[N].appenders
      OBVIOUS
  <2>2. IsSeq(s) /\ \A a \in Range(s) : a.formatter # None
      BY <2>1, <1>3 DEF IsSeq
  <2>3. DOMAIN s = 1..Len(s)
      BY <2>2, SeqFacts
  <2>4. \A i \in 1..Len(s) : s[i].formatter # None
      BY <2>2, <2>3 DEF Range
  <2> QED BY <2>1, <2>2, <2>4 DEF HasPatterns
<1>5. Len(x["root"].appenders) # 0
    BY <1>3, NoElements DEF IsSeq
<1>6. Defines(x)
    BY <1>1, <1>2, <1>3 DEF Defines, IsSeq
<1> QED BY <1>2, <1>3, <1>4, <1>5, <1>6 DEF Value

\* What LoadFromYaml() has left.
GoodText(p) == HasLog(p[1]) /\ p[1] \in Names => FromStr(p[1], p[2]) = Junk \/ Value(FromStr(p[1], p[2]))
GoodDocument(d) == IsSeq(d) /\ \A i \in 1..Len(d) : GoodText(d[i])

\* A call that has this listener still to call.
AwaitsLog(f) == \E i \in DOMAIN f.todo : f.todo[i].cb = "log"

\* A call that announces a value to the listener of the loggers.
LogFrame(f) ==
    /\ f.name # None /\ HasLog(f.name) => Value(f.new)
    /\ f.pc = "log" \/ AwaitsLog(f) => HasLog(f.name)

\* The variable with this listener has good values only, and so has who changes it.
ValuesInv ==
    /\ DOMAIN before = Names /\ DOMAIN rest = Clients
    /\ \A n \in Names : /\ HasLog(n) => AnyValue(m_val[n]) /\ AnyValue(before[n])
                        /\ Listens(n, "log") => HasLog(n)
    /\ \A t \in Clients : LogFrame(frame[t]) /\ GoodDocument(rest[t])

\* A thread that makes no call.
LEMMA NoCallIsGood == LogFrame(NoCall)
  BY DEF LogFrame, NoCall, AwaitsLog

\* At first the variable is empty.
LEMMA ValuesInit == ProcessInit => ValuesInv
<1> SUFFICES ASSUME ProcessInit PROVE ValuesInv
    OBVIOUS
<1>1. ConfigInit
    BY DEF ProcessInit
<1>2. ASSUME NEW n \in Names
      PROVE  /\ HasLog(n) => AnyValue(m_val[n]) /\ AnyValue(before[n])
             /\ Listens(n, "log") => HasLog(n)
  <2>1. HasLog(n) => DOMAIN Default[n] = {}
      BY LogsAssumption
  <2>2. FirstListeners[n] \in Seq({"copy", "log", "throw"})
      BY ConfigAssumption
  <2>3. ASSUME Listens(n, "log") PROVE HasLog(n)
    <3>1. PICK i \in 1..Len(FirstListeners[n]) : FirstListeners[n][i] = "log"
        BY <2>2, <2>3, <1>1 DEF Listens, ConfigInit
    <3>2. i \in DOMAIN FirstListeners[n]
        BY <2>2, <3>1
    <3> QED BY <3>1, <3>2 DEF HasLog, Range
  <2> QED BY <2>1, <2>3, <1>1 DEF ConfigInit, AnyValue
<1>3. GoodDocument(<<>>)
    BY EmptyIsSeq DEF GoodDocument
<1> QED BY <1>1, <1>2, <1>3, NoCallIsGood, ConfigAssumption DEF ConfigInit, ValuesInv

\* A document given to LoadFromYaml().
LEMMA DocumentIsGood ==
    ASSUME NEW d \in Documents
    PROVE  GoodDocument(d)
<1>1. IsSeq(d)
    BY LogsAssumption DEF IsSeq
<1>2. DOMAIN d = 1..Len(d)
    BY <1>1, SeqFacts
<1>3. ASSUME NEW i \in 1..Len(d), HasLog(d[i][1]), d[i][1] \in Names
      PROVE  FromStr(d[i][1], d[i][2]) = Junk \/ Value(FromStr(d[i][1], d[i][2]))
  <2>1. FromStr(d[i][1], d[i][2]) = Junk \/ LogsValue(FromStr(d[i][1], d[i][2]))
      BY <1>2, <1>3, LogsAssumption
  <2> QED BY <2>1, LogsValueIs
<1> QED BY <1>1, <1>3 DEF GoodDocument, GoodText

\* What is left of a good document.
LEMMA RestIsGood ==
    ASSUME NEW d, GoodDocument(d), d # <<>>
    PROVE  GoodDocument(Tail(d)) /\ GoodText(Head(d))
<1>1. PICK v, n : v = Tail(d) /\ n = Len(d)
    OBVIOUS
<1>2. /\ IsSeq(v) /\ n \in Nat \ {0} /\ Len(v) = n - 1 /\ Head(d) = d[1]
      /\ \A i \in 1..(n - 1) : v[i] = d[i + 1]
    BY <1>1, Rest DEF GoodDocument
<1>3. ASSUME NEW i \in 1..(n - 1) PROVE GoodText(v[i])
  <2>1. i + 1 \in 1..n /\ v[i] = d[i + 1]
      BY <1>2, <1>3
  <2> QED BY <2>1, <1>1 DEF GoodDocument
<1>4. GoodText(d[1])
    BY <1>1, <1>2 DEF GoodDocument
<1> QED BY <1>1, <1>2, <1>3, <1>4 DEF GoodDocument

\* Frames go on being good.
GoodFrames == \A t \in Clients : LogFrame(frame[t])

\* setValue() begins with a good value.
LEMMA EnterIsGood ==
    ASSUME ConfigInv, ValuesInv, NEW t \in Clients, NEW n \in s_datas, NEW x,
           HasLog(n) => Value(x), EnterSetValue(t, n, x)
    PROVE  GoodFrames'
<1>1. n \in Names /\ n # None
    BY ConfigAssumption DEF ConfigInv, TypeInv
<1>2. CASE x = m_val[n]
    BY <1>2 DEF EnterSetValue, ValuesInv, GoodFrames
<1>3. CASE x # m_val[n]
  <2> DEFINE g == [pc |-> "call", name |-> n, new |-> x, todo |-> m_cbs[n],
                   alone |-> Changing(n) = {}]
  <2>1. /\ frame'[t] = g
        /\ \A u \in Clients \ {t} :
              frame'[u] = IF frame[u].name = n THEN [frame[u] EXCEPT !.alone = FALSE]
                                               ELSE frame[u]
      BY <1>3 DEF EnterSetValue, Changing
  <2>2. LogFrame(frame'[t])
    <3>1. AwaitsLog(g) => Listens(n, "log")
        BY DEF AwaitsLog, Listens
    <3>2. AwaitsLog(g) => HasLog(n)
        BY <1>1, <3>1 DEF ValuesInv
    <3>3. g.name = n /\ g.new = x /\ g.pc = "call"
        OBVIOUS
    <3> HIDE DEF g
    <3> QED BY <2>1, <3>2, <3>3 DEF LogFrame
  <2>3. ASSUME NEW u \in Clients \ {t} PROVE LogFrame(frame'[u])
    <3>1. LogFrame(frame[u]) /\ IsFrame(frame[u])
        BY DEF ValuesInv, ConfigInv, TypeInv
    <3>2. /\ frame'[u].name = frame[u].name /\ frame'[u].pc = frame[u].pc
          /\ frame'[u].todo = frame[u].todo /\ frame'[u].new = frame[u].new
        BY <2>1, <3>1 DEF IsFrame
    <3> QED BY <3>1, <3>2 DEF LogFrame, AwaitsLog
  <2> QED BY <2>2, <2>3 DEF GoodFrames
<1> QED BY <1>2, <1>3

\* A call goes on: it calls a listener or goes to another place, or it ends.
MovesOn(t) ==
    \/ frame' = [frame EXCEPT ![t] = NoCall]
    \/ \E pc1 \in {"call", "log", "store"} :
           /\ pc1 = "log" => HasLog(frame[t].name)
           /\ \/ frame' = [frame EXCEPT ![t].pc = pc1]
              \/ frame[t].todo # <<>> /\ frame' = [frame EXCEPT ![t].pc = pc1, ![t].todo = Tail(@)]

\* What is awaited of the listeners that are left.
LEMMA TailAwaits ==
    ASSUME NEW s \in Seq(Listener), s # <<>>
    PROVE  /\ (\E i \in DOMAIN Tail(s) : Tail(s)[i].cb = "log") => \E i \in DOMAIN s : s[i].cb = "log"
           /\ (\E i \in DOMAIN s : s[i].cb = "log") =>
                 Head(s).cb = "log" \/ \E i \in DOMAIN Tail(s) : Tail(s)[i].cb = "log"
           /\ Head(s).cb = "log" => \E i \in DOMAIN s : s[i].cb = "log"
<1>1. /\ Tail(s) \in Seq(Listener) /\ Len(Tail(s)) = Len(s) - 1 /\ Len(s) \in Nat /\ Len(s) > 0
      /\ Head(s) = s[1] /\ 1 \in DOMAIN s
    OBVIOUS
<1>2. ASSUME NEW i \in DOMAIN s, s[i].cb = "log", i # 1
      PROVE  i - 1 \in DOMAIN Tail(s) /\ Tail(s)[i - 1] = s[i]
    BY <1>1, <1>2
<1>3. ASSUME NEW i \in DOMAIN Tail(s)
      PROVE  i + 1 \in DOMAIN s /\ Tail(s)[i] = s[i + 1]
    BY <1>1, <1>3
<1> QED BY <1>1, <1>2, <1>3

\* Calls that move on stay good.
LEMMA MovesAreGood ==
    ASSUME ConfigInv, ValuesInv, NEW t \in Clients, MovesOn(t)
    PROVE  GoodFrames'
<1>1. IsFrame(frame[t]) /\ DOMAIN frame = Clients /\ LogFrame(frame[t])
    BY DEF ConfigInv, TypeInv, ValuesInv
<1>2. ASSUME NEW u \in Clients, u # t PROVE LogFrame(frame'[u])
  <2>1. frame'[u] = frame[u]
      BY <1>1, <1>2 DEF MovesOn
  <2> QED BY <2>1 DEF ValuesInv
<1>3. CASE frame' = [frame EXCEPT ![t] = NoCall]
  <2>1. frame'[t] = NoCall
      BY <1>1, <1>3
  <2> QED BY <1>2, <2>1, NoCallIsGood DEF GoodFrames
<1>4. ASSUME NEW pc1, pc1 = "log" => HasLog(frame[t].name), frame' = [frame EXCEPT ![t].pc = pc1]
      PROVE  GoodFrames'
  <2>1. /\ frame'[t].name = frame[t].name /\ frame'[t].new = frame[t].new
        /\ frame'[t].pc = pc1 /\ frame'[t].todo = frame[t].todo
      BY <1>1, <1>4 DEF IsFrame
  <2> QED BY <1>1, <1>2, <1>4, <2>1 DEF GoodFrames, LogFrame, AwaitsLog
<1>5. ASSUME NEW pc1, pc1 = "log" => HasLog(frame[t].name), frame[t].todo # <<>>,
             frame' = [frame EXCEPT ![t].pc = pc1, ![t].todo = Tail(@)]
      PROVE  GoodFrames'
  <2>1. /\ frame'[t].name = frame[t].name /\ frame'[t].new = frame[t].new
        /\ frame'[t].pc = pc1 /\ frame'[t].todo = Tail(frame[t].todo)
      BY <1>1, <1>5 DEF IsFrame
  <2>2. AwaitsLog(frame'[t]) => AwaitsLog(frame[t])
      BY <2>1, <1>1, <1>5, TailAwaits DEF AwaitsLog, IsFrame
  <2> QED BY <1>1, <1>2, <1>5, <2>1, <2>2 DEF GoodFrames, LogFrame
<1> QED BY <1>3, <1>4, <1>5 DEF MovesOn

\* All of the rest.
LEMMA ValuesStay ==
    ASSUME ValuesInv, GoodFrames', DOMAIN rest' = Clients, \A t \in Clients : GoodDocument(rest'[t]),
           \A n \in Names : Listens(n, "log")' => Listens(n, "log"),
           UNCHANGED <<m_val, before>>
    PROVE  ValuesInv'
  BY DEF ValuesInv, GoodFrames

\* A step that begins a call of Config.
LEMMA ValuesBegin ==
    ASSUME ConfigInv, ValuesInv, NEW t \in Clients, BeginsConfig(t)
    PROVE  ValuesInv'
<1>0. DOMAIN rest = Clients /\ (\A u \in Clients : GoodDocument(rest[u])) /\ GoodFrames
    BY DEF ValuesInv, GoodFrames
<1>1. CASE \E s \in Settings : SetValue(t, s[1], s[2])
  <2>1. PICK s \in Settings : SetValue(t, s[1], s[2])
      BY <1>1
  <2>2. PICK n, x : n = s[1] /\ x = s[2]
      OBVIOUS
  <2>3. /\ n \in s_datas /\ EnterSetValue(t, n, x)
        /\ UNCHANGED <<m_val, m_cbs, rest, before>>
      BY <2>1, <2>2 DEF SetValue
  <2>4. n \in Names
      BY <2>3 DEF ConfigInv, TypeInv
  <2>5. HasLog(n) => Value(x)
    <3>1. HasLog(n) => LogsValue(x)
        BY <2>1, <2>2, <2>4, LogsAssumption
    <3> QED BY <3>1, LogsValueIs
  <2>6. GoodFrames'
      BY <2>3, <2>5, EnterIsGood
  <2>7. \A k \in Names : Listens(k, "log")' => Listens(k, "log")
      BY <2>3 DEF Listens
  <2> QED BY <2>3, <2>6, <2>7, <1>0, ValuesStay
<1>2. CASE \E d \in Documents : LoadFromYaml(t, d)
  <2>1. PICK d \in Documents : LoadFromYaml(t, d)
      BY <1>2
  <2>2. /\ rest' = [rest EXCEPT ![t] = d]
        /\ UNCHANGED <<m_val, m_cbs, frame, before>>
      BY <2>1 DEF LoadFromYaml
  <2>3. DOMAIN rest' = Clients /\ \A u \in Clients : GoodDocument(rest'[u])
      BY <2>1, <2>2, <1>0, DocumentIsGood
  <2>4. GoodFrames'
      BY <2>2, <1>0 DEF GoodFrames
  <2>5. \A k \in Names : Listens(k, "log")' => Listens(k, "log")
      BY <2>2 DEF Listens
  <2> QED BY <2>2, <2>3, <2>4, <2>5, ValuesStay
<1>3. CASE \E n \in Names : \/ Lookup(t, n)
                            \/ AddListener(t, n, "throw")
                            \/ \E id \in 1..MaxListeners : DelListener(t, n, id)
                            \/ ClearListener(t, n)
  <2>1. /\ \A k \in Names : Listens(k, "log")' => Listens(k, "log")
        /\ UNCHANGED <<m_val, frame, rest, before>>
      BY <1>3, ListenersShrink
  <2>2. GoodFrames'
      BY <2>1, <1>0 DEF GoodFrames
  <2> QED BY <2>1, <2>2, <1>0, ValuesStay
<1> QED BY <1>1, <1>2, <1>3 DEF BeginsConfig

\* The steps of a call move its frame on.
LEMMA StepsMoveOn ==
    ASSUME ConfigInv, ValuesInv, NEW t \in Clients,
           \/ CallCopy(t) \/ CallThrow(t) \/ Unlock(t) \/ Store(t)
           \/ CallLogIniter(t) \/ LogIniterStep(t)
    PROVE  MovesOn(t)
<1>1. IsFrame(frame[t]) /\ DOMAIN frame = Clients /\ LogFrame(frame[t])
    BY DEF ConfigInv, TypeInv, ValuesInv
<1>2. CASE CallCopy(t)
  <2>1. frame[t].pc = "call" /\ frame[t].todo # <<>> /\ frame' = [frame EXCEPT ![t].todo = Tail(@)]
      BY <1>2 DEF CallCopy
  <2>2. frame' = [frame EXCEPT ![t].pc = "call", ![t].todo = Tail(@)]
      BY <1>1, <2>1 DEF IsFrame
  <2> QED BY <2>1, <2>2 DEF MovesOn
<1>3. CASE CallThrow(t) \/ Store(t)
    BY <1>3 DEF CallThrow, Store, MovesOn
<1>4. CASE Unlock(t)
  <2>1. frame' = [frame EXCEPT ![t].pc = "store"]
      BY <1>4 DEF Unlock
  <2> QED BY <2>1 DEF MovesOn
<1>5. CASE CallLogIniter(t)
  <2>1. /\ frame[t].todo # <<>> /\ Head(frame[t].todo).cb = "log"
        /\ frame' = [frame EXCEPT ![t].pc = "log", ![t].todo = Tail(@)]
      BY <1>5 DEF CallLogIniter
  <2>2. AwaitsLog(frame[t])
      BY <1>1, <2>1, TailAwaits DEF IsFrame, AwaitsLog
  <2>3. HasLog(frame[t].name)
      BY <1>1, <2>2 DEF LogFrame
  <2> QED BY <2>1, <2>3 DEF MovesOn
<1>6. CASE LogIniterStep(t)
  <2>1. /\ frame[t].pc = "log"
        /\ \/ frame' = [frame EXCEPT ![t].pc = "call"]
           \/ frame' = [frame EXCEPT ![t].pc = "log"]
      BY <1>6 DEF LogIniterStep
  <2>2. HasLog(frame[t].name)
      BY <1>1, <2>1 DEF LogFrame
  <2> QED BY <2>1, <2>2 DEF MovesOn
<1> QED BY <1>2, <1>3, <1>4, <1>5, <1>6

\* They keep the values good.
LEMMA ValuesGoOn ==
    ASSUME ConfigInv, ValuesInv, NEW t \in Clients, ConfigStep(t) \/ LogStep(t)
    PROVE  ValuesInv'
<1>0. DOMAIN rest = Clients /\ (\A u \in Clients : GoodDocument(rest[u])) /\ GoodFrames
    BY DEF ValuesInv, GoodFrames
<1>1. CASE CallCopy(t) \/ CallThrow(t) \/ Unlock(t) \/ CallLogIniter(t) \/ LogIniterStep(t)
  <2>1. UNCHANGED <<m_val, m_cbs, rest, before>>
      BY <1>1 DEF CallCopy, CallThrow, Unlock, CallLogIniter, LogIniterStep
  <2>2. GoodFrames'
      BY <1>1, StepsMoveOn, MovesAreGood
  <2>3. \A k \in Names : Listens(k, "log")' => Listens(k, "log")
      BY <2>1 DEF Listens
  <2> QED BY <2>1, <2>2, <2>3, <1>0, ValuesStay
<1>2. CASE Store(t)
  <2>1. PICK n : n = frame[t].name
      OBVIOUS
  <2>2. /\ frame[t].pc = "store"
        /\ m_val' = [m_val EXCEPT ![n] = frame[t].new]
        /\ before' = [before EXCEPT ![n] = m_val[n]]
        /\ UNCHANGED <<m_cbs, rest>>
      BY <1>2, <2>1 DEF Store
  <2>3. GoodFrames'
      BY <1>2, StepsMoveOn, MovesAreGood
  <2>4. n \in Names /\ n # None /\ LogFrame(frame[t]) /\ DOMAIN m_val = Names /\ DOMAIN before = Names
      BY <2>1, <2>2, ConfigAssumption DEF ConfigInv, TypeInv, IsFrame, ValuesInv
  <2>5. ASSUME NEW k \in Names, HasLog(k) PROVE AnyValue(m_val'[k]) /\ AnyValue(before'[k])
    <3>1. CASE k = n
      <4>1. m_val'[k] = frame[t].new /\ before'[k] = m_val[k]
          BY <2>2, <2>4, <3>1
      <4>2. Value(frame[t].new)
          BY <2>1, <2>4, <2>5, <3>1 DEF LogFrame
      <4> QED BY <4>1, <4>2, <2>5 DEF ValuesInv, AnyValue
    <3>2. CASE k # n
      <4>1. m_val'[k] = m_val[k] /\ before'[k] = before[k]
          BY <2>2, <2>4, <3>2
      <4> QED BY <4>1, <2>5 DEF ValuesInv
    <3> QED BY <3>1, <3>2
  <2>6. \A k \in Names : Listens(k, "log")' => HasLog(k)
      BY <2>2 DEF ValuesInv, Listens
  <2>7. DOMAIN before' = Names
      BY <2>2, <2>4
  <2> QED BY <2>2, <2>3, <2>5, <2>6, <2>7, <1>0 DEF ValuesInv, GoodFrames
<1>3. CASE LoadNext(t)
  <2>1. PICK p, n, x : p = Head(rest[t]) /\ n = p[1] /\ x = FromStr(n, p[2])
      OBVIOUS
  <2>2. /\ rest[t] # <<>> /\ rest' = [rest EXCEPT ![t] = Tail(@)]
        /\ UNCHANGED <<m_val, m_cbs, before>>
        /\ IF n \in s_datas /\ x # Junk THEN EnterSetValue(t, n, x) ELSE UNCHANGED frame
      BY <1>3, <2>1 DEF LoadNext
  <2>3. GoodDocument(Tail(rest[t])) /\ GoodText(p)
      BY <2>1, <2>2, <1>0, RestIsGood
  <2>4. DOMAIN rest' = Clients /\ \A u \in Clients : GoodDocument(rest'[u])
      BY <2>2, <2>3, <1>0
  <2>5. GoodFrames'
    <3>1. CASE n \in s_datas /\ x # Junk
      <4>1. n \in Names
          BY <3>1 DEF ConfigInv, TypeInv
      <4>2. HasLog(n) => Value(x)
          BY <2>1, <2>3, <3>1, <4>1 DEF GoodText
      <4> QED BY <2>2, <3>1, <4>2, EnterIsGood
    <3>2. CASE ~(n \in s_datas /\ x # Junk)
        BY <2>2, <3>2, <1>0 DEF GoodFrames
    <3> QED BY <3>1, <3>2
  <2>6. \A k \in Names : Listens(k, "log")' => Listens(k, "log")
      BY <2>2 DEF Listens
  <2> QED BY <2>2, <2>4, <2>5, <2>6, ValuesStay
<1>4. CASE UNCHANGED configVars
  <2>1. UNCHANGED <<m_val, m_cbs, rest, before, frame>>
      BY <1>4 DEF configVars
  <2> QED BY <2>1, <1>0, ValuesStay DEF GoodFrames, Listens
<1>5. CASE LogFiltered(t) \/ LogOwn(t) \/ LogRoot(t)
    BY <1>4, <1>5 DEF LogFiltered, LogOwn, LogRoot
<1> QED BY <1>1, <1>2, <1>3, <1>5 DEF ConfigStep, LogStep

\* A message on its way is on a logger.
GoodMessage(m, D) == DOMAIN m = {"pc", "name", "level"} /\ (m.pc # "out" => m.name \in D)

\* The loggers while listeners are at work: each is as a logger should be, the listeners'
\* operations find theirs, and root has an appender or is to get one.
LoggersInv ==
    /\ AreLoggers(m_loggers) /\ "root" \in DOMAIN m_loggers
    /\ DOMAIN work = Clients /\ DOMAIN msg = Clients /\ DOMAIN verdict = Clients
    /\ \A t \in Clients : /\ WorkOK(work[t], DOMAIN m_loggers)
                          /\ work[t] # <<>> => frame[t].pc = "log"
                          /\ GoodMessage(msg[t], DOMAIN m_loggers)
    /\ m_loggers["root"].appenders = <<>> => \E u \in Clients : FillsRoot(work[u])

\* What clients may do with loggers that they do not own.
LoggersKept ==
    /\ AreLoggers(m_loggers') /\ DOMAIN m_loggers \subseteq DOMAIN m_loggers'
    /\ \A N \in DOMAIN m_loggers \ Own : Keeps(m_loggers[N], m_loggers'[N])

\* At first there is root, with its appender.
LEMMA LoggersInit == ProcessInit => LoggersInv
<1> SUFFICES ASSUME ProcessInit PROVE LoggersInv
    OBVIOUS
<1>1. LogInit
    BY DEF ProcessInit
<1>2. IsLogger(NewLogger("root")) /\ NewLogger("root").appenders # <<>>
    BY NewLoggerIs
<1>3. WorkOK(<<>>, {"root"})
    BY EmptyIsSeq DEF WorkOK
<1>4. AreLoggers(m_loggers) /\ DOMAIN m_loggers = {"root"} /\ m_loggers["root"] = NewLogger("root")
    BY <1>1, <1>2 DEF LogInit, AreLoggers
<1>5. /\ DOMAIN work = Clients /\ DOMAIN msg = Clients /\ DOMAIN verdict = Clients
      /\ \A t \in Clients : work[t] = <<>> /\ msg[t] = NoMessage
    BY <1>1 DEF LogInit
<1>6. GoodMessage(NoMessage, {"root"})
    BY DEF NoMessage, GoodMessage
<1> QED BY <1>2, <1>3, <1>4, <1>5, <1>6 DEF LoggersInv

\* A logger that stays, or is made.
LEMMA KeepsItself ==
    ASSUME NEW l
    PROVE  Keeps(l, l)
  BY DEF Keeps

\* getLogger() makes one.
LEMMA OneLoggerMade ==
    ASSUME LoggersInv, NEW n, n \notin DOMAIN m_loggers,
           m_loggers' = [x \in DOMAIN m_loggers \cup {n} |-> IF x = n THEN NewLogger(n) ELSE m_loggers[x]]
    PROVE  LoggersKept /\ n \in DOMAIN m_loggers'
<1>1. /\ DOMAIN m_loggers' = DOMAIN m_loggers \cup {n} /\ m_loggers'[n] = NewLogger(n)
      /\ \A N \in DOMAIN m_loggers : m_loggers'[N] = m_loggers[N]
    OBVIOUS
<1> QED BY <1>1, NewLoggerIs, KeepsItself DEF LoggersKept, AreLoggers, LoggersInv

\* One logger changes.
LEMMA OneLoggerChanges ==
    ASSUME LoggersInv, NEW n \in DOMAIN m_loggers, NEW l, IsLogger(l),
           n \in Own \/ Keeps(m_loggers[n], l),
           m_loggers' = [m_loggers EXCEPT ![n] = l]
    PROVE  LoggersKept
<1>1. /\ DOMAIN m_loggers' = DOMAIN m_loggers /\ m_loggers'[n] = l
      /\ \A N \in DOMAIN m_loggers : N # n => m_loggers'[N] = m_loggers[N]
    OBVIOUS
<1> QED BY <1>1, KeepsItself DEF LoggersKept, AreLoggers, LoggersInv

\* delAppender()
LEMMA WithoutAppender ==
    ASSUME NEW l, IsLogger(l), NEW i \in DOMAIN l.appenders, NEW s, s = RemoveAt(l.appenders, i),
           NEW k, k = [l EXCEPT !.appenders = s]
    PROVE  IsLogger(k)
<1>1. PICK r : r = l.appenders
    OBVIOUS
<1>2. r \in Seq(Range(r)) /\ DOMAIN r = 1..Len(r) /\ \A j \in 1..Len(r) : IsAppender(r[j])
    BY <1>1, SeqFacts DEF IsLogger, IsSeq
<1>3. s \in Seq(Range(r)) /\ \A j \in DOMAIN s : \E m \in DOMAIN r : s[j] = r[m]
  <2>1. r \in Seq(Range(r)) /\ i \in DOMAIN r /\ s = RemoveAt(r, i)
      BY <1>1, <1>2
  <2>2. /\ RemoveAt(r, i) \in Seq(Range(r))
        /\ \A j \in DOMAIN RemoveAt(r, i) : \E m \in DOMAIN r : RemoveAt(r, i)[j] = r[m]
      BY <2>1, RemoveAtLeaves
  <2> QED BY <2>1, <2>2
<1>4. IsSeq(s)
    BY <1>3, SeqIs
<1>5. DOMAIN s = 1..Len(s)
    BY <1>4, SeqFacts
<1>6. \A j \in 1..Len(s) : IsAppender(s[j])
    BY <1>2, <1>3, <1>5
<1>7. DOMAIN k = {"level", "formatter", "appenders"} /\ k.formatter # None /\ k.appenders = s
    BY DEF IsLogger
<1> QED BY <1>4, <1>6, <1>7 DEF IsLogger

\* LogAppender::setFormatter()
LEMMA OtherAppender ==
    ASSUME NEW l, IsLogger(l), NEW i \in DOMAIN l.appenders, NEW a, IsAppender(a),
           NEW k, k = [l EXCEPT !.appenders[i] = a]
    PROVE  IsLogger(k)
<1>1. PICK r : r = l.appenders
    OBVIOUS
<1>2. IsSeq(r) /\ Len(r) \in Nat /\ DOMAIN r = 1..Len(r) /\ \A j \in 1..Len(r) : IsAppender(r[j])
    BY <1>1, SeqFacts DEF IsLogger
<1>3. PICK s : s = [r EXCEPT ![i] = a]
    OBVIOUS
<1>4. s \in [1..Len(r) -> Range(s)]
    BY <1>2, <1>3 DEF Range
<1>5. IsSeq(s) /\ Len(s) = Len(r)
    BY <1>2, <1>4, FunctionIsSeq
<1>6. \A j \in 1..Len(s) : IsAppender(s[j])
    BY <1>2, <1>3, <1>5
<1>7. DOMAIN k = {"level", "formatter", "appenders"} /\ k.formatter # None /\ k.appenders = s
    BY <1>1, <1>3 DEF IsLogger
<1> QED BY <1>5, <1>6, <1>7 DEF IsLogger

\* What clients do with loggers, of the listener's one they only set the formatter.
LEMMA ClientsKeepLoggers ==
    ASSUME LoggersInv, NEW t \in Clients, BeginsLog(t)
    PROVE  LoggersKept
<1>0. /\ AreLoggers(m_loggers)
      /\ UNCHANGED m_loggers => LoggersKept
    BY KeepsItself DEF LoggersInv, LoggersKept
<1>1. ASSUME NEW n, NEW level, StartLog(t, n, level) PROVE LoggersKept
  <2>1. CASE n \in DOMAIN m_loggers
      BY <1>0, <1>1, <2>1 DEF StartLog
  <2>2. CASE n \notin DOMAIN m_loggers
    <3>1. m_loggers' = [x \in DOMAIN m_loggers \cup {n} |->
                          IF x = n THEN NewLogger(n) ELSE m_loggers[x]]
        BY <1>1, <2>2 DEF StartLog
    <3> QED BY <2>2, <3>1, OneLoggerMade
  <2> QED BY <2>1, <2>2
<1>2. ASSUME NEW n, NEW fmt \in Patterns, SetFormatter(t, n, fmt) PROVE LoggersKept
  <2>1. PICK l, k : l = m_loggers[n] /\ k = WithFormatter(l, fmt)
      OBVIOUS
  <2>2. n \in DOMAIN m_loggers /\ m_loggers' = [m_loggers EXCEPT ![n] = k]
      BY <1>2, <2>1 DEF SetFormatter
  <2>3. fmt # None /\ IsLogger(l)
      BY <2>1, <2>2, <1>0, LogsAssumption DEF AreLoggers
  <2>4. IsLogger(k) /\ Keeps(l, k)
      BY <2>1, <2>3, WithFormatterIs
  <2> QED BY <2>1, <2>2, <2>4, OneLoggerChanges
<1>3. ASSUME NEW n \in Own, NEW type, AddAppender(t, n, type) PROVE LoggersKept
  <2>1. PICK a : a = [type |-> type, file |-> "", level |-> DEBUG, formatter |-> None, own |-> FALSE]
      OBVIOUS
  <2>2. PICK l, k : l = m_loggers[n] /\ k = PlusAppender(l, a)
      OBVIOUS
  <2>3. n \in DOMAIN m_loggers /\ m_loggers' = [m_loggers EXCEPT ![n] = k]
      BY <1>3, <2>1, <2>2 DEF AddAppender
  <2>4. IsLogger(l) /\ Fields(a)
      BY <2>1, <2>2, <2>3, <1>0 DEF AreLoggers, Fields
  <2>5. IsLogger(k)
    <3>1. OneMoreAppender(l, a, k)
        BY <2>2, <2>4, PlusAppenderIs
    <3> QED BY <3>1 DEF OneMoreAppender
  <2> QED BY <1>3, <2>3, <2>5, OneLoggerChanges
<1>4. ASSUME NEW n \in Own, NEW i, DelAppender(t, n, i) PROVE LoggersKept
  <2>1. PICK l, s : l = m_loggers[n] /\ s = RemoveAt(l.appenders, i)
      OBVIOUS
  <2>2. PICK k : k = [l EXCEPT !.appenders = s]
      OBVIOUS
  <2>3. /\ n \in DOMAIN m_loggers /\ i \in DOMAIN l.appenders
        /\ m_loggers' = [m_loggers EXCEPT ![n] = k]
    <3>1. /\ n \in DOMAIN m_loggers /\ i \in DOMAIN m_loggers[n].appenders
          /\ m_loggers' = [m_loggers EXCEPT ![n].appenders = RemoveAt(@, i)]
        BY <1>4 DEF DelAppender
    <3> QED BY <3>1, <2>1, <2>2
  <2>4. IsLogger(l)
      BY <2>1, <2>3, <1>0 DEF AreLoggers
  <2>5. IsLogger(k)
      BY <2>1, <2>2, <2>3, <2>4, WithoutAppender
  <2> QED BY <1>4, <2>3, <2>5, OneLoggerChanges
<1>5. ASSUME NEW n \in Own, NEW i, NEW fmt \in Patterns, AppenderSetFormatter(t, n, i, fmt)
      PROVE  LoggersKept
  <2>1. PICK l, b : l = m_loggers[n] /\ b = l.appenders[i]
      OBVIOUS
  <2>2. PICK a : a = IF fmt = BadPattern THEN [b EXCEPT !.own = FALSE]
                     ELSE [b EXCEPT !.formatter = fmt, !.own = TRUE]
      OBVIOUS
  <2>3. PICK k : k = [l EXCEPT !.appenders[i] = a]
      OBVIOUS
  <2>4. /\ n \in DOMAIN m_loggers /\ i \in DOMAIN l.appenders
        /\ m_loggers' = [m_loggers EXCEPT ![n] = k]
    <3>1. /\ n \in DOMAIN m_loggers /\ i \in DOMAIN m_loggers[n].appenders
          /\ m_loggers' = [m_loggers EXCEPT ![n].appenders[i] =
                 IF fmt = BadPattern THEN [@ EXCEPT !.own = FALSE]
                 ELSE [@ EXCEPT !.formatter = fmt, !.own = TRUE]]
        BY <1>5 DEF AppenderSetFormatter
    <3>2. m_loggers' = [m_loggers EXCEPT ![n].appenders[i] = a]
        BY <3>1, <2>1, <2>2
    <3> QED BY <3>1, <3>2, <2>1, <2>3
  <2>5. IsLogger(l) /\ fmt # None
      BY <2>1, <2>4, <1>0, LogsAssumption DEF AreLoggers
  <2>6. IsAppender(b)
      BY <2>1, <2>4, <2>5, SeqFacts DEF IsLogger
  <2>7. IsAppender(a)
      BY <2>2, <2>5, <2>6 DEF IsAppender
  <2>8. IsLogger(k)
      BY <2>3, <2>4, <2>5, <2>7, OtherAppender
  <2> QED BY <1>5, <2>4, <2>8, OneLoggerChanges
<1> QED BY <1>1, <1>2, <1>3, <1>4, <1>5 DEF BeginsLog

\* A step that keeps the loggers keeps the invariant.
LEMMA LoggersStay ==
    ASSUME LoggersInv, LoggersKept, UNCHANGED work, DOMAIN msg' = Clients, DOMAIN verdict' = Clients,
           \A t \in Clients : /\ work[t] # <<>> => frame'[t].pc = "log"
                              /\ GoodMessage(msg'[t], DOMAIN m_loggers')
    PROVE  LoggersInv'
<1>1. /\ AreLoggers(m_loggers') /\ DOMAIN m_loggers \subseteq DOMAIN m_loggers'
      /\ "root" \in DOMAIN m_loggers'
    BY DEF LoggersInv, LoggersKept
<1>2. \A t \in Clients : WorkOK(work[t], DOMAIN m_loggers')
    BY <1>1, WorkStays DEF LoggersInv
<1>3. ASSUME m_loggers'["root"].appenders = <<>> PROVE m_loggers["root"].appenders = <<>>
  <2>1. PICK l, k : l = m_loggers["root"] /\ k = m_loggers'["root"]
      OBVIOUS
  <2>2. IsLogger(l) /\ IsLogger(k) /\ Keeps(l, k)
      BY <2>1, <1>1, LogsAssumption DEF LoggersInv, LoggersKept, AreLoggers
  <2>3. Len(k.appenders) = 0
      BY <1>3, <2>1, EmptyIsSeq
  <2>4. IsSeq(l.appenders) /\ Len(l.appenders) = 0
      BY <2>2, <2>3 DEF Keeps, IsLogger
  <2> QED BY <2>1, <2>4, NoElements
<1> QED BY <1>1, <1>2, <1>3 DEF LoggersInv

\* So do the calls that clients make of loggers.
LEMMA LoggersBegin ==
    ASSUME LoggersInv, NEW t \in Clients, BeginsLog(t)
    PROVE  LoggersInv'
<1>1. LoggersKept
    BY ClientsKeepLoggers
<1>2. UNCHANGED <<work, frame>>
    BY DEF BeginsLog, StartLog, SetFormatter, AddAppender, DelAppender, AppenderSetFormatter, configVars
<1>3. /\ DOMAIN msg' = Clients /\ DOMAIN verdict' = Clients
      /\ \A u \in Clients : GoodMessage(msg'[u], DOMAIN m_loggers')
  <2>1. CASE UNCHANGED <<msg, verdict>>
      BY <1>1, <2>1 DEF LoggersInv, LoggersKept, GoodMessage
  <2>2. CASE \E m \in Messages : StartLog(t, m[1], m[2])
    <3>1. PICK n, level : StartLog(t, n, level)
        BY <2>2
    <3>2. n \in DOMAIN m_loggers'
        BY <3>1 DEF StartLog
    <3>3. /\ DOMAIN verdict' = DOMAIN verdict
          /\ \/ UNCHANGED msg
             \/ msg' = [msg EXCEPT ![t] = [pc |-> "own", name |-> n, level |-> level]]
        BY <3>1 DEF StartLog
    <3> QED BY <1>1, <3>2, <3>3 DEF LoggersInv, LoggersKept, GoodMessage
  <2> QED BY <2>1, <2>2 DEF BeginsLog, SetFormatter, AddAppender, DelAppender, AppenderSetFormatter
<1> QED BY <1>1, <1>2, <1>3, LoggersStay DEF LoggersInv

\* Logger::log() leaves the loggers alone.
LEMMA LoggersLog ==
    ASSUME LoggersInv, NEW t \in Clients, LogFiltered(t) \/ LogOwn(t) \/ LogRoot(t)
    PROVE  LoggersInv'
<1>1. UNCHANGED <<m_loggers, work, frame>>
    BY DEF LogFiltered, LogOwn, LogRoot, configVars
<1>2. LoggersKept
    BY <1>1, KeepsItself DEF LoggersKept, LoggersInv
<1>3. DOMAIN msg = Clients /\ DOMAIN verdict = Clients
    BY DEF LoggersInv
<1>4. DOMAIN verdict' = Clients
    BY <1>3 DEF LogFiltered, LogOwn, LogRoot
<1>5. GoodMessage(NoMessage, DOMAIN m_loggers) /\ GoodMessage(msg[t], DOMAIN m_loggers)
    BY DEF NoMessage, GoodMessage, LoggersInv
<1>6. \/ msg' = [msg EXCEPT ![t] = NoMessage]
      \/ msg[t].pc = "own" /\ msg' = [msg EXCEPT ![t].pc = "root"]
    BY DEF LogFiltered, LogOwn, LogRoot
<1>7. DOMAIN msg' = Clients /\ \A u \in Clients : u # t => msg'[u] = msg[u]
    BY <1>3, <1>6
<1>8. GoodMessage(msg'[t], DOMAIN m_loggers)
    BY <1>3, <1>5, <1>6 DEF GoodMessage
<1>9. \A u \in Clients : GoodMessage(msg'[u], DOMAIN m_loggers')
    BY <1>1, <1>7, <1>8 DEF LoggersInv
<1> QED BY <1>1, <1>2, <1>4, <1>7, <1>9, LoggersStay DEF LoggersInv

\* The listener is called.
LEMMA ListenerBegins ==
    ASSUME ConfigInv, ValuesInv, NEW t \in Clients, CallLogIniter(t),
           NEW n, n = frame[t].name, NEW w, w = LogIniter(m_val[n], frame[t].new), NEW ls
    PROVE  /\ n \in Names /\ HasLog(n) /\ Value(frame[t].new)
           /\ WorkOK(w, {}) /\ Progress(w, ls, m_val[n], frame[t].new)
<1>1. IsFrame(frame[t]) /\ LogFrame(frame[t])
    BY DEF ConfigInv, TypeInv, ValuesInv
<1>2. frame[t].pc = "call" /\ frame[t].todo # <<>> /\ Head(frame[t].todo).cb = "log"
    BY DEF CallLogIniter
<1>3. AwaitsLog(frame[t])
    BY <1>1, <1>2, TailAwaits DEF IsFrame, AwaitsLog
<1>4. n \in Names /\ n # None
    BY <1>1, <1>2, ConfigAssumption DEF IsFrame
<1>5. HasLog(n) /\ Value(frame[t].new)
    BY <1>1, <1>3, <1>4 DEF LogFrame
<1>6. PICK old, new : old = m_val[n] /\ new = frame[t].new
    OBVIOUS
<1>7. Value(new) /\ AnyValue(old)
    BY <1>4, <1>5, <1>6 DEF ValuesInv
<1>8. Defines(new) /\ "root" \in DOMAIN new /\ Len(new["root"].appenders) # 0
    BY <1>7 DEF Value
<1>9. DOMAIN old \subseteq LogNames /\ \A N \in DOMAIN old : LoggerOf(N) = N
    BY <1>7 DEF AnyValue, Value, Defines
<1>10. IsWork(w, old, new)
    BY <1>6, <1>8, <1>9, LogIniterIsWork
<1>11. WorkOK(w, {}) /\ Progress(w, ls, old, new)
    BY <1>8, <1>10, WorkBegins
<1> QED BY <1>4, <1>5, <1>6, <1>11

\* With its operations the listener takes on what it has to do.
LEMMA LoggersListen ==
    ASSUME ConfigInv, ValuesInv, LoggersInv, NEW t \in Clients, CallLogIniter(t)
    PROVE  LoggersInv'
<1>1. PICK n, w : n = frame[t].name /\ w = LogIniter(m_val[n], frame[t].new)
    OBVIOUS
<1>2. WorkOK(w, {})
    BY <1>1, ListenerBegins
<1>3. WorkOK(w, DOMAIN m_loggers)
    BY <1>2, WorkStays
<1>4. /\ work[t] = <<>> /\ work' = [work EXCEPT ![t] = w]
      /\ frame' = [frame EXCEPT ![t].pc = "log", ![t].todo = Tail(@)]
      /\ UNCHANGED <<m_loggers, msg, verdict>>
    BY <1>1 DEF CallLogIniter
<1>5. IsFrame(frame[t]) /\ DOMAIN frame = Clients /\ DOMAIN work = Clients
    BY DEF ConfigInv, TypeInv, LoggersInv
<1>6. /\ frame'[t].pc = "log" /\ work'[t] = w /\ DOMAIN work' = Clients
      /\ \A u \in Clients : u # t => frame'[u] = frame[u] /\ work'[u] = work[u]
    BY <1>4, <1>5 DEF IsFrame
<1>7. ~FillsRoot(work[t])
    BY <1>4 DEF FillsRoot
<1>8. ASSUME m_loggers'["root"].appenders = <<>> PROVE \E u \in Clients : FillsRoot(work'[u])
  <2>1. PICK u \in Clients : FillsRoot(work[u])
      BY <1>4, <1>8 DEF LoggersInv
  <2>2. u # t
      BY <2>1, <1>7
  <2> QED BY <2>1, <2>2, <1>6
<1>9. \A u \in Clients : /\ WorkOK(work'[u], DOMAIN m_loggers')
                         /\ work'[u] # <<>> => frame'[u].pc = "log"
                         /\ GoodMessage(msg'[u], DOMAIN m_loggers')
    BY <1>3, <1>4, <1>6 DEF LoggersInv
<1> QED BY <1>4, <1>6, <1>8, <1>9 DEF LoggersInv

\* The listener's next operation.
LEMMA ListenerStep ==
    ASSUME LoggersInv, NEW t \in Clients, LogIniterStep(t)
    PROVE  /\ work[t] # <<>> /\ m_loggers' = After(m_loggers, Head(work[t]))
           /\ DOMAIN work' = Clients /\ work'[t] = Tail(work[t])
           /\ \A u \in Clients : u # t => work'[u] = work[u]
  BY DEF LogIniterStep, After, LoggersInv

\* And does the first of them.
LEMMA LoggersConfigure ==
    ASSUME ConfigInv, LoggersInv, NEW t \in Clients, LogIniterStep(t)
    PROVE  LoggersInv'
<1>1. PICK w, op : w = work[t] /\ op = Head(w)
    OBVIOUS
<1>2. /\ w # <<>> /\ m_loggers' = After(m_loggers, op)
      /\ DOMAIN work' = Clients /\ work'[t] = Tail(w)
      /\ \A u \in Clients : u # t => work'[u] = work[u]
    BY <1>1, ListenerStep
<1>3. WorkOK(w, DOMAIN m_loggers) /\ IsSeq(w)
    BY <1>1 DEF LoggersInv, WorkOK
<1>4. Len(w) \in Nat \ {0} /\ op = w[1] /\ IsSeq(Tail(w)) /\ Len(Tail(w)) = Len(w) - 1
    BY <1>1, <1>2, <1>3, Rest
<1>5. IsOp(op)
    BY <1>3, <1>4 DEF WorkOK
<1>6. IsAfter(m_loggers, op, m_loggers')
    BY <1>2, <1>5, AfterIs DEF LoggersInv
<1>7. /\ AreLoggers(m_loggers') /\ DOMAIN m_loggers \subseteq DOMAIN m_loggers'
      /\ op.name \in DOMAIN m_loggers'
    BY <1>6 DEF IsAfter
<1>8. ASSUME NEW u \in Clients PROVE WorkOK(work'[u], DOMAIN m_loggers')
  <2>1. CASE u = t
      BY <2>1, <1>1, <1>2, <1>3, <1>7, WorkGoesOn
  <2>2. CASE u # t
      BY <2>2, <1>2, <1>7, WorkStays DEF LoggersInv
  <2> QED BY <2>1, <2>2
<1>9. ASSUME NEW u \in Clients, work'[u] # <<>> PROVE frame'[u].pc = "log"
  <2>1. /\ frame' = [frame EXCEPT ![t].pc = IF Len(w) = 1 THEN "call" ELSE "log"]
        /\ IsFrame(frame[t]) /\ DOMAIN frame = Clients
      BY <1>1 DEF LogIniterStep, ConfigInv, TypeInv
  <2>2. CASE u = t
    <3>1. Len(Tail(w)) # 0
        BY <2>2, <1>2, <1>4, <1>9, NoElements
    <3>2. Len(w) # 1
        BY <3>1, <1>4
    <3> QED BY <2>1, <2>2, <3>2 DEF IsFrame
  <2>3. CASE u # t
      BY <2>1, <2>3, <1>2, <1>9 DEF LoggersInv
  <2> QED BY <2>2, <2>3
<1>10. ASSUME m_loggers'["root"].appenders = <<>> PROVE \E u \in Clients : FillsRoot(work'[u])
  <2>1. CASE FillsRoot(Tail(w))
      BY <2>1, <1>2
  <2>2. CASE m_loggers["root"].appenders = <<>> /\ ~FillsRoot(w)
    <3>1. PICK u \in Clients : FillsRoot(work[u])
        BY <2>2 DEF LoggersInv
    <3>2. u # t
        BY <3>1, <2>2, <1>1
    <3> QED BY <3>1, <3>2, <1>2
  <2>3. FillsRoot(Tail(w)) \/ (m_loggers["root"].appenders = <<>> /\ ~FillsRoot(w))
      BY <1>1, <1>2, <1>3, <1>10, RootGoesOn DEF LoggersInv
  <2> QED BY <2>1, <2>2, <2>3
<1>11. /\ UNCHANGED <<msg, verdict>>
       /\ \A u \in Clients : GoodMessage(msg'[u], DOMAIN m_loggers')
  <2>1. UNCHANGED <<msg, verdict>>
      BY DEF LogIniterStep
  <2> QED BY <2>1, <1>7 DEF LoggersInv, GoodMessage
<1> QED BY <1>2, <1>7, <1>8, <1>9, <1>10, <1>11 DEF LoggersInv

\* Nobody but its own thread moves a call, and the calls of Config move none that is
\* in the listener of the loggers.
LEMMA OthersStay ==
    ASSUME ConfigInv, NEW t \in Clients, BeginsConfig(t) \/ ConfigStep(t)
    PROVE  frame[t].pc # "log" /\ \A u \in Clients : u # t => frame'[u].pc = frame[u].pc
<1>0. DOMAIN frame = Clients /\ \A u \in Clients : IsFrame(frame[u])
    BY DEF ConfigInv, TypeInv
<1>1. ASSUME NEW n, NEW x, EnterSetValue(t, n, x), NEW u \in Clients, u # t
      PROVE  frame'[u].pc = frame[u].pc
  <2>1. frame'[u] = frame[u] \/ frame'[u] = [frame[u] EXCEPT !.alone = FALSE]
      BY <1>1 DEF EnterSetValue
  <2>2. IsFrame(frame[u])
      BY <1>0
  <2> QED BY <2>1, <2>2 DEF IsFrame
<1>2. CASE BeginsConfig(t)
  <2>1. frame[t].pc = "out"
      BY <1>2 DEF BeginsConfig, SetValue, LoadFromYaml, Lookup, AddListener, DelListener,
                  ClearListener, OutOfConfig
  <2>2. CASE \E s \in Settings : SetValue(t, s[1], s[2])
    <3>1. PICK n, x : EnterSetValue(t, n, x)
        BY <2>2 DEF SetValue
    <3> QED BY <2>1, <3>1, <1>1
  <2>3. CASE UNCHANGED frame
      BY <2>1, <2>3
  <2> QED BY <2>2, <2>3, <1>2 DEF BeginsConfig, LoadFromYaml, Lookup, AddListener, DelListener,
                                  ClearListener
<1>3. CASE LoadNext(t)
  <2>1. frame[t].pc = "out"
      BY <1>3 DEF LoadNext
  <2>2. UNCHANGED frame \/ \E n, x : EnterSetValue(t, n, x)
      BY <1>3 DEF LoadNext
  <2> QED BY <2>1, <2>2, <1>1
<1>4. CASE CallCopy(t) \/ CallThrow(t) \/ Unlock(t) \/ Store(t)
    BY <1>0, <1>4 DEF CallCopy, CallThrow, Unlock, Store
<1> QED BY <1>2, <1>3, <1>4 DEF ConfigStep

\* Steps that leave the loggers alone.
LEMMA LoggersRest ==
    ASSUME LoggersInv, UNCHANGED logVars,
           \A u \in Clients : work[u] # <<>> => frame'[u].pc = "log"
    PROVE  LoggersInv'
<1>1. UNCHANGED <<m_loggers, work, msg, verdict>>
    BY DEF logVars
<1>2. LoggersKept
    BY <1>1, KeepsItself DEF LoggersKept, LoggersInv
<1> QED BY <1>1, <1>2, LoggersStay DEF LoggersInv

\* Calls of Config move no listener of the loggers.
LEMMA ConfigLeavesLoggers ==
    ASSUME ConfigInv, LoggersInv, NEW t \in Clients, BeginsConfig(t) \/ ConfigStep(t), UNCHANGED logVars
    PROVE  LoggersInv'
<1>1. frame[t].pc # "log" /\ \A u \in Clients : u # t => frame'[u].pc = frame[u].pc
    BY OthersStay
<1>2. \A u \in Clients : work[u] # <<>> => frame'[u].pc = "log"
    BY <1>1 DEF LoggersInv
<1> QED BY <1>2, LoggersRest

\* And of what they are set to.
LEMMA ValuesAlways == ConfigInv /\ ValuesInv /\ [ProcessNext]_allVars => ValuesInv'
<1> SUFFICES ASSUME ConfigInv, ValuesInv, [ProcessNext]_allVars PROVE ValuesInv'
    OBVIOUS
<1>1. CASE UNCHANGED configVars
  <2>1. UNCHANGED <<m_val, m_cbs, rest, before, frame>>
      BY <1>1 DEF configVars
  <2>2. /\ DOMAIN rest' = Clients /\ (\A u \in Clients : GoodDocument(rest'[u])) /\ GoodFrames'
        /\ \A n \in Names : Listens(n, "log")' => Listens(n, "log")
      BY <2>1 DEF ValuesInv, GoodFrames, Listens
  <2> QED BY <2>1, <2>2, ValuesStay
<1>2. ASSUME NEW t \in Clients, BeginsLog(t) PROVE UNCHANGED configVars
    BY <1>2 DEF BeginsLog, StartLog, SetFormatter, AddAppender, DelAppender, AppenderSetFormatter
<1> QED BY <1>1, <1>2, LogsMove, ValuesBegin, ValuesGoOn

\* And of the loggers.
LEMMA LoggersAlways ==
    ConfigInv /\ ValuesInv /\ LoggersInv /\ [ProcessNext]_allVars => LoggersInv'
<1> SUFFICES ASSUME ConfigInv, ValuesInv, LoggersInv, [ProcessNext]_allVars PROVE LoggersInv'
    OBVIOUS
<1>1. CASE UNCHANGED configVars /\ UNCHANGED logVars
  <2>1. UNCHANGED frame
      BY <1>1 DEF configVars
  <2>2. \A u \in Clients : work[u] # <<>> => frame'[u].pc = "log"
      BY <2>1 DEF LoggersInv
  <2> QED BY <1>1, <2>2, LoggersRest
<1>2. ASSUME NEW t \in Clients, LogStep(t) PROVE LoggersInv'
    BY <1>2, LoggersListen, LoggersConfigure, LoggersLog DEF LogStep
<1> QED BY <1>1, <1>2, LogsMove, ConfigLeavesLoggers, LoggersBegin

\* A message that passed the tests of its level reaches an appender with a formatter,
\* or root is being configured.
LEMMA MessageIsHeard ==
    ASSUME LoggersInv, NEW t \in Clients, LogOwn(t) \/ LogRoot(t), NEW u \in Clients,
           verdict'[u] # verdict[u]
    PROVE  /\ verdict'[u] # "crash"
           /\ verdict'[u] = "lost" => \E v \in Clients : FillsRoot(work[v])
<1>1. ASSUME NEW l, IsLogger(l), NEW level
      PROVE  Heard(l, level) \notin {"crash", "lost"}
  <2>1. \A i \in DOMAIN l.appenders : l.appenders[i].formatter # None
      BY <1>1, SeqFacts DEF IsLogger, IsAppender
  <2> QED BY <2>1 DEF Heard
<1>2. DOMAIN verdict = Clients /\ GoodMessage(msg[t], DOMAIN m_loggers)
    BY DEF LoggersInv
<1>3. IsLogger(m_loggers["root"])
    BY DEF LoggersInv, AreLoggers
<1>4. CASE LogOwn(t)
  <2>1. PICK n, l : n = msg[t].name /\ l = m_loggers[n]
      OBVIOUS
  <2>2. msg[t].pc = "own" /\ IsLogger(l)
      BY <1>2, <1>4, <2>1 DEF LogOwn, GoodMessage, LoggersInv, AreLoggers
  <2>3. verdict' = [verdict EXCEPT ![t] = IF l.appenders = <<>> /\ n = "root" THEN "lost"
                                          ELSE Heard(l, msg[t].level)]
        \/ UNCHANGED verdict
      BY <1>4, <2>1 DEF LogOwn
  <2>4. verdict'[u] \notin {"crash", "lost"} \/ (l.appenders = <<>> /\ n = "root" /\ verdict'[u] = "lost")
      BY <1>1, <1>2, <2>2, <2>3
  <2> QED BY <2>1, <2>4 DEF LoggersInv
<1>5. CASE LogRoot(t)
  <2>1. PICK l : l = m_loggers["root"]
      OBVIOUS
  <2>2. verdict' = [verdict EXCEPT ![t] = IF l.appenders = <<>> THEN "lost" ELSE Heard(l, msg[t].level)]
      BY <1>5, <2>1 DEF LogRoot
  <2>3. verdict'[u] \notin {"crash", "lost"} \/ (l.appenders = <<>> /\ verdict'[u] = "lost")
      BY <1>1, <1>2, <1>3, <2>1, <2>2
  <2> QED BY <2>1, <2>3 DEF LoggersInv
<1> QED BY <1>4, <1>5

\* No message is lost and none meets an appender without a formatter, whatever the
\* other threads configure meanwhile.
THEOREM NothingIsLost == ProcessSpec => NothingLost
<1> DEFINE Inv == ConfigInv /\ ValuesInv /\ LoggersInv
           Heeds == \A t \in Clients : verdict'[t] # verdict[t] =>
                      /\ verdict'[t] # "crash"
                      /\ verdict'[t] = "lost" => \E u \in Clients : \E i \in DOMAIN work[u] :
                            work[u][i].name = "root" /\ work[u][i].do = "addAppender"
<1>1. ProcessInit => Inv
    BY ConfigInvInit, ValuesInit, LoggersInit DEF ProcessInit
<1>2. Inv /\ [ProcessNext]_allVars => Inv'
    BY ConfigAlways, ValuesAlways, LoggersAlways
<1>3. Inv /\ [ProcessNext]_allVars => [Heeds]_logVars
  <2> SUFFICES ASSUME Inv, [ProcessNext]_allVars, NEW t \in Clients, verdict'[t] # verdict[t]
               PROVE  /\ verdict'[t] # "crash"
                      /\ verdict'[t] = "lost" => \E u \in Clients : FillsRoot(work[u])
      BY DEF FillsRoot
  <2>1. ASSUME NEW u \in Clients, BeginsLog(u) \/ LogStep(u)
        PROVE  \/ LogOwn(u) \/ LogRoot(u) \/ UNCHANGED verdict
               \/ \E s \in {"none", "filtered"} : verdict' = [verdict EXCEPT ![u] = s]
      BY <2>1 DEF BeginsLog, StartLog, SetFormatter, AddAppender, DelAppender, AppenderSetFormatter,
                  LogStep, CallLogIniter, LogIniterStep, LogFiltered
  <2>2. UNCHANGED logVars => UNCHANGED verdict
      BY DEF logVars
  <2>3. PICK u \in Clients : \/ LogOwn(u) \/ LogRoot(u)
                             \/ \E s \in {"none", "filtered"} : verdict' = [verdict EXCEPT ![u] = s]
      BY <2>1, <2>2, LogsMove
  <2>4. CASE \E s \in {"none", "filtered"} : verdict' = [verdict EXCEPT ![u] = s]
    <3>1. DOMAIN verdict = Clients
        BY DEF LoggersInv
    <3> QED BY <2>4, <3>1
  <2> QED BY <2>3, <2>4, MessageIsHeard
<1> QED BY <1>1, <1>2, <1>3, PTL DEF ProcessSpec, NothingLost

\* A call has passed its value on to the loggers, or is at it, or is still to do so.
Told(f, w, ls, val) == AwaitsLog(f) \/ Progress(w, ls, val, f.new)

\* A call that counts as made alone tells the loggers, and once its value is stored
\* they are what it says.
AgreeInv ==
    /\ \A t \in Clients :
          frame[t].alone /\ frame[t].name # None /\ Listens(frame[t].name, "log")
             => Told(frame[t], work[t], m_loggers, m_val[frame[t].name])
    /\ \A n \in Names : Settled(n) /\ Listens(n, "log")
             => Progress(<<>>, m_loggers, before[n], m_val[n])

\* The loggers that a value names are not the clients'.
LEMMA ValueStays ==
    ASSUME LoggersKept, NEW w, NEW old, NEW new, AnyValue(old), AnyValue(new),
           Progress(w, m_loggers, old, new)
    PROVE  Progress(w, m_loggers', old, new)
<1>1. \A N \in DOMAIN new \cup DOMAIN old : N \notin Own
    BY DEF AnyValue, Value
<1>2. PICK k : k = m_loggers'
    OBVIOUS
<1>3. /\ DOMAIN m_loggers \subseteq DOMAIN k
      /\ \A N \in DOMAIN m_loggers \cap (DOMAIN new \cup DOMAIN old) : Keeps(m_loggers[N], k[N])
    BY <1>1, <1>2 DEF LoggersKept
<1>4. Progress(w, k, old, new)
    BY <1>3, ProgressStays
<1> QED BY <1>2, <1>4

\* At first nothing has been told, and there is nothing to tell.
LEMMA AgreeInit == ProcessInit => AgreeInv
<1> SUFFICES ASSUME ProcessInit PROVE AgreeInv
    OBVIOUS
<1>1. ConfigInit /\ ValuesInv
    BY ValuesInit DEF ProcessInit
<1>2. \A t \in Clients : frame[t].name = None
    BY <1>1 DEF ConfigInit, NoCall
<1>3. ASSUME NEW n \in Names, Listens(n, "log")
      PROVE  Progress(<<>>, m_loggers, before[n], m_val[n])
  <2>1. DOMAIN before[n] = {} /\ DOMAIN m_val[n] = {}
      BY <1>1, <1>3, LogsAssumption DEF ConfigInit, ValuesInv
  <2> QED BY <2>1 DEF Progress
<1> QED BY <1>2, <1>3 DEF AgreeInv

\* Clients use the loggers.
LEMMA AgreeStays ==
    ASSUME ConfigInv, ValuesInv, AgreeInv, LoggersKept, UNCHANGED work, UNCHANGED configVars
    PROVE  AgreeInv'
<1>1. UNCHANGED <<work, frame, m_val, m_cbs, before, clean>>
    BY DEF configVars
<1>2. ASSUME NEW t \in Clients, frame[t].alone, frame[t].name # None, Listens(frame[t].name, "log")
      PROVE  Told(frame[t], work[t], m_loggers', m_val[frame[t].name])
  <2>1. Told(frame[t], work[t], m_loggers, m_val[frame[t].name])
      BY <1>2 DEF AgreeInv
  <2>2. frame[t].name \in Names
      BY <1>2 DEF ConfigInv, TypeInv, IsFrame
  <2>3. HasLog(frame[t].name)
      BY <1>2, <2>2 DEF ValuesInv
  <2>4. AnyValue(frame[t].new) /\ AnyValue(m_val[frame[t].name])
      BY <1>2, <2>2, <2>3 DEF ValuesInv, LogFrame, AnyValue
  <2> QED BY <2>1, <2>4, ValueStays DEF Told
<1>3. ASSUME NEW n \in Names, Settled(n), Listens(n, "log")
      PROVE  Progress(<<>>, m_loggers', before[n], m_val[n])
  <2>1. Progress(<<>>, m_loggers, before[n], m_val[n])
      BY <1>3 DEF AgreeInv
  <2>2. AnyValue(before[n]) /\ AnyValue(m_val[n])
      BY <1>3 DEF ValuesInv
  <2> QED BY <2>1, <2>2, ValueStays
<1>4. \A n : (Settled(n)' <=> Settled(n)) /\ (Listens(n, "log")' <=> Listens(n, "log"))
    BY <1>1 DEF Settled, Changing, Listens
<1>5. ASSUME NEW t \in Clients, frame'[t].alone, frame'[t].name # None, Listens(frame[t].name, "log")'
      PROVE  Told(frame'[t], work'[t], m_loggers', m_val'[frame'[t].name])
    BY <1>1, <1>2, <1>4, <1>5
<1>6. ASSUME NEW n \in Names, Settled(n)', Listens(n, "log")'
      PROVE  Progress(<<>>, m_loggers', before'[n], m_val'[n])
    BY <1>1, <1>3, <1>4, <1>6
<1> QED BY <1>1, <1>5, <1>6 DEF AgreeInv

\* One call goes on.
LEMMA AgreeCall ==
    ASSUME ConfigInv, ValuesInv, AgreeInv, NEW t \in Clients, NEW n, n = frame[t].name, n # None,
           frame'[t].name = n, frame'[t].new = frame[t].new, frame'[t].alone = frame[t].alone,
           \A u \in Clients : u # t => frame'[u] = frame[u] /\ work'[u] = work[u],
           UNCHANGED <<m_val, m_cbs, clean, before>>,
           UNCHANGED m_loggers \/ HasLog(n),
           frame[t].alone /\ Listens(n, "log")
              => Told(frame'[t], work'[t], m_loggers', m_val[n])
    PROVE  AgreeInv'
<1>1. n \in Names
    BY DEF ConfigInv, TypeInv, IsFrame
<1>2. ASSUME NEW u \in Clients, u # t, frame[u].alone, frame[u].name # None,
             Listens(frame[u].name, "log")
      PROVE  Told(frame[u], work[u], m_loggers', m_val[frame[u].name])
  <2>1. frame[u].name \in Names /\ frame[u].name # n
      BY <1>2 DEF ConfigInv, TypeInv, IsFrame, AloneInv
  <2>2. HasLog(frame[u].name)
      BY <1>2, <2>1 DEF ValuesInv
  <2>3. UNCHANGED m_loggers
      BY <1>1, <2>1, <2>2, LogsAssumption
  <2> QED BY <1>2, <2>3 DEF AgreeInv
<1>3. \A k : Listens(k, "log")' <=> Listens(k, "log")
    BY DEF Listens
<1>4. \A u \in Clients : frame'[u].name = frame[u].name
    OBVIOUS
<1>5. ASSUME NEW u \in Clients, frame'[u].alone, frame'[u].name # None,
             NEW k, k = frame'[u].name, Listens(k, "log")
      PROVE  Told(frame'[u], work'[u], m_loggers', m_val'[k])
  <2>1. CASE u = t
      BY <1>5, <2>1
  <2>2. CASE u # t
      BY <1>2, <1>5, <2>2
  <2> QED BY <2>1, <2>2
<1>6. ASSUME NEW k \in Names, Settled(k)', Listens(k, "log")
      PROVE  Progress(<<>>, m_loggers', before'[k], m_val'[k])
  <2>1. Changing(k)' = Changing(k)
      BY <1>4 DEF Changing
  <2>2. Settled(k) /\ k # n
      BY <1>6, <2>1 DEF Settled, Changing
  <2>3. HasLog(k)
      BY <1>6 DEF ValuesInv
  <2>4. UNCHANGED m_loggers
      BY <1>1, <2>2, <2>3, LogsAssumption
  <2> QED BY <1>6, <2>2, <2>4 DEF AgreeInv
<1>7. ASSUME NEW u \in Clients, frame'[u].alone, frame'[u].name # None, Listens(frame[u].name, "log")'
      PROVE  Told(frame'[u], work'[u], m_loggers', m_val'[frame'[u].name])
    BY <1>3, <1>4, <1>5, <1>7
<1> QED BY <1>3, <1>4, <1>6, <1>7 DEF AgreeInv, Listens

\* The listeners change, or nothing does that this is about.
LEMMA AgreeList ==
    ASSUME ConfigInv, AgreeInv, UNCHANGED <<m_val, frame, clean, before>>, UNCHANGED logVars,
           \A n \in Names : Listens(n, "log")' => Listens(n, "log")
    PROVE  AgreeInv'
<1>1. UNCHANGED <<m_loggers, work>>
    BY DEF logVars
<1>2. \A t \in Clients : frame[t].name \in Names \cup {None}
    BY DEF ConfigInv, TypeInv, IsFrame
<1>3. \A n : Settled(n)' <=> Settled(n)
    BY DEF Settled, Changing
<1>4. ASSUME NEW t \in Clients, frame'[t].alone, frame'[t].name # None, Listens(frame[t].name, "log")'
      PROVE  Told(frame'[t], work'[t], m_loggers', m_val'[frame'[t].name])
    BY <1>1, <1>2, <1>4 DEF AgreeInv
<1>5. ASSUME NEW n \in Names, Settled(n)', Listens(n, "log")'
      PROVE  Progress(<<>>, m_loggers', before'[n], m_val'[n])
    BY <1>1, <1>3, <1>5 DEF AgreeInv
<1> QED BY <1>4, <1>5 DEF AgreeInv

\* A call begins.
LEMMA AgreeEnter ==
    ASSUME ConfigInv, AgreeInv, NEW t \in Clients, NEW n \in s_datas, NEW x,
           frame[t].pc = "out", EnterSetValue(t, n, x),
           UNCHANGED <<m_val, m_cbs, before>>, UNCHANGED logVars
    PROVE  AgreeInv'
<1>1. n \in Names /\ n # None
    BY ConfigAssumption DEF ConfigInv, TypeInv
<1>2. \A k : Listens(k, "log")' <=> Listens(k, "log")
    BY DEF Listens
<1>3. CASE x = m_val[n]
    BY <1>2, <1>3, AgreeList DEF EnterSetValue
<1>4. CASE x # m_val[n]
  <2> DEFINE g == [pc |-> "call", name |-> n, new |-> x, todo |-> m_cbs[n],
                   alone |-> Changing(n) = {}]
  <2>1. /\ frame'[t] = g
        /\ \A u \in Clients \ {t} :
              frame'[u] = IF frame[u].name = n THEN [frame[u] EXCEPT !.alone = FALSE]
                                               ELSE frame[u]
        /\ clean' = [clean EXCEPT ![n] = @ /\ Changing(n) = {}]
      BY <1>4 DEF EnterSetValue, Changing
  <2>2. frame'[t].name = n /\ frame'[t].todo = m_cbs[n]
      BY <2>1
  <2>3. ASSUME NEW u \in Clients \ {t}
        PROVE  /\ frame'[u].name = frame[u].name
               /\ frame'[u].todo = frame[u].todo /\ frame'[u].new = frame[u].new
               /\ frame'[u].alone => frame[u].alone
    <3>1. IsFrame(frame[u])
        BY DEF ConfigInv, TypeInv
    <3> QED BY <2>1, <3>1 DEF IsFrame
  <2>4. UNCHANGED <<m_loggers, work>>
      BY DEF logVars
  <2>5. ASSUME NEW u \in Clients, frame'[u].alone, frame'[u].name # None,
               NEW k, k = frame'[u].name, Listens(k, "log")
        PROVE  Told(frame'[u], work'[u], m_loggers', m_val'[k])
    <3>1. CASE u = t
      <4>1. AwaitsLog(frame'[t])
          BY <2>2, <2>5, <3>1 DEF Listens, AwaitsLog
      <4> QED BY <3>1, <4>1 DEF Told
    <3>2. CASE u # t
      <4>1. /\ frame[u].name = k /\ frame[u].alone /\ k # None
            /\ frame'[u].todo = frame[u].todo /\ frame'[u].new = frame[u].new
          BY <2>3, <2>5, <3>2
      <4>2. Told(frame[u], work[u], m_loggers, m_val[k])
          BY <2>5, <4>1 DEF AgreeInv
      <4> QED BY <2>4, <4>1, <4>2 DEF Told, AwaitsLog
    <3> QED BY <3>1, <3>2
  <2>6. ASSUME NEW k \in Names, Settled(k)' PROVE Settled(k)
    <3>1. k # n
        BY <2>2, <2>6 DEF Settled, Changing
    <3>2. frame[t].name = None
        BY DEF ConfigInv, TypeInv, IsFrame
    <3>3. \A u \in Clients : frame[u].name = k => frame'[u].name = k
        BY <2>3, <3>2, ConfigAssumption
    <3>4. clean'[k] = clean[k]
        BY <2>1, <3>1 DEF ConfigInv, TypeInv
    <3> QED BY <2>6, <3>3, <3>4 DEF Settled, Changing
  <2>7. ASSUME NEW u \in Clients, frame'[u].alone, frame'[u].name # None, Listens(frame[u].name, "log")'
        PROVE  Told(frame'[u], work'[u], m_loggers', m_val'[frame'[u].name])
    <3>1. PICK k : k = frame'[u].name
        OBVIOUS
    <3>2. Listens(k, "log")'
        BY <2>7, <3>1 DEF Listens
    <3>3. Listens(k, "log")
        BY <3>2 DEF Listens
    <3> QED BY <2>5, <2>7, <3>1, <3>3
  <2>8. ASSUME NEW k \in Names, Settled(k)', Listens(k, "log")'
        PROVE  Progress(<<>>, m_loggers', before'[k], m_val'[k])
      BY <1>2, <2>4, <2>6, <2>8 DEF AgreeInv
  <2> QED BY <2>7, <2>8 DEF AgreeInv
<1> QED BY <1>3, <1>4

\* A call ends, with its value stored or without an effect.
LEMMA AgreeEnds ==
    ASSUME ConfigInv, ValuesInv, LoggersInv, AgreeInv, NEW t \in Clients,
           NEW n, n = frame[t].name, n # None,
           frame' = [frame EXCEPT ![t] = NoCall], UNCHANGED m_cbs, UNCHANGED logVars,
           \A k \in Names : k # n => /\ m_val'[k] = m_val[k] /\ before'[k] = before[k]
                                     /\ clean'[k] = clean[k],
           clean'[n] => /\ frame[t].alone /\ frame[t].pc = "store"
                        /\ m_val'[n] = frame[t].new /\ before'[n] = m_val[n]
    PROVE  AgreeInv'
<1>1. n \in Names /\ DOMAIN frame = Clients /\ IsFrame(frame[t])
    BY DEF ConfigInv, TypeInv, IsFrame
<1>2. frame'[t] = NoCall /\ \A u \in Clients : u # t => frame'[u] = frame[u]
    BY <1>1
<1>3. NoCall.name = None
    BY DEF NoCall
<1>4. UNCHANGED <<m_loggers, work>>
    BY DEF logVars
<1>5. \A k : Listens(k, "log")' <=> Listens(k, "log")
    BY DEF Listens
<1>6. ASSUME NEW u \in Clients, frame'[u].alone, frame'[u].name # None, Listens(frame[u].name, "log")'
      PROVE  Told(frame'[u], work'[u], m_loggers', m_val'[frame'[u].name])
  <2>1. u # t /\ frame'[u] = frame[u]
      BY <1>2, <1>3, <1>6
  <2>2. PICK k : k = frame[u].name
      OBVIOUS
  <2>3. Listens(k, "log")
      BY <1>6, <2>1, <2>2 DEF Listens
  <2>4. Told(frame[u], work[u], m_loggers, m_val[k])
      BY <1>6, <2>1, <2>2, <2>3 DEF AgreeInv
  <2>5. k \in Names
      BY <1>6, <2>1, <2>2 DEF ConfigInv, TypeInv, IsFrame
  <2>6. k # n
    <3>1. CASE k = n
        BY <3>1, <1>6, <2>1, <2>2 DEF ConfigInv, AloneInv
    <3> QED BY <3>1
  <2> QED BY <1>4, <2>1, <2>2, <2>4, <2>5, <2>6
<1>7. ASSUME NEW k \in Names, Settled(k)', Listens(k, "log")'
      PROVE  Progress(<<>>, m_loggers', before'[k], m_val'[k])
  <2>1. CASE k # n
    <3>1. Settled(k)
        BY <1>2, <1>7, <2>1 DEF Settled, Changing
    <3> QED BY <1>4, <1>5, <1>7, <2>1, <3>1 DEF AgreeInv
  <2>2. CASE k = n
    <3>1. clean'[n] /\ Listens(n, "log")
        BY <1>5, <1>7, <2>2 DEF Settled
    <3>2. Told(frame[t], work[t], m_loggers, m_val[n])
        BY <3>1 DEF AgreeInv
    <3>3. frame[t].todo = <<>> /\ work[t] = <<>>
        BY <1>1, <3>1 DEF IsFrame, LoggersInv
    <3>4. ~AwaitsLog(frame[t])
        BY <3>3 DEF AwaitsLog
    <3>5. Progress(<<>>, m_loggers, m_val[n], frame[t].new)
        BY <3>2, <3>3, <3>4 DEF Told
    <3> QED BY <1>4, <2>2, <3>1, <3>5
  <2> QED BY <2>1, <2>2
<1> QED BY <1>6, <1>7 DEF AgreeInv

\* The steps of setValue().
LEMMA AgreeSetValue ==
    ASSUME ConfigInv, ValuesInv, LoggersInv, AgreeInv, NEW t \in Clients,
           CallCopy(t) \/ CallThrow(t) \/ Unlock(t) \/ Store(t), UNCHANGED logVars
    PROVE  AgreeInv'
<1>0. PICK n : n = frame[t].name
    OBVIOUS
<1>1. IsFrame(frame[t]) /\ DOMAIN frame = Clients /\ UNCHANGED <<m_loggers, work>>
    BY DEF ConfigInv, TypeInv, logVars
<1>2. n \in Names /\ n # None
  <2>1. frame[t].pc # "out"
      BY DEF CallCopy, CallThrow, Unlock, Store
  <2> QED BY <1>0, <1>1, <2>1, ConfigAssumption DEF IsFrame
<1>3. frame[t].alone /\ Listens(n, "log") => Told(frame[t], work[t], m_loggers, m_val[n])
    BY <1>0, <1>2 DEF AgreeInv
<1>4. CASE CallCopy(t)
  <2>1. /\ frame[t].todo # <<>> /\ Head(frame[t].todo).cb = "copy"
        /\ frame' = [frame EXCEPT ![t].todo = Tail(@)]
        /\ UNCHANGED <<m_val, m_cbs, clean, before>>
      BY <1>4 DEF CallCopy
  <2>2. /\ frame'[t].name = n /\ frame'[t].new = frame[t].new /\ frame'[t].alone = frame[t].alone
        /\ frame'[t].todo = Tail(frame[t].todo)
        /\ \A u \in Clients : u # t => frame'[u] = frame[u] /\ work'[u] = work[u]
      BY <1>0, <1>1, <2>1 DEF IsFrame
  <2>3. AwaitsLog(frame[t]) => AwaitsLog(frame'[t])
      BY <1>1, <2>1, <2>2, TailAwaits DEF IsFrame, AwaitsLog
  <2>4. frame[t].alone /\ Listens(n, "log") => Told(frame'[t], work'[t], m_loggers', m_val[n])
      BY <1>1, <1>3, <2>2, <2>3 DEF Told
  <2> QED BY <1>0, <1>1, <1>2, <2>1, <2>2, <2>4, AgreeCall
<1>5. CASE Unlock(t)
  <2>1. frame' = [frame EXCEPT ![t].pc = "store"] /\ UNCHANGED <<m_val, m_cbs, clean, before>>
      BY <1>5 DEF Unlock
  <2>2. /\ frame'[t].name = n /\ frame'[t].new = frame[t].new /\ frame'[t].alone = frame[t].alone
        /\ frame'[t].todo = frame[t].todo
        /\ \A u \in Clients : u # t => frame'[u] = frame[u] /\ work'[u] = work[u]
      BY <1>0, <1>1, <2>1 DEF IsFrame
  <2>3. frame[t].alone /\ Listens(n, "log") => Told(frame'[t], work'[t], m_loggers', m_val[n])
      BY <1>1, <1>3, <2>2 DEF Told, AwaitsLog
  <2> QED BY <1>0, <1>1, <1>2, <2>1, <2>2, <2>3, AgreeCall
<1>6. CASE CallThrow(t)
  <2>1. /\ frame' = [frame EXCEPT ![t] = NoCall] /\ clean' = [clean EXCEPT ![n] = FALSE]
        /\ UNCHANGED <<m_val, m_cbs, before>>
      BY <1>0, <1>6 DEF CallThrow
  <2>2. ~clean'[n] /\ \A k \in Names : k # n => clean'[k] = clean[k]
      BY <1>2, <2>1 DEF ConfigInv, TypeInv
  <2> QED BY <1>0, <1>2, <2>1, <2>2, AgreeEnds
<1>7. CASE Store(t)
  <2>1. /\ frame[t].pc = "store" /\ frame' = [frame EXCEPT ![t] = NoCall]
        /\ m_val' = [m_val EXCEPT ![n] = frame[t].new]
        /\ clean' = [clean EXCEPT ![n] = frame[t].alone]
        /\ before' = [before EXCEPT ![n] = m_val[n]]
        /\ UNCHANGED m_cbs
      BY <1>0, <1>7 DEF Store
  <2>2. DOMAIN m_val = Names /\ DOMAIN clean = Names /\ DOMAIN before = Names
      BY DEF ConfigInv, TypeInv, ValuesInv
  <2>3. /\ m_val'[n] = frame[t].new /\ before'[n] = m_val[n]
        /\ clean'[n] => frame[t].alone
      BY <1>2, <2>1, <2>2
  <2>4. \A k \in Names : k # n => /\ m_val'[k] = m_val[k] /\ before'[k] = before[k]
                                  /\ clean'[k] = clean[k]
      BY <1>2, <2>1, <2>2
  <2>5. clean'[n] => /\ frame[t].alone /\ frame[t].pc = "store"
                     /\ m_val'[n] = frame[t].new /\ before'[n] = m_val[n]
      BY <2>1, <2>3
  <2>6. frame' = [frame EXCEPT ![t] = NoCall] /\ UNCHANGED m_cbs
      BY <2>1
  <2> QED BY <1>0, <1>2, <2>4, <2>5, <2>6, AgreeEnds
<1> QED BY <1>4, <1>5, <1>6, <1>7

\* The listener of the loggers.
LEMMA AgreeListener ==
    ASSUME ConfigInv, ValuesInv, LoggersInv, AgreeInv, NEW t \in Clients,
           CallLogIniter(t) \/ LogIniterStep(t)
    PROVE  AgreeInv'
<1>0. PICK n : n = frame[t].name
    OBVIOUS
<1>1. IsFrame(frame[t]) /\ DOMAIN frame = Clients /\ DOMAIN work = Clients
    BY DEF ConfigInv, TypeInv, LoggersInv
<1>2. n \in Names /\ n # None
  <2>1. frame[t].pc # "out"
      BY DEF CallLogIniter, LogIniterStep
  <2> QED BY <1>0, <1>1, <2>1, ConfigAssumption DEF IsFrame
<1>3. CASE CallLogIniter(t)
  <2>1. PICK w : w = LogIniter(m_val[n], frame[t].new)
      OBVIOUS
  <2>2. /\ work' = [work EXCEPT ![t] = w]
        /\ frame' = [frame EXCEPT ![t].pc = "log", ![t].todo = Tail(@)]
        /\ UNCHANGED <<m_val, m_cbs, clean, before>> /\ UNCHANGED m_loggers
      BY <1>0, <1>3, <2>1 DEF CallLogIniter
  <2>3. /\ frame'[t].name = n /\ frame'[t].new = frame[t].new /\ frame'[t].alone = frame[t].alone
        /\ work'[t] = w
        /\ \A u \in Clients : u # t => frame'[u] = frame[u] /\ work'[u] = work[u]
      BY <1>0, <1>1, <2>2 DEF IsFrame
  <2>4. Progress(w, m_loggers, m_val[n], frame[t].new)
      BY <1>0, <1>3, <2>1, ListenerBegins
  <2>5. Told(frame'[t], work'[t], m_loggers', m_val[n])
      BY <2>2, <2>3, <2>4 DEF Told
  <2> QED BY <1>0, <1>2, <2>2, <2>3, <2>5, AgreeCall
<1>4. CASE LogIniterStep(t)
  <2>1. PICK w, op : w = work[t] /\ op = Head(w)
      OBVIOUS
  <2>2. /\ w # <<>> /\ m_loggers' = After(m_loggers, op) /\ work'[t] = Tail(w)
        /\ \A u \in Clients : u # t => work'[u] = work[u]
      BY <1>4, <2>1, ListenerStep
  <2>3. /\ frame[t].pc = "log"
        /\ frame' = [frame EXCEPT ![t].pc = IF Len(w) = 1 THEN "call" ELSE "log"]
        /\ UNCHANGED <<m_val, m_cbs, clean, before>>
      BY <1>4, <2>1 DEF LogIniterStep
  <2>4. /\ frame'[t].name = n /\ frame'[t].new = frame[t].new /\ frame'[t].alone = frame[t].alone
        /\ frame'[t].todo = frame[t].todo
        /\ \A u \in Clients : u # t => frame'[u] = frame[u] /\ work'[u] = work[u]
      BY <1>0, <1>1, <2>2, <2>3 DEF IsFrame
  <2>5. HasLog(n)
      BY <1>0, <2>3 DEF ValuesInv, LogFrame
  <2>6. Value(frame[t].new)
      BY <1>0, <1>2, <2>5 DEF ValuesInv, LogFrame
  <2>7. ASSUME frame[t].alone, Listens(n, "log")
        PROVE  Told(frame'[t], work'[t], m_loggers', m_val[n])
    <3>1. PICK old, new : old = m_val[n] /\ new = frame[t].new
        OBVIOUS
    <3>2. AwaitsLog(frame[t]) \/ Progress(w, m_loggers, old, new)
        BY <1>0, <1>2, <2>1, <2>7, <3>1 DEF AgreeInv, Told
    <3>3. CASE AwaitsLog(frame[t])
        BY <2>4, <3>3 DEF Told, AwaitsLog
    <3>4. CASE Progress(w, m_loggers, old, new)
      <4>1. \A N \in DOMAIN new : HasPatterns(new[N])
          BY <2>6, <3>1 DEF Value
      <4>2. AreLoggers(m_loggers) /\ WorkOK(w, DOMAIN m_loggers)
          BY <2>1 DEF LoggersInv
      <4>3. Progress(Tail(w), After(m_loggers, Head(w)), old, new)
          BY <4>1, <4>2, <2>2, <3>4, ProgressGoesOn
      <4> QED BY <4>3, <2>1, <2>2, <2>4, <3>1 DEF Told
    <3> QED BY <3>2, <3>3, <3>4
  <2> QED BY <1>0, <1>2, <2>3, <2>4, <2>5, <2>7, AgreeCall
<1> QED BY <1>3, <1>4

\* Every step keeps the promise.
LEMMA AgreeAlways ==
    ConfigInv /\ ValuesInv /\ LoggersInv /\ AgreeInv /\ [ProcessNext]_allVars => AgreeInv'
<1> SUFFICES ASSUME ConfigInv, ValuesInv, LoggersInv, AgreeInv, [ProcessNext]_allVars
             PROVE  AgreeInv'
    OBVIOUS
<1>1. CASE UNCHANGED configVars /\ UNCHANGED m_loggers /\ UNCHANGED work
  <2>1. LoggersKept
      BY <1>1, KeepsItself DEF LoggersKept, LoggersInv
  <2> QED BY <1>1, <2>1, AgreeStays
<1>2. CASE UNCHANGED configVars /\ UNCHANGED logVars
    BY <1>1, <1>2 DEF logVars
<1>3. ASSUME NEW t \in Clients, BeginsConfig(t), UNCHANGED logVars PROVE AgreeInv'
  <2>1. CASE \E s \in Settings : SetValue(t, s[1], s[2])
    <3>1. PICK n, x : SetValue(t, n, x)
        BY <2>1
    <3> QED BY <1>3, <3>1, AgreeEnter DEF SetValue, OutOfConfig
  <2>2. CASE \E d \in Documents : LoadFromYaml(t, d)
    <3>1. UNCHANGED <<m_val, m_cbs, frame, clean, before>>
        BY <2>2 DEF LoadFromYaml
    <3> QED BY <1>3, <3>1, AgreeList DEF Listens
  <2>3. CASE \E n \in Names : \/ Lookup(t, n)
                              \/ AddListener(t, n, "throw")
                              \/ \E id \in 1..MaxListeners : DelListener(t, n, id)
                              \/ ClearListener(t, n)
    <3>1. /\ \A k \in Names : Listens(k, "log")' => Listens(k, "log")
          /\ UNCHANGED <<m_val, frame, clean, before>>
        BY <2>3, ListenersShrink
    <3> QED BY <1>3, <3>1, AgreeList
  <2> QED BY <1>3, <2>1, <2>2, <2>3 DEF BeginsConfig
<1>4. ASSUME NEW t \in Clients, ConfigStep(t), UNCHANGED logVars PROVE AgreeInv'
  <2>1. CASE CallCopy(t) \/ CallThrow(t) \/ Unlock(t) \/ Store(t)
      BY <1>4, <2>1, AgreeSetValue
  <2>2. CASE LoadNext(t)
    <3>1. /\ frame[t].pc = "out" /\ UNCHANGED <<m_val, m_cbs, before>>
          /\ \/ \E n \in s_datas : \E x : EnterSetValue(t, n, x)
             \/ UNCHANGED <<frame, clean>>
        BY <2>2 DEF LoadNext
    <3>2. CASE \E n \in s_datas : \E x : EnterSetValue(t, n, x)
        BY <1>4, <3>1, <3>2, AgreeEnter
    <3>3. CASE UNCHANGED <<frame, clean>>
        BY <1>4, <3>1, <3>3, AgreeList DEF Listens
    <3> QED BY <3>1, <3>2, <3>3
  <2> QED BY <1>4, <2>1, <2>2 DEF ConfigStep
<1>5. ASSUME NEW t \in Clients, BeginsLog(t) PROVE AgreeInv'
  <2>1. UNCHANGED configVars /\ UNCHANGED work
      BY <1>5 DEF BeginsLog, StartLog, SetFormatter, AddAppender, DelAppender, AppenderSetFormatter
  <2> QED BY <1>5, <2>1, ClientsKeepLoggers, AgreeStays
<1>6. ASSUME NEW t \in Clients, LogStep(t) PROVE AgreeInv'
  <2>1. CASE LogFiltered(t) \/ LogOwn(t) \/ LogRoot(t)
      BY <1>1, <2>1 DEF LogFiltered, LogOwn, LogRoot
  <2> QED BY <1>6, <2>1, AgreeListener DEF LogStep
<1> QED BY <1>2, <1>3, <1>4, <1>5, <1>6, LogsMove

\* What the promise comes to.
LEMMA AgreeMeans ==
    ASSUME ConfigInv, ValuesInv, AgreeInv
    PROVE  ListenersAgree
<1>1. CopiesAgree
    BY DEF ConfigInv
<1>2. ASSUME NEW n \in Names, Settled(n), Listens(n, "log") PROVE LoggersAgree(n)
  <2>1. PICK old, new : old = before[n] /\ new = m_val[n]
      OBVIOUS
  <2>2. Progress(<<>>, m_loggers, old, new)
      BY <1>2, <2>1 DEF AgreeInv
  <2>3. AnyValue(old) /\ AnyValue(new)
      BY <1>2, <2>1 DEF ValuesInv
  <2>4. /\ \A N \in DOMAIN new \cup DOMAIN old : LoggerOf(N) = N
        /\ \A N \in DOMAIN new : IsSeq(new[N].appenders)
      BY <2>3 DEF AnyValue, Value, Defines
  <2>5. /\ \A N \in DOMAIN new :
              /\ m_loggers[N].level = new[N].level
              /\ Len(m_loggers[N].appenders) = Len(new[N].appenders)
              /\ \A i \in DOMAIN new[N].appenders :
                    Made(m_loggers[N].appenders[i], NewAppender(new[N].appenders[i]), m_loggers[N])
        /\ \A N \in DOMAIN old \ DOMAIN new : m_loggers[N].level = Removed
      BY <2>2, <2>4, ProgressDone
  <2> QED BY <2>1, <2>4, <2>5 DEF LoggersAgree, Made
<1> QED BY <1>1, <1>2 DEF ListenersAgree

\* After every change that one call has made alone, the connect timeout and the loggers
\* are what the variables say.
THEOREM ListenersAlwaysAgree == ProcessSpec => []ListenersAgree
<1> DEFINE Inv == ConfigInv /\ ValuesInv /\ LoggersInv /\ AgreeInv
<1>1. ProcessInit => Inv
    BY ConfigInvInit, ValuesInit, LoggersInit, AgreeInit DEF ProcessInit
<1>2. Inv /\ [ProcessNext]_allVars => Inv'
    BY ConfigAlways, ValuesAlways, LoggersAlways, AgreeAlways
<1>3. Inv => ListenersAgree
    BY AgreeMeans
<1> QED BY <1>1, <1>2, <1>3, PTL DEF ProcessSpec
=============================================================================
