----------------------------- MODULE ConfigProof -----------------------------
(***************************************************************************)
(* The variables and their listeners, for any number of threads, variables *)
(* and listeners. What a listener has copied is the value of its variable  *)
(* once a change that was made alone is stored: setValue() calls the       *)
(* listeners before it stores and gives up its lock in between, so the     *)
(* invariant speaks of calls on their way. The second part is about the    *)
(* listener that configures the loggers: what its operations are, and that *)
(* one after the other they make the loggers what the new value says, for  *)
(* any number of loggers and appenders.                                    *)
(***************************************************************************)
EXTENDS Log, TLAPS, WellFoundedInduction, SequenceTheorems

Listener == [id : Nat, cb : {"copy", "log", "throw"}]

\* A call of setValue(): listeners are left only while it calls them.
IsFrame(f) ==
    /\ DOMAIN f = {"pc", "name", "new", "todo", "alone"}
    /\ f.name \in Names \cup {None}
    /\ f.pc = "out" <=> f.name = None
    /\ f.pc = "store" => f.todo = <<>>
    /\ f.todo \in Seq(Listener)

TypeInv ==
    /\ s_datas \subseteq Names
    /\ DOMAIN m_val = Names /\ DOMAIN copy = Names
    /\ DOMAIN clean = Names
    /\ m_cbs \in [Names -> Seq(Listener)]
    /\ s_fun_id \in [Names -> Nat]
    /\ DOMAIN frame = Clients
    /\ \A t \in Clients : IsFrame(frame[t])

\* A call that counts as made alone shares its variable with no other call.
AloneInv == \A t, u \in Clients :
    frame[t].alone /\ frame[t].name # None /\ frame[u].name = frame[t].name => t = u

Awaits(f) == \E i \in DOMAIN f.todo : f.todo[i].cb = "copy"

\* Such a call has passed its value on to the copy or is still to do so.
PromiseInv == \A t \in Clients :
    frame[t].alone /\ frame[t].name # None /\ Listens(frame[t].name, "copy") =>
        Awaits(frame[t]) \/ copy[frame[t].name] = frame[t].new

ConfigInv == TypeInv /\ AloneInv /\ PromiseInv /\ CopiesAgree

\* What is left of a listing when its first entry was no copying listener.
LEMMA AwaitsTail ==
    ASSUME NEW s \in Seq(Listener), s # <<>>
    PROVE  /\ Tail(s) \in Seq(Listener)
           /\ (\E i \in DOMAIN s : s[i].cb = "copy") =>
                 Head(s).cb = "copy" \/ \E i \in DOMAIN Tail(s) : Tail(s)[i].cb = "copy"
<1>1. Tail(s) \in Seq(Listener) /\ Len(Tail(s)) = Len(s) - 1 /\ Len(s) \in Nat /\ Len(s) > 0
    OBVIOUS
<1>2. ASSUME NEW i \in DOMAIN s, s[i].cb = "copy", i # 1
      PROVE  i - 1 \in DOMAIN Tail(s) /\ Tail(s)[i - 1] = s[i]
    BY <1>1, <1>2
<1> QED BY <1>1, <1>2

\* The invariant holds at the beginning: copies are made before main().
LEMMA ConfigInvInit == ConfigInit => ConfigInv
<1> SUFFICES ASSUME ConfigInit PROVE ConfigInv
    OBVIOUS
<1>1. m_cbs \in [Names -> Seq(Listener)] /\ s_fun_id \in [Names -> Nat]
  <2>1. ASSUME NEW n \in Names
        PROVE  /\ Len(FirstListeners[n]) \in Nat
               /\ [i \in 1..Len(FirstListeners[n]) |-> [id |-> i, cb |-> FirstListeners[n][i]]]
                    \in Seq(Listener)
      BY ConfigAssumption DEF Listener
  <2> QED BY <2>1 DEF ConfigInit
<1>2. TypeInv
  <2>1. IsFrame(NoCall)
    <3>1. <<>> \in Seq(Listener)
        OBVIOUS
    <3> QED BY <3>1 DEF IsFrame, NoCall
  <2> QED BY <1>1, <2>1, ConfigAssumption DEF ConfigInit, TypeInv
<1>3. AloneInv /\ PromiseInv
    BY DEF ConfigInit, AloneInv, PromiseInv, NoCall
<1>4. CopiesAgree
    BY DEF ConfigInit, CopiesAgree
<1> QED BY <1>2, <1>3, <1>4 DEF ConfigInv

\* A call that begins: those it meets are no longer alone, nor is it.
LEMMA EnterKeeps ==
    ASSUME ConfigInv, NEW t \in Clients, NEW n \in s_datas, NEW x, frame[t].pc = "out",
           EnterSetValue(t, n, x),
           UNCHANGED <<s_datas, m_val, m_cbs, s_fun_id, copy>>
    PROVE  ConfigInv'
<1>1. n \in Names /\ n # None
    BY ConfigAssumption DEF ConfigInv, TypeInv
<1>2. CASE x = m_val[n]
  <2>1. UNCHANGED <<s_datas, m_val, m_cbs, s_fun_id, copy, frame, clean>>
      BY <1>2 DEF EnterSetValue
  <2>2. TypeInv' /\ AloneInv'
      BY <2>1 DEF ConfigInv, TypeInv, AloneInv, IsFrame
  <2>3. PromiseInv' /\ CopiesAgree'
      BY <2>1 DEF ConfigInv, PromiseInv, CopiesAgree, Settled, Changing, Listens, Awaits
  <2> QED BY <2>2, <2>3 DEF ConfigInv
<1>3. CASE x # m_val[n]
  <2> DEFINE g == [pc |-> "call", name |-> n, new |-> x, todo |-> m_cbs[n],
                   alone |-> Changing(n) = {}]
  <2>1. /\ frame'[t] = g
        /\ \A u \in Clients \ {t} :
              frame'[u] = IF frame[u].name = n THEN [frame[u] EXCEPT !.alone = FALSE]
                                               ELSE frame[u]
        /\ DOMAIN frame' = Clients
        /\ clean' = [clean EXCEPT ![n] = @ /\ Changing(n) = {}]
      BY <1>3 DEF EnterSetValue, Changing
  <2>2. m_cbs[n] \in Seq(Listener)
      BY <1>1 DEF ConfigInv, TypeInv
  <2>3. ASSUME NEW u \in Clients \ {t}
        PROVE  /\ frame'[u].name = frame[u].name /\ frame'[u].pc = frame[u].pc
               /\ frame'[u].todo = frame[u].todo /\ frame'[u].new = frame[u].new
               /\ frame'[u].alone => frame[u].alone /\ frame[u].name # n
               /\ IsFrame(frame'[u])
    <3>1. IsFrame(frame[u])
        BY DEF ConfigInv, TypeInv
    <3> QED BY <2>1, <3>1 DEF IsFrame
  <2>4. IsFrame(frame'[t])
      BY <1>1, <2>1, <2>2 DEF IsFrame
  <2>5. TypeInv'
    <3>1. \A u \in Clients : IsFrame(frame'[u])
        BY <2>3, <2>4
    <3>2. DOMAIN clean' = Names
        BY <2>1, <1>1 DEF ConfigInv, TypeInv
    <3> QED BY <2>1, <3>1, <3>2 DEF ConfigInv, TypeInv, IsFrame
  <2>6. AloneInv'
    <3>1. frame'[t].alone => \A u \in Clients : frame[u].name # n
      <4>1. frame'[t].alone = (Changing(n) = {})
          BY <2>1
      <4> QED BY <4>1 DEF Changing
    <3> QED BY <2>1, <2>3, <3>1, <1>1 DEF ConfigInv, AloneInv
  <2>7. PromiseInv'
    <3>1. \A k : Listens(k, "copy")' <=> Listens(k, "copy")
        BY DEF Listens
    <3>2. Listens(n, "copy") => Awaits(frame'[t])
        BY <2>1 DEF Listens, Awaits
    <3>3. ASSUME NEW u \in Clients \ {t}, frame'[u].alone, frame'[u].name # None,
                 Listens(frame[u].name, "copy")
          PROVE  Awaits(frame'[u]) \/ copy'[frame'[u].name] = frame'[u].new
      <4>1. Awaits(frame[u]) \/ copy[frame[u].name] = frame[u].new
          BY <2>3, <3>3 DEF ConfigInv, PromiseInv
      <4> QED BY <2>3, <4>1 DEF Awaits
    <3>4. frame'[t].name = n
        BY <2>1
    <3>5. \A u \in Clients \ {t} : frame'[u].name = frame[u].name
        BY <2>3
    <3> SUFFICES ASSUME NEW u \in Clients, frame'[u].alone, frame'[u].name # None,
                        NEW k, k = frame'[u].name, Listens(k, "copy")
                 PROVE  Awaits(frame'[u]) \/ copy'[frame'[u].name] = frame'[u].new
        BY <3>1 DEF PromiseInv, Listens, Awaits
    <3> QED BY <3>2, <3>3, <3>4, <3>5
  <2>8. CopiesAgree'
    <3>1. t \in Changing(n)'
        BY <2>1 DEF Changing
    <3>2. ASSUME NEW k \in Names, k # n PROVE clean'[k] = clean[k] /\ Changing(k)' = Changing(k)
      <4>1. t \notin Changing(k) /\ t \notin Changing(k)'
          BY <3>2, <2>1, ConfigAssumption DEF Changing, ConfigInv, TypeInv, IsFrame
      <4> QED BY <2>1, <2>3, <3>2, <4>1 DEF Changing, ConfigInv, TypeInv
    <3> QED BY <3>1, <3>2 DEF ConfigInv, CopiesAgree, Settled, Listens
  <2> QED BY <2>5, <2>6, <2>7, <2>8 DEF ConfigInv
<1> QED BY <1>2, <1>3

\* A step of one call that does not end it, and keeps what it has promised.
LEMMA CallKeeps ==
    ASSUME ConfigInv, NEW t \in Clients, NEW n, n = frame[t].name, n # None,
           IsFrame(frame'[t]), DOMAIN frame' = Clients,
           \A u \in Clients \ {t} : frame'[u] = frame[u],
           frame'[t].name = frame[t].name, frame'[t].new = frame[t].new,
           frame'[t].alone = frame[t].alone,
           DOMAIN copy' = Names,
           \A k \in Names : k # n => copy'[k] = copy[k],
           Awaits(frame[t]) => Awaits(frame'[t]) \/ copy'[n] = frame[t].new,
           copy'[n] \in {copy[n], frame[t].new},
           UNCHANGED <<s_datas, m_val, m_cbs, s_fun_id, clean>>
    PROVE  ConfigInv'
<1>1. n \in Names
    BY DEF ConfigInv, TypeInv, IsFrame
<1>2. TypeInv'
    BY DEF ConfigInv, TypeInv, IsFrame
<1>3. \A u \in Clients : /\ frame'[u].name = frame[u].name
                         /\ frame'[u].alone = frame[u].alone
                         /\ frame'[u].new = frame[u].new
    OBVIOUS
<1>4. AloneInv'
    BY <1>3 DEF ConfigInv, AloneInv
<1>5. PromiseInv'
  <2>1. ASSUME NEW u \in Clients, u # t, frame[u].alone, frame[u].name # None,
               Listens(frame[u].name, "copy")
        PROVE  Awaits(frame'[u]) \/ copy'[frame[u].name] = frame[u].new
    <3>1. frame[u].name # n /\ frame[u].name \in Names
        BY <2>1 DEF ConfigInv, AloneInv, TypeInv, IsFrame
    <3> QED BY <2>1, <3>1 DEF ConfigInv, PromiseInv, Awaits
  <2>2. ASSUME frame[t].alone, Listens(n, "copy")
        PROVE  Awaits(frame'[t]) \/ copy'[n] = frame[t].new
      BY <2>2 DEF ConfigInv, PromiseInv
  <2>3. \A k : Listens(k, "copy")' <=> Listens(k, "copy")
      BY DEF Listens
  <2> QED BY <1>3, <2>1, <2>2, <2>3 DEF PromiseInv
<1>6. CopiesAgree'
  <2>1. \A k \in Names : Changing(k)' = Changing(k)
      BY <1>3 DEF Changing
  <2>2. t \in Changing(n)
      BY DEF Changing
  <2> QED BY <2>1, <2>2 DEF ConfigInv, CopiesAgree, Settled, Listens
<1> QED BY <1>2, <1>4, <1>5, <1>6 DEF ConfigInv

\* A call that ends without an effect, or with its value stored.
LEMMA EndKeeps ==
    ASSUME ConfigInv, NEW t \in Clients, NEW n, n = frame[t].name, n # None,
           frame' = [frame EXCEPT ![t] = NoCall],
           DOMAIN clean' = Names,
           \A k \in Names : k # n => clean'[k] = clean[k] /\ m_val'[k] = m_val[k],
           DOMAIN m_val' = Names,
           clean'[n] => frame[t].alone /\ frame[t].pc = "store" /\ m_val'[n] = frame[t].new,
           UNCHANGED <<s_datas, m_cbs, s_fun_id, copy>>
    PROVE  ConfigInv'
<1>1. n \in Names /\ DOMAIN frame = Clients
    BY DEF ConfigInv, TypeInv, IsFrame
<1>2. frame'[t] = NoCall /\ \A u \in Clients \ {t} : frame'[u] = frame[u]
    BY <1>1
<1>3. IsFrame(NoCall)
    BY DEF IsFrame, NoCall
<1>4. TypeInv'
    BY <1>1, <1>2, <1>3 DEF ConfigInv, TypeInv, IsFrame
<1>5. NoCall.name = None
    BY DEF NoCall
<1>6. AloneInv'
    BY <1>2, <1>5 DEF ConfigInv, AloneInv
<1>7. PromiseInv'
    BY <1>2, <1>5 DEF ConfigInv, PromiseInv, Listens, Awaits
<1>8. CopiesAgree'
  <2>1. ASSUME NEW k \in Names, k # n, Settled(k)', Listens(k, "copy")'
        PROVE  copy'[k] = m_val'[k]
    <3>1. Changing(k) = {}
        BY <1>2, <2>1 DEF Settled, Changing
    <3> QED BY <2>1, <3>1 DEF ConfigInv, CopiesAgree, Settled, Listens
  <2>2. ASSUME clean'[n], Listens(n, "copy")' PROVE copy'[n] = m_val'[n]
    <3>1. ~Awaits(frame[t])
      <4>1. frame[t].todo = <<>>
          BY <2>2 DEF ConfigInv, TypeInv, IsFrame
      <4> QED BY <4>1 DEF Awaits
    <3> QED BY <2>2, <3>1 DEF ConfigInv, PromiseInv, Listens
  <2> QED BY <2>1, <2>2 DEF CopiesAgree, Settled
<1> QED BY <1>4, <1>6, <1>7, <1>8 DEF ConfigInv

\* A change of the list of listeners that adds no copying one.
LEMMA ListKeeps ==
    ASSUME ConfigInv, s_datas' \subseteq Names,
           m_cbs' \in [Names -> Seq(Listener)], s_fun_id' \in [Names -> Nat],
           \A n \in Names : Listens(n, "copy")' => Listens(n, "copy"),
           UNCHANGED <<m_val, copy, frame, clean>>
    PROVE  ConfigInv'
<1>1. TypeInv'
    BY DEF ConfigInv, TypeInv, IsFrame
<1>2. AloneInv'
    BY DEF ConfigInv, AloneInv
<1>3. PromiseInv'
  <2>1. \A t \in Clients : frame[t].name \in Names \cup {None}
      BY DEF ConfigInv, TypeInv, IsFrame
  <2> QED BY <2>1 DEF ConfigInv, PromiseInv, Awaits
<1>4. CopiesAgree'
    BY DEF ConfigInv, CopiesAgree, Settled, Changing
<1> QED BY <1>1, <1>2, <1>3, <1>4 DEF ConfigInv

\* Taking an element out of a sequence leaves one, of the others.
LEMMA RemoveAtLeaves ==
    ASSUME NEW S, NEW s \in Seq(S), NEW i \in DOMAIN s
    PROVE  /\ RemoveAt(s, i) \in Seq(S)
           /\ \A j \in DOMAIN RemoveAt(s, i) : \E k \in DOMAIN s : RemoveAt(s, i)[j] = s[k]
<1> DEFINE a == SubSeq(s, 1, i - 1)
           b == SubSeq(s, i + 1, Len(s))
<1>1. i \in 1..Len(s) /\ Len(s) \in Nat
    OBVIOUS
<1>2. a \in Seq(S) /\ Len(a) = i - 1 /\ \A n \in 1..(i - 1) : a[n] = s[n]
    BY <1>1
<1>3. b \in Seq(S) /\ Len(b) = Len(s) - i /\ \A n \in 1..(Len(s) - i) : b[n] = s[i + n]
    BY <1>1
<1> HIDE DEF a, b
<1>4. ASSUME NEW j \in DOMAIN (a \o b) PROVE \E k \in DOMAIN s : (a \o b)[j] = s[k]
  <2>1. CASE j < i
    <3>1. j \in 1..(i - 1) /\ (a \o b)[j] = a[j]
        BY <1>1, <1>2, <1>3, <2>1
    <3> QED BY <1>1, <1>2, <3>1
  <2>2. CASE ~(j < i)
    <3>1. j - (i - 1) \in 1..(Len(s) - i) /\ (a \o b)[j] = b[j - (i - 1)]
        BY <1>1, <1>2, <1>3, <2>2
    <3>2. b[j - (i - 1)] = s[j + 1] /\ j + 1 \in DOMAIN s
        BY <1>1, <1>3, <3>1
    <3> QED BY <3>1, <3>2
  <2> QED BY <2>1, <2>2
<1>5. a \o b \in Seq(S)
    BY <1>2, <1>3
<1>6. RemoveAt(s, i) = a \o b
    BY DEF RemoveAt, a, b
<1> QED BY <1>4, <1>5, <1>6

\* Steps that leave the variables alone keep the invariant.
LEMMA StutterKeeps == ConfigInv /\ UNCHANGED configVars => ConfigInv'
<1> SUFFICES ASSUME ConfigInv, UNCHANGED configVars PROVE ConfigInv'
    OBVIOUS
<1>1. /\ UNCHANGED <<s_datas, m_val, m_cbs, s_fun_id, copy, frame, clean>>
      /\ \A n \in Names : Listens(n, "copy")' => Listens(n, "copy")
    BY DEF configVars, Listens
<1>2. /\ s_datas' \subseteq Names
      /\ m_cbs' \in [Names -> Seq(Listener)] /\ s_fun_id' \in [Names -> Nat]
    BY <1>1 DEF ConfigInv, TypeInv
<1> QED BY <1>1, <1>2, ListKeeps

\* The calls that change the listeners add none but those that throw.
LEMMA ListenersShrink ==
    ASSUME ConfigInv, NEW t \in Clients, NEW n \in Names,
           \/ Lookup(t, n) \/ AddListener(t, n, "throw") \/ ClearListener(t, n)
           \/ \E id \in 1..MaxListeners : DelListener(t, n, id)
    PROVE  /\ \A k \in Names : \A c : c # "throw" /\ Listens(k, c)' => Listens(k, c)
           /\ UNCHANGED <<m_val, frame, rest, clean, before>>
<1>1. m_cbs \in [Names -> Seq(Listener)] /\ s_fun_id \in [Names -> Nat]
    BY DEF ConfigInv, TypeInv
<1>2. UNCHANGED <<m_val, frame, rest, clean, before>>
    BY DEF Lookup, AddListener, ClearListener, DelListener
<1>3. CASE Lookup(t, n)
    BY <1>2, <1>3 DEF Lookup, Listens
<1>4. CASE ClearListener(t, n)
    BY <1>1, <1>2, <1>4 DEF ClearListener, Listens
<1>5. CASE AddListener(t, n, "throw")
  <2>1. PICK l : l.cb = "throw" /\ m_cbs' = [m_cbs EXCEPT ![n] = Append(@, l)]
    <3>1. PICK l : l = [id |-> s_fun_id'[n], cb |-> "throw"]
        OBVIOUS
    <3> QED BY <3>1, <1>5 DEF AddListener
  <2>2. ASSUME NEW k \in Names, NEW c, c # "throw", Listens(k, c)' PROVE Listens(k, c)
    <3>1. PICK i \in DOMAIN m_cbs'[k] : m_cbs'[k][i].cb = c
        BY <2>2 DEF Listens
    <3>2. CASE k # n
        BY <1>1, <2>1, <3>1, <3>2 DEF Listens
    <3>3. CASE k = n
      <4>1. m_cbs'[n] = Append(m_cbs[n], l) /\ m_cbs[n] \in Seq(Listener)
          BY <1>1, <2>1
      <4>2. i # Len(m_cbs[n]) + 1
          BY <2>1, <2>2, <3>1, <3>3, <4>1
      <4>3. i \in DOMAIN m_cbs[n] /\ m_cbs'[n][i] = m_cbs[n][i]
          BY <3>1, <3>3, <4>1, <4>2
      <4> QED BY <3>1, <3>3, <4>3 DEF Listens
    <3> QED BY <3>2, <3>3
  <2> QED BY <1>2, <2>2
<1>6. CASE \E id \in 1..MaxListeners : DelListener(t, n, id)
  <2>1. PICK i \in DOMAIN m_cbs[n] : m_cbs' = [m_cbs EXCEPT ![n] = RemoveAt(@, i)]
      BY <1>6 DEF DelListener
  <2>2. \A j \in DOMAIN RemoveAt(m_cbs[n], i) :
            \E k \in DOMAIN m_cbs[n] : RemoveAt(m_cbs[n], i)[j] = m_cbs[n][k]
      BY <1>1, <2>1, RemoveAtLeaves
  <2> QED BY <1>1, <1>2, <2>1, <2>2 DEF Listens
<1> QED BY <1>3, <1>4, <1>5, <1>6

\* They keep the invariant.
LEMMA ListenersKeep ==
    ASSUME ConfigInv, NEW t \in Clients, NEW n \in Names,
           \/ Lookup(t, n) \/ AddListener(t, n, "throw") \/ ClearListener(t, n)
           \/ \E id \in 1..MaxListeners : DelListener(t, n, id)
    PROVE  ConfigInv'
<1>1. /\ m_cbs \in [Names -> Seq(Listener)] /\ s_fun_id \in [Names -> Nat]
      /\ s_datas \subseteq Names
    BY DEF ConfigInv, TypeInv
<1>2. /\ \A k \in Names : Listens(k, "copy")' => Listens(k, "copy")
      /\ UNCHANGED <<m_val, frame, clean>>
    BY ListenersShrink
<1>3. UNCHANGED copy
    BY DEF Lookup, AddListener, ClearListener, DelListener
<1>4. /\ s_datas' \subseteq Names
      /\ m_cbs' \in [Names -> Seq(Listener)] /\ s_fun_id' \in [Names -> Nat]
  <2>1. CASE Lookup(t, n)
      BY <1>1, <2>1 DEF Lookup
  <2>2. CASE AddListener(t, n, "throw")
    <3>1. PICK l : l = [id |-> s_fun_id'[n], cb |-> "throw"]
        OBVIOUS
    <3>2. /\ s_fun_id' = [s_fun_id EXCEPT ![n] = @ + 1] /\ UNCHANGED s_datas
          /\ m_cbs' = [m_cbs EXCEPT ![n] = Append(@, l)]
        BY <2>2, <3>1 DEF AddListener
    <3>3. s_fun_id' \in [Names -> Nat] /\ s_fun_id'[n] \in Nat
        BY <1>1, <3>2
    <3>4. l \in Listener
        BY <3>1, <3>3 DEF Listener
    <3> QED BY <1>1, <3>2, <3>3, <3>4
  <2>3. CASE ClearListener(t, n)
    <3>1. <<>> \in Seq(Listener)
        OBVIOUS
    <3> QED BY <1>1, <2>3, <3>1 DEF ClearListener
  <2>4. CASE \E id \in 1..MaxListeners : DelListener(t, n, id)
    <3>1. PICK i \in DOMAIN m_cbs[n] : m_cbs' = [m_cbs EXCEPT ![n] = RemoveAt(@, i)]
        BY <2>4 DEF DelListener
    <3>2. RemoveAt(m_cbs[n], i) \in Seq(Listener)
        BY <1>1, <3>1, RemoveAtLeaves
    <3> QED BY <1>1, <2>4, <3>1, <3>2 DEF DelListener
  <2> QED BY <2>1, <2>2, <2>3, <2>4
<1> QED BY <1>2, <1>3, <1>4, ListKeeps

\* And the calls that begin a change.
LEMMA BeginsKeep ==
    ASSUME ConfigInv, NEW t \in Clients, NEW n, NEW x, NEW d,
           SetValue(t, n, x) \/ LoadFromYaml(t, d) \/ LoadNext(t)
    PROVE  ConfigInv'
<1>1. CASE SetValue(t, n, x)
    BY <1>1, EnterKeeps DEF SetValue, OutOfConfig
<1>2. CASE LoadFromYaml(t, d)
  <2>1. \A k \in Names : Listens(k, "copy")' => Listens(k, "copy")
      BY <1>2 DEF LoadFromYaml, Listens
  <2> QED BY <1>2, <2>1, ListKeeps DEF LoadFromYaml, ConfigInv, TypeInv
<1>3. CASE LoadNext(t)
  <2>1. /\ frame[t].pc = "out"
        /\ UNCHANGED <<s_datas, m_val, m_cbs, s_fun_id, copy>>
        /\ \/ \E k \in s_datas : \E y : EnterSetValue(t, k, y)
           \/ UNCHANGED <<frame, clean>>
      BY <1>3 DEF LoadNext
  <2>2. CASE \E k \in s_datas : \E y : EnterSetValue(t, k, y)
      BY <2>1, <2>2, EnterKeeps
  <2>3. CASE UNCHANGED <<frame, clean>>
    <3>1. \A k \in Names : Listens(k, "copy")' => Listens(k, "copy")
        BY <2>1 DEF Listens
    <3> QED BY <2>1, <2>3, <3>1, ListKeeps DEF ConfigInv, TypeInv
  <2> QED BY <2>1, <2>2, <2>3
<1> QED BY <1>1, <1>2, <1>3

\* A call whose next listener is called, and whose other fields stay.
LEMMA TodoMoves ==
    ASSUME ConfigInv, NEW t \in Clients, frame[t].pc = "call", frame[t].todo # <<>>,
           NEW pc1 \in {"call", "log"},
           frame' = [frame EXCEPT ![t].pc = pc1, ![t].todo = Tail(@)]
    PROVE  /\ frame[t].name \in Names /\ frame[t].name # None
           /\ IsFrame(frame'[t]) /\ DOMAIN frame' = Clients
           /\ \A u \in Clients \ {t} : frame'[u] = frame[u]
           /\ frame'[t].name = frame[t].name /\ frame'[t].new = frame[t].new
           /\ frame'[t].alone = frame[t].alone
           /\ Awaits(frame[t]) => Head(frame[t].todo).cb = "copy" \/ Awaits(frame'[t])
<1>1. IsFrame(frame[t]) /\ DOMAIN frame = Clients
    BY DEF ConfigInv, TypeInv
<1>2. /\ DOMAIN frame' = Clients
      /\ \A u \in Clients \ {t} : frame'[u] = frame[u]
      /\ DOMAIN frame'[t] = {"pc", "name", "new", "todo", "alone"}
      /\ frame'[t].name = frame[t].name /\ frame'[t].new = frame[t].new
      /\ frame'[t].alone = frame[t].alone /\ frame'[t].pc = pc1
      /\ frame'[t].todo = Tail(frame[t].todo)
    BY <1>1 DEF IsFrame
<1>3. frame[t].name \in Names /\ frame[t].name # None
    BY <1>1, ConfigAssumption DEF IsFrame
<1>4. frame[t].todo \in Seq(Listener)
    BY <1>1 DEF IsFrame
<1>5. Tail(frame[t].todo) \in Seq(Listener)
    BY <1>4, AwaitsTail
<1>6. IsFrame(frame'[t])
    BY <1>2, <1>3, <1>5 DEF IsFrame
<1>7. Awaits(frame[t]) => Head(frame[t].todo).cb = "copy" \/ Awaits(frame'[t])
    BY <1>2, <1>4, AwaitsTail DEF Awaits
<1> QED BY <1>2, <1>3, <1>6, <1>7

\* The same for a call that only goes from one place to another.
LEMMA PlaceMoves ==
    ASSUME ConfigInv, NEW t \in Clients, frame[t].pc # "out", NEW pc1 \in {"call", "log", "store"},
           pc1 = "store" => frame[t].todo = <<>>,
           frame' = [frame EXCEPT ![t].pc = pc1],
           UNCHANGED <<s_datas, m_val, m_cbs, s_fun_id, copy, clean>>
    PROVE  ConfigInv'
<1>1. IsFrame(frame[t]) /\ DOMAIN frame = Clients /\ DOMAIN copy = Names
    BY DEF ConfigInv, TypeInv
<1>2. /\ DOMAIN frame' = Clients
      /\ \A u \in Clients \ {t} : frame'[u] = frame[u]
      /\ DOMAIN frame'[t] = {"pc", "name", "new", "todo", "alone"}
      /\ frame'[t].name = frame[t].name /\ frame'[t].new = frame[t].new
      /\ frame'[t].alone = frame[t].alone /\ frame'[t].pc = pc1
      /\ frame'[t].todo = frame[t].todo
    BY <1>1 DEF IsFrame
<1>3. frame[t].name # None
    BY <1>1 DEF IsFrame
<1>4. IsFrame(frame'[t])
    BY <1>1, <1>2, <1>3 DEF IsFrame
<1>5. Awaits(frame[t]) => Awaits(frame'[t])
    BY <1>2 DEF Awaits
<1>6. PICK n : n = frame[t].name
    OBVIOUS
<1> QED BY <1>1, <1>2, <1>3, <1>4, <1>5, <1>6, CallKeeps

\* The steps of setValue() behind its first one.
LEMMA SetValueKeeps ==
    ASSUME ConfigInv, NEW t \in Clients, CallCopy(t) \/ CallThrow(t) \/ Unlock(t) \/ Store(t)
    PROVE  ConfigInv'
<1> PICK n : n = frame[t].name
    OBVIOUS
<1>1. IsFrame(frame[t]) /\ DOMAIN frame = Clients
    BY DEF ConfigInv, TypeInv
<1>2. CASE CallCopy(t)
  <2>1. /\ frame[t].pc = "call" /\ frame[t].todo # <<>>
        /\ copy' = [copy EXCEPT ![n] = frame[t].new]
        /\ frame' = [frame EXCEPT ![t].todo = Tail(@)]
        /\ UNCHANGED <<s_datas, m_val, m_cbs, s_fun_id, clean>>
      BY <1>2 DEF CallCopy
  <2>2. frame' = [frame EXCEPT ![t].pc = "call", ![t].todo = Tail(@)]
      BY <1>1, <2>1 DEF IsFrame
  <2>3. /\ n \in Names /\ n # None /\ IsFrame(frame'[t]) /\ DOMAIN frame' = Clients
        /\ \A u \in Clients \ {t} : frame'[u] = frame[u]
        /\ frame'[t].name = frame[t].name /\ frame'[t].new = frame[t].new
        /\ frame'[t].alone = frame[t].alone
      BY <2>1, <2>2, TodoMoves
  <2>4. /\ DOMAIN copy' = Names /\ copy'[n] = frame[t].new
        /\ \A k \in Names : k # n => copy'[k] = copy[k]
      BY <2>1, <2>3 DEF ConfigInv, TypeInv
  <2>5. /\ Awaits(frame[t]) => Awaits(frame'[t]) \/ copy'[n] = frame[t].new
        /\ copy'[n] \in {copy[n], frame[t].new}
      BY <2>4
  <2>6. UNCHANGED <<s_datas, m_val, m_cbs, s_fun_id, clean>>
      BY <2>1
  <2> QED BY <2>3, <2>4, <2>5, <2>6, CallKeeps
<1>3. CASE CallThrow(t)
  <2>1. /\ frame[t].pc = "call" /\ frame' = [frame EXCEPT ![t] = NoCall]
        /\ clean' = [clean EXCEPT ![n] = FALSE]
        /\ UNCHANGED <<s_datas, m_val, m_cbs, s_fun_id, copy>>
      BY <1>3 DEF CallThrow
  <2>2. n \in Names /\ n # None
      BY <1>1, <2>1, ConfigAssumption DEF IsFrame
  <2>3. /\ DOMAIN clean' = Names /\ ~clean'[n] /\ DOMAIN m_val' = Names
        /\ \A k \in Names : k # n => clean'[k] = clean[k] /\ m_val'[k] = m_val[k]
      BY <2>1, <2>2 DEF ConfigInv, TypeInv
  <2> QED BY <2>1, <2>2, <2>3, EndKeeps
<1>4. CASE Unlock(t)
    BY <1>4, PlaceMoves DEF Unlock
<1>5. CASE Store(t)
  <2>1. /\ frame[t].pc = "store" /\ frame' = [frame EXCEPT ![t] = NoCall]
        /\ m_val' = [m_val EXCEPT ![n] = frame[t].new]
        /\ clean' = [clean EXCEPT ![n] = frame[t].alone]
        /\ UNCHANGED <<s_datas, m_cbs, s_fun_id, copy>>
      BY <1>5 DEF Store
  <2>2. n \in Names /\ n # None
      BY <1>1, <2>1, ConfigAssumption DEF IsFrame
  <2>3. /\ DOMAIN clean' = Names /\ DOMAIN m_val' = Names
        /\ clean'[n] = frame[t].alone /\ m_val'[n] = frame[t].new
        /\ \A k \in Names : k # n => clean'[k] = clean[k] /\ m_val'[k] = m_val[k]
      BY <1>1, <2>1, <2>2 DEF ConfigInv, TypeInv, IsFrame
  <2> QED BY <2>1, <2>2, <2>3, EndKeeps
<1> QED BY <1>2, <1>3, <1>4, <1>5

\* The listener that configures the loggers, and the loggers themselves.
LEMMA LogKeeps ==
    ASSUME ConfigInv, NEW t \in Clients, LogStep(t)
    PROVE  ConfigInv'
<1> PICK n : n = frame[t].name
    OBVIOUS
<1>1. CASE CallLogIniter(t)
  <2>1. /\ frame[t].pc = "call" /\ frame[t].todo # <<>> /\ Head(frame[t].todo).cb = "log"
        /\ frame' = [frame EXCEPT ![t].pc = "log", ![t].todo = Tail(@)]
        /\ UNCHANGED <<s_datas, m_val, m_cbs, s_fun_id, copy, clean>>
      BY <1>1 DEF CallLogIniter
  <2>2. /\ n \in Names /\ n # None /\ IsFrame(frame'[t]) /\ DOMAIN frame' = Clients
        /\ \A u \in Clients \ {t} : frame'[u] = frame[u]
        /\ frame'[t].name = frame[t].name /\ frame'[t].new = frame[t].new
        /\ frame'[t].alone = frame[t].alone
        /\ Awaits(frame[t]) => Awaits(frame'[t])
      BY <2>1, TodoMoves
  <2>3. DOMAIN copy' = Names
      BY <2>1 DEF ConfigInv, TypeInv
  <2> QED BY <2>1, <2>2, <2>3, CallKeeps
<1>2. CASE LogIniterStep(t)
  <2>1. /\ frame[t].pc = "log"
        /\ \/ frame' = [frame EXCEPT ![t].pc = "call"]
           \/ frame' = [frame EXCEPT ![t].pc = "log"]
        /\ UNCHANGED <<s_datas, m_val, m_cbs, s_fun_id, copy, clean>>
      BY <1>2 DEF LogIniterStep
  <2> QED BY <2>1, PlaceMoves
<1>3. CASE LogFiltered(t) \/ LogOwn(t) \/ LogRoot(t)
    BY <1>3, StutterKeeps DEF LogFiltered, LogOwn, LogRoot
<1> QED BY <1>1, <1>2, <1>3 DEF LogStep
-----------------------------------------------------------------------------
(* Numbers and sequences. *)

\* A set of numbers has a least one.
LEMMA LeastNumber ==
    ASSUME NEW S \in SUBSET Nat, S # {}
    PROVE  \E n \in S : \A k \in S : n <= k
<1> DEFINE R == OpToRel(<, Nat)
<1>1. IsWellFoundedOn(R, Nat)
    BY NatLessThanWellFounded
<1>2. PICK x \in S : \A y \in S : ~(<<y, x>> \in R)
  <2> HIDE DEF R
  <2> QED BY <1>1, WFMin, Zenon
<1>3. \A y \in S : y < x => <<y, x>> \in R
    BY Zenon DEF OpToRel
<1> HIDE DEF R
<1>4. \A y \in S : ~(y < x)
    BY <1>2, <1>3
<1> QED BY <1>4

\* Induction over the numbers, for a property given as the set of those that have it.
LEMMA Induction ==
    ASSUME NEW S \in SUBSET Nat, 0 \in S, \A n \in S : n + 1 \in S
    PROVE  S = Nat
<1> SUFFICES ASSUME Nat \ S # {} PROVE FALSE
    OBVIOUS
<1>1. PICK n \in Nat \ S : \A k \in Nat \ S : n <= k
    BY LeastNumber
<1>2. n # 0 /\ n - 1 \in Nat
    OBVIOUS
<1>3. n - 1 \in S
    BY <1>1, <1>2
<1> QED BY <1>3

\* A sequence, of whatever.
IsSeq(s) == s \in Seq(Range(s))

\* What one needs to know of it.
LEMMA SeqFacts ==
    ASSUME NEW s, IsSeq(s)
    PROVE  Len(s) \in Nat /\ DOMAIN s = 1..Len(s)
  BY LenProperties DEF IsSeq

\* Every sequence is one.
LEMMA SeqIs ==
    ASSUME NEW S, NEW s \in Seq(S)
    PROVE  IsSeq(s)
<1>1. Len(s) \in Nat /\ DOMAIN s = 1..Len(s) /\ s \in [1..Len(s) -> S]
    BY LenProperties
<1>2. s \in [1..Len(s) -> Range(s)]
    BY <1>1 DEF Range
<1> QED BY <1>1, <1>2 DEF IsSeq

\* The empty one.
LEMMA EmptyIsSeq == IsSeq(<<>>) /\ Len(<<>>) = 0
<1>1. <<>> \in Seq(Nat) /\ Len(<<>>) = 0
    BY EmptySeq
<1> QED BY <1>1, SeqIs

\* u is s with t behind it.
Joined(s, t, u) ==
    /\ IsSeq(u) /\ Len(u) = Len(s) + Len(t)
    /\ \A i \in 1..Len(s) : u[i] = s[i]
    /\ \A i \in 1..Len(t) : u[Len(s) + i] = t[i]
    /\ \A i \in 1..Len(u) : i > Len(s) => i - Len(s) \in 1..Len(t) /\ u[i] = t[i - Len(s)]

\* So is the concatenation.
LEMMA Concat ==
    ASSUME NEW s, NEW t, IsSeq(s), IsSeq(t)
    PROVE  Joined(s, t, s \o t)
<1> SUFFICES ASSUME NEW u, u = s \o t PROVE Joined(s, t, u)
    OBVIOUS
<1>1. PICK S : S = Range(s) \cup Range(t)
    OBVIOUS
<1>2. s \in Seq(S) /\ t \in Seq(S)
    BY <1>1, SeqMonotonic DEF IsSeq
<1>3. PICK m, n \in Nat : m = Len(s) /\ n = Len(t)
    BY SeqFacts
<1>5. /\ u \in Seq(S) /\ Len(u) = m + n
      /\ \A i \in 1..(m + n) : u[i] = IF i <= m THEN s[i] ELSE t[i - m]
    BY <1>2, <1>3, ConcatProperties
<1>6. IsSeq(u)
    BY <1>5, SeqIs
<1>7. \A i \in 1..m : u[i] = s[i]
    BY <1>5
<1>8. ASSUME NEW i \in 1..n PROVE u[m + i] = t[i]
  <2>1. m + i \in 1..(m + n) /\ ~(m + i <= m) /\ (m + i) - m = i
      OBVIOUS
  <2> QED BY <2>1, <1>5
<1>9. ASSUME NEW i \in 1..(m + n), i > m PROVE i - m \in 1..n /\ u[i] = t[i - m]
    BY <1>5, <1>9
<1> QED BY <1>3, <1>5, <1>6, <1>7, <1>8, <1>9 DEF Joined

\* One element more.
LEMMA Appended ==
    ASSUME NEW s, NEW e, IsSeq(s)
    PROVE  /\ IsSeq(Append(s, e)) /\ Len(Append(s, e)) = Len(s) + 1
           /\ \A i \in 1..Len(s) : Append(s, e)[i] = s[i]
           /\ Append(s, e)[Len(s) + 1] = e
<1>1. PICK S : S = Range(s) \cup {e}
    OBVIOUS
<1>2. s \in Seq(S) /\ e \in S
    BY <1>1, SeqMonotonic DEF IsSeq
<1>3. Append(s, e) \in Seq(S)
    BY <1>2
<1>4. IsSeq(Append(s, e))
    BY <1>3, SeqIs
<1> QED BY <1>2, <1>4

\* All but the first.
LEMMA Rest ==
    ASSUME NEW s, IsSeq(s), s # <<>>
    PROVE  /\ IsSeq(Tail(s)) /\ Len(s) \in Nat \ {0} /\ Len(Tail(s)) = Len(s) - 1
           /\ Head(s) = s[1]
           /\ \A i \in 1..(Len(s) - 1) : Tail(s)[i] = s[i + 1]
<1>1. s \in Seq(Range(s))
    BY DEF IsSeq
<1>2. Tail(s) \in Seq(Range(s)) /\ Len(Tail(s)) = Len(s) - 1
      /\ \A i \in 1..Len(Tail(s)) : Tail(s)[i] = s[i + 1]
    BY <1>1, HeadTailProperties
<1>3. Len(s) \in Nat \ {0}
    BY <1>1, EmptySeq
<1>4. IsSeq(Tail(s))
    BY <1>2, SeqIs
<1> QED BY <1>2, <1>3, <1>4

-----------------------------------------------------------------------------
(* The operations of the listener. *)

\* Among the operations w, those on logger N are s, and together.
Block(w, N, s) ==
    \E p \in Nat :
        /\ p + Len(s) <= Len(w)
        /\ \A i \in 1..Len(s) : w[p + i] = s[i]
        /\ \A q \in 1..Len(w) : q <= p \/ q > p + Len(s) => w[q].name # N

\* They stay so when operations on others follow.
LEMMA BlockBefore ==
    ASSUME NEW w, NEW v, NEW N, NEW s, IsSeq(w), IsSeq(v), IsSeq(s), Block(w, N, s),
           \A q \in 1..Len(v) : v[q].name # N
    PROVE  Block(w \o v, N, s)
<1>1. PICK m, n, l \in Nat : m = Len(w) /\ n = Len(v) /\ l = Len(s)
    BY SeqFacts
<1>2. PICK u : /\ u = w \o v /\ Len(u) = m + n
               /\ \A i \in 1..m : u[i] = w[i]
               /\ \A i \in 1..(m + n) : i > m => i - m \in 1..n /\ u[i] = v[i - m]
  <2>1. PICK u : u = w \o v
      OBVIOUS
  <2>2. Joined(w, v, u)
      BY <2>1, Concat
  <2> QED BY <2>1, <2>2, <1>1 DEF Joined
<1>3. PICK p \in Nat : /\ p + l <= m
                       /\ \A i \in 1..l : w[p + i] = s[i]
                       /\ \A q \in 1..m : q <= p \/ q > p + l => w[q].name # N
    BY <1>1 DEF Block
<1>4. p + l <= m + n
    BY <1>3
<1>5. ASSUME NEW i \in 1..l PROVE u[p + i] = s[i]
  <2>1. p + i \in 1..m
      BY <1>3
  <2> QED BY <2>1, <1>2, <1>3
<1>6. ASSUME NEW q \in 1..(m + n), q <= p \/ q > p + l PROVE u[q].name # N
  <2>1. CASE q <= m
    <3>1. q \in 1..m
        BY <2>1
    <3> QED BY <3>1, <1>2, <1>3, <1>6
  <2>2. CASE q > m
      BY <2>2, <1>1, <1>2
  <2> QED BY <2>1, <2>2
<1>7. Block(u, N, s)
    BY <1>1, <1>2, <1>4, <1>5, <1>6 DEF Block
<1> QED BY <1>2, <1>7

\* And when others go before.
LEMMA BlockBehind ==
    ASSUME NEW w, NEW v, NEW N, NEW s, IsSeq(w), IsSeq(v), IsSeq(s), Block(v, N, s),
           \A q \in 1..Len(w) : w[q].name # N
    PROVE  Block(w \o v, N, s)
<1>1. PICK m, n, l \in Nat : m = Len(w) /\ n = Len(v) /\ l = Len(s)
    BY SeqFacts
<1>2. PICK u : /\ u = w \o v /\ Len(u) = m + n
               /\ \A i \in 1..m : u[i] = w[i]
               /\ \A i \in 1..n : u[m + i] = v[i]
               /\ \A i \in 1..(m + n) : i > m => i - m \in 1..n /\ u[i] = v[i - m]
  <2>1. PICK u : u = w \o v
      OBVIOUS
  <2>2. Joined(w, v, u)
      BY <2>1, Concat
  <2> QED BY <2>1, <2>2, <1>1 DEF Joined
<1>3. PICK p \in Nat : /\ p + l <= n
                       /\ \A i \in 1..l : v[p + i] = s[i]
                       /\ \A q \in 1..n : q <= p \/ q > p + l => v[q].name # N
    BY <1>1 DEF Block
<1>4. m + p \in Nat /\ (m + p) + l <= m + n
    BY <1>3
<1>5. ASSUME NEW i \in 1..l PROVE u[(m + p) + i] = s[i]
  <2>1. p + i \in 1..n /\ (m + p) + i = m + (p + i)
      BY <1>3
  <2> QED BY <2>1, <1>2, <1>3
<1>6. ASSUME NEW q \in 1..(m + n), q <= m + p \/ q > (m + p) + l PROVE u[q].name # N
  <2>1. CASE q <= m
    <3>1. q \in 1..m
        BY <2>1
    <3> QED BY <3>1, <1>1, <1>2
  <2>2. CASE q > m
    <3>1. q - m \in 1..n /\ u[q] = v[q - m]
        BY <2>2, <1>2
    <3>2. q - m <= p \/ q - m > p + l
        BY <1>6
    <3> QED BY <3>1, <3>2, <1>3
  <2> QED BY <2>1, <2>2
<1>7. Block(u, N, s)
    BY <1>1, <1>2, <1>4, <1>5, <1>6 DEF Block
<1> QED BY <1>2, <1>7

\* One step of InOrder's recursion, with f for the others.
OrderStep(f, ops, i) ==
    IF i = 0 THEN <<>>
    ELSE f[i - 1] \o (IF NameOrder[i] \in DOMAIN ops THEN ops[NameOrder[i]] ELSE <<>>)

\* InOrder is the last value of the function that its recursion defines.
LEMMA InOrderUnfolds ==
    ASSUME NEW ops, NEW n \in Nat, n = Len(NameOrder)
    PROVE  \E f : /\ \A k \in 0..n : f[k] = OrderStep(f, ops, k)
                  /\ InOrder(ops) = f[n]
<1> DEFINE OK(f, j) == \A k \in 0..n : k < j => f[k] = OrderStep(f, ops, k)
           S == {j \in Nat : \E f : OK(f, j)}
<1>1. 0 \in S
  <2>1. OK([k \in 0..n |-> k], 0)
      OBVIOUS
  <2> HIDE DEF OK
  <2> QED BY <2>1
<1>2. ASSUME NEW j \in S PROVE j + 1 \in S
  <2>1. PICK f : OK(f, j)
      OBVIOUS
  <2> DEFINE g == [k \in 0..n |-> OrderStep(f, ops, k)]
  <2>2. ASSUME NEW k \in 0..n, k < j + 1 PROVE g[k] = OrderStep(g, ops, k)
    <3>1. CASE k = 0
        BY <3>1 DEF OrderStep
    <3>2. CASE k # 0
      <4>1. k - 1 \in 0..n /\ k - 1 < j
          BY <2>2, <3>2
      <4>2. f[k - 1] = OrderStep(f, ops, k - 1)
          BY <2>1, <4>1
      <4>3. g[k - 1] = f[k - 1]
          BY <4>1, <4>2
      <4>4. g[k] = OrderStep(f, ops, k)
          OBVIOUS
      <4> HIDE DEF g
      <4> QED BY <4>3, <4>4 DEF OrderStep
    <3> QED BY <3>1, <3>2
  <2>3. OK(g, j + 1) /\ j + 1 \in Nat
      BY <2>2
  <2> HIDE DEF OK, g
  <2> QED BY <2>3
<1>3. S = Nat
  <2>1. S \in SUBSET Nat
      OBVIOUS
  <2> HIDE DEF S
  <2> QED BY <1>1, <1>2, <2>1, Induction
<1>4. PICK f : OK(f, n + 1)
  <2>1. n + 1 \in S
    <3> HIDE DEF S
    <3> QED BY <1>3
  <2> HIDE DEF OK
  <2> QED BY <2>1
<1> DEFINE h == [k \in 0..n |-> f[k]]
<1>5. h = [k \in 0..n |-> OrderStep(h, ops, k)]
  <2>1. ASSUME NEW k \in 0..n PROVE f[k] = OrderStep(h, ops, k)
    <3>1. f[k] = OrderStep(f, ops, k)
        BY <1>4
    <3>2. k # 0 => k - 1 \in 0..n
        OBVIOUS
    <3> QED BY <3>1, <3>2 DEF OrderStep
  <2> QED BY <2>1
<1>6. InOrder(ops) = (CHOOSE g : g = [k \in 0..n |-> OrderStep(g, ops, k)])[n]
    BY DEF InOrder, OrderStep
<1>7. PICK g : g = [k \in 0..n |-> OrderStep(g, ops, k)] /\ InOrder(ops) = g[n]
  <2> HIDE DEF h
  <2> QED BY <1>5, <1>6, Zenon
<1>8. \A k \in 0..n : g[k] = OrderStep(g, ops, k)
    BY <1>7, Zenon
<1> QED BY <1>7, <1>8

\* Operations for each logger of a set, on that logger only.
ForEach(ops) ==
    /\ DOMAIN ops \subseteq LogNames
    /\ \A N \in DOMAIN ops : IsSeq(ops[N]) /\ \A i \in 1..Len(ops[N]) : ops[N][i].name = N

\* w holds these, for the loggers that are in D.
Holds(w, ops, D) ==
    /\ IsSeq(w)
    /\ \A N \in D \cap DOMAIN ops : Block(w, N, ops[N])
    /\ \A q \in 1..Len(w) : w[q].name \in D \cap DOMAIN ops

\* The next logger's operations go behind those of the others.
LEMMA OneLoggerMore ==
    ASSUME NEW ops, ForEach(ops), NEW D, NEW w, Holds(w, ops, D),
           NEW N, N \notin D
    PROVE  Holds(w \o (IF N \in DOMAIN ops THEN ops[N] ELSE <<>>), ops, D \cup {N})
<1>1. CASE N \notin DOMAIN ops
  <2>1. w \o <<>> = w
      BY ConcatEmptySeq DEF Holds, IsSeq
  <2> QED BY <1>1, <2>1 DEF Holds
<1>2. CASE N \in DOMAIN ops
  <2>1. PICK s, u : s = ops[N] /\ u = w \o s
      OBVIOUS
  <2>2. IsSeq(w) /\ IsSeq(s) /\ \A i \in 1..Len(s) : s[i].name = N
      BY <1>2, <2>1 DEF Holds, ForEach
  <2>3. PICK m, n \in Nat : m = Len(w) /\ n = Len(s)
      BY <2>2, SeqFacts
  <2>4. /\ IsSeq(u) /\ Len(u) = m + n
        /\ \A i \in 1..m : u[i] = w[i]
        /\ \A i \in 1..n : u[m + i] = s[i]
        /\ \A i \in 1..(m + n) : i > m => i - m \in 1..n /\ u[i] = s[i - m]
    <3>1. Joined(w, s, u)
        BY <2>1, <2>2, Concat
    <3> QED BY <3>1, <2>3 DEF Joined
  <2>5. \A q \in 1..m : w[q].name \in D \cap DOMAIN ops
      BY <2>3 DEF Holds
  <2>6. ASSUME NEW q \in 1..Len(u) PROVE u[q].name \in (D \cup {N}) \cap DOMAIN ops
    <3>1. CASE q <= m
      <4>1. q \in 1..m /\ u[q] = w[q]
          BY <3>1, <2>4
      <4> QED BY <4>1, <2>5
    <3>2. CASE q > m
      <4>1. q - m \in 1..n /\ u[q] = s[q - m]
          BY <3>2, <2>4
      <4> QED BY <4>1, <2>2, <2>3, <1>2
    <3> QED BY <3>1, <3>2, <2>3, <2>4
  <2>7. Block(u, N, s)
    <3>1. \A q \in 1..(m + n) : q <= m \/ q > m + n => u[q].name # N
        BY <2>4, <2>5
    <3>2. \A i \in 1..n : u[m + i] = s[i]
        BY <2>4
    <3>3. m + n <= m + n
        BY <2>3
    <3>4. \E p \in Nat : /\ p + n <= m + n
                         /\ \A i \in 1..n : u[p + i] = s[i]
                         /\ \A q \in 1..(m + n) : q <= p \/ q > p + n => u[q].name # N
        BY <3>1, <3>2, <3>3, Zenon
    <3> QED BY <3>4, <2>3, <2>4 DEF Block
  <2>8. ASSUME NEW M \in D \cap DOMAIN ops PROVE Block(u, M, ops[M])
    <3>1. IsSeq(ops[M]) /\ Block(w, M, ops[M]) /\ M # N
        BY DEF Holds, ForEach
    <3>2. \A q \in 1..Len(s) : s[q].name # M
        BY <3>1, <2>2
    <3> QED BY <3>1, <3>2, <2>1, <2>2, BlockBefore
  <2>9. Holds(u, ops, D \cup {N})
    <3>1. ASSUME NEW M \in (D \cup {N}) \cap DOMAIN ops PROVE Block(u, M, ops[M])
        BY <2>1, <2>7, <2>8
    <3> QED BY <3>1, <2>4, <2>6 DEF Holds
  <2> QED BY <1>2, <2>1, <2>9
<1> QED BY <1>1, <1>2

\* InOrder holds all of them.
LEMMA InOrderHolds ==
    ASSUME NEW ops, ForEach(ops)
    PROVE  Holds(InOrder(ops), ops, LogNames)
<1>1. PICK n \in Nat : n = Len(NameOrder) /\ DOMAIN NameOrder = 1..n
    BY LogAssumption, LenProperties
<1>2. PICK f : /\ \A k \in 0..n : f[k] = OrderStep(f, ops, k)
               /\ InOrder(ops) = f[n]
    BY <1>1, InOrderUnfolds
<1> DEFINE First(k) == {NameOrder[i] : i \in 1..k}
           S == {k \in Nat : k <= n => Holds(f[k], ops, First(k))}
<1>3. 0 \in S
  <2>1. f[0] = <<>>
      BY <1>2 DEF OrderStep
  <2>2. First(0) = {}
      OBVIOUS
  <2>3. Holds(<<>>, ops, {})
      BY EmptyIsSeq DEF Holds
  <2> HIDE DEF First
  <2> QED BY <2>1, <2>2, <2>3
<1>4. ASSUME NEW k \in S PROVE k + 1 \in S
  <2>1. CASE k + 1 <= n
    <3>1. k \in Nat /\ k + 1 \in 0..n /\ k + 1 # 0 /\ (k + 1) - 1 = k /\ k <= n
        BY <2>1
    <3>2. Holds(f[k], ops, First(k))
        BY <3>1
    <3>3. PICK N : N = NameOrder[k + 1]
        OBVIOUS
    <3>4. N \notin First(k)
      <4>1. ASSUME NEW i \in 1..k PROVE NameOrder[i] # N
        <5>1. i \in 1..n /\ k + 1 \in 1..n /\ i # k + 1
            BY <2>1
        <5> QED BY <5>1, <1>1, <3>3, LogAssumption
      <4> QED BY <4>1
    <3>5. First(k + 1) = First(k) \cup {N}
      <4>1. \A i : i \in 1..(k + 1) <=> i \in 1..k \/ i = k + 1
          BY <3>1
      <4> QED BY <4>1, <3>3
    <3>6. f[k + 1] = f[k] \o (IF N \in DOMAIN ops THEN ops[N] ELSE <<>>)
      <4>1. f[k + 1] = OrderStep(f, ops, k + 1)
          BY <1>2, <3>1
      <4> QED BY <4>1, <3>1, <3>3, Zenon DEF OrderStep
    <3> HIDE DEF First
    <3>7. Holds(f[k + 1], ops, First(k + 1))
      <4>1. Holds(f[k] \o (IF N \in DOMAIN ops THEN ops[N] ELSE <<>>), ops, First(k) \cup {N})
          BY <3>2, <3>4, OneLoggerMore, Zenon
      <4> QED BY <4>1, <3>5, <3>6, Zenon
    <3> QED BY <3>1, <3>7
  <2> QED BY <2>1
<1>5. S = Nat
  <2>1. S \in SUBSET Nat
      OBVIOUS
  <2> HIDE DEF S
  <2> QED BY <1>3, <1>4, <2>1, Induction
<1>6. Holds(f[n], ops, First(n))
  <2>1. n \in S
    <3> HIDE DEF S
    <3> QED BY <1>5
  <2> HIDE DEF First
  <2> QED BY <2>1
<1>7. First(n) = LogNames
    BY <1>1 DEF LogNames, Range
<1> HIDE DEF First
<1> QED BY <1>2, <1>6, <1>7

\* An operation on logger N.
On(N, do, arg) == [name |-> N, do |-> do, arg |-> arg]

\* The operations for a definition, one by one; setFormatter() is left out if there is none.
IsConfigure(s, N, def) ==
    \E c \in {3, 4} :
        /\ IsSeq(s) /\ Len(s) = c + Len(def.appenders)
        /\ s[1] = On(N, "getLogger", None) /\ s[2] = On(N, "setLevel", def.level)
        /\ c = 4 => s[3] = On(N, "setFormatter", def.formatter)
        /\ s[c] = On(N, "clearAppenders", None)
        /\ \A i \in 1..Len(def.appenders) :
               s[c + i] = On(N, "addAppender", NewAppender(def.appenders[i]))

\* The operations for a logger that is no longer defined.
IsRetire(s, N) ==
    /\ IsSeq(s) /\ Len(s) = 3
    /\ s[1] = On(N, "getLogger", None) /\ s[2] = On(N, "setLevel", Removed)
    /\ s[3] = On(N, "clearAppenders", None)

\* Short sequences.
LEMMA Short ==
    ASSUME NEW x, NEW y, NEW z
    PROVE  /\ IsSeq(<<x>>) /\ Len(<<x>>) = 1 /\ <<x>>[1] = x
           /\ IsSeq(<<x, y>>) /\ Len(<<x, y>>) = 2 /\ <<x, y>>[1] = x /\ <<x, y>>[2] = y
           /\ IsSeq(<<x, y, z>>) /\ Len(<<x, y, z>>) = 3
           /\ <<x, y, z>>[1] = x /\ <<x, y, z>>[2] = y /\ <<x, y, z>>[3] = z
<1>1. PICK S : S = {x, y, z}
    OBVIOUS
<1>2. <<x>> \in Seq(S) /\ <<x, y>> \in Seq(S) /\ <<x, y, z>> \in Seq(S)
    BY <1>1
<1> QED BY <1>2, SeqIs

\* A function on 1..n is one.
LEMMA FunctionIsSeq ==
    ASSUME NEW n \in Nat, NEW E, NEW f \in [1..n -> E]
    PROVE  IsSeq(f) /\ Len(f) = n
<1>1. f \in Seq(E) /\ Len(f) = n
    OBVIOUS
<1> QED BY <1>1, SeqIs

\* The elements of u, which is s with t behind it, by their place.
At(s, m, t, n, u) ==
    /\ IsSeq(u) /\ Len(u) = m + n
    /\ m >= 1 => u[1] = s[1]
    /\ m >= 2 => u[2] = s[2]
    /\ m >= 3 => u[3] = s[3]
    /\ m >= 4 => u[4] = s[4]
    /\ \A i \in 1..n : u[m + i] = t[i]

\* So they are in a concatenation.
LEMMA JoinedAt ==
    ASSUME NEW s, NEW t, IsSeq(s), IsSeq(t), NEW u, u = s \o t,
           NEW m, m = Len(s), NEW n, n = Len(t)
    PROVE  At(s, m, t, n, u)
<1>1. m \in Nat /\ n \in Nat
    BY SeqFacts
<1>2. Joined(s, t, u)
    BY Concat
<1> QED BY <1>1, <1>2 DEF At, Joined

\* The operations that the listener has for a definition.
LEMMA ConfigureIs ==
    ASSUME NEW N, LoggerOf(N) = N, NEW def, IsSeq(def.appenders)
    PROVE  IsConfigure(Configure(N, def), N, def)
<1>1. PICK m \in Nat : m = Len(def.appenders) /\ DOMAIN def.appenders = 1..m
    BY SeqFacts
<1>2. PICK a : a = <<On(N, "getLogger", None), On(N, "setLevel", def.level)>>
    OBVIOUS
<1>3. PICK b : b = IF def.formatter = "" THEN <<>> ELSE <<On(N, "setFormatter", def.formatter)>>
    OBVIOUS
<1>4. PICK d : d = <<On(N, "clearAppenders", None)>>
    OBVIOUS
<1>5. PICK e : e = [i \in 1..m |-> On(N, "addAppender", NewAppender(def.appenders[i]))]
    OBVIOUS
<1>6. Configure(N, def) = ((a \o b) \o d) \o e
    BY <1>1, <1>2, <1>3, <1>4, <1>5 DEF Configure, Op, On
<1>7. IsSeq(a) /\ Len(a) = 2 /\ a[1] = On(N, "getLogger", None)
      /\ a[2] = On(N, "setLevel", def.level)
    BY <1>2, Short
<1>8. IsSeq(d) /\ Len(d) = 1 /\ d[1] = On(N, "clearAppenders", None)
    BY <1>4, Short
<1>9. IsSeq(e) /\ Len(e) = m
  <2>1. e \in [1..m -> Range(e)]
      BY <1>5 DEF Range
  <2> QED BY <2>1, FunctionIsSeq
<1>10. PICK u, v, w : u = a \o b /\ v = u \o d /\ w = v \o e
    OBVIOUS
<1>11. CASE def.formatter = ""
  <2>1. b = <<>> /\ IsSeq(b) /\ Len(b) = 0
      BY <1>3, <1>11, EmptyIsSeq
  <2>2. At(a, 2, b, 0, u)
      BY <2>1, <1>7, <1>10, JoinedAt, Zenon
  <2>3. IsSeq(u) /\ Len(u) = 2 /\ u[1] = a[1] /\ u[2] = a[2]
      BY <2>2 DEF At
  <2>4. At(u, 2, d, 1, v)
      BY <2>3, <1>8, <1>10, JoinedAt, Zenon
  <2>5. IsSeq(v) /\ Len(v) = 3 /\ v[1] = a[1] /\ v[2] = a[2] /\ v[3] = d[1]
      BY <2>3, <2>4 DEF At
  <2>6. At(v, 3, e, m, w)
      BY <2>5, <1>9, <1>10, JoinedAt, Zenon
  <2>7. IsSeq(w) /\ Len(w) = 3 + m /\ w[1] = a[1] /\ w[2] = a[2] /\ w[3] = d[1]
        /\ \A i \in 1..m : w[3 + i] = e[i]
      BY <2>5, <2>6 DEF At
  <2>8. /\ IsSeq(w) /\ Len(w) = 3 + m
        /\ w[1] = On(N, "getLogger", None) /\ w[2] = On(N, "setLevel", def.level)
        /\ w[3] = On(N, "clearAppenders", None)
        /\ \A i \in 1..m : w[3 + i] = On(N, "addAppender", NewAppender(def.appenders[i]))
      BY <2>7, <1>5, <1>7, <1>8
  <2>9. Configure(N, def) = w
      BY <1>6, <1>10
  <2>10. IsConfigure(w, N, def)
      BY <2>8, <1>1 DEF IsConfigure
  <2> QED BY <2>9, <2>10
<1>12. CASE def.formatter # ""
  <2>1. IsSeq(b) /\ Len(b) = 1 /\ b[1] = On(N, "setFormatter", def.formatter)
    <3>1. b = <<On(N, "setFormatter", def.formatter)>>
        BY <1>3, <1>12
    <3> QED BY <3>1, Short
  <2>2. At(a, 2, b, 1, u)
      BY <2>1, <1>7, <1>10, JoinedAt, Zenon
  <2>3. IsSeq(u) /\ Len(u) = 3 /\ u[1] = a[1] /\ u[2] = a[2] /\ u[3] = b[1]
      BY <2>2 DEF At
  <2>4. At(u, 3, d, 1, v)
      BY <2>3, <1>8, <1>10, JoinedAt, Zenon
  <2>5. IsSeq(v) /\ Len(v) = 4 /\ v[1] = a[1] /\ v[2] = a[2] /\ v[3] = b[1] /\ v[4] = d[1]
      BY <2>3, <2>4 DEF At
  <2>6. At(v, 4, e, m, w)
      BY <2>5, <1>9, <1>10, JoinedAt, Zenon
  <2>7. IsSeq(w) /\ Len(w) = 4 + m /\ w[1] = a[1] /\ w[2] = a[2] /\ w[3] = b[1] /\ w[4] = d[1]
        /\ \A i \in 1..m : w[4 + i] = e[i]
      BY <2>5, <2>6 DEF At
  <2>8. /\ IsSeq(w) /\ Len(w) = 4 + m
        /\ w[1] = On(N, "getLogger", None) /\ w[2] = On(N, "setLevel", def.level)
        /\ w[3] = On(N, "setFormatter", def.formatter)
        /\ w[4] = On(N, "clearAppenders", None)
        /\ \A i \in 1..m : w[4 + i] = On(N, "addAppender", NewAppender(def.appenders[i]))
      BY <2>7, <2>1, <1>5, <1>7, <1>8
  <2>9. Configure(N, def) = w
      BY <1>6, <1>10
  <2>10. IsConfigure(w, N, def)
      BY <2>8, <1>1 DEF IsConfigure
  <2> QED BY <2>9, <2>10
<1> QED BY <1>11, <1>12

\* And for a logger that is no longer defined.
LEMMA RetireIs ==
    ASSUME NEW N, LoggerOf(N) = N
    PROVE  IsRetire(Retire(N), N)
  BY Short DEF IsRetire, Retire, Op, On

\* All of them are on N.
LEMMA OnlyOnN ==
    ASSUME NEW N, NEW s, NEW def, IsSeq(def.appenders), IsConfigure(s, N, def) \/ IsRetire(s, N)
    PROVE  IsSeq(s) /\ \A i \in 1..Len(s) : s[i].name = N
<1>1. PICK m \in Nat : m = Len(def.appenders)
    BY SeqFacts
<1>2. CASE IsConfigure(s, N, def)
  <2>1. PICK c \in {3, 4} :
            /\ IsSeq(s) /\ Len(s) = c + m
            /\ s[1] = On(N, "getLogger", None) /\ s[2] = On(N, "setLevel", def.level)
            /\ c = 4 => s[3] = On(N, "setFormatter", def.formatter)
            /\ s[c] = On(N, "clearAppenders", None)
            /\ \A i \in 1..m : s[c + i] = On(N, "addAppender", NewAppender(def.appenders[i]))
      BY <1>1, <1>2 DEF IsConfigure
  <2>2. ASSUME NEW i \in 1..Len(s) PROVE s[i].name = N
    <3>1. i \in {1, 2, c} \/ (c = 4 /\ i = 3) \/ (i - c \in 1..m /\ c + (i - c) = i)
        BY <2>1, <1>1
    <3>2. CASE i - c \in 1..m /\ c + (i - c) = i
      <4>1. s[i] = On(N, "addAppender", NewAppender(def.appenders[i - c]))
          BY <3>2, <2>1
      <4> QED BY <4>1 DEF On
    <3> QED BY <3>1, <3>2, <2>1 DEF On
  <2> QED BY <2>1, <2>2
<1>3. CASE IsRetire(s, N)
    BY <1>3 DEF IsRetire, On
<1> QED BY <1>2, <1>3

\* A value of "logs" as the listener needs it.
Defines(x) ==
    /\ DOMAIN x \subseteq LogNames
    /\ \A N \in DOMAIN x : LoggerOf(N) = N /\ IsSeq(x[N].appenders) /\ x[N].formatter # None

\* w is what the listener does when new replaces old: all of the operations for a logger
\* one after the other.
IsWork(w, old, new) ==
    /\ IsSeq(w)
    /\ \A N \in DOMAIN new : \E s : IsConfigure(s, N, new[N]) /\ Block(w, N, s)
    /\ \A N \in DOMAIN old \ DOMAIN new : \E s : IsRetire(s, N) /\ Block(w, N, s)
    /\ \A q \in 1..Len(w) : w[q].name \in DOMAIN new \cup DOMAIN old

\* What the listener does, logger by logger.
LEMMA LogIniterIsWork ==
    ASSUME NEW old, NEW new, Defines(new), DOMAIN old \subseteq LogNames,
           \A N \in DOMAIN old : LoggerOf(N) = N
    PROVE  IsWork(LogIniter(old, new), old, new)
<1>1. PICK G : G = DOMAIN old \ DOMAIN new
    OBVIOUS
<1>2. PICK A : A = [n \in DOMAIN new |-> Configure(n, new[n])]
    OBVIOUS
<1>3. PICK B : B = [n \in G |-> Retire(n)]
    OBVIOUS
<1>4. ASSUME NEW N \in DOMAIN new PROVE IsConfigure(A[N], N, new[N])
    BY <1>2, ConfigureIs DEF Defines
<1>5. ASSUME NEW N \in G PROVE IsRetire(B[N], N)
    BY <1>1, <1>3, RetireIs
<1>6. ForEach(A)
  <2>1. DOMAIN A = DOMAIN new
      BY <1>2
  <2>2. ASSUME NEW N \in DOMAIN new
        PROVE  IsSeq(A[N]) /\ \A i \in 1..Len(A[N]) : A[N][i].name = N
    <3>1. IsSeq(new[N].appenders)
        BY DEF Defines
    <3> QED BY <3>1, <1>4, OnlyOnN
  <2> QED BY <2>1, <2>2 DEF ForEach, Defines
<1>7. ForEach(B)
  <2>1. DOMAIN B = G
      BY <1>3
  <2>2. ASSUME NEW N \in G
        PROVE  IsSeq(B[N]) /\ \A i \in 1..Len(B[N]) : B[N][i].name = N
    <3>1. PICK def : IsSeq(def.appenders)
      <4>1. [appenders |-> <<>>].appenders = <<>>
          OBVIOUS
      <4> QED BY <4>1, EmptyIsSeq
    <3> QED BY <3>1, <1>5, OnlyOnN
  <2> QED BY <2>1, <2>2, <1>1 DEF ForEach
<1>8. PICK a, b, w : a = InOrder(A) /\ b = InOrder(B) /\ w = a \o b
    OBVIOUS
<1>9. LogIniter(old, new) = w
    BY <1>1, <1>2, <1>3, <1>8 DEF LogIniter
<1>10. Holds(a, A, LogNames) /\ Holds(b, B, LogNames)
    BY <1>6, <1>7, <1>8, InOrderHolds
<1>11. /\ IsSeq(a) /\ IsSeq(b)
       /\ \A N \in DOMAIN new : Block(a, N, A[N])
       /\ \A N \in G : Block(b, N, B[N])
       /\ \A q \in 1..Len(a) : a[q].name \in DOMAIN new
       /\ \A q \in 1..Len(b) : b[q].name \in G
  <2>1. DOMAIN A = DOMAIN new /\ DOMAIN B = G
      BY <1>2, <1>3
  <2> QED BY <2>1, <1>1, <1>10 DEF Holds, Defines
<1>12. ASSUME NEW N \in DOMAIN new PROVE Block(w, N, A[N])
  <2>1. \A q \in 1..Len(b) : b[q].name # N
      BY <1>1, <1>11
  <2>2. IsSeq(A[N])
      BY <1>4 DEF IsConfigure
  <2> QED BY <2>1, <2>2, <1>8, <1>11, BlockBefore
<1>13. ASSUME NEW N \in G PROVE Block(w, N, B[N])
  <2>1. \A q \in 1..Len(a) : a[q].name # N
      BY <1>1, <1>11
  <2>2. IsSeq(B[N])
      BY <1>5 DEF IsRetire
  <2> QED BY <2>1, <2>2, <1>8, <1>11, BlockBehind
<1>14. Joined(a, b, w)
    BY <1>8, <1>11, Concat
<1>15. ASSUME NEW q \in 1..Len(w) PROVE w[q].name \in DOMAIN new \cup DOMAIN old
  <2>1. PICK m, n \in Nat : m = Len(a) /\ n = Len(b)
      BY <1>11, SeqFacts
  <2>2. CASE q <= m
    <3>1. q \in 1..m /\ w[q] = a[q]
        BY <2>1, <2>2, <1>14 DEF Joined
    <3> QED BY <3>1, <2>1, <1>11
  <2>3. CASE q > m
    <3>1. q - m \in 1..n /\ w[q] = b[q - m]
        BY <2>1, <2>3, <1>14 DEF Joined
    <3> QED BY <3>1, <2>1, <1>1, <1>11
  <2> QED BY <2>1, <2>2, <2>3, <1>14 DEF Joined
<1>16. IsSeq(w)
    BY <1>14 DEF Joined
<1>17. IsWork(w, old, new)
    BY <1>1, <1>4, <1>5, <1>12, <1>13, <1>15, <1>16 DEF IsWork
<1> QED BY <1>9, <1>17

\* The level of N is set once more, to lev, or it is lev already.
SetsLevel(op, N) == op.name = N /\ op.do = "setLevel"
LevelLeft(w, N, lev) ==
    \E b \in 1..Len(w) : /\ w[b] = On(N, "setLevel", lev)
                         /\ \A j \in 1..Len(w) : j > b => ~SetsLevel(w[j], N)
LevelSet(w, ls, N, lev) ==
    /\ \A j \in 1..Len(w) : ~SetsLevel(w[j], N)
    /\ N \in DOMAIN ls /\ ls[N].level = lev

\* The i-th appender of a definition is added.
Adds(op, N, def, i) == op = On(N, "addAppender", NewAppender(def.appenders[i]))

\* N's appenders are taken away once more and those of the definition added behind that.
AppendersLeft(w, N, def) ==
    \E b \in 1..Len(w) :
        /\ w[b] = On(N, "clearAppenders", None) /\ b + Len(def.appenders) <= Len(w)
        /\ \A i \in 1..Len(def.appenders) : Adds(w[b + i], N, def, i)
        /\ \A j \in 1..Len(w) : j > b + Len(def.appenders) => w[j].name # N

\* An operation that the listener has.
IsOp(op) ==
    \/ op.do \in {"getLogger", "setLevel", "clearAppenders"}
    \/ op.do = "setFormatter" /\ op.arg # None
    \/ op.do = "addAppender" /\ \E a : op.arg = NewAppender(a)

\* The logger of the i-th operation has been made before, or is made by it.
Gets(w, i) == \E j \in 1..i : w[j].do = "getLogger" /\ w[j].name = w[i].name

\* Root gets an appender after it has lost its own.
Refilled(w, i) ==
    w[i].do = "clearAppenders" =>
        \E j \in 1..Len(w) : j > i /\ w[j].name = w[i].name /\ w[j].do = "addAppender"

\* What one logger's block of operations amounts to.
LEMMA BlockConfigures ==
    ASSUME NEW w, IsSeq(w), NEW N, NEW def, IsSeq(def.appenders), def.formatter # None,
           NEW s, IsConfigure(s, N, def), Block(w, N, s)
    PROVE  /\ LevelLeft(w, N, def.level) /\ AppendersLeft(w, N, def)
           /\ \A q \in 1..Len(w) : w[q].name = N =>
                  /\ IsOp(w[q]) /\ Gets(w, q)
                  /\ Len(def.appenders) # 0 => Refilled(w, q)
<1>1. PICK m, n \in Nat : m = Len(def.appenders) /\ n = Len(w)
    BY SeqFacts
<1>2. PICK c \in {3, 4} :
          /\ Len(s) = c + m
          /\ s[1] = On(N, "getLogger", None) /\ s[2] = On(N, "setLevel", def.level)
          /\ c = 4 => s[3] = On(N, "setFormatter", def.formatter)
          /\ s[c] = On(N, "clearAppenders", None)
          /\ \A i \in 1..m : s[c + i] = On(N, "addAppender", NewAppender(def.appenders[i]))
    BY <1>1 DEF IsConfigure
<1>3. PICK p \in Nat : /\ p + (c + m) <= n
                       /\ \A i \in 1..(c + m) : w[p + i] = s[i]
                       /\ \A q \in 1..n : q <= p \/ q > p + (c + m) => w[q].name # N
    BY <1>1, <1>2 DEF Block
<1>4. /\ w[p + 1] = On(N, "getLogger", None) /\ w[p + 2] = On(N, "setLevel", def.level)
      /\ c = 4 => w[p + 3] = On(N, "setFormatter", def.formatter)
      /\ w[p + c] = On(N, "clearAppenders", None)
  <2>1. 1 \in 1..(c + m) /\ 2 \in 1..(c + m) /\ 3 \in 1..(c + m) /\ c \in 1..(c + m)
      BY <1>2
  <2> QED BY <2>1, <1>2, <1>3
<1>5. ASSUME NEW i \in 1..m
      PROVE  w[(p + c) + i] = On(N, "addAppender", NewAppender(def.appenders[i]))
  <2>1. c \in Nat /\ p \in Nat /\ m \in Nat
      BY <1>2
  <2>2. c + i \in 1..(c + m) /\ (p + c) + i = p + (c + i)
      BY <2>1
  <2>3. w[p + (c + i)] = s[c + i]
      BY <2>2, <1>3
  <2>4. s[c + i] = On(N, "addAppender", NewAppender(def.appenders[i]))
      BY <1>2
  <2> QED BY <2>2, <2>3, <2>4
<1>6. ASSUME NEW q, NEW i \in 1..m, q = (p + c) + i
       PROVE  /\ w[q].name = N /\ w[q].do = "addAppender"
              /\ w[q].arg = NewAppender(def.appenders[i])
  <2>1. w[q] = On(N, "addAppender", NewAppender(def.appenders[i]))
      BY <1>5, <1>6
  <2> QED BY <2>1 DEF On
<1>7. ASSUME NEW q \in 1..n, w[q].name = N
      PROVE  \/ q \in {p + 1, p + 2, p + c} \/ (c = 4 /\ q = p + 3)
             \/ \E i \in 1..m : q = (p + c) + i
  <2>1. q > p /\ q <= p + (c + m)
      BY <1>3, <1>7
  <2>2. CASE q > p + c
    <3>1. q - (p + c) \in 1..m /\ q = (p + c) + (q - (p + c))
        BY <2>1, <2>2, <1>2, <1>3
    <3> QED BY <3>1
  <2>3. CASE q <= p + c
      BY <2>1, <2>3, <1>2, <1>3
  <2> QED BY <2>2, <2>3, <1>2, <1>3
<1>8. LevelLeft(w, N, def.level)
  <2>1. p + 2 \in 1..n
      BY <1>2, <1>3
  <2>2. ASSUME NEW j \in 1..n, j > p + 2 PROVE ~SetsLevel(w[j], N)
    <3>1. SUFFICES ASSUME w[j].name = N PROVE w[j].do # "setLevel"
        BY DEF SetsLevel
    <3>2. \/ j = p + c \/ (c = 4 /\ j = p + 3)
          \/ \E i \in 1..m : j = (p + c) + i
        BY <3>1, <2>2, <1>3, <1>7
    <3>3. CASE j = p + c \/ (c = 4 /\ j = p + 3)
        BY <3>3, <1>4 DEF On
    <3>4. CASE \E i \in 1..m : j = (p + c) + i
        BY <3>4, <1>6
    <3> QED BY <3>2, <3>3, <3>4
  <2> QED BY <2>1, <2>2, <1>1, <1>4 DEF LevelLeft
<1>9. AppendersLeft(w, N, def)
  <2>1. p + c \in 1..n /\ (p + c) + m <= n
      BY <1>2, <1>3
  <2>2. \A j \in 1..n : j > (p + c) + m => w[j].name # N
      BY <1>2, <1>3
  <2>3. \A i \in 1..m : Adds(w[(p + c) + i], N, def, i)
      BY <1>5 DEF Adds
  <2>4. PICK b : b = p + c
      OBVIOUS
  <2> QED BY <2>1, <2>2, <2>3, <2>4, <1>1, <1>4 DEF AppendersLeft
<1>10. ASSUME NEW q \in 1..n, w[q].name = N
      PROVE  IsOp(w[q]) /\ Gets(w, q) /\ (m # 0 => Refilled(w, q))
  <2>1. \/ q \in {p + 1, p + 2, p + c} \/ (c = 4 /\ q = p + 3)
        \/ \E i \in 1..m : q = (p + c) + i
      BY <1>7, <1>10
  <2>2. Gets(w, q)
    <3>1. p + 1 \in 1..q
        BY <2>1, <1>2, <1>3
    <3>2. w[p + 1].do = "getLogger" /\ w[p + 1].name = w[q].name
        BY <1>4, <1>10 DEF On
    <3> QED BY <3>1, <3>2 DEF Gets
  <2>3. IsOp(w[q])
    <3>1. CASE q \in {p + 1, p + 2, p + c} \/ (c = 4 /\ q = p + 3)
        BY <3>1, <1>4 DEF On, IsOp
    <3>2. CASE \E i \in 1..m : q = (p + c) + i
        BY <3>2, <1>6 DEF IsOp
    <3> QED BY <2>1, <3>1, <3>2
  <2>4. ASSUME m # 0 PROVE Refilled(w, q)
    <3>1. SUFFICES ASSUME w[q].do = "clearAppenders"
                   PROVE  \E j \in 1..n : j > q /\ w[j].name = w[q].name /\ w[j].do = "addAppender"
        BY <1>1 DEF Refilled
    <3>2. q = p + c
      <4>1. CASE q \in {p + 1, p + 2} \/ (c = 4 /\ q = p + 3)
          BY <4>1, <3>1, <1>4 DEF On
      <4>2. CASE \E i \in 1..m : q = (p + c) + i
          BY <4>2, <3>1, <1>6
      <4> QED BY <2>1, <4>1, <4>2
    <3>3. 1 \in 1..m /\ (p + c) + 1 \in 1..n /\ (p + c) + 1 > q
        BY <2>4, <3>2, <1>2, <1>3
    <3>4. w[(p + c) + 1].name = w[q].name /\ w[(p + c) + 1].do = "addAppender"
        BY <3>3, <1>6, <1>10
    <3> QED BY <3>3, <3>4
  <2> QED BY <2>2, <2>3, <2>4
<1> QED BY <1>1, <1>8, <1>9, <1>10

\* The same of a logger that is retired.
LEMMA BlockRetires ==
    ASSUME NEW w, IsSeq(w), NEW N, NEW s, IsRetire(s, N), Block(w, N, s)
    PROVE  /\ LevelLeft(w, N, Removed)
           /\ \A q \in 1..Len(w) : w[q].name = N => IsOp(w[q]) /\ Gets(w, q)
<1>1. PICK n \in Nat : n = Len(w)
    BY SeqFacts
<1>2. Len(s) = 3
    BY DEF IsRetire
<1>3. PICK p \in Nat : /\ p + 3 <= n
                       /\ \A i \in 1..3 : w[p + i] = s[i]
                       /\ \A q \in 1..n : q <= p \/ q > p + 3 => w[q].name # N
    BY <1>1, <1>2 DEF Block
<1>4. /\ w[p + 1] = On(N, "getLogger", None) /\ w[p + 2] = On(N, "setLevel", Removed)
      /\ w[p + 3] = On(N, "clearAppenders", None)
    BY <1>3 DEF IsRetire
<1>5. ASSUME NEW q \in 1..n, w[q].name = N PROVE q \in {p + 1, p + 2, p + 3}
    BY <1>3, <1>5
<1>6. LevelLeft(w, N, Removed)
  <2>1. p + 2 \in 1..n
      BY <1>3
  <2>2. ASSUME NEW j \in 1..n, j > p + 2 PROVE ~SetsLevel(w[j], N)
    <3>1. SUFFICES ASSUME w[j].name = N PROVE w[j].do # "setLevel"
        BY DEF SetsLevel
    <3>2. j = p + 3
        BY <3>1, <2>2, <1>3, <1>5
    <3> QED BY <3>2, <1>4 DEF On
  <2> QED BY <2>1, <2>2, <1>1, <1>4 DEF LevelLeft
<1>7. ASSUME NEW q \in 1..n, w[q].name = N PROVE IsOp(w[q]) /\ Gets(w, q)
  <2>1. q \in {p + 1, p + 2, p + 3}
      BY <1>5, <1>7
  <2>2. p + 1 \in 1..q
      BY <2>1, <1>3
  <2>3. w[p + 1].do = "getLogger" /\ w[p + 1].name = w[q].name
      BY <1>4, <1>7 DEF On
  <2>4. IsOp(w[q])
      BY <2>1, <1>4 DEF On, IsOp
  <2> QED BY <2>2, <2>3, <2>4 DEF Gets
<1> QED BY <1>1, <1>6, <1>7

-----------------------------------------------------------------------------
(* The loggers they are done on. *)

\* An appender and a logger as they are in a program: both have a formatter.
Fields(a) == DOMAIN a = {"type", "file", "level", "formatter", "own"}
IsAppender(a) == DOMAIN a = {"type", "file", "level", "formatter", "own"} /\ a.formatter # None
IsLogger(l) ==
    /\ DOMAIN l = {"level", "formatter", "appenders"} /\ l.formatter # None
    /\ IsSeq(l.appenders) /\ \A i \in 1..Len(l.appenders) : IsAppender(l.appenders[i])

\* x is the appender made of a in the logger l: its formatter is its own or l's.
Made(x, a, l) ==
    /\ x.type = a.type /\ x.file = a.file /\ x.level = a.level /\ x.own = a.own
    /\ x.formatter = IF a.own THEN a.formatter ELSE l.formatter

\* The listener's new appender has a formatter of its own or none.
LEMMA NewAppenderIs ==
    ASSUME NEW a, a.formatter # None, NEW x, x = NewAppender(a)
    PROVE  /\ Fields(x)
           /\ IF x.own THEN x.formatter # None ELSE x.formatter = None
<1>1. PICK own : own = (a.formatter \notin {"", BadPattern})
    BY Zenon
<1>2. x = [type |-> a.type, file |-> a.file, level |-> a.level, own |-> own,
           formatter |-> IF own THEN a.formatter ELSE None]
    BY <1>1, Zenon DEF NewAppender
<1>3. Fields(x)
    BY <1>2 DEF Fields
<1>4. x.own = own /\ x.formatter = IF own THEN a.formatter ELSE None
    BY <1>2
<1> QED BY <1>3, <1>4

\* Without the assumption on a, for the types alone.
LEMMA NewAppenderType ==
    ASSUME NEW a, NEW x, x = NewAppender(a)
    PROVE  Fields(x)
<1>1. PICK own : own = (a.formatter \notin {"", BadPattern})
    BY Zenon
<1>2. x = [type |-> a.type, file |-> a.file, level |-> a.level, own |-> own,
           formatter |-> IF own THEN a.formatter ELSE None]
    BY <1>1, Zenon DEF NewAppender
<1> QED BY <1>2 DEF Fields

\* k is l with one appender more, which has l's formatter if a has none.
OneMoreAppender(l, a, k) ==
    /\ IsLogger(k) /\ k.level = l.level /\ k.formatter = l.formatter
    /\ Len(k.appenders) = Len(l.appenders) + 1
    /\ \A i \in 1..Len(l.appenders) : k.appenders[i] = l.appenders[i]
    /\ k.appenders[Len(l.appenders) + 1] =
          IF a.formatter = None THEN [a EXCEPT !.formatter = l.formatter] ELSE a

\* addAppender()
LEMMA PlusAppenderIs ==
    ASSUME NEW l, IsLogger(l), NEW a, Fields(a)
    PROVE  OneMoreAppender(l, a, PlusAppender(l, a))
<1> SUFFICES ASSUME NEW k, k = PlusAppender(l, a) PROVE OneMoreAppender(l, a, k)
    OBVIOUS
<1>1. PICK x : x = IF a.formatter = None THEN [a EXCEPT !.formatter = l.formatter] ELSE a
    OBVIOUS
<1>2. IsAppender(x)
    BY <1>1 DEF Fields, IsAppender, IsLogger
<1>3. k = [l EXCEPT !.appenders = Append(@, x)]
    BY <1>1 DEF PlusAppender
<1>10. PICK s : s = l.appenders /\ IsSeq(s)
    BY DEF IsLogger
<1>11. PICK n \in Nat : n = Len(s)
    BY <1>10, SeqFacts
<1>4. s = l.appenders /\ IsSeq(s) /\ n = Len(s) /\ n \in Nat
    BY <1>10, <1>11
<1>5. PICK t : t = Append(s, x)
    OBVIOUS
<1>6. /\ DOMAIN k = {"level", "formatter", "appenders"} /\ k.appenders = t
      /\ k.level = l.level /\ k.formatter = l.formatter
    BY <1>3, <1>4, <1>5 DEF IsLogger
<1>7. IsSeq(t) /\ Len(t) = n + 1 /\ (\A i \in 1..n : t[i] = s[i]) /\ t[n + 1] = x
    BY <1>4, <1>5, Appended
<1>8. \A i \in 1..(n + 1) : IsAppender(t[i])
  <2>1. \A i \in 1..n : IsAppender(s[i])
      BY <1>4 DEF IsLogger
  <2>2. \A i \in 1..(n + 1) : i \in 1..n \/ i = n + 1
      BY <1>4
  <2> QED BY <2>1, <2>2, <1>2, <1>7
<1>9. IsLogger(k)
    BY <1>6, <1>7, <1>8 DEF IsLogger
<1> QED BY <1>1, <1>4, <1>6, <1>7, <1>9 DEF OneMoreAppender

\* A logger keeps its level and its appenders, which follow its formatter.
Keeps(l, k) ==
    /\ k.level = l.level /\ Len(k.appenders) = Len(l.appenders)
    /\ \A i \in 1..Len(l.appenders) : \A a : Made(l.appenders[i], a, l) => Made(k.appenders[i], a, k)

\* setFormatter()
LEMMA WithFormatterIs ==
    ASSUME NEW l, IsLogger(l), NEW fmt, fmt # None, NEW k, k = WithFormatter(l, fmt)
    PROVE  IsLogger(k) /\ Keeps(l, k)
<1>1. CASE fmt = BadPattern
    BY <1>1 DEF WithFormatter, Keeps
<1>2. CASE fmt # BadPattern
  <2>8. PICK s : s = l.appenders /\ IsSeq(s)
      BY DEF IsLogger
  <2>9. PICK n \in Nat : n = Len(s) /\ DOMAIN s = 1..n
      BY <2>8, SeqFacts
  <2>1. s = l.appenders /\ IsSeq(s) /\ n = Len(s) /\ n \in Nat /\ DOMAIN s = 1..n
      BY <2>8, <2>9
  <2>2. PICK t : t = [i \in 1..n |-> IF s[i].own THEN s[i] ELSE [s[i] EXCEPT !.formatter = fmt]]
      OBVIOUS
  <2>3. k = [l EXCEPT !.formatter = fmt, !.appenders = t]
      BY <2>1, <2>2, <1>2 DEF WithFormatter
  <2>4. /\ DOMAIN k = {"level", "formatter", "appenders"} /\ k.appenders = t
        /\ k.level = l.level /\ k.formatter = fmt
      BY <2>3 DEF IsLogger
  <2>5. IsSeq(t) /\ Len(t) = n
    <3>1. t \in [1..n -> Range(t)]
        BY <2>2 DEF Range
    <3> QED BY <3>1, FunctionIsSeq
  <2>6. ASSUME NEW i \in 1..n
        PROVE  /\ IsAppender(t[i])
               /\ \A a : Made(s[i], a, l) => Made(t[i], a, k)
    <3>1. IsAppender(s[i])
        BY <2>1 DEF IsLogger
    <3>2. CASE s[i].own
      <4>1. t[i] = s[i]
          BY <3>2, <2>2
      <4> QED BY <4>1, <3>1, <3>2 DEF Made
    <3>3. CASE ~s[i].own
      <4>1. t[i] = [s[i] EXCEPT !.formatter = fmt]
          BY <3>3, <2>2
      <4>2. /\ DOMAIN t[i] = {"type", "file", "level", "formatter", "own"} /\ t[i].formatter = fmt
            /\ t[i].type = s[i].type /\ t[i].file = s[i].file /\ t[i].level = s[i].level /\ t[i].own = s[i].own
          BY <4>1, <3>1 DEF IsAppender
      <4> QED BY <4>2, <3>3, <2>4 DEF IsAppender, Made
    <3> QED BY <3>2, <3>3
  <2>7. IsLogger(k)
      BY <2>4, <2>5, <2>6 DEF IsLogger
  <2> QED BY <2>1, <2>4, <2>5, <2>6, <2>7 DEF Keeps
<1> QED BY <1>1, <1>2

\* Every operation of the listener leaves a logger, and only setLevel() changes its level.
LEMMA AppliedIs ==
    ASSUME NEW l, IsLogger(l), NEW op, IsOp(op), NEW k, k = Applied(l, op)
    PROVE  /\ IsLogger(k)
           /\ op.do = "setLevel" => k.level = op.arg
           /\ op.do # "setLevel" => k.level = l.level
           /\ op.do = "clearAppenders" => k.appenders = <<>> /\ Len(k.appenders) = 0
           /\ op.do = "addAppender" => k = PlusAppender(l, op.arg)
           /\ op.do \in {"getLogger", "setLevel"} => k.appenders = l.appenders
           /\ op.do = "setFormatter" => Len(k.appenders) = Len(l.appenders)
<1>1. CASE op.do = "setLevel"
  <2>1. k = [l EXCEPT !.level = op.arg]
      BY <1>1 DEF Applied
  <2>2. /\ DOMAIN k = {"level", "formatter", "appenders"} /\ k.level = op.arg
        /\ k.formatter = l.formatter /\ k.appenders = l.appenders
      BY <2>1 DEF IsLogger
  <2> QED BY <2>2, <1>1 DEF IsLogger
<1>2. CASE op.do = "setFormatter"
  <2>1. k = WithFormatter(l, op.arg) /\ op.arg # None
      BY <1>2 DEF Applied, IsOp
  <2>2. IsLogger(k) /\ k.level = l.level /\ Len(k.appenders) = Len(l.appenders)
      BY <2>1, WithFormatterIs DEF Keeps
  <2> QED BY <2>2, <1>2
<1>3. CASE op.do = "clearAppenders"
  <2>1. k = [l EXCEPT !.appenders = <<>>]
      BY <1>3 DEF Applied
  <2>2. /\ DOMAIN k = {"level", "formatter", "appenders"} /\ k.level = l.level
        /\ k.formatter = l.formatter /\ k.appenders = <<>>
      BY <2>1 DEF IsLogger
  <2>3. IsLogger(k)
      BY <2>2, EmptyIsSeq DEF IsLogger
  <2> QED BY <2>2, <2>3, <1>3, EmptyIsSeq
<1>4. CASE op.do = "addAppender"
  <2>1. k = PlusAppender(l, op.arg)
      BY <1>4 DEF Applied
  <2>2. Fields(op.arg)
      BY <1>4, NewAppenderType DEF IsOp
  <2>3. IsLogger(k) /\ k.level = l.level
    <3>1. OneMoreAppender(l, op.arg, k)
        BY <2>1, <2>2, PlusAppenderIs
    <3> QED BY <3>1 DEF OneMoreAppender
  <2> QED BY <2>1, <2>3, <1>4
<1>5. CASE op.do = "getLogger"
    BY <1>5 DEF Applied
<1> QED BY <1>1, <1>2, <1>3, <1>4, <1>5 DEF IsOp

\* What a listener has left while the loggers in D exist: every operation is on a logger
\* that exists by then, and root gets an appender after it has lost its own.
WorkOK(w, D) ==
    /\ IsSeq(w)
    /\ \A i \in 1..Len(w) : /\ IsOp(w[i]) /\ (w[i].name \in D \/ Gets(w, i))
                            /\ w[i].name = "root" => Refilled(w, i)

\* N has the first k appenders of the definition; the others come next.
BuiltTo(w, ls, N, def, k, r) ==
    /\ k + r = Len(def.appenders) /\ r <= Len(w)
    /\ N \in DOMAIN ls /\ Len(ls[N].appenders) = k
    /\ \A i \in 1..k : Made(ls[N].appenders[i], NewAppender(def.appenders[i]), ls[N])
    /\ \A i \in 1..r : Adds(w[i], N, def, k + i)
    /\ \A j \in 1..Len(w) : j > r => w[j].name # N
AppendersBuilt(w, ls, N, def) == \E k, r \in Nat : BuiltTo(w, ls, N, def, k, r)

\* With the operations w the loggers ls become what new says instead of old.
LevelGets(w, ls, N, lev) == LevelLeft(w, N, lev) \/ LevelSet(w, ls, N, lev)
Progress(w, ls, old, new) ==
    /\ \A N \in DOMAIN new : /\ LevelGets(w, ls, N, new[N].level)
                             /\ AppendersLeft(w, N, new[N]) \/ AppendersBuilt(w, ls, N, new[N])
    /\ \A N \in DOMAIN old \ DOMAIN new : LevelGets(w, ls, N, Removed)

\* The listener begins: its operations are in order, and all is still to be done.
LEMMA WorkBegins ==
    ASSUME NEW old, NEW new, NEW w, IsWork(w, old, new), Defines(new),
           "root" \in DOMAIN new, Len(new["root"].appenders) # 0, NEW ls
    PROVE  WorkOK(w, {}) /\ Progress(w, ls, old, new)
<1>1. IsSeq(w)
    BY DEF IsWork
<1>2. ASSUME NEW N \in DOMAIN new
      PROVE  /\ LevelLeft(w, N, new[N].level) /\ AppendersLeft(w, N, new[N])
             /\ \A q \in 1..Len(w) : w[q].name = N =>
                    /\ IsOp(w[q]) /\ Gets(w, q)
                    /\ Len(new[N].appenders) # 0 => Refilled(w, q)
  <2>1. PICK s : IsConfigure(s, N, new[N]) /\ Block(w, N, s)
      BY DEF IsWork
  <2>2. IsSeq(new[N].appenders) /\ new[N].formatter # None
      BY DEF Defines
  <2> QED BY <1>1, <2>1, <2>2, BlockConfigures
<1>3. ASSUME NEW N \in DOMAIN old \ DOMAIN new
      PROVE  /\ LevelLeft(w, N, Removed)
             /\ \A q \in 1..Len(w) : w[q].name = N => IsOp(w[q]) /\ Gets(w, q)
  <2>1. PICK s : IsRetire(s, N) /\ Block(w, N, s)
      BY DEF IsWork
  <2> QED BY <1>1, <2>1, BlockRetires
<1>4. Progress(w, ls, old, new)
    BY <1>2, <1>3 DEF Progress, LevelGets
<1>5. ASSUME NEW q \in 1..Len(w)
      PROVE  IsOp(w[q]) /\ Gets(w, q) /\ (w[q].name = "root" => Refilled(w, q))
  <2>1. w[q].name \in DOMAIN new \/ w[q].name \in DOMAIN old \ DOMAIN new
      BY DEF IsWork
  <2>2. CASE w[q].name \in DOMAIN new
      BY <1>2, <2>2
  <2>3. CASE w[q].name \in DOMAIN old \ DOMAIN new
      BY <1>3, <2>3
  <2> QED BY <2>1, <2>2, <2>3
<1> QED BY <1>1, <1>4, <1>5 DEF WorkOK

\* An operation more is done.
LEMMA WorkGoesOn ==
    ASSUME NEW w, NEW D, WorkOK(w, D), w # <<>>, NEW E, D \subseteq E, Head(w).name \in E
    PROVE  WorkOK(Tail(w), E)
<1>1. PICK v, n : v = Tail(w) /\ n = Len(w)
    OBVIOUS
<1>2. /\ IsSeq(v) /\ n \in Nat \ {0} /\ Len(v) = n - 1 /\ Head(w) = w[1]
      /\ \A i \in 1..(n - 1) : v[i] = w[i + 1]
    BY <1>1, Rest DEF WorkOK
<1>3. ASSUME NEW i \in 1..(n - 1)
      PROVE  /\ IsOp(v[i]) /\ (v[i].name \in E \/ Gets(v, i))
             /\ v[i].name = "root" => Refilled(v, i)
  <2>1. i + 1 \in 1..n /\ v[i] = w[i + 1]
      BY <1>2, <1>3
  <2>2. /\ IsOp(w[i + 1]) /\ (w[i + 1].name \in D \/ Gets(w, i + 1))
        /\ w[i + 1].name = "root" => Refilled(w, i + 1)
      BY <1>1, <2>1 DEF WorkOK
  <2>3. ASSUME Gets(w, i + 1) PROVE v[i].name \in E \/ Gets(v, i)
    <3>1. PICK j \in 1..(i + 1) : w[j].do = "getLogger" /\ w[j].name = w[i + 1].name
        BY <2>3 DEF Gets
    <3>2. CASE j = 1
        BY <3>1, <3>2, <2>1, <1>2
    <3>3. CASE j # 1
      <4>1. j - 1 \in 1..i /\ j - 1 \in 1..(n - 1) /\ (j - 1) + 1 = j
          BY <3>1, <3>3, <1>2, <1>3
      <4>2. v[j - 1] = w[j]
          BY <4>1, <1>2
      <4> QED BY <4>1, <4>2, <3>1, <2>1 DEF Gets
    <3> QED BY <3>2, <3>3
  <2>4. ASSUME Refilled(w, i + 1) PROVE Refilled(v, i)
    <3> SUFFICES ASSUME v[i].do = "clearAppenders"
                 PROVE  \E j \in 1..(n - 1) : j > i /\ v[j].name = v[i].name /\ v[j].do = "addAppender"
        BY <1>2 DEF Refilled
    <3>1. PICK j \in 1..n : j > i + 1 /\ w[j].name = w[i + 1].name /\ w[j].do = "addAppender"
        BY <2>1, <2>4, <1>1 DEF Refilled
    <3>2. j - 1 \in 1..(n - 1) /\ j - 1 > i /\ (j - 1) + 1 = j
        BY <3>1, <1>2
    <3>3. v[j - 1] = w[j]
        BY <3>2, <1>2
    <3> QED BY <3>1, <3>2, <3>3, <2>1
  <2> QED BY <2>1, <2>2, <2>3, <2>4
<1> QED BY <1>1, <1>2, <1>3 DEF WorkOK

\* More loggers do no harm.
LEMMA WorkStays ==
    ASSUME NEW w, NEW D, WorkOK(w, D), NEW E, D \subseteq E
    PROVE  WorkOK(w, E)
  BY DEF WorkOK

\* The loggers after one operation of the listener.
After(ls, op) ==
    [n \in DOMAIN ls \cup {op.name} |->
       IF n \notin DOMAIN ls THEN NewLogger(n)
       ELSE IF n = op.name THEN Applied(ls[n], op)
       ELSE ls[n]]

\* All loggers are as they should be.
AreLoggers(ls) == \A N \in DOMAIN ls : IsLogger(ls[N])

\* A logger as it is made.
LEMMA NewLoggerIs ==
    ASSUME NEW N
    PROVE  IsLogger(NewLogger(N)) /\ (N = "root" => NewLogger(N).appenders # <<>>)
<1> DEFINE a == [type |-> "StdoutLogAppender", file |-> "", level |-> DEBUG, formatter |-> "default",
                 own |-> FALSE]
<1>1. IsAppender(a)
    BY LogAssumption DEF IsAppender
<1>2. PICK s : s = IF N = "root" THEN <<a>> ELSE <<>>
    OBVIOUS
<1>3. IsSeq(s) /\ \A i \in 1..Len(s) : IsAppender(s[i])
  <2>1. CASE N = "root"
    <3>1. PICK y : y = a
        OBVIOUS
    <3>2. IsSeq(<<y>>) /\ Len(<<y>>) = 1 /\ <<y>>[1] = y
        BY Short
    <3>3. s = <<y>>
        BY <2>1, <3>1, <1>2
    <3>4. IsSeq(s) /\ Len(s) = 1 /\ s[1] = y
        BY <3>2, <3>3
    <3> HIDE DEF a
    <3> QED BY <3>1, <3>4, <1>1
  <2>2. CASE N # "root"
    <3>1. s = <<>>
        BY <2>2, <1>2
    <3> QED BY <3>1, EmptyIsSeq
  <2> QED BY <2>1, <2>2
<1>4. NewLogger(N) = [level |-> DEBUG, formatter |-> "default", appenders |-> s]
    BY <1>2 DEF NewLogger
<1>5. N = "root" => s # <<>>
    BY <1>2
<1> QED BY <1>3, <1>4, <1>5, LogAssumption DEF IsLogger

\* Only the logger of the operation changes.
IsAfter(ls, op, k) ==
    /\ AreLoggers(k) /\ DOMAIN k = DOMAIN ls \cup {op.name}
    /\ \A N \in DOMAIN ls : N # op.name => k[N] = ls[N]
    /\ op.name \in DOMAIN ls => k[op.name] = Applied(ls[op.name], op)

\* An operation leaves loggers.
LEMMA AfterIs ==
    ASSUME NEW ls, AreLoggers(ls), NEW op, IsOp(op), NEW k, k = After(ls, op)
    PROVE  IsAfter(ls, op, k)
<1>1. /\ DOMAIN k = DOMAIN ls \cup {op.name}
      /\ \A N \in DOMAIN ls : N # op.name => k[N] = ls[N]
      /\ op.name \in DOMAIN ls => k[op.name] = Applied(ls[op.name], op)
      /\ op.name \notin DOMAIN ls => k[op.name] = NewLogger(op.name)
    BY DEF After
<1>2. ASSUME NEW N \in DOMAIN k PROVE IsLogger(k[N])
  <2>1. CASE N # op.name
      BY <1>1, <2>1 DEF AreLoggers
  <2>2. CASE N = op.name /\ N \in DOMAIN ls
    <3>1. IsLogger(ls[N])
        BY <2>2 DEF AreLoggers
    <3> QED BY <3>1, <2>2, <1>1, AppliedIs
  <2>3. CASE N = op.name /\ N \notin DOMAIN ls
      BY <2>3, <1>1, NewLoggerIs
  <2> QED BY <2>1, <2>2, <2>3
<1> QED BY <1>1, <1>2 DEF AreLoggers, IsAfter

\* The level that N is to get.
LEMMA LevelGoesOn ==
    ASSUME NEW ls, AreLoggers(ls), NEW w, WorkOK(w, DOMAIN ls), w # <<>>,
           NEW N, NEW lev, LevelGets(w, ls, N, lev)
    PROVE  LevelGets(Tail(w), After(ls, Head(w)), N, lev)
<1>1. PICK v, n, k : v = Tail(w) /\ n = Len(w) /\ k = After(ls, Head(w))
    OBVIOUS
<1>2. /\ IsSeq(v) /\ n \in Nat \ {0} /\ Len(v) = n - 1 /\ Head(w) = w[1]
      /\ \A i \in 1..(n - 1) : v[i] = w[i + 1]
    BY <1>1, Rest DEF WorkOK
<1>3. IsOp(w[1]) /\ (w[1].name \in DOMAIN ls \/ w[1].do = "getLogger")
    BY <1>1, <1>2 DEF WorkOK, Gets
<1>4. /\ AreLoggers(k) /\ DOMAIN k = DOMAIN ls \cup {w[1].name}
      /\ \A M \in DOMAIN ls : M # w[1].name => k[M] = ls[M]
      /\ w[1].name \in DOMAIN ls => k[w[1].name] = Applied(ls[w[1].name], w[1])
  <2>1. PICK op : op = w[1]
      OBVIOUS
  <2>2. IsOp(op) /\ k = After(ls, op)
      BY <2>1, <1>1, <1>2, <1>3
  <2>3. IsAfter(ls, op, k)
      BY <2>2, AfterIs
  <2> QED BY <2>1, <2>3 DEF IsAfter
<1>5. ASSUME NEW j \in 1..(n - 1)
      PROVE  j + 1 \in 1..n /\ v[j] = w[j + 1]
    BY <1>2, <1>5
<1>6. ASSUME NEW b \in 1..n, w[b] = On(N, "setLevel", lev),
             \A j \in 1..n : j > b => ~SetsLevel(w[j], N)
      PROVE  LevelGets(v, k, N, lev)
  <2>1. CASE b = 1
    <3>1. w[1].name = N /\ w[1].do = "setLevel" /\ w[1].arg = lev
        BY <1>6, <2>1 DEF On
    <3>2. N \in DOMAIN ls
        BY <3>1, <1>3
    <3>3. IsLogger(ls[N])
        BY <3>2 DEF AreLoggers
    <3>4. k[N] = Applied(ls[N], w[1])
        BY <3>1, <3>2, <1>4
    <3>5. k[N].level = lev
        BY <3>1, <3>3, <3>4, <1>3, AppliedIs
    <3>6. \A j \in 1..(n - 1) : ~SetsLevel(v[j], N)
        BY <1>5, <1>6, <2>1
    <3>7. N \in DOMAIN k
        BY <3>2, <1>4
    <3> QED BY <3>5, <3>6, <3>7, <1>2 DEF LevelGets, LevelSet
  <2>2. CASE b # 1
    <3>1. b - 1 \in 1..(n - 1) /\ (b - 1) + 1 = b
        BY <2>2, <1>2, <1>6
    <3>2. v[b - 1] = w[b]
        BY <3>1, <1>5
    <3>3. ASSUME NEW j \in 1..(n - 1), j > b - 1 PROVE ~SetsLevel(v[j], N)
        BY <3>3, <3>1, <1>5, <1>6
    <3> QED BY <3>1, <3>2, <3>3, <1>2, <1>6 DEF LevelGets, LevelLeft
  <2> QED BY <2>1, <2>2
<1>7. ASSUME LevelSet(w, ls, N, lev) PROVE LevelGets(v, k, N, lev)
  <2>1. N \in DOMAIN ls /\ ls[N].level = lev /\ \A j \in 1..n : ~SetsLevel(w[j], N)
      BY <1>1, <1>7 DEF LevelSet
  <2>2. ~SetsLevel(w[1], N)
      BY <2>1, <1>2
  <2>3. k[N].level = lev
    <3>1. CASE N # w[1].name
        BY <3>1, <2>1, <1>4
    <3>2. CASE N = w[1].name
      <4>1. w[1].do # "setLevel"
          BY <3>2, <2>2 DEF SetsLevel
      <4>2. IsLogger(ls[N]) /\ k[N] = Applied(ls[N], w[1])
          BY <3>2, <2>1, <1>4 DEF AreLoggers
      <4> QED BY <4>1, <4>2, <2>1, <1>3, AppliedIs
    <3> QED BY <3>1, <3>2
  <2>4. \A j \in 1..(n - 1) : ~SetsLevel(v[j], N)
      BY <1>5, <2>1
  <2>5. N \in DOMAIN k
      BY <2>1, <1>4
  <2> QED BY <2>3, <2>4, <2>5, <1>2 DEF LevelGets, LevelSet
<1> QED BY <1>1, <1>6, <1>7 DEF LevelGets, LevelLeft

\* A definition whose appenders have formatters: the listener's new ones have one or none.
HasPatterns(def) ==
    IsSeq(def.appenders) /\ \A i \in 1..Len(def.appenders) : def.appenders[i].formatter # None

\* The next appender of the definition is added to a logger that has the first k.
OneMoreMade(l, k, x, p) ==
    /\ Len(p.appenders) = k + 1
    /\ \A i \in 1..k : \A a : Made(l.appenders[i], a, l) => Made(p.appenders[i], a, p)
    /\ Made(p.appenders[k + 1], x, p)

\* addAppender() makes it.
LEMMA OneBuilt ==
    ASSUME NEW l, IsLogger(l), NEW k \in Nat, Len(l.appenders) = k,
           NEW x, Fields(x), IF x.own THEN x.formatter # None ELSE x.formatter = None,
           NEW p, p = PlusAppender(l, x)
    PROVE  OneMoreMade(l, k, x, p)
<1>2. OneMoreAppender(l, x, p)
    BY PlusAppenderIs
<1>3. /\ p.formatter = l.formatter /\ Len(p.appenders) = k + 1
      /\ \A i \in 1..k : p.appenders[i] = l.appenders[i]
      /\ p.appenders[k + 1] = IF x.formatter = None THEN [x EXCEPT !.formatter = l.formatter] ELSE x
    BY <1>2 DEF OneMoreAppender
<1>4. \A i \in 1..k : \A a : Made(l.appenders[i], a, l) => Made(p.appenders[i], a, p)
    BY <1>3 DEF Made
<1>5. Made(p.appenders[k + 1], x, p)
  <2>1. CASE x.own
    <3>1. p.appenders[k + 1] = x
        BY <1>3, <2>1
    <3> QED BY <3>1, <2>1 DEF Made
  <2>2. CASE ~x.own
    <3>1. PICK y : y = [x EXCEPT !.formatter = l.formatter]
        OBVIOUS
    <3>2. y.type = x.type /\ y.file = x.file /\ y.level = x.level /\ y.own = x.own /\ y.formatter = l.formatter
        BY <3>1 DEF Fields
    <3>3. p.appenders[k + 1] = y
        BY <1>3, <2>2, <3>1
    <3> QED BY <3>2, <3>3, <2>2, <1>3 DEF Made
  <2> QED BY <2>1, <2>2
<1> QED BY <1>3, <1>4, <1>5 DEF OneMoreMade

\* The appenders that N is to get.
LEMMA AppendersGoOn ==
    ASSUME NEW ls, AreLoggers(ls), NEW w, WorkOK(w, DOMAIN ls), w # <<>>,
           NEW N, NEW def, HasPatterns(def),
           AppendersLeft(w, N, def) \/ AppendersBuilt(w, ls, N, def)
    PROVE  LET v == Tail(w)
               k == After(ls, Head(w))
           IN  AppendersLeft(v, N, def) \/ AppendersBuilt(v, k, N, def)
<1>1. PICK v, n, k, op : v = Tail(w) /\ n = Len(w) /\ k = After(ls, Head(w)) /\ op = w[1]
    OBVIOUS
<1> DEFINE m == Len(def.appenders)
<1>0. m \in Nat
    BY SeqFacts DEF HasPatterns
<1>2. /\ IsSeq(v) /\ n \in Nat \ {0} /\ Len(v) = n - 1 /\ Head(w) = op
      /\ \A i \in 1..(n - 1) : v[i] = w[i + 1]
    BY <1>1, Rest DEF WorkOK
<1>3. IsOp(op) /\ (op.name \in DOMAIN ls \/ op.do = "getLogger")
    BY <1>1, <1>2 DEF WorkOK, Gets
<1>4. IsAfter(ls, op, k)
    BY <1>1, <1>2, <1>3, AfterIs
<1>5. ASSUME NEW j \in 1..(n - 1)
      PROVE  j + 1 \in 1..n /\ v[j] = w[j + 1]
    BY <1>2, <1>5
<1> HIDE DEF m
<1>6. ASSUME NEW b \in 1..n, w[b] = On(N, "clearAppenders", None), b + m <= n,
             \A i \in 1..m : Adds(w[b + i], N, def, i),
             \A j \in 1..n : j > b + m => w[j].name # N
      PROVE  AppendersLeft(v, N, def) \/ AppendersBuilt(v, k, N, def)
  <2>1. CASE b = 1
    <3>1. op.name = N /\ op.do = "clearAppenders"
        BY <1>1, <1>6, <2>1 DEF On
    <3>2. N \in DOMAIN ls
        BY <3>1, <1>3
    <3>3. IsLogger(ls[N]) /\ k[N] = Applied(ls[N], op) /\ N \in DOMAIN k
        BY <3>1, <3>2, <1>4 DEF AreLoggers, IsAfter
    <3>4. Len(k[N].appenders) = 0
        BY <3>1, <3>3, <1>3, AppliedIs
    <3>5. m <= n - 1
        BY <2>1, <1>6, <1>2, <1>0
    <3>6. ASSUME NEW i \in 1..m PROVE Adds(v[i], N, def, 0 + i)
      <4>1. i \in 1..(n - 1) /\ 1 + i = i + 1 /\ 0 + i = i
          BY <3>5, <1>0, <1>2
      <4>2. Adds(w[1 + i], N, def, i)
          BY <1>6, <2>1
      <4> QED BY <4>1, <4>2, <1>5
    <3>7. ASSUME NEW j \in 1..(n - 1), j > m PROVE v[j].name # N
      <4>1. j + 1 > b + m
          BY <3>7, <2>1, <1>0
      <4> QED BY <4>1, <1>5, <1>6
    <3>8. \A i \in 1..0 : Made(k[N].appenders[i], NewAppender(def.appenders[i]), k[N])
        OBVIOUS
    <3>9. 0 + m = m
        BY <1>0
    <3>10. BuiltTo(v, k, N, def, 0, m)
        BY <3>3, <3>4, <3>5, <3>6, <3>7, <3>8, <3>9, <1>2 DEF BuiltTo, m
    <3> QED BY <3>10, <1>0 DEF AppendersBuilt
  <2>2. CASE b # 1
    <3>1. b - 1 \in 1..(n - 1) /\ (b - 1) + 1 = b /\ (b - 1) + m <= n - 1
        BY <2>2, <1>0, <1>2, <1>6
    <3>2. v[b - 1] = w[b]
        BY <3>1, <1>5
    <3>3. ASSUME NEW i \in 1..m PROVE Adds(v[(b - 1) + i], N, def, i)
      <4>1. (b - 1) + i \in 1..(n - 1) /\ ((b - 1) + i) + 1 = b + i
          BY <3>1, <1>0, <1>2, <2>2
      <4> QED BY <4>1, <1>5, <1>6
    <3>4. ASSUME NEW j \in 1..(n - 1), j > (b - 1) + m PROVE v[j].name # N
      <4>1. j + 1 > b + m
          BY <3>4, <1>0
      <4> QED BY <4>1, <1>5, <1>6
    <3> QED BY <3>1, <3>2, <3>3, <3>4, <1>2, <1>6 DEF AppendersLeft, m
  <2> QED BY <2>1, <2>2
<1>7. ASSUME NEW c \in Nat, NEW r \in Nat, c + r = m, r <= n,
             N \in DOMAIN ls, Len(ls[N].appenders) = c,
             \A i \in 1..c : Made(ls[N].appenders[i], NewAppender(def.appenders[i]), ls[N]),
             \A i \in 1..r : Adds(w[i], N, def, c + i),
             \A j \in 1..n : j > r => w[j].name # N
      PROVE  AppendersBuilt(v, k, N, def)
  <2>0. IsLogger(ls[N]) /\ N \in DOMAIN k
      BY <1>7, <1>4 DEF AreLoggers, IsAfter
  <2>3. c + r = m /\ r <= n /\ n \in Nat \ {0}
      BY <1>2, <1>7
  <2>1. CASE r = 0
    <3>1. op.name # N
        BY <2>1, <1>1, <1>2, <1>7
    <3>2. k[N] = ls[N]
        BY <3>1, <1>4, <1>7 DEF IsAfter
    <3>3. ASSUME NEW j \in 1..(n - 1), j > 0 PROVE v[j].name # N
      <4>1. j + 1 > 0
          BY <3>3
      <4> QED BY <4>1, <1>5, <1>7, <2>1
    <3>4. 0 <= n - 1
        BY <1>2
    <3>5. BuiltTo(v, k, N, def, c, 0)
        BY <2>0, <2>1, <3>2, <3>3, <3>4, <1>2, <1>7 DEF BuiltTo, m
    <3> QED BY <3>5 DEF AppendersBuilt
  <2>2. CASE r # 0
    <3> DEFINE x == NewAppender(def.appenders[c + 1])
    <3>1. c + 1 \in 1..m /\ 1 \in 1..r
        BY <2>2, <1>7, <1>0
    <3>2. op = On(N, "addAppender", x)
        BY <3>1, <1>1, <1>7 DEF Adds
    <3>3. op.name = N /\ op.do = "addAppender" /\ op.arg = x
        BY <3>2 DEF On
    <3>4. PICK a : a = def.appenders[c + 1]
        OBVIOUS
    <3>5. a.formatter # None
        BY <3>1, <3>4 DEF HasPatterns, m
    <3>6. PICK y : y = x
        OBVIOUS
    <3>7. Fields(y) /\ IF y.own THEN y.formatter # None ELSE y.formatter = None
        BY <3>4, <3>5, <3>6, NewAppenderIs
    <3>8. k[N] = PlusAppender(ls[N], y)
      <4>1. k[N] = Applied(ls[N], op)
          BY <3>3, <1>4, <1>7 DEF IsAfter
      <4> QED BY <4>1, <2>0, <3>3, <3>6, <1>3, AppliedIs
    <3>9. /\ Len(k[N].appenders) = c + 1
          /\ \A i \in 1..c : \A z : Made(ls[N].appenders[i], z, ls[N]) => Made(k[N].appenders[i], z, k[N])
          /\ Made(k[N].appenders[c + 1], y, k[N])
      <4>1. PICK l : l = ls[N]
          OBVIOUS
      <4>2. PICK p : p = k[N]
          OBVIOUS
      <4>3. OneMoreMade(l, c, y, p)
          BY <4>1, <4>2, <3>7, <3>8, <2>0, <1>7, OneBuilt
      <4> QED BY <4>1, <4>2, <4>3 DEF OneMoreMade
    <3>10. ASSUME NEW i \in 1..(c + 1)
           PROVE  Made(k[N].appenders[i], NewAppender(def.appenders[i]), k[N])
      <4>1. CASE i = c + 1
          BY <4>1, <3>6, <3>9
      <4>2. CASE i # c + 1
        <5>1. i \in 1..c
            BY <4>2
        <5> QED BY <5>1, <3>9, <1>7
      <4> QED BY <4>1, <4>2
    <3>11. ASSUME NEW i \in 1..(r - 1) PROVE Adds(v[i], N, def, (c + 1) + i)
      <4>1. i \in 1..(n - 1) /\ i + 1 \in 1..r /\ (c + 1) + i = c + (i + 1)
          BY <1>2, <1>7, <2>2
      <4> QED BY <4>1, <1>5, <1>7
    <3>12. ASSUME NEW j \in 1..(n - 1), j > r - 1 PROVE v[j].name # N
      <4>1. j + 1 > r
          BY <3>12, <1>7
      <4> QED BY <4>1, <1>5, <1>7
    <3>13. c + 1 \in Nat /\ r - 1 \in Nat /\ (c + 1) + (r - 1) = m /\ r - 1 <= n - 1
        BY <2>2, <2>3, <1>0
    <3> HIDE DEF x
    <3>14. BuiltTo(v, k, N, def, c + 1, r - 1)
        BY <3>9, <3>10, <3>11, <3>12, <3>13, <2>0, <1>2 DEF BuiltTo, m
    <3> QED BY <3>13, <3>14 DEF AppendersBuilt
  <2> QED BY <2>1, <2>2
<1>8. CASE AppendersLeft(w, N, def)
    BY <1>8, <1>6, <1>1 DEF AppendersLeft, m
<1>9. CASE AppendersBuilt(w, ls, N, def)
    BY <1>9, <1>7, <1>1 DEF AppendersBuilt, BuiltTo, m
<1> QED BY <1>1, <1>8, <1>9

\* One operation more, for all of the loggers.
LEMMA ProgressGoesOn ==
    ASSUME NEW ls, AreLoggers(ls), NEW w, WorkOK(w, DOMAIN ls), w # <<>>,
           NEW old, NEW new, \A N \in DOMAIN new : HasPatterns(new[N]),
           Progress(w, ls, old, new)
    PROVE  Progress(Tail(w), After(ls, Head(w)), old, new)
<1>1. PICK v, k : v = Tail(w) /\ k = After(ls, Head(w))
    OBVIOUS
<1>2. ASSUME NEW N \in DOMAIN new
      PROVE  /\ LevelGets(v, k, N, new[N].level)
             /\ AppendersLeft(v, N, new[N]) \/ AppendersBuilt(v, k, N, new[N])
  <2>1. PICK def : def = new[N]
      OBVIOUS
  <2>2. /\ LevelGets(w, ls, N, def.level) /\ HasPatterns(def)
        /\ AppendersLeft(w, N, def) \/ AppendersBuilt(w, ls, N, def)
      BY <2>1 DEF Progress
  <2>3. LevelGets(v, k, N, def.level)
      BY <2>2, <1>1, LevelGoesOn
  <2>4. AppendersLeft(v, N, def) \/ AppendersBuilt(v, k, N, def)
      BY <2>2, <1>1, AppendersGoOn
  <2> QED BY <2>1, <2>3, <2>4
<1>3. ASSUME NEW N \in DOMAIN old \ DOMAIN new
      PROVE  LevelGets(v, k, N, Removed)
  <2>1. LevelGets(w, ls, N, Removed)
      BY DEF Progress
  <2> QED BY <2>1, <1>1, LevelGoesOn
<1> QED BY <1>1, <1>2, <1>3 DEF Progress

\* So is what clients do with loggers that are not theirs.
LEMMA ProgressStays ==
    ASSUME NEW ls, NEW k, DOMAIN ls \subseteq DOMAIN k, NEW w, NEW old, NEW new,
           \A N \in DOMAIN ls \cap (DOMAIN new \cup DOMAIN old) : Keeps(ls[N], k[N]),
           Progress(w, ls, old, new)
    PROVE  Progress(w, k, old, new)
<1>1. ASSUME NEW N \in DOMAIN new \cup DOMAIN old, NEW lev, LevelGets(w, ls, N, lev)
      PROVE  LevelGets(w, k, N, lev)
  <2>1. CASE LevelLeft(w, N, lev)
      BY <2>1 DEF LevelGets
  <2>2. CASE LevelSet(w, ls, N, lev)
    <3>1. Keeps(ls[N], k[N]) /\ N \in DOMAIN k
        BY <2>2 DEF LevelSet
    <3> QED BY <2>2, <3>1 DEF LevelSet, LevelGets, Keeps
  <2> QED BY <1>1, <2>1, <2>2 DEF LevelGets
<1>2. ASSUME NEW N \in DOMAIN new, NEW def, AppendersBuilt(w, ls, N, def)
      PROVE  AppendersBuilt(w, k, N, def)
  <2>1. PICK c, r \in Nat : BuiltTo(w, ls, N, def, c, r)
      BY <1>2 DEF AppendersBuilt
  <2>2. N \in DOMAIN ls /\ Len(ls[N].appenders) = c
      BY <2>1 DEF BuiltTo
  <2>3. Keeps(ls[N], k[N]) /\ N \in DOMAIN k
      BY <2>2
  <2>4. /\ Len(k[N].appenders) = c
        /\ \A i \in 1..c : \A a : Made(ls[N].appenders[i], a, ls[N]) => Made(k[N].appenders[i], a, k[N])
      BY <2>2, <2>3 DEF Keeps
  <2>5. BuiltTo(w, k, N, def, c, r)
      BY <2>1, <2>3, <2>4 DEF BuiltTo
  <2> QED BY <2>1, <2>5 DEF AppendersBuilt
<1>3. ASSUME NEW N \in DOMAIN new
      PROVE  /\ LevelGets(w, k, N, new[N].level)
             /\ AppendersLeft(w, N, new[N]) \/ AppendersBuilt(w, k, N, new[N])
  <2>1. /\ LevelGets(w, ls, N, new[N].level)
        /\ AppendersLeft(w, N, new[N]) \/ AppendersBuilt(w, ls, N, new[N])
      BY DEF Progress
  <2> QED BY <2>1, <1>1, <1>2
<1>4. ASSUME NEW N \in DOMAIN old \ DOMAIN new PROVE LevelGets(w, k, N, Removed)
  <2>1. LevelGets(w, ls, N, Removed)
      BY DEF Progress
  <2> QED BY <2>1, <1>1
<1> QED BY <1>3, <1>4 DEF Progress

\* Nothing is left to do: the loggers are what the new value says.
LEMMA ProgressDone ==
    ASSUME NEW ls, NEW old, NEW new, \A N \in DOMAIN new : IsSeq(new[N].appenders),
           Progress(<<>>, ls, old, new)
    PROVE  /\ \A N \in DOMAIN new :
                 /\ ls[N].level = new[N].level
                 /\ Len(ls[N].appenders) = Len(new[N].appenders)
                 /\ \A i \in DOMAIN new[N].appenders :
                       Made(ls[N].appenders[i], NewAppender(new[N].appenders[i]), ls[N])
           /\ \A N \in DOMAIN old \ DOMAIN new : ls[N].level = Removed
<1>1. PICK w : w = <<>> /\ Len(w) = 0
    BY EmptyIsSeq
<1>2. ASSUME NEW N, NEW lev, LevelGets(w, ls, N, lev) PROVE ls[N].level = lev
    BY <1>1, <1>2 DEF LevelGets, LevelLeft, LevelSet
<1>3. ASSUME NEW N \in DOMAIN new
      PROVE  /\ ls[N].level = new[N].level
             /\ Len(ls[N].appenders) = Len(new[N].appenders)
             /\ \A i \in DOMAIN new[N].appenders :
                   Made(ls[N].appenders[i], NewAppender(new[N].appenders[i]), ls[N])
  <2>1. PICK def : def = new[N]
      OBVIOUS
  <2>2. LevelGets(w, ls, N, def.level) /\ (AppendersLeft(w, N, def) \/ AppendersBuilt(w, ls, N, def))
      BY <1>1, <2>1 DEF Progress
  <2>3. ~AppendersLeft(w, N, def)
      BY <1>1 DEF AppendersLeft
  <2>4. PICK c, r \in Nat : BuiltTo(w, ls, N, def, c, r)
      BY <2>2, <2>3 DEF AppendersBuilt
  <2>5. /\ c + r = Len(def.appenders) /\ r <= 0 /\ Len(ls[N].appenders) = c
        /\ \A i \in 1..c : Made(ls[N].appenders[i], NewAppender(def.appenders[i]), ls[N])
      BY <2>4, <1>1 DEF BuiltTo
  <2>6. c = Len(def.appenders)
      BY <2>4, <2>5
  <2>7. DOMAIN def.appenders = 1..c
      BY <2>1, <2>6, SeqFacts
  <2> QED BY <2>1, <2>2, <2>5, <2>6, <2>7, <1>2
<1>4. ASSUME NEW N \in DOMAIN old \ DOMAIN new PROVE ls[N].level = Removed
    BY <1>1, <1>2 DEF Progress
<1> QED BY <1>3, <1>4

\* Root is to get an appender.
FillsRoot(w) == \E i \in DOMAIN w : w[i].name = "root" /\ w[i].do = "addAppender"

\* A sequence of length 0 is empty.
LEMMA NoElements ==
    ASSUME NEW s, IsSeq(s)
    PROVE  s = <<>> <=> Len(s) = 0
  BY EmptySeq DEF IsSeq

\* The listener's operation leaves root with an appender, or one is to come.
LEMMA RootGoesOn ==
    ASSUME NEW ls, AreLoggers(ls), "root" \in DOMAIN ls, NEW w, WorkOK(w, DOMAIN ls), w # <<>>,
           After(ls, Head(w))["root"].appenders = <<>>
    PROVE  \/ FillsRoot(Tail(w))
           \/ ls["root"].appenders = <<>> /\ ~FillsRoot(w)
<1>1. PICK v, n, k, op : v = Tail(w) /\ n = Len(w) /\ k = After(ls, Head(w)) /\ op = w[1]
    OBVIOUS
<1>2. /\ IsSeq(v) /\ n \in Nat \ {0} /\ Len(v) = n - 1 /\ Head(w) = op
      /\ \A i \in 1..(n - 1) : v[i] = w[i + 1]
    BY <1>1, Rest DEF WorkOK
<1>3. IsOp(op) /\ (op.name = "root" => Refilled(w, 1))
    BY <1>1, <1>2 DEF WorkOK
<1>4. IsAfter(ls, op, k)
    BY <1>1, <1>2, <1>3, AfterIs
<1>5. DOMAIN w = 1..n /\ DOMAIN v = 1..(n - 1)
    BY <1>1, <1>2, SeqFacts DEF WorkOK
<1>6. ASSUME NEW j \in 1..n, j > 1, w[j].name = "root", w[j].do = "addAppender"
      PROVE  FillsRoot(v)
  <2>1. j - 1 \in 1..(n - 1) /\ (j - 1) + 1 = j
      BY <1>2, <1>6
  <2>2. v[j - 1] = w[j]
      BY <2>1, <1>2
  <2> QED BY <2>1, <2>2, <1>5, <1>6 DEF FillsRoot
<1>7. CASE op.name # "root"
  <2>1. k["root"] = ls["root"]
      BY <1>7, <1>4 DEF IsAfter
  <2>2. ASSUME FillsRoot(w) PROVE FillsRoot(v)
    <3>1. PICK j \in 1..n : w[j].name = "root" /\ w[j].do = "addAppender"
        BY <2>2, <1>5 DEF FillsRoot
    <3>2. j # 1
        BY <3>1, <1>1, <1>7
    <3>3. j > 1
        BY <3>1, <3>2, <1>2
    <3> QED BY <3>1, <3>3, <1>6
  <2> QED BY <2>1, <2>2, <1>1
<1>8. CASE op.name = "root"
  <2>1. PICK l, a : l = ls["root"] /\ a = k["root"]
      OBVIOUS
  <2>2. IsLogger(l) /\ a = Applied(l, op) /\ a.appenders = <<>> /\ IsLogger(a)
      BY <2>1, <1>1, <1>4, <1>8 DEF AreLoggers, IsAfter
  <2>3. Len(l.appenders) \in Nat
      BY <2>2, SeqFacts DEF IsLogger
  <2>4. Len(a.appenders) = 0
      BY <2>2, EmptyIsSeq
  <2>5. CASE op.do = "clearAppenders"
    <3>1. PICK j \in 1..n : j > 1 /\ w[j].name = "root" /\ w[j].do = "addAppender"
        BY <2>5, <1>1, <1>3, <1>8 DEF Refilled
    <3> QED BY <3>1, <1>1, <1>6
  <2>6. CASE op.do = "addAppender"
    <3>1. a = PlusAppender(l, op.arg)
        BY <2>2, <2>6, <1>3, AppliedIs
    <3>2. Fields(op.arg)
        BY <2>6, <1>3, NewAppenderType DEF IsOp
    <3>3. OneMoreAppender(l, op.arg, a)
        BY <3>1, <3>2, <2>2, PlusAppenderIs
    <3>4. Len(a.appenders) = Len(l.appenders) + 1
        BY <3>3 DEF OneMoreAppender
    <3> QED BY <3>4, <2>3, <2>4
  <2>7. CASE op.do \in {"getLogger", "setLevel", "setFormatter"}
    <3>1. Len(l.appenders) = Len(a.appenders)
        BY <2>2, <2>7, <1>3, AppliedIs
    <3>2. l.appenders = <<>>
        BY <3>1, <2>2, <2>4, NoElements DEF IsLogger
    <3>3. ASSUME FillsRoot(w) PROVE FillsRoot(v)
      <4>1. PICK j \in 1..n : w[j].name = "root" /\ w[j].do = "addAppender"
          BY <3>3, <1>5 DEF FillsRoot
      <4>2. j # 1
          BY <4>1, <1>1, <2>7
      <4>3. j > 1
          BY <4>1, <4>2, <1>2
      <4> QED BY <4>1, <4>3, <1>6
    <3> QED BY <3>2, <3>3, <2>1, <1>1
  <2> QED BY <2>5, <2>6, <2>7, <1>3 DEF IsOp
<1> QED BY <1>7, <1>8
=============================================================================
