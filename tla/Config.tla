------------------------------- MODULE Config --------------------------------
(***************************************************************************)
(* ConfigVar and Config: values with listeners, set by several threads and *)
(* by LoadFromYaml(). setValue() compares and calls the listeners under    *)
(* the read lock, gives it up, and stores under the write lock. Sections   *)
(* under the write lock, and those under the read lock that call nobody,   *)
(* are one step; readers[v] are the threads that hold the read lock of v   *)
(* while they call listeners. The rwlock prefers readers, as glibc's       *)
(* default does: a read lock waits only for a writer inside.               *)
(* What a listener does depends on its kind: "copy" is the one of          *)
(* _HookIniter, which keeps a copy of the value; "throw" fails; "log",     *)
(* LogIniter's, is in module Log.                                          *)
(***************************************************************************)
EXTENDS Naturals, Sequences, SequencesExt

CONSTANTS
    Clients,          \* the threads
    Names,            \* names of variables
    Default,          \* name -> default value
    FirstListeners,   \* name -> kinds of the listeners added before main()
    FromStr(_, _),    \* value a text stands for, or Junk
    Junk,             \* FromStr throws
    None,
    MaxListeners      \* bound: addListener() calls per variable

ASSUME ConfigAssumption ==
    /\ None \notin Names
    /\ DOMAIN Default = Names
    /\ FirstListeners \in [Names -> Seq({"copy", "log", "throw"})]
    /\ MaxListeners \in Nat

VARIABLES
    s_datas,     \* Config::GetDatas(): names of the existing variables
    m_val,       \* name -> value
    m_cbs,       \* name -> listeners in the order of their ids
    s_fun_id,    \* name -> last id given out (static: the variables are of different types)
    readers,     \* name -> threads that hold m_mutex for reading
    copy,        \* name -> value kept by the "copy" listener (s_connect_timeout)
    frame,       \* thread -> its setValue() call
    rest,        \* thread -> what LoadFromYaml() has left: pairs of a name and a text
    clean,       \* history: name -> the last change was made by one setValue() alone
    before       \* history: name -> the value before the last change

configVars == <<s_datas, m_val, m_cbs, s_fun_id, readers, copy, frame, rest, clean, before>>

NoCall == [pc |-> "out", name |-> None, new |-> None, todo |-> <<>>, alone |-> TRUE]

ConfigInit ==
    /\ s_datas = {n \in Names : FirstListeners[n] # <<>>}
    /\ m_val = Default
    /\ m_cbs = [n \in Names |->
                  [i \in 1..Len(FirstListeners[n]) |-> [id |-> i, cb |-> FirstListeners[n][i]]]]
    /\ s_fun_id = [n \in Names |-> Len(FirstListeners[n])]
    /\ readers = [n \in Names |-> {}]
    /\ copy = Default
    /\ before = Default
    /\ frame = [t \in Clients |-> NoCall]
    /\ rest = [t \in Clients |-> <<>>]
    /\ clean = [n \in Names |-> TRUE]

\* A change of n that has been announced to some listeners and is not stored yet.
Changing(n) == {t \in Clients : frame[t].name = n}
OutOfConfig(t) == frame[t].pc = "out" /\ rest[t] = <<>>

\* setValue(x) up to the first listener: the read lock, and the comparison, which
\* ends the call if nothing changes.
EnterSetValue(t, n, x) ==
    IF x = m_val[n] THEN UNCHANGED <<readers, frame, clean>>
    ELSE /\ readers' = [readers EXCEPT ![n] = @ \cup {t}]
         /\ frame' = [u \in Clients |->
                        IF u = t THEN [pc |-> "call", name |-> n, new |-> x,
                                       todo |-> m_cbs[n], alone |-> Changing(n) = {}]
                        ELSE IF u \in Changing(n) THEN [frame[u] EXCEPT !.alone = FALSE]
                        ELSE frame[u]]
         /\ clean' = [clean EXCEPT ![n] = @ /\ Changing(n) = {}]

\* setValue(x), called by a client.
SetValue(t, n, x) ==
    /\ OutOfConfig(t) /\ n \in s_datas
    /\ EnterSetValue(t, n, x)
    /\ UNCHANGED <<s_datas, m_val, m_cbs, s_fun_id, copy, rest, before>>

\* Mutant: the copy is made of the old value.
CallCopyOld(t) ==
    LET f == frame[t] IN
    /\ f.pc = "call" /\ f.todo # <<>> /\ Head(f.todo).cb = "copy"
    /\ copy' = [copy EXCEPT ![f.name] = m_val[f.name]]
    /\ frame' = [frame EXCEPT ![t].todo = Tail(@)]
    /\ UNCHANGED <<s_datas, m_val, m_cbs, s_fun_id, readers, rest, clean, before>>

\* The next listener keeps a copy of the new value.
CallCopy(t) ==
    LET f == frame[t] IN
    /\ f.pc = "call" /\ f.todo # <<>> /\ Head(f.todo).cb = "copy"
    /\ copy' = [copy EXCEPT ![f.name] = f.new]
    /\ frame' = [frame EXCEPT ![t].todo = Tail(@)]
    /\ UNCHANGED <<s_datas, m_val, m_cbs, s_fun_id, readers, rest, clean, before>>

\* The next listener throws: lock_r is released on the way out and nothing is stored.
\* fromString() returns false and LoadFromYaml() goes on; another caller gets the exception.
CallThrow(t) ==
    LET f == frame[t] IN
    /\ f.pc = "call" /\ f.todo # <<>> /\ Head(f.todo).cb = "throw"
    /\ readers' = [readers EXCEPT ![f.name] = @ \ {t}]
    /\ frame' = [frame EXCEPT ![t] = NoCall]
    /\ clean' = [clean EXCEPT ![f.name] = FALSE]
    /\ UNCHANGED <<s_datas, m_val, m_cbs, s_fun_id, copy, rest, before>>

\* Mutant: the read lock is kept when the write lock is asked for.
KeepReadLock(t) ==
    /\ frame[t].pc = "call" /\ frame[t].todo = <<>>
    /\ frame' = [frame EXCEPT ![t].pc = "store"]
    /\ UNCHANGED <<s_datas, m_val, m_cbs, s_fun_id, readers, copy, rest, clean, before>>

\* lock_r.unlock() after the last listener.
Unlock(t) ==
    /\ frame[t].pc = "call" /\ frame[t].todo = <<>>
    /\ readers' = [readers EXCEPT ![frame[t].name] = @ \ {t}]
    /\ frame' = [frame EXCEPT ![t].pc = "store"]
    /\ UNCHANGED <<s_datas, m_val, m_cbs, s_fun_id, copy, rest, clean, before>>

\* The write lock, and m_val = v.
Store(t) ==
    LET n == frame[t].name IN
    /\ frame[t].pc = "store" /\ readers[n] = {}
    /\ m_val' = [m_val EXCEPT ![n] = frame[t].new]
    /\ clean' = [clean EXCEPT ![n] = frame[t].alone]
    /\ frame' = [frame EXCEPT ![t] = NoCall]
    /\ before' = [before EXCEPT ![n] = m_val[n]]
    /\ UNCHANGED <<s_datas, m_cbs, s_fun_id, readers, copy, rest>>

\* LoadFromYaml(): the document, flattened to pairs of a name and a text.
LoadFromYaml(t, doc) ==
    /\ OutOfConfig(t)
    /\ rest' = [rest EXCEPT ![t] = doc]
    /\ UNCHANGED <<s_datas, m_val, m_cbs, s_fun_id, readers, copy, frame, clean, before>>

\* Its next pair: LookupBase(), and fromString() if the variable exists. A text that
\* cannot be converted, as a listener that throws, does not end the loop.
LoadNext(t) ==
    LET n == Head(rest[t])[1]
        x == FromStr(n, Head(rest[t])[2])
    IN
    /\ frame[t].pc = "out" /\ rest[t] # <<>>
    /\ rest' = [rest EXCEPT ![t] = Tail(@)]
    /\ IF n \in s_datas /\ x # Junk THEN EnterSetValue(t, n, x)
       ELSE UNCHANGED <<readers, frame, clean>>
    /\ UNCHANGED <<s_datas, m_val, m_cbs, s_fun_id, copy, before>>

\* Config::Lookup(name, default_value): an existing variable is returned as it is.
Lookup(t, n) ==
    /\ OutOfConfig(t) /\ n \notin s_datas
    /\ s_datas' = s_datas \cup {n}
    /\ UNCHANGED <<m_val, m_cbs, s_fun_id, readers, copy, frame, rest, clean, before>>

\* addListener(), under the write lock.
AddListener(t, n, cb) ==
    /\ OutOfConfig(t) /\ n \in s_datas /\ readers[n] = {} /\ s_fun_id[n] < MaxListeners
    /\ s_fun_id' = [s_fun_id EXCEPT ![n] = @ + 1]
    /\ m_cbs' = [m_cbs EXCEPT ![n] = Append(@, [id |-> s_fun_id'[n], cb |-> cb])]
    /\ UNCHANGED <<s_datas, m_val, readers, copy, frame, rest, clean, before>>

\* delListener(), for a listener the client has added itself.
DelListener(t, n, id) ==
    /\ OutOfConfig(t) /\ readers[n] = {} /\ id > Len(FirstListeners[n])
    /\ \E i \in DOMAIN m_cbs[n] : /\ m_cbs[n][i].id = id
                                 /\ m_cbs' = [m_cbs EXCEPT ![n] = RemoveAt(@, i)]
    /\ UNCHANGED <<s_datas, m_val, s_fun_id, readers, copy, frame, rest, clean, before>>

\* clearListener().
ClearListener(t, n) ==
    /\ OutOfConfig(t) /\ n \in s_datas /\ readers[n] = {} /\ m_cbs[n] # <<>>
    /\ m_cbs' = [m_cbs EXCEPT ![n] = <<>>]
    /\ UNCHANGED <<s_datas, m_val, s_fun_id, readers, copy, frame, rest, clean, before>>

\* The steps a call makes once it has begun.
ConfigStep(t) == CallCopy(t) \/ CallThrow(t) \/ Unlock(t) \/ Store(t) \/ LoadNext(t)
-----------------------------------------------------------------------------
(* Properties *)

\* Nobody changes n, and the last change was made by one call alone whose listeners
\* all returned.
Settled(n) == clean[n] /\ Changing(n) = {}
Listens(n, cb) == \E i \in DOMAIN m_cbs[n] : m_cbs[n][i].cb = cb

\* A change that one call has made alone, and whose listeners all returned, has
\* reached the copy a listener keeps: hook.cpp's connect timeout is the variable's value.
CopiesAgree == \A n \in Names : Settled(n) /\ Listens(n, "copy") => copy[n] = m_val[n]
=============================================================================
