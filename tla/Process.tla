------------------------------ MODULE Process --------------------------------
(***************************************************************************)
(* The threads of a process and the tables they share. Each thread is      *)
(* started through a Thread object, all with the same callback, as in      *)
(* test_thread.cpp: it registers events, which reads and grows             *)
(* IOManager::m_fdContexts, or it configures and logs, which goes through  *)
(* the registry of configuration variables and the loggers. The two do     *)
(* not meet, so that a process does one or the other.                      *)
(***************************************************************************)
EXTENDS Thread, Log, ContextTable

CONSTANTS
    Settings,     \* pairs of a variable's name and a value for setValue()
    Documents,    \* what LoadFromYaml() is given
    Messages,     \* pairs of a logger's name and a level
    Patterns,     \* patterns for setFormatter()
    Own,          \* loggers to which clients add appenders; no value of "logs" names them
    MaxCalls      \* bound: calls made of Config and Log

ASSUME ProcessAssumption == Tids = Threads /\ Clients = Threads

\* A value that LogIniter's listener is given: root, which the others fall back on, has
\* an appender.
LogsValue(x) ==
    /\ DOMAIN x \subseteq LogNames \ (Own \cup {""}) /\ "root" \in DOMAIN x
    /\ x["root"].appenders # <<>>
    /\ \A name \in DOMAIN x :
           /\ x[name].formatter # None
           /\ x[name].appenders \in Seq(Range(x[name].appenders))
           /\ \A a \in Range(x[name].appenders) : a.formatter # None

HasLog(n) == "log" \in Range(FirstListeners[n])

\* One variable has LogIniter's listener. It is empty at first and gets values as above;
\* the code that calls addAppender() leaves root alone.
ASSUME LogsAssumption ==
    /\ \A n, k \in Names : HasLog(n) /\ HasLog(k) => n = k
    /\ \A n \in Names : HasLog(n) =>
           /\ DOMAIN Default[n] = {}
           /\ \A s \in Settings : s[1] = n => LogsValue(s[2])
           /\ \A d \in Documents : \A i \in DOMAIN d :
                 d[i][1] = n => FromStr(n, d[i][2]) = Junk \/ LogsValue(FromStr(n, d[i][2]))
    /\ \A d \in Documents : d \in Seq(Range(d))
    /\ "root" \notin Own /\ None \notin Patterns

VARIABLES
    cb,           \* what the threads' callback does
    calls         \* calls made of Config and Log

tableVars == vars
allVars == <<threadVars, configVars, logVars, tableVars, cb, calls>>

ProcessInit == /\ ThreadInit /\ ConfigInit /\ LogInit /\ Init
               /\ cb \in {"events", "logs"}
               /\ calls = 0

OwnerDoes(t) == OwnerStep(t) /\ UNCHANGED <<configVars, logVars, tableVars, cb, calls>>
Starts(t) == StartStep(t) /\ UNCHANGED <<configVars, logVars, tableVars, cb, calls>>

\* The callback returns between two calls.
Ends(t) ==
    /\ Return(t)
    /\ ~InCall(t) /\ pc[t] = "out"
    /\ UNCHANGED <<configVars, logVars, tableVars, cb, calls>>

\* A call of Config or of a logger begins; those of one critical section end with it.
BeginsConfig(t) ==
    /\ \/ \E s \in Settings : SetValue(t, s[1], s[2])
       \/ \E d \in Documents : LoadFromYaml(t, d)
       \/ \E n \in Names : \/ Lookup(t, n)
                           \/ AddListener(t, n, "throw")
                           \/ \E id \in 1..MaxListeners : DelListener(t, n, id)
                           \/ ClearListener(t, n)
    /\ UNCHANGED logVars

BeginsLog(t) == \/ \E m \in Messages : StartLog(t, m[1], m[2])
                \/ \E n \in LogNames, fmt \in Patterns : SetFormatter(t, n, fmt)
                \/ \E n \in Own : \/ AddAppender(t, n, "StdoutLogAppender")
                                  \/ DelAppender(t, n, 1)
                                  \/ \E fmt \in Patterns : AppenderSetFormatter(t, n, 1, fmt)

Begins(t) ==
    /\ at[t] = "cb" /\ cb = "logs" /\ calls < MaxCalls /\ ~InCall(t)
    /\ BeginsConfig(t) \/ BeginsLog(t)
    /\ calls' = calls + 1
    /\ UNCHANGED <<threadVars, tableVars, cb>>

\* A call goes on.
GoesOn(t) ==
    /\ \/ ConfigStep(t) /\ UNCHANGED logVars
       \/ LogStep(t)
    /\ UNCHANGED <<threadVars, tableVars, cb, calls>>

\* The thread registers events; events are cancelled and triggered.
Registers(t) ==
    /\ at[t] = "cb" /\ cb = "events" /\ ~bad
    /\ ContextResize(t) \/ Register(t) \/ \E fd \in Fds : AddEvent(t, fd)
    /\ UNCHANGED <<threadVars, configVars, logVars, cb, calls>>

EventsEnd ==
    /\ ~bad
    /\ \/ \E fd \in Fds : Cancel(fd)
       \/ \E c \in waiting : Triggered(c)
    /\ UNCHANGED <<threadVars, configVars, logVars, cb, calls>>

\* All threads have ended, or wait for what the bound forbids.
Finished ==
    /\ \A t \in Tids : \/ at[t] = "ended" /\ obj[t] = "destroyed"
                       \/ pc[t] = "resize" /\ (bad \/ resizes = MaxResizes)
    /\ UNCHANGED allVars

ProcessNext == \/ \E t \in Tids : \/ OwnerDoes(t) \/ Starts(t) \/ Ends(t)
                                  \/ Begins(t) \/ GoesOn(t) \/ Registers(t)
               \/ EventsEnd
               \/ Finished

ProcessSpec == ProcessInit /\ [][ProcessNext]_allVars
-----------------------------------------------------------------------------
(* Properties *)

\* While a call of Config or of a logger or a constructor of a Thread is under way,
\* some thread can go on: nobody waits for a lock or a semaphore that will not be
\* given back, although listeners run under the read lock of their variable and a
\* message may need the locks of two loggers. As a call has finitely many steps, every
\* call returns.
NoDeadlock ==
    /\ (\E t \in Tids : InCall(t)) => \E t \in Tids : ENABLED GoesOn(t)
    /\ \A t \in Tids : obj[t] = "waiting" => ENABLED (Starts(t) \/ (Constructed(t) /\ OwnerDoes(t)))
=============================================================================
