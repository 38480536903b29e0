-------------------------------- MODULE Log ----------------------------------
(***************************************************************************)
(* Loggers and the listener by which the variable "logs" configures them.  *)
(* A logger's operations are critical sections of its own spinlock, the    *)
(* level is read and written without it; Logger::log() holds the lock      *)
(* while it asks the appenders, or the root logger if there are none.      *)
(* LogIniter's listener is a sequence of such operations: threads log in   *)
(* between. The messages that listeners log themselves are left out. A     *)
(* message is its level; a formatter is its pattern, of which BadPattern is *)
(* one that LogFormatter refuses. Each appender belongs to one logger.     *)
(***************************************************************************)
EXTENDS Config

CONSTANTS
    NameOrder,     \* the names of loggers, in the order of std::set<LogDefine>
    BadPattern     \* a pattern with an error

ASSUME LogAssumption ==
    /\ NameOrder \in Seq(Range(NameOrder))
    /\ \A i, j \in DOMAIN NameOrder : NameOrder[i] = NameOrder[j] => i = j
    /\ None # "default"

VARIABLES
    m_loggers,     \* name -> logger, for the loggers getLogger() has made
    owner,         \* name -> thread that keeps the logger's lock over a call, or None
    work,          \* thread -> operations its listener has left
    msg,           \* thread -> the message it logs
    verdict        \* thread -> what became of its last message

logVars == <<m_loggers, owner, work, msg, verdict>>

LogNames == Range(NameOrder)
UNKNOWN == 0
DEBUG == 1
FATAL == 5
Removed == 100        \* (LogLevel::Level)(100)

\* The name under which getLogger() finds its logger.
LoggerOf(name) == IF name = "" THEN "root" ELSE name

\* Logger(name): only the logger called "root" starts with an appender.
NewLogger(name) ==
    [level |-> DEBUG, formatter |-> "default",
     appenders |-> IF name = "root"
                   THEN <<[type |-> "StdoutLogAppender", file |-> "", level |-> DEBUG,
                           formatter |-> "default", own |-> FALSE]>>
                   ELSE <<>>]

NoMessage == [pc |-> "out", name |-> None, level |-> UNKNOWN]

\* LoggerManager(): the root logger exists.
LogInit == /\ m_loggers = [n \in {"root"} |-> NewLogger("root")]
           /\ owner = [n \in LogNames |-> None]
           /\ work = [t \in Clients |-> <<>>]
           /\ msg = [t \in Clients |-> NoMessage]
           /\ verdict = [t \in Clients |-> "none"]
-----------------------------------------------------------------------------
(* The texts of "logs": sequences of nodes. *)

\* LogLevel::FromString(): a word that is no level is UNKNOWN.
LevelOf(word) == IF word \in 1..5 THEN word ELSE UNKNOWN

\* The appenders of a node that are kept: of a known type, a file with its name. Two
\* values are equal for setValue() only if all of these agree.
AppenderDefines(node) ==
    LET Kept(a) == \/ a.type = "FileLogAppender" /\ a.file # ""
                   \/ a.type = "StdoutLogAppender"
    IN  [i \in 1..Len(SelectSeq(node.appenders, Kept)) |->
           LET a == SelectSeq(node.appenders, Kept)[i] IN
           [type |-> a.type, level |-> LevelOf(a.level), formatter |-> a.formatter,
            file |-> IF a.type = "FileLogAppender" THEN a.file ELSE ""]]

\* LexicalCast<std::string, LogDefine>: a node without a name keeps the defaults.
LogDefine(node) ==
    IF node.name = "" THEN [level |-> UNKNOWN, formatter |-> "", appenders |-> <<>>]
    ELSE [level |-> LevelOf(node.level), formatter |-> node.formatter,
          appenders |-> AppenderDefines(node)]

\* std::set<LogDefine> compares names: of two nodes with one name the first is kept.
LogDefines(nodes) ==
    [n \in {nodes[i].name : i \in DOMAIN nodes} |->
       LogDefine(nodes[CHOOSE i \in DOMAIN nodes :
                         /\ nodes[i].name = n
                         /\ \A j \in DOMAIN nodes : nodes[j].name = n => i <= j])]
-----------------------------------------------------------------------------
(* Operations of a logger. *)

\* The appender the listener makes of a definition; setFormatter() refuses a pattern
\* with an error.
NewAppender(a) ==
    LET own == a.formatter \notin {"", BadPattern} IN
    [type |-> a.type, file |-> a.file, level |-> a.level, own |-> own,
     formatter |-> IF own THEN a.formatter ELSE None]

\* addAppender(): an appender without a formatter gets the logger's.
PlusAppender(l, a) ==
    [l EXCEPT !.appenders =
       Append(@, IF a.formatter = None THEN [a EXCEPT !.formatter = l.formatter] ELSE a)]

\* setFormatter(): appenders without a formatter of their own follow.
WithFormatter(l, fmt) ==
    IF fmt = BadPattern THEN l
    ELSE [l EXCEPT !.formatter = fmt,
                   !.appenders = [i \in DOMAIN @ |->
                      IF @[i].own THEN @[i] ELSE [@[i] EXCEPT !.formatter = fmt]]]

\* One operation on a logger.
Applied(l, op) ==
    CASE op.do = "setLevel" -> [l EXCEPT !.level = op.arg]
      [] op.do = "setFormatter" -> WithFormatter(l, op.arg)
      [] op.do = "clearAppenders" -> [l EXCEPT !.appenders = <<>>]
      [] op.do = "addAppender" -> PlusAppender(l, op.arg)
      [] op.do = "getLogger" -> l

Op(name, do, arg) == [name |-> LoggerOf(name), do |-> do, arg |-> arg]

\* The listener's operations for one definition.
Configure(name, def) ==
    <<Op(name, "getLogger", None), Op(name, "setLevel", def.level)>>
    \o (IF def.formatter = "" THEN <<>> ELSE <<Op(name, "setFormatter", def.formatter)>>)
    \o <<Op(name, "clearAppenders", None)>>
    \o [i \in DOMAIN def.appenders |-> Op(name, "addAppender", NewAppender(def.appenders[i]))]

Retire(name) == <<Op(name, "getLogger", None), Op(name, "setLevel", Removed),
                  Op(name, "clearAppenders", None)>>

\* The operations for the loggers of a set, in the order of their names.
InOrder(ops) ==
    LET Upto[i \in 0..Len(NameOrder)] ==
            IF i = 0 THEN <<>>
            ELSE Upto[i - 1] \o (IF NameOrder[i] \in DOMAIN ops THEN ops[NameOrder[i]] ELSE <<>>)
    IN  Upto[Len(NameOrder)]

\* The listener: the loggers of the new value, then those only the old one has.
LogIniter(old, new) ==
    InOrder([n \in DOMAIN new |-> Configure(n, new[n])])
    \o InOrder([n \in DOMAIN old \ DOMAIN new |-> Retire(n)])
-----------------------------------------------------------------------------
OutOfLog(t) == msg[t].pc = "out"

\* setValue() calls LogIniter's listener.
CallLogIniter(t) ==
    LET f == frame[t] IN
    /\ f.pc = "call" /\ f.todo # <<>> /\ Head(f.todo).cb = "log" /\ work[t] = <<>>
    /\ work' = [work EXCEPT ![t] = LogIniter(m_val[f.name], f.new)]
    /\ frame' = [frame EXCEPT ![t].pc = "log", ![t].todo = Tail(@)]
    /\ UNCHANGED <<s_datas, m_val, m_cbs, s_fun_id, readers, copy, rest, clean, before>>
    /\ UNCHANGED <<m_loggers, owner, msg, verdict>>

\* Its next operation. getLogger() makes a logger that does not exist; setLevel()
\* takes no lock.
LogIniterStep(t) ==
    LET op == Head(work[t]) IN
    /\ frame[t].pc = "log" /\ work[t] # <<>>
    /\ op.do \in {"getLogger", "setLevel"} \/ owner[op.name] = None
    /\ m_loggers' = [n \in DOMAIN m_loggers \cup {op.name} |->
                       IF n \notin DOMAIN m_loggers THEN NewLogger(n)
                       ELSE IF n = op.name THEN Applied(m_loggers[n], op)
                       ELSE m_loggers[n]]
    /\ work' = [work EXCEPT ![t] = Tail(@)]
    /\ frame' = [frame EXCEPT ![t].pc = IF Len(work[t]) = 1 THEN "call" ELSE "log"]
    /\ UNCHANGED <<s_datas, m_val, m_cbs, s_fun_id, readers, copy, rest, clean, before>>
    /\ UNCHANGED <<owner, msg, verdict>>

\* What becomes of a message of a level under a logger's lock: an appender formats
\* it with its formatter, which must not be null.
Heard(l, level) ==
    LET asked == {i \in DOMAIN l.appenders : level >= l.appenders[i].level} IN
    IF \E i \in asked : l.appenders[i].formatter = None THEN "crash"
    ELSE IF asked # {} THEN "heard" ELSE "filtered"

\* SYLAR_LOG_LEVEL(): getLogger(), and the test of the level, before any lock.
StartLog(t, n, level) ==
    LET exists == n \in DOMAIN m_loggers
        pass == level >= (IF exists THEN m_loggers[n].level ELSE DEBUG)
    IN
    /\ OutOfLog(t) /\ OutOfConfig(t)
    /\ m_loggers' = IF exists THEN m_loggers
                    ELSE [x \in DOMAIN m_loggers \cup {n} |->
                            IF x = n THEN NewLogger(n) ELSE m_loggers[x]]
    /\ IF pass THEN /\ msg' = [msg EXCEPT ![t] = [pc |-> "own", name |-> n, level |-> level]]
                    /\ verdict' = [verdict EXCEPT ![t] = "none"]
       ELSE verdict' = [verdict EXCEPT ![t] = "filtered"] /\ UNCHANGED msg
    /\ UNCHANGED <<owner, work>> /\ UNCHANGED configVars

\* Logger::log() tests the level again, before it takes the lock: the message ends here
\* if the level has been raised meanwhile. (LogOwn goes on after a test that passed.)
LogFiltered(t) ==
    /\ msg[t].pc = "own" /\ msg[t].level < m_loggers[msg[t].name].level
    /\ verdict' = [verdict EXCEPT ![t] = "filtered"]
    /\ msg' = [msg EXCEPT ![t] = NoMessage]
    /\ UNCHANGED <<m_loggers, owner, work>> /\ UNCHANGED configVars

\* Mutant: a logger without appenders drops the message.
LogOwnOnly(t) ==
    LET n == msg[t].name IN
    /\ msg[t].pc = "own" /\ owner[n] = None
    /\ verdict' = [verdict EXCEPT ![t] =
                     IF m_loggers[n].appenders = <<>> THEN "lost"
                     ELSE Heard(m_loggers[n], msg[t].level)]
    /\ msg' = [msg EXCEPT ![t] = NoMessage]
    /\ UNCHANGED <<m_loggers, owner, work>> /\ UNCHANGED configVars

\* Logger::log() under the lock: the appenders, or root's log(), whose level is tested
\* while this lock is kept. Root itself has no m_root.
LogOwn(t) ==
    LET n == msg[t].name
        l == m_loggers[n]
    IN
    /\ msg[t].pc = "own" /\ owner[n] = None
    /\ \/ /\ l.appenders # <<>> \/ n = "root" \/ msg[t].level < m_loggers["root"].level
          /\ verdict' = [verdict EXCEPT ![t] =
                           IF l.appenders = <<>> /\ n = "root" THEN "lost"
                           ELSE Heard(l, msg[t].level)]
          /\ msg' = [msg EXCEPT ![t] = NoMessage]
          /\ UNCHANGED owner
       \/ /\ l.appenders = <<>> /\ n # "root" /\ msg[t].level >= m_loggers["root"].level
          /\ owner' = [owner EXCEPT ![n] = t]
          /\ msg' = [msg EXCEPT ![t].pc = "root"]
          /\ UNCHANGED verdict
    /\ UNCHANGED <<m_loggers, work>> /\ UNCHANGED configVars

\* Root's log() under root's lock, then both locks are released.
LogRoot(t) ==
    LET l == m_loggers["root"] IN
    /\ msg[t].pc = "root" /\ owner["root"] = None
    /\ verdict' = [verdict EXCEPT ![t] =
                     IF l.appenders = <<>> THEN "lost" ELSE Heard(l, msg[t].level)]
    /\ owner' = [owner EXCEPT ![msg[t].name] = None]
    /\ msg' = [msg EXCEPT ![t] = NoMessage]
    /\ UNCHANGED <<m_loggers, work>> /\ UNCHANGED configVars

\* Logger::setFormatter(), called by a client.
SetFormatter(t, n, fmt) ==
    /\ OutOfLog(t) /\ OutOfConfig(t) /\ n \in DOMAIN m_loggers /\ owner[n] = None
    /\ m_loggers' = [m_loggers EXCEPT ![n] = WithFormatter(@, fmt)]
    /\ UNCHANGED <<owner, work, msg, verdict>> /\ UNCHANGED configVars

\* addAppender() of a new appender, called by a client.
AddAppender(t, n, type) ==
    /\ OutOfLog(t) /\ OutOfConfig(t) /\ n \in DOMAIN m_loggers /\ owner[n] = None
    /\ m_loggers' = [m_loggers EXCEPT ![n] =
         PlusAppender(@, [type |-> type, file |-> "", level |-> DEBUG, formatter |-> None,
                          own |-> FALSE])]
    /\ UNCHANGED <<owner, work, msg, verdict>> /\ UNCHANGED configVars

\* delAppender() of the logger's i-th appender.
DelAppender(t, n, i) ==
    /\ OutOfLog(t) /\ OutOfConfig(t) /\ n \in DOMAIN m_loggers /\ owner[n] = None
    /\ i \in DOMAIN m_loggers[n].appenders
    /\ m_loggers' = [m_loggers EXCEPT ![n].appenders = RemoveAt(@, i)]
    /\ UNCHANGED <<owner, work, msg, verdict>> /\ UNCHANGED configVars

\* LogAppender::setFormatter() under the appender's lock, which log() takes under the
\* logger's. A pattern with an error leaves the formatter and resets m_hasFormatter.
AppenderSetFormatter(t, n, i, fmt) ==
    /\ OutOfLog(t) /\ OutOfConfig(t) /\ n \in DOMAIN m_loggers
    /\ i \in DOMAIN m_loggers[n].appenders
    /\ m_loggers' = [m_loggers EXCEPT ![n].appenders[i] =
         IF fmt = BadPattern THEN [@ EXCEPT !.own = FALSE]
         ELSE [@ EXCEPT !.formatter = fmt, !.own = TRUE]]
    /\ UNCHANGED <<owner, work, msg, verdict>> /\ UNCHANGED configVars

\* The steps a call makes once it has begun.
LogStep(t) == CallLogIniter(t) \/ LogIniterStep(t) \/ LogFiltered(t) \/ LogOwn(t) \/ LogRoot(t)
InCall(t) == ~OutOfConfig(t) \/ ~OutOfLog(t)
-----------------------------------------------------------------------------
(* Properties *)

\* The loggers of n's value, and of the one before it.
LoggersAgree(n) ==
    /\ \A name \in DOMAIN m_val[n] :
         LET def == m_val[n][name]
             l == m_loggers[LoggerOf(name)]
         IN  /\ l.level = def.level
             /\ Len(l.appenders) = Len(def.appenders)
             /\ \A i \in DOMAIN def.appenders :
                  LET a == NewAppender(def.appenders[i]) IN
                  /\ l.appenders[i].type = a.type /\ l.appenders[i].file = a.file
                  /\ l.appenders[i].level = a.level
                  /\ l.appenders[i].formatter = IF a.own THEN a.formatter ELSE l.formatter
    /\ \A name \in DOMAIN before[n] \ DOMAIN m_val[n] :
         m_loggers[LoggerOf(name)].level = Removed

\* A change that one call has made alone, and whose listeners all returned, has
\* reached what the listeners keep: the connect timeout of hook.cpp is the value, and
\* the loggers are what the value says. Until then, and after two setValue() calls that
\* overlap or a listener that throws, they may differ.
ListenersAgree ==
    /\ CopiesAgree
    /\ \A n \in Names : Settled(n) /\ Listens(n, "log") => LoggersAgree(n)

\* A message that has passed the tests of its level reaches an appender, also while
\* another thread changes the loggers: a logger whose appenders are taken away falls
\* back on root. Only while root itself is being configured it may find nobody.
NothingLost == [][\A t \in Clients : verdict'[t] # verdict[t] =>
    /\ verdict'[t] # "crash"
    /\ verdict'[t] = "lost" => \E u \in Clients : \E i \in DOMAIN work[u] :
                                 work[u][i].name = "root" /\ work[u][i].do = "addAppender"]_logVars
=============================================================================
