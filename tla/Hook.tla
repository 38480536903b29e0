-------------------------------- MODULE Hook --------------------------------
(***************************************************************************)
(* The hooked system calls (hook.cpp) and the table of descriptor contexts *)
(* behind them (fd_manager.cpp), as the fibers of a pool use them: a call  *)
(* that would block registers its fiber with the IOManager, guarded by a   *)
(* condition timer, and is tried again when the fiber is resumed.          *)
(*                                                                         *)
(* The kernel numbers descriptors anew after close(); every socket has an  *)
(* identity of its own, a ghost the program cannot see. Timers and event   *)
(* slots are reduced to what Timer and IOManager establish about them: a   *)
(* one-shot callback runs once, and a slot is emptied by whoever resumes   *)
(* its fiber. A call of a module that extends this one begins at "app" and *)
(* ends at "ret".                                                          *)
(***************************************************************************)
EXTENDS Integers, FiniteSets

CONSTANTS
    Fibers,
    Fds,            \* numbers the kernel gives to descriptors
    Timeouts,       \* what clients set, besides none (-1)
    FionbioOff,     \* clients also call ioctl(FIONBIO) with 0
    MaxSockets      \* bound: sockets the kernel creates

ASSUME HookAssumption ==
    /\ "none" \notin Fibers
    /\ Fds \subseteq Nat /\ Fds # {} /\ IsFiniteSet(Fds)
    /\ Timeouts \subseteq Nat /\ FionbioOff \in BOOLEAN
    /\ MaxSockets \in Nat

VARIABLES
    socks,          \* kernel: the socket behind each descriptor, or Closed
    made,           \* kernel: sockets created so far
    aborted,        \* kernel: a failed assertion has ended the process
    m_datas,        \* FdManager: the context of each descriptor, or NoCtx
    slots,          \* IOManager: the fiber registered for each descriptor and event
    timers,         \* condition timers that run: their callback's captures
    cbs,            \* callbacks that are scheduled
    firing,         \* callbacks between the assignment to cancelled and cancelEvent()
    pc,             \* where each fiber is
    call,           \* the parameters and locals of its call
    calls,          \* the number of its calls: names the timer_info of the current one
    cancelled       \* tinfo->cancelled of the current call

kernelVars == <<socks, made, aborted>>
timerVars == <<timers, cbs, firing, cancelled>>
hookVars == <<socks, made, aborted, m_datas, slots, timers, cbs, firing, pc, call, calls,
              cancelled>>

Events == {"READ", "WRITE"}
Forever == -1
None == "none"
Closed == [id |-> 0, conn |-> "closed", nonblock |-> FALSE]
NoCtx == [id |-> 0, isSocket |-> FALSE, userNonblock |-> FALSE,
          timeout |-> [e \in Events |-> Forever]]
NoCall == [op |-> None, fd |-> Forever, id |-> 0, to |-> Forever, result |-> None]
Empty == [fiber |-> None, id |-> 0]

IsOpen(fd) == socks[fd] # Closed
Free == {fd \in Fds : ~IsOpen(fd)}
Event(op) == IF op \in {"recv", "accept"} THEN "READ" ELSE "WRITE"
Ev(f) == Event(call[f].op)

HookInit ==
    /\ socks = [fd \in Fds |-> Closed] /\ made = 0 /\ aborted = FALSE
    /\ m_datas = [fd \in Fds |-> NoCtx]
    /\ slots = [fd \in Fds |-> [e \in Events |-> Empty]]
    /\ timers = {} /\ cbs = {} /\ firing = {}
    /\ pc = [f \in Fibers |-> "app"]
    /\ call = [f \in Fibers |-> NoCall]
    /\ calls = [f \in Fibers |-> 0]
    /\ cancelled = [f \in Fibers |-> FALSE]

\* A call begins, with a timer_info of its own, and goes on at `at'.
Begin(f, op, fd, to, at, result) ==
    /\ pc[f] \in {"app", "ret"}
    /\ calls' = [calls EXCEPT ![f] = @ + 1]
    /\ cancelled' = [cancelled EXCEPT ![f] = FALSE]
    /\ call' = [call EXCEPT ![f] = [op |-> op, fd |-> fd, to |-> to, result |-> result,
                                    id |-> IF fd \in Fds THEN socks'[fd].id ELSE 0]]
    /\ pc' = [pc EXCEPT ![f] = at]
    /\ UNCHANGED <<timers, cbs, firing>>

Goto(f, at) == pc' = [pc EXCEPT ![f] = at] /\ UNCHANGED call
Return(f, result) ==
    /\ pc' = [pc EXCEPT ![f] = "ret"]
    /\ call' = [call EXCEPT ![f].result = result]
-----------------------------------------------------------------------------
(* Kernel *)

\* The lowest free number is given to a new socket.
NewFd(fd, conn) ==
    /\ fd \in Free /\ \A g \in Free : fd <= g
    /\ made < MaxSockets /\ made' = made + 1
    /\ socks' = [socks EXCEPT ![fd] = [id |-> made + 1, conn |-> conn, nonblock |-> FALSE]]
    /\ UNCHANGED aborted

\* Data or a connection may be there, or room to send, at any time: which it is shows
\* when the kernel is asked.
MayBeReady(fd, e) ==
    \/ socks[fd].conn \in {"connected", "datagram"}
    \/ socks[fd].conn = "listening" /\ e = "READ"

\* So may an error or a hang-up, and it is there after a refused connect().
MayFail(fd) == socks[fd].conn \in {"connected", "datagram", "refused"}

\* An attempt to connect is answered.
Answered(fd, conn) ==
    /\ socks[fd].conn = "connecting" /\ conn \in {"connected", "refused"}
    /\ socks' = [socks EXCEPT ![fd].conn = conn]
    /\ UNCHANGED <<made, aborted, m_datas, slots, timerVars, pc, call, calls>>
-----------------------------------------------------------------------------
(* The IOManager's part *)

\* The fibers registered for some events of a descriptor are resumed, and the events
\* are no longer registered.
Emptied(fd, es) == [slots EXCEPT ![fd] = [e \in Events |-> IF e \in es THEN Empty ELSE @[e]]]
Resumed(fd, es) ==
    [f \in Fibers |-> IF \E e \in es : slots[fd][e].fiber = f THEN "woken" ELSE pc[f]]
Triggered(fd, es) == slots' = Emptied(fd, es) /\ pc' = Resumed(fd, es)

\* Mutant: the event stays registered.
ReportKeepsSlot(fd, e) ==
    /\ MayBeReady(fd, e)
    /\ slots[fd][e].fiber # None /\ slots[fd][e].id = socks[fd].id
    /\ pc' = Resumed(fd, {e})
    /\ UNCHANGED <<kernelVars, m_datas, slots, timerVars, call, calls>>

\* epoll reports an event of the socket it was registered for.
Report(fd, e) ==
    /\ MayBeReady(fd, e)
    /\ slots[fd][e].fiber # None /\ slots[fd][e].id = socks[fd].id
    /\ Triggered(fd, {e})
    /\ UNCHANGED <<kernelVars, m_datas, timerVars, call, calls>>

\* epoll reports EPOLLERR or EPOLLHUP, which idle() widens to both events; for one that
\* is not registered the assertion in triggerEvent() ends the process.
ReportError(fd) ==
    LET registered == {e \in Events : /\ slots[fd][e].fiber # None
                                      /\ slots[fd][e].id = socks[fd].id}
    IN
    /\ MayFail(fd) /\ registered # {}
    /\ \/ registered = Events /\ Triggered(fd, Events) /\ UNCHANGED aborted
       \/ registered # Events /\ aborted' = TRUE /\ UNCHANGED <<slots, pc>>
    /\ UNCHANGED <<socks, made, m_datas, timerVars, call, calls>>

\* cancelEvent(fd, e), also from Socket::cancelRead() and its likes.
CancelEvent(fd, e) ==
    /\ Triggered(fd, {e})
    /\ UNCHANGED <<kernelVars, m_datas, call, calls>>
-----------------------------------------------------------------------------
(* FdManager *)

FreshCtx(fd) ==
    [id |-> socks[fd].id, isSocket |-> IsOpen(fd), userNonblock |-> FALSE,
     timeout |-> [e \in Events |-> Forever]]

\* get(fd, true), under the read lock: the context that is there.
GetFinds(f) ==
    LET fd == call[f].fd
    IN
    /\ pc[f] = "new"
    /\ \/ m_datas[fd] # NoCtx /\ Return(f, "ok")
       \/ m_datas[fd] = NoCtx /\ Goto(f, "create")
    /\ UNCHANGED <<kernelVars, m_datas, slots, timerVars, calls>>

\* get(fd, true), under the write lock: FdCtx::init() makes a socket non-blocking.
GetCreates(f) ==
    LET fd == call[f].fd
    IN
    /\ pc[f] = "create"
    /\ m_datas' = [m_datas EXCEPT ![fd] = FreshCtx(fd)]
    /\ socks' = [socks EXCEPT ![fd].nonblock = IF IsOpen(fd) THEN TRUE ELSE @]
    /\ Return(f, "ok")
    /\ UNCHANGED <<made, aborted, slots, timerVars, calls>>

\* socket(): the kernel's part; get(fd, true) follows.
SocketF(f, conn) ==
    /\ \/ \E fd \in Fds : NewFd(fd, conn) /\ Begin(f, "socket", fd, Forever, "new", None)
       \/ Free = {} /\ UNCHANGED kernelVars
          /\ Begin(f, "socket", Forever, Forever, "ret", "error")
    /\ UNCHANGED <<m_datas, slots>>
-----------------------------------------------------------------------------
(* do_io() *)

\* A call is hooked if the descriptor has the context of a socket that the user has
\* not made non-blocking; the timeout is read once.
Hooked(fd) == m_datas[fd].isSocket /\ ~m_datas[fd].userNonblock

DoIo(f, op, fd) ==
    /\ UNCHANGED <<kernelVars, m_datas, slots>>
    /\ Begin(f, op, fd, m_datas[fd].timeout[Event(op)],
             IF Hooked(fd) THEN "try" ELSE "raw", None)

\* fun() succeeds.
FunSucceeds(f) ==
    /\ pc[f] \in {"try", "raw"} /\ call[f].op # "accept"
    /\ MayBeReady(call[f].fd, Ev(f))
    /\ Return(f, "ok")
    /\ UNCHANGED <<kernelVars, m_datas, slots, timerVars, calls>>

\* accept_f() succeeds, and accept() goes on with get(newfd, true).
FunAccepts(f) ==
    /\ pc[f] \in {"try", "raw"} /\ call[f].op = "accept"
    /\ MayBeReady(call[f].fd, "READ")
    /\ \E new \in Free :
           /\ NewFd(new, "connected")
           /\ call' = [call EXCEPT ![f].fd = new, ![f].id = made + 1]
    /\ pc' = [pc EXCEPT ![f] = "new"]
    /\ UNCHANGED <<m_datas, slots, timerVars, calls>>

\* fun() fails with EAGAIN, which only a call that is not hooked returns, or for
\* another reason. A kernel socket that is not non-blocking lets the thread wait
\* instead of EAGAIN.
FunFails(f) ==
    LET fd == call[f].fd
    IN
    /\ pc[f] \in {"try", "raw"}
    /\ \/ Return(f, "error")
       \/ /\ IsOpen(fd) /\ socks[fd].nonblock
          /\ IF pc[f] = "try" THEN Goto(f, "arm") ELSE Return(f, "EAGAIN")
    /\ UNCHANGED <<kernelVars, m_datas, slots, timerVars, calls>>

\* What the callback of a call's timer has captured: winfo, fd and event.
Captures(f) == [fiber |-> f, info |-> calls[f], fd |-> call[f].fd, event |-> Ev(f)]

\* addConditionTimer(), if there is a timeout.
AddConditionTimer(f) ==
    /\ pc[f] = "arm"
    /\ timers' = IF call[f].to = Forever THEN timers ELSE timers \cup {Captures(f)}
    /\ Goto(f, "reg")
    /\ UNCHANGED <<kernelVars, m_datas, slots, cbs, firing, cancelled, calls>>

\* addEvent() and YieldToHold(). A closed descriptor is refused by epoll_ctl(): the
\* timer is cancelled, do_io() fails, and connect() asks the socket for its error.
AddEvent(f) ==
    LET fd == call[f].fd
    IN
    /\ pc[f] = "reg"
    /\ \/ /\ IsOpen(fd)
          /\ slots[fd][Ev(f)] = Empty
          /\ slots' = [slots EXCEPT ![fd][Ev(f)] = [fiber |-> f, id |-> socks[fd].id]]
          /\ Goto(f, "wait")
          /\ UNCHANGED timers
       \/ /\ ~IsOpen(fd)
          /\ timers' = timers \ {Captures(f)}
          /\ IF call[f].op = "connect" THEN Goto(f, "check") ELSE Return(f, "error")
          /\ UNCHANGED slots
    /\ UNCHANGED <<kernelVars, m_datas, cbs, firing, cancelled, calls>>

\* Mutant: the timer goes on.
WakesTimed(f) ==
    /\ pc[f] = "woken"
    /\ \/ cancelled[f] /\ Return(f, "ETIMEDOUT")
       \/ ~cancelled[f] /\ Goto(f, IF call[f].op = "connect" THEN "check" ELSE "try")
    /\ cancelled' = [cancelled EXCEPT ![f] = FALSE]
    /\ UNCHANGED <<kernelVars, m_datas, slots, timers, cbs, firing, calls>>

\* The fiber is back: the timer is cancelled, and a timeout ends the call.
Wakes(f) ==
    /\ pc[f] = "woken"
    /\ timers' = timers \ {Captures(f)}
    /\ \/ cancelled[f] /\ Return(f, "ETIMEDOUT")
       \/ ~cancelled[f] /\ Goto(f, IF call[f].op = "connect" THEN "check" ELSE "try")
    /\ cancelled' = [cancelled EXCEPT ![f] = FALSE]
    /\ UNCHANGED <<kernelVars, m_datas, slots, cbs, firing, calls>>

\* A timer expires: its callback is scheduled.
Expires(t) ==
    /\ timers' = timers \ {t} /\ cbs' = cbs \cup {t}
    /\ UNCHANGED <<kernelVars, m_datas, slots, firing, cancelled, pc, call, calls>>

\* The callback: nothing if the call is over (winfo has expired) or cancelled.
Callback(t) ==
    LET live == /\ calls[t.fiber] = t.info /\ ~cancelled[t.fiber]
                /\ pc[t.fiber] \notin {"app", "ret", "new", "create"}
    IN
    /\ cbs' = cbs \ {t}
    /\ firing' = IF live THEN firing \cup {t} ELSE firing
    /\ cancelled' = [cancelled EXCEPT ![t.fiber] = @ \/ live]
    /\ UNCHANGED <<kernelVars, m_datas, slots, timers, pc, call, calls>>

\* Mutant: the event is deleted instead of cancelled, and nobody resumed.
CallbackCancelsSilently(t) ==
    /\ firing' = firing \ {t}
    /\ slots' = Emptied(t.fd, {t.event})
    /\ UNCHANGED <<kernelVars, m_datas, pc, call, calls, timers, cbs, cancelled>>

\* The rest of the callback: the fiber is resumed, if one waits there.
CallbackCancels(t) ==
    /\ firing' = firing \ {t}
    /\ CancelEvent(t.fd, t.event)
    /\ UNCHANGED <<timers, cbs, cancelled>>
-----------------------------------------------------------------------------
(* connect_with_timeout() *)

\* connect_f() succeeds, fails at once, or is under way.
ConnectF(f, fd, to) ==
    LET Outcome(conn, at, result) ==
            /\ socks' = [socks EXCEPT ![fd].conn = conn]
            /\ Begin(f, "connect", fd, to, at, result)
    IN
    /\ \/ m_datas[fd] = NoCtx /\ Outcome(socks[fd].conn, "ret", "EBADF")
       \/ /\ m_datas[fd] # NoCtx
          /\ \/ socks[fd].conn = "new" /\ Outcome("connected", "ret", "ok")
             \/ socks[fd].conn = "datagram" /\ Outcome("datagram", "ret", "ok")
             \/ Outcome(socks[fd].conn, "ret", "error")
             \/ /\ socks[fd].conn = "new" /\ socks[fd].nonblock
                /\ IF Hooked(fd) THEN Outcome("connecting", "arm", None)
                                 ELSE Outcome("connecting", "ret", "EINPROGRESS")
    /\ UNCHANGED <<made, aborted, m_datas, slots>>

\* getsockopt(SO_ERROR)
ConnectChecks(f) ==
    LET fd == call[f].fd
    IN
    /\ pc[f] = "check"
    /\ Return(f, CASE ~IsOpen(fd)                 -> "EBADF"
                   [] socks[fd].conn = "refused"  -> "error"
                   [] OTHER                       -> "ok")
    /\ UNCHANGED <<kernelVars, m_datas, slots, timerVars, calls>>
-----------------------------------------------------------------------------
(* close(), the flags, the options *)

CloseBegins(f, fd) ==
    /\ UNCHANGED <<kernelVars, m_datas, slots>>
    /\ Begin(f, "close", fd, Forever, IF m_datas[fd] = NoCtx THEN "closef" ELSE "cancel", None)

CloseCancels(f) ==
    /\ pc[f] = "cancel"
    /\ slots' = Emptied(call[f].fd, Events)
    /\ pc' = [Resumed(call[f].fd, Events) EXCEPT ![f] = "del"]
    /\ UNCHANGED <<kernelVars, m_datas, timerVars, call, calls>>

\* Mutant: the context is left for the next socket of this number.
CloseDeletesNothing(f) ==
    /\ pc[f] = "del"
    /\ Goto(f, "closef")
    /\ UNCHANGED <<kernelVars, m_datas, slots, timerVars, calls>>

\* FdManager::del()
CloseDeletes(f) ==
    /\ pc[f] = "del"
    /\ m_datas' = [m_datas EXCEPT ![call[f].fd] = NoCtx]
    /\ Goto(f, "closef")
    /\ UNCHANGED <<kernelVars, slots, timerVars, calls>>

CloseF(f) ==
    /\ pc[f] = "closef"
    /\ socks' = [socks EXCEPT ![call[f].fd] = Closed]
    /\ Return(f, "ok")
    /\ UNCHANGED <<made, aborted, m_datas, slots, timerVars, calls>>

\* Mutant: the kernel's flag follows the user's.
FcntlSetFlThrough(fd, nonblock) ==
    /\ m_datas' = IF m_datas[fd].isSocket
                  THEN [m_datas EXCEPT ![fd].userNonblock = nonblock] ELSE m_datas
    /\ socks' = [socks EXCEPT ![fd].nonblock = nonblock]
    /\ UNCHANGED <<made, aborted, slots, timerVars, pc, call, calls>>

\* fcntl(F_SETFL): the kernel's flag stays on for a socket with a context.
FcntlSetFl(fd, nonblock) ==
    /\ m_datas' = IF m_datas[fd].isSocket
                  THEN [m_datas EXCEPT ![fd].userNonblock = nonblock] ELSE m_datas
    /\ socks' = [socks EXCEPT ![fd].nonblock = m_datas[fd].isSocket \/ nonblock]
    /\ UNCHANGED <<made, aborted, slots, timerVars, pc, call, calls>>

\* ioctl(FIONBIO) also sets the kernel's flag to what the user asks for.
Ioctl(fd, nonblock) ==
    /\ nonblock \/ FionbioOff
    /\ m_datas' = IF m_datas[fd].isSocket
                  THEN [m_datas EXCEPT ![fd].userNonblock = nonblock] ELSE m_datas
    /\ socks' = [socks EXCEPT ![fd].nonblock = nonblock]
    /\ UNCHANGED <<made, aborted, slots, timerVars, pc, call, calls>>

\* setsockopt(SO_RCVTIMEO), setsockopt(SO_SNDTIMEO)
SetSockOpt(fd, e, timeout) ==
    /\ m_datas' = IF m_datas[fd] # NoCtx
                  THEN [m_datas EXCEPT ![fd].timeout[e] = timeout] ELSE m_datas
    /\ UNCHANGED <<kernelVars, slots, timerVars, pc, call, calls>>

\* sleep(), usleep(), nanosleep(): a timer schedules the fiber after YieldToHold().
Sleep(f) ==
    /\ UNCHANGED <<kernelVars, m_datas, slots>>
    /\ Begin(f, "sleep", Forever, Forever, "sleep", None)

SleepEnds(f) ==
    /\ pc[f] = "sleep"
    /\ Return(f, "ok")
    /\ UNCHANGED <<kernelVars, m_datas, slots, timerVars, calls>>
-----------------------------------------------------------------------------
\* The steps of calls that have begun, of callbacks, and of the kernel.
HookStep ==
    \/ \E f \in Fibers : \/ FunSucceeds(f) \/ FunAccepts(f) \/ FunFails(f)
                         \/ AddConditionTimer(f) \/ AddEvent(f) \/ Wakes(f)
                         \/ ConnectChecks(f) \/ GetFinds(f) \/ GetCreates(f)
                         \/ CloseCancels(f) \/ CloseDeletes(f) \/ CloseF(f) \/ SleepEnds(f)
    \/ \E t \in timers : Expires(t)
    \/ \E t \in cbs : Callback(t)
    \/ \E t \in firing : CallbackCancels(t)
    \/ \E fd \in Fds, e \in Events : Report(fd, e)
    \/ \E fd \in Fds : ReportError(fd)
    \/ \E fd \in Fds, conn \in {"connected", "refused"} : Answered(fd, conn)
=============================================================================
