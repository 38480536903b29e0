------------------------------- MODULE Socket -------------------------------
(***************************************************************************)
(* sylar::Socket (socket.cpp) on the hooked system calls: what fibers do   *)
(* with Socket objects, down to descriptors, contexts and event slots. A   *)
(* method runs in its fiber; between its system calls, and inside of them, *)
(* other fibers run. Addresses and options other than the timeouts carry   *)
(* no state here; SSLSocket is left out.                                   *)
(***************************************************************************)
EXTENDS Hook

CONSTANTS
    Objects,        \* Socket objects
    Udp,            \* the ones of type UDP
    Sharing,        \* a fiber may close a Socket another fiber is using
    MaxMethods      \* bound: methods that clients call

ASSUME SocketAssumption ==
    /\ None \notin Objects /\ Udp \subseteq Objects
    /\ Sharing \in BOOLEAN /\ MaxMethods \in Nat

VARIABLES
    alive,          \* objects that exist
    m_sock, m_isConnected,
    meth,           \* the method each fiber is in, and its objects
    methods         \* methods called so far

objVars == <<alive, m_sock, m_isConnected, methods>>
vars == <<hookVars, objVars, meth>>

NoMethod == [name |-> None, obj |-> None, new |-> None]

Init ==
    /\ HookInit
    /\ alive = {}
    /\ m_sock = [o \in Objects |-> -1]
    /\ m_isConnected = [o \in Objects |-> FALSE]
    /\ meth = [f \in Fibers |-> NoMethod]
    /\ methods = 0

Users(o) == {f \in Fibers : o \in {meth[f].obj, meth[f].new}}
IsValid(o) == m_sock[o] # -1

\* A fiber may begin a method; one that only reads or writes may share the object
\* with a method for the other direction, any other has it for itself.
Idle(f) == pc[f] = "app" /\ methods < MaxMethods
Alone(f, o) == Idle(f) /\ o \in alive /\ Users(o) = {}
Beside(f, o, name) ==
    /\ Idle(f) /\ o \in alive
    /\ \A g \in Users(o) : meth[g].name \in {"recv", "send", "accept"}
                           /\ Event(meth[g].name) # Event(name)

Enters(f, name, o) == meth' = [meth EXCEPT ![f] = [name |-> name, obj |-> o, new |-> None]]
Returned(f, name) == pc[f] = "ret" /\ meth[f].name = name
MethodEnds(f) ==
    /\ pc' = [pc EXCEPT ![f] = "app"]
    /\ call' = [call EXCEPT ![f] = NoCall]
    /\ meth' = [meth EXCEPT ![f] = NoMethod]
    /\ UNCHANGED <<kernelVars, m_datas, slots, timerVars, calls>>
-----------------------------------------------------------------------------
(* Creation and the end *)

\* What socket() makes for an object.
Kind(o) == IF o \in Udp THEN "datagram" ELSE "new"

\* CreateTCP() and its likes, and CreateUnixUDPSocket(): no descriptor yet.
CreateTCP(o) ==
    /\ o \notin alive /\ Users(o) = {}
    /\ alive' = alive \cup {o}
    /\ m_sock' = [m_sock EXCEPT ![o] = -1]
    /\ m_isConnected' = [m_isConnected EXCEPT ![o] = FALSE]
    /\ UNCHANGED <<hookVars, meth, methods>>

\* CreateUDP() and its likes: newSock() follows, and the object counts as connected,
CreateUDP(f, o) ==
    /\ Idle(f) /\ o \in Udp \ alive /\ Users(o) = {}
    /\ SocketF(f, Kind(o)) /\ Enters(f, "create", o)
    /\ methods' = methods + 1
    /\ UNCHANGED <<alive, m_sock, m_isConnected>>

\* also without a descriptor.
CreateReturns(f) ==
    LET o == meth[f].obj
    IN
    /\ Returned(f, "create")
    /\ alive' = alive \cup {o}
    /\ m_sock' = [m_sock EXCEPT ![o] = call[f].fd]
    /\ m_isConnected' = [m_isConnected EXCEPT ![o] = TRUE]
    /\ MethodEnds(f)
    /\ UNCHANGED methods

\* close() of an object that has nothing to close changes nothing; else the flag is
\* cleared and ::close() follows. ~Socket() does the same.
Close(f, o, name) ==
    /\ name \in {"close", "destroy"}
    /\ Alone(f, o) \/ (Sharing /\ name = "close" /\ Idle(f) /\ o \in alive)
    /\ m_isConnected' = [m_isConnected EXCEPT ![o] = FALSE]
    /\ \/ /\ IsValid(o)
          /\ CloseBegins(f, m_sock[o]) /\ Enters(f, name, o)
          /\ methods' = methods + 1
          /\ UNCHANGED <<alive, m_sock>>
       \/ /\ ~IsValid(o)
          /\ alive' = IF name = "destroy" THEN alive \ {o} ELSE alive
          /\ UNCHANGED <<hookVars, m_sock, meth, methods>>

\* ::close() has returned.
CloseReturns(f) ==
    LET o == meth[f].obj
    IN
    /\ Returned(f, "close") \/ Returned(f, "destroy")
    /\ m_sock' = [m_sock EXCEPT ![o] = -1]
    /\ alive' = IF meth[f].name = "destroy" THEN alive \ {o} ELSE alive
    /\ MethodEnds(f)
    /\ UNCHANGED <<m_isConnected, methods>>
-----------------------------------------------------------------------------
(* Connecting *)

\* connect() and reconnect(), up to the first system call.
Connect(f, o, to) ==
    /\ Alone(f, o)
    /\ \/ IsValid(o) /\ ConnectF(f, m_sock[o], to) /\ Enters(f, "connect", o)
       \/ ~IsValid(o) /\ SocketF(f, Kind(o)) /\ Enters(f, "connectNew", o)
    /\ methods' = methods + 1
    /\ UNCHANGED <<alive, m_sock, m_isConnected>>

\* newSock() has returned: connect() goes on, or fails without a descriptor or with
\* an address of another family.
ConnectNew(f, to) ==
    LET o == meth[f].obj
        fd == call[f].fd
    IN
    /\ Returned(f, "connectNew")
    /\ m_sock' = [m_sock EXCEPT ![o] = fd]
    /\ \/ fd # -1 /\ ConnectF(f, fd, to) /\ Enters(f, "connect", o)
       \/ MethodEnds(f)
    /\ UNCHANGED <<alive, m_isConnected, methods>>

\* Mutant: the descriptor is forgotten, not closed.
ConnectReturnsLeaking(f) ==
    LET o == meth[f].obj
        ok == call[f].result = "ok"
    IN
    /\ Returned(f, "connect")
    /\ m_isConnected' = [m_isConnected EXCEPT ![o] = ok]
    /\ m_sock' = [m_sock EXCEPT ![o] = IF ok THEN @ ELSE -1]
    /\ MethodEnds(f)
    /\ UNCHANGED <<alive, methods>>

\* Mutant: the descriptor is closed, and its number kept.
ConnectReturnsStale(f) ==
    LET o == meth[f].obj
        ok == call[f].result = "ok"
    IN
    /\ Returned(f, "connect")
    /\ m_isConnected' = [m_isConnected EXCEPT ![o] = ok]
    /\ IF ok THEN MethodEnds(f)
             ELSE CloseBegins(f, m_sock[o]) /\ Enters(f, "recv", o)
    /\ UNCHANGED <<alive, m_sock, methods>>

\* The system call has returned; on an error close() follows (which finds nothing to
\* close if another fiber has closed the object).
ConnectReturns(f) ==
    LET o == meth[f].obj
    IN
    /\ Returned(f, "connect")
    /\ \/ /\ call[f].result = "ok"
          /\ m_isConnected' = [m_isConnected EXCEPT ![o] = TRUE]
          /\ MethodEnds(f)
       \/ /\ call[f].result # "ok"
          /\ m_isConnected' = [m_isConnected EXCEPT ![o] = FALSE]
          /\ IF IsValid(o) THEN CloseBegins(f, m_sock[o]) /\ Enters(f, "close", o)
                           ELSE MethodEnds(f)
    /\ UNCHANGED <<alive, m_sock, methods>>
-----------------------------------------------------------------------------
(* Servers *)

\* bind() makes a descriptor if there is none. (The probe of a Unix address with a
\* second Socket is connect() and the destructor of that one.)
Bind(f, o) ==
    /\ Alone(f, o) /\ ~IsValid(o)
    /\ SocketF(f, Kind(o)) /\ Enters(f, "bind", o)
    /\ methods' = methods + 1
    /\ UNCHANGED <<alive, m_sock, m_isConnected>>

BindReturns(f) ==
    /\ Returned(f, "bind")
    /\ m_sock' = [m_sock EXCEPT ![meth[f].obj] = call[f].fd]
    /\ MethodEnds(f)
    /\ UNCHANGED <<alive, m_isConnected, methods>>

\* listen()
Listen(f, o) ==
    /\ Alone(f, o) /\ IsValid(o) /\ socks[m_sock[o]].conn = "new"
    /\ socks' = [socks EXCEPT ![m_sock[o]].conn = "listening"]
    /\ UNCHANGED <<made, aborted, m_datas, slots, timerVars, pc, call, calls, objVars, meth>>

\* accept(): the object for the client is made first.
Accept(f, o, new) ==
    /\ Beside(f, o, "accept") /\ IsValid(o) /\ socks[m_sock[o]].conn = "listening"
    /\ new \notin alive \cup Udp /\ Users(new) = {}
    /\ DoIo(f, "accept", m_sock[o])
    /\ meth' = [meth EXCEPT ![f] = [name |-> "accept", obj |-> o, new |-> new]]
    /\ methods' = methods + 1
    /\ UNCHANGED <<alive, m_sock, m_isConnected>>

\* init(newsock): the client's object gets the descriptor if it has a context.
AcceptReturns(f) ==
    LET new == meth[f].new
        fd == call[f].fd
    IN
    /\ Returned(f, "accept")
    /\ \/ /\ call[f].result = "ok" /\ m_datas[fd].isSocket
          /\ alive' = alive \cup {new}
          /\ m_sock' = [m_sock EXCEPT ![new] = fd]
          /\ m_isConnected' = [m_isConnected EXCEPT ![new] = TRUE]
          /\ UNCHANGED methods
       \/ ~(call[f].result = "ok" /\ m_datas[fd].isSocket) /\ UNCHANGED objVars
    /\ MethodEnds(f)
-----------------------------------------------------------------------------
(* Sending, receiving, cancelling, options *)

\* recv(), recvFrom(), send(), sendTo() in all their forms, on objects that have a
\* descriptor: CreateUDP() may have failed, and callers ask isValid() then.
Transfer(f, o, name) ==
    /\ Beside(f, o, name) /\ m_isConnected[o] /\ IsValid(o)
    /\ DoIo(f, name, m_sock[o]) /\ Enters(f, name, o)
    /\ methods' = methods + 1
    /\ UNCHANGED <<alive, m_sock, m_isConnected>>

TransferReturns(f) ==
    /\ Returned(f, "recv") \/ Returned(f, "send") \/ Returned(f, "sleep")
    /\ MethodEnds(f)
    /\ UNCHANGED objVars

\* A fiber may also sleep.
Sleeps(f) ==
    /\ Idle(f) /\ Sleep(f) /\ Enters(f, "sleep", None)
    /\ methods' = methods + 1
    /\ UNCHANGED <<alive, m_sock, m_isConnected>>

\* cancelRead(), cancelAccept(), cancelWrite(), and one event after the other for
\* cancelAll(), from a fiber that is not waiting.
Cancel(o, e) ==
    /\ o \in alive /\ IsValid(o) /\ slots[m_sock[o]][e] # Empty
    /\ CancelEvent(m_sock[o], e)
    /\ UNCHANGED <<timerVars, objVars, meth>>

\* setRecvTimeout(), setSendTimeout(), and fcntl() and ioctl() on getSocket().
Option(o) ==
    /\ o \in alive /\ IsValid(o) /\ \A f \in Users(o) : meth[f].name \notin {"close", "destroy"}
    /\ methods < MaxMethods /\ methods' = methods + 1
    /\ \/ \E e \in Events, v \in Timeouts : SetSockOpt(m_sock[o], e, v)
       \/ \E nonblock \in BOOLEAN : FcntlSetFl(m_sock[o], nonblock) \/ Ioctl(m_sock[o], nonblock)
    /\ UNCHANGED <<alive, m_sock, m_isConnected, meth>>

Finished == methods >= MaxMethods /\ \A f \in Fibers : pc[f] = "app"

Step ==
    \/ HookStep /\ UNCHANGED <<objVars, meth>>
    \/ \E o \in Objects : CreateTCP(o) \/ Option(o) \/ \E e \in Events : Cancel(o, e)
    \/ \E f \in Fibers, o \in Objects :
          \/ \E name \in {"close", "destroy"} : Close(f, o, name)
          \/ \E to \in Timeouts \cup {Forever} : Connect(f, o, to)
          \/ CreateUDP(f, o) \/ Bind(f, o) \/ Listen(f, o)
          \/ \E new \in Objects : Accept(f, o, new)
          \/ \E name \in {"recv", "send"} : Transfer(f, o, name)
    \/ \E f \in Fibers :
          \/ CreateReturns(f) \/ CloseReturns(f) \/ ConnectReturns(f) \/ BindReturns(f)
          \/ AcceptReturns(f) \/ TransferReturns(f) \/ Sleeps(f)
          \/ \E to \in Timeouts \cup {Forever} : ConnectNew(f, to)
    \/ Finished /\ UNCHANGED vars

\* After a failed assertion nothing happens any more.
Next == \/ ~aborted /\ Step
        \/ aborted /\ UNCHANGED vars

Spec == Init /\ [][Next]_vars
-----------------------------------------------------------------------------
(* Properties *)

\* No context outlives its socket: whatever closes and opens race, a descriptor that
\* is given out again never has the timeouts and flags of its predecessor.
CtxIsCurrent ==
    \A fd \in Fds : m_datas[fd] # NoCtx => IsOpen(fd) /\ m_datas[fd].id = socks[fd].id

\* A call works on the socket it was made for from its first step to its last,
\* although it names it by a number that the kernel gives out again. (Only as long as
\* no fiber closes a Socket that another one is using: with Sharing it fails.)
NoForeignSocket ==
    \A f \in Fibers :
        pc[f] \in {"try", "raw", "arm", "reg", "wait", "check", "del", "closef"} =>
            socks[call[f].fd].id = call[f].id

\* No error path loses a descriptor: every open one belongs to one object, or to a
\* method that has not stored it yet.
NoLeak ==
    \A fd \in Fds : IsOpen(fd) =>
        \/ \E o \in alive : m_sock[o] = fd /\ \A p \in alive \ {o} : m_sock[p] # fd
        \/ \E f \in Fibers : pc[f] # "app" /\ call[f].fd = fd

\* A socket with a context is non-blocking in the kernel, so that no hooked call
\* stops the thread and all fibers on it.
NoThreadBlocks ==
    \A fd \in Fds : m_datas[fd] # NoCtx => socks[fd].nonblock

\* The assertion in addEvent() holds: the slot a call is about to fill is empty. (The
\* one in triggerEvent() does not hold, see ReportError.)
NoAbort ==
    \A f \in Fibers : pc[f] = "reg" /\ IsOpen(call[f].fd) => slots[call[f].fd][Ev(f)] = Empty

\* A fiber that waits is registered with the socket it waits for, so that an event,
\* a timeout or cancelRead() reaches it.
WaitersAreReachable ==
    \A f \in Fibers : pc[f] = "wait" =>
        slots[call[f].fd][Ev(f)] = [fiber |-> f, id |-> socks[call[f].fd].id]

\* Timers do not outlive the calls that set them, however often a call is tried.
NoStaleTimer ==
    \A t \in timers : calls[t.fiber] = t.info /\ pc[t.fiber] \in {"reg", "wait", "woken"}
=============================================================================
