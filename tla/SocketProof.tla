----------------------------- MODULE SocketProof -----------------------------
(***************************************************************************)
(* Proofs about Socket for any number of fibers, objects and descriptors.  *)
(* Everything rests on who owns a descriptor: an object that has stored it *)
(* or one method that is about to, never two, and nobody a closed one.     *)
(***************************************************************************)
EXTENDS Socket, TLAPS

Making == {"create", "connectNew", "bind"}
Moving == {"recv", "send", "accept"}
Closing == {"close", "destroy"}
Names == {None, "connect", "sleep"} \cup Making \cup Moving \cup Closing
Conns == {"closed", "new", "datagram", "listening", "connecting", "connected", "refused"}
Places == {"app", "ret", "new", "create", "try", "raw", "arm", "reg", "wait", "woken",
           "check", "cancel", "del", "closef", "sleep"}
Ops == {None, "socket", "connect", "recv", "send", "accept", "close", "sleep"}
Results == {None, "ok", "error", "EAGAIN", "ETIMEDOUT", "EBADF", "EINPROGRESS"}
Times == Timeouts \cup {Forever}
Infos == [fiber : Fibers, info : Nat, fd : Fds, event : Events]

\* A closed descriptor has no identity.
KernelType ==
    /\ socks \in [Fds -> [id : Nat, conn : Conns, nonblock : BOOLEAN]] /\ made \in Nat
    /\ \A fd \in Fds : socks[fd].id = 0 => socks[fd] = Closed
TableType ==
    m_datas \in [Fds -> [id : Nat, isSocket : BOOLEAN, userNonblock : BOOLEAN,
                         timeout : [Events -> Times]]]
SlotType == slots \in [Fds -> [Events -> [fiber : Fibers \cup {None}, id : Nat]]]
TimerType ==
    /\ timers \subseteq Infos /\ cbs \subseteq Infos /\ firing \subseteq Infos
    /\ cancelled \in [Fibers -> BOOLEAN]
PcType == pc \in [Fibers -> Places]
CallType ==
    /\ call \in [Fibers -> [op : Ops, fd : Fds \cup {-1}, id : Nat, to : Times, result : Results]]
    /\ calls \in [Fibers -> Nat]
ObjType ==
    /\ alive \subseteq Objects /\ methods \in Nat
    /\ m_sock \in [Objects -> Fds \cup {-1}] /\ m_isConnected \in [Objects -> BOOLEAN]
MethType ==
    meth \in [Fibers -> [name : Names, obj : Objects \cup {None}, new : Objects \cup {None}]]

TypeInv ==
    /\ KernelType /\ TableType /\ SlotType /\ TimerType /\ PcType /\ CallType
    /\ ObjType /\ MethType

\* Where a fiber can be in each method, and in which system call.
PlaceOK(name, at, op) ==
    /\ at = "app" <=> name = None
    /\ name \in Making => at \in {"new", "create", "ret"}
    /\ name \in Moving =>
          /\ \/ at \in {"try", "raw", "arm", "reg", "wait", "woken", "ret"}
             \/ name = "accept" /\ at \in {"new", "create"}
          /\ op = name
    /\ name = "connect" =>
          at \in {"arm", "reg", "wait", "woken", "check", "ret"} /\ op = "connect"
    /\ name \in Closing => at \in {"cancel", "del", "closef", "ret"}
    /\ name = "sleep" => at \in {"sleep", "ret"}
PlaceInv == \A f \in Fibers : PlaceOK(meth[f].name, pc[f], call[f].op)

\* Which objects a method works on.
ObjectInv ==
    /\ \A o \in Objects : o \notin alive => m_sock[o] = -1
    /\ \A f \in Fibers :
          /\ meth[f].name \in {None, "sleep"} <=> meth[f].obj = None
          /\ meth[f].name = "accept" <=> meth[f].new # None
          /\ meth[f].obj \in alive <=> meth[f].name \notin {None, "sleep", "create"}
          /\ meth[f].new \notin alive
          /\ meth[f].name \in Making => m_sock[meth[f].obj] = -1

\* Two methods share an object only if one reads and the other writes.
ShareInv ==
    \A f, g \in Fibers : f # g =>
        /\ meth[f].obj # None /\ meth[f].obj = meth[g].obj =>
              /\ meth[f].name \in Moving /\ meth[g].name \in Moving
              /\ Event(meth[f].name) # Event(meth[g].name)
        /\ meth[f].new # None => meth[f].new \notin {meth[g].obj, meth[g].new}

\* The method has a descriptor that no object has yet; it has closed its object's
\* descriptor and not reset m_sock; it works on its object's descriptor.
Pending(f) ==
    \/ meth[f].name \in Making
    \/ meth[f].name = "accept" /\ (pc[f] \in {"new", "create"} \/ (pc[f] = "ret" /\ call[f].result = "ok"))
Gone(f) == meth[f].name \in Closing /\ pc[f] = "ret"
Using(f) ==
    \/ meth[f].name \in {"connect", "recv", "send"}
    \/ meth[f].name = "accept" /\ ~Pending(f)
    \/ meth[f].name \in Closing /\ ~Gone(f)

Holds(o, fd) == m_sock[o] = fd /\ \A f \in Fibers : meth[f].obj = o => ~Gone(f)
Brings(f, fd) == Pending(f) /\ call[f].fd = fd

\* An open descriptor has one owner, a closed one has none.
OwnInv ==
    \A fd \in Fds :
        /\ \A o \in Objects : Holds(o, fd) =>
              IsOpen(fd) /\ \A p \in Objects : Holds(p, fd) => p = o
        /\ \A f \in Fibers : Brings(f, fd) =>
              /\ IsOpen(fd)
              /\ \A g \in Fibers : Brings(g, fd) => g = f
              /\ \A o \in Objects : ~Holds(o, fd)
        /\ IsOpen(fd) => (\E o \in Objects : Holds(o, fd)) \/ (\E f \in Fibers : Brings(f, fd))

\* A call names the descriptor of its object, and the socket behind it is the one it
\* was made for.
Works(f) ==
    /\ Pending(f) /\ (pc[f] = "ret" => call[f].result = "ok") => call[f].fd \in Fds
    /\ Using(f) \/ Gone(f) => call[f].fd \in Fds /\ call[f].fd = m_sock[meth[f].obj]
    /\ Using(f) => call[f].id = socks[call[f].fd].id
WorkInv == \A f \in Fibers : Works(f)

\* A context is one of the open socket, which is non-blocking. close_f() finds none, and
\* accept() gives one to the descriptor it returns.
CtxOf(fd) ==
    m_datas[fd] # NoCtx =>
        /\ IsOpen(fd) /\ m_datas[fd].id = socks[fd].id /\ m_datas[fd].isSocket
        /\ ~FionbioOff => socks[fd].nonblock
CtxAt(f) ==
    /\ pc[f] = "closef" => m_datas[call[f].fd] = NoCtx
    /\ meth[f].name = "accept" /\ pc[f] = "ret" /\ call[f].result = "ok" =>
          m_datas[call[f].fd].isSocket
CtxInv == (\A fd \in Fds : CtxOf(fd)) /\ (\A f \in Fibers : CtxAt(f))

\* Slots hold the waiting fibers, and no others.
WaitsAt(f) ==
    pc[f] = "wait" => slots[call[f].fd][Ev(f)] = [fiber |-> f, id |-> socks[call[f].fd].id]
SlotOf(fd, e) ==
    \/ slots[fd][e] = Empty
    \/ \E f \in Fibers : slots[fd][e].fiber = f /\ pc[f] = "wait" /\ call[f].fd = fd /\ Ev(f) = e
SlotInv == (\A f \in Fibers : WaitsAt(f)) /\ (\A fd \in Fds, e \in Events : SlotOf(fd, e))

\* A timer belongs to the call its fiber is in.
TimerInv ==
    \A t \in timers : pc[t.fiber] \in {"reg", "wait", "woken"} /\ t = Captures(t.fiber)

SocketInv ==
    /\ TypeInv /\ PlaceInv /\ ObjectInv /\ ShareInv /\ OwnInv /\ WorkInv
    /\ CtxInv /\ SlotInv /\ TimerInv
-----------------------------------------------------------------------------
USE DEF kernelVars, timerVars, objVars

\* The initial states satisfy the invariant.
LEMMA SocketInvInit == Init => SocketInv
<1> SUFFICES ASSUME Init PROVE SocketInv
    OBVIOUS
<1> USE HookAssumption, SocketAssumption DEF Init, HookInit
<1>1. \A f \in Fibers : pc[f] = "app" /\ meth[f] = NoMethod
    OBVIOUS
<1>2. TypeInv
  <2>1. KernelType /\ TableType /\ SlotType /\ TimerType
      BY DEF KernelType, TableType, SlotType, TimerType, Closed, NoCtx, Empty, None, Forever, Conns, Times
  <2>2. PcType /\ CallType
      BY DEF PcType, CallType, NoCall, None, Forever, Places, Ops, Times, Results
  <2>3. ObjType /\ MethType
      BY DEF ObjType, MethType, NoMethod, Names
  <2> QED BY <2>1, <2>2, <2>3 DEF TypeInv
<1>3. PlaceInv /\ ObjectInv /\ ShareInv
    BY <1>1 DEF PlaceInv, PlaceOK, ObjectInv, ShareInv, NoMethod, None, Making, Moving, Closing
<1>4. OwnInv
    BY <1>1 DEF OwnInv, Holds, Brings, Pending, IsOpen, NoMethod, None, Making
<1>5. WorkInv
    BY <1>1 DEF WorkInv, Works, Using, Gone, Pending, NoMethod, None, Making, Closing
<1>6. CtxInv /\ SlotInv /\ TimerInv
    BY <1>1 DEF CtxInv, CtxOf, CtxAt, SlotInv, WaitsAt, SlotOf, TimerInv, NoMethod, None
<1> QED BY <1>2, <1>3, <1>4, <1>5, <1>6 DEF SocketInv
-----------------------------------------------------------------------------
(* Types *)

USE DEF TypeInv

\* What does not change keeps its type.
LEMMA TypeFrame ==
    ASSUME TypeInv
    PROVE  /\ UNCHANGED kernelVars => KernelType'
           /\ UNCHANGED m_datas => TableType'
           /\ UNCHANGED slots => SlotType'
           /\ UNCHANGED timerVars => TimerType'
           /\ UNCHANGED pc => PcType'
           /\ UNCHANGED <<call, calls>> => CallType'
           /\ UNCHANGED objVars => ObjType'
           /\ UNCHANGED meth => MethType'
<1>1. UNCHANGED kernelVars => KernelType'
    BY DEF KernelType
<1>2. /\ UNCHANGED m_datas => TableType'
      /\ UNCHANGED slots => SlotType'
    BY DEF TableType, SlotType
<1>3. UNCHANGED timerVars => TimerType'
    BY DEF TimerType
<1>4. /\ UNCHANGED pc => PcType'
      /\ UNCHANGED <<call, calls>> => CallType'
    BY DEF PcType, CallType
<1>5. /\ UNCHANGED objVars => ObjType'
      /\ UNCHANGED meth => MethType'
    BY DEF ObjType, MethType
<1> QED BY <1>1, <1>2, <1>3, <1>4, <1>5

\* The beginning of a call keeps the types.
LEMMA BeginType ==
    ASSUME TypeInv, KernelType', NEW f \in Fibers, NEW op \in Ops, NEW fd \in Fds \cup {-1},
           NEW to \in Times, NEW at \in Places, NEW result \in Results,
           Begin(f, op, fd, to, at, result)
    PROVE  PcType' /\ CallType' /\ TimerType'
BY DEF Begin, KernelType, PcType, CallType, TimerType

\* So do the steps of one and its end.
LEMMA ReturnType ==
    ASSUME TypeInv, NEW f \in Fibers
    PROVE  /\ \A result \in Results : Return(f, result) /\ UNCHANGED calls => PcType' /\ CallType'
           /\ \A at \in Places : Goto(f, at) /\ UNCHANGED calls => PcType' /\ CallType'
<1>1. ASSUME NEW result \in Results, Return(f, result), UNCHANGED calls
      PROVE  PcType' /\ CallType'
    BY <1>1 DEF PcType, CallType, Return, Places
<1>2. ASSUME NEW at \in Places, Goto(f, at), UNCHANGED calls
      PROVE  PcType' /\ CallType'
    BY <1>2 DEF PcType, CallType, Goto
<1> QED BY <1>1, <1>2

\* Resuming fibers keeps the types.
LEMMA TriggerType ==
    ASSUME TypeInv, NEW fd \in Fds, NEW es \in SUBSET Events
    PROVE  /\ Emptied(fd, es) \in [Fds -> [Events -> [fiber : Fibers \cup {None}, id : Nat]]]
           /\ Resumed(fd, es) \in [Fibers -> Places]
BY DEF SlotType, PcType, Emptied, Resumed, Empty, Places

\* A call that is under way has a descriptor.
LEMMA CallHasFd ==
    ASSUME SocketInv, NEW f \in Fibers, pc[f] \notin {"app", "ret", "sleep"}
    PROVE  call[f].fd \in Fds
<1>1. meth[f].name \in Names /\ meth[f].name \notin {None, "sleep"}
    BY DEF SocketInv, MethType, PlaceInv, PlaceOK
<1>2. CASE Pending(f)
    BY <1>2 DEF SocketInv, WorkInv, Works
<1>3. CASE ~Pending(f)
  <2>1. Using(f)
      BY <1>1, <1>3 DEF Names, Using, Gone, Pending, Making, Moving
  <2> QED BY <2>1 DEF SocketInv, WorkInv, Works
<1> QED BY <1>2, <1>3

\* The steps of calls, callbacks and the kernel keep the types.
LEMMA HookType ==
    ASSUME SocketInv, HookStep, UNCHANGED <<objVars, meth>>
    PROVE  TypeInv'
<1>0. TypeInv /\ ObjType' /\ MethType'
    BY TypeFrame DEF SocketInv
<1>1. ASSUME NEW f \in Fibers, FunSucceeds(f) \/ GetFinds(f) \/ SleepEnds(f)
      PROVE  TypeInv'
    BY <1>0, <1>1, TypeFrame, ReturnType DEF FunSucceeds, GetFinds, SleepEnds, Results, Places
<1>2. ASSUME NEW f \in Fibers, FunAccepts(f) PROVE TypeInv'
  <2>1. KernelType' /\ PcType' /\ CallType'
    <3>1. PICK new \in Fds : /\ NewFd(new, "connected")
                             /\ call' = [call EXCEPT ![f].fd = new, ![f].id = made + 1]
        BY <1>2 DEF FunAccepts, Free
    <3>2. KernelType'
        BY <1>0, <3>1 DEF KernelType, NewFd, Conns
    <3>3. PcType'
        BY <1>0, <1>2 DEF FunAccepts, PcType, Places
    <3>4. CallType'
      <4>1. made + 1 \in Nat
          BY <1>0 DEF KernelType
      <4>2. call' = [call EXCEPT ![f] = [call[f] EXCEPT !.fd = new, !.id = made + 1]]
          BY <1>0, <3>1 DEF CallType
      <4>3. [call[f] EXCEPT !.fd = new, !.id = made + 1]
                \in [op : Ops, fd : Fds \cup {-1}, id : Nat, to : Times, result : Results]
          BY <1>0, <4>1 DEF CallType
      <4> QED BY <1>0, <1>2, <4>2, <4>3 DEF FunAccepts, CallType
    <3> QED BY <3>2, <3>3, <3>4
  <2> QED BY <1>0, <1>2, <2>1, TypeFrame DEF FunAccepts
<1>3. ASSUME NEW f \in Fibers, FunFails(f) \/ ConnectChecks(f) PROVE TypeInv'
    BY <1>0, <1>3, TypeFrame, ReturnType DEF FunFails, ConnectChecks, Results, Places
<1>4. ASSUME NEW f \in Fibers, pc[f] \in {"arm", "reg", "woken"} PROVE Captures(f) \in Infos
    BY <1>0, <1>4, CallHasFd DEF CallType, Captures, Infos, Ev, Event, Events
<1>5. ASSUME NEW f \in Fibers, AddConditionTimer(f) PROVE TypeInv'
  <2>1. TimerType'
      BY <1>0, <1>4, <1>5 DEF AddConditionTimer, TimerType
  <2> QED BY <1>0, <1>5, <2>1, TypeFrame, ReturnType DEF AddConditionTimer, Places
<1>6. ASSUME NEW f \in Fibers, AddEvent(f) PROVE TypeInv'
  <2>1. TimerType'
      BY <1>0, <1>6 DEF AddEvent, TimerType
  <2>2. SlotType'
    <3>1. call[f].fd \in Fds /\ Ev(f) \in Events
        BY <1>6, CallHasFd DEF AddEvent, Ev, Event, Events
    <3>2. [fiber |-> f, id |-> socks[call[f].fd].id] \in [fiber : Fibers \cup {None}, id : Nat]
        BY <1>0, <3>1 DEF KernelType
    <3>3. \/ slots' = [slots EXCEPT ![call[f].fd][Ev(f)] =
                                     [fiber |-> f, id |-> socks[call[f].fd].id]]
          \/ UNCHANGED slots
        BY <1>6 DEF AddEvent
    <3>4. [slots[call[f].fd] EXCEPT ![Ev(f)] = [fiber |-> f, id |-> socks[call[f].fd].id]]
              \in [Events -> [fiber : Fibers \cup {None}, id : Nat]]
        BY <1>0, <3>1, <3>2 DEF SlotType
    <3> QED BY <1>0, <3>1, <3>3, <3>4 DEF SlotType
  <2>3. PcType' /\ CallType'
      BY <1>0, <1>6, ReturnType DEF AddEvent, Places, Results
  <2> QED BY <1>0, <1>6, <2>1, <2>2, <2>3, TypeFrame DEF AddEvent
<1>7. ASSUME NEW f \in Fibers, Wakes(f) PROVE TypeInv'
  <2>1. TimerType'
      BY <1>0, <1>7 DEF Wakes, TimerType
  <2> QED BY <1>0, <1>7, <2>1, TypeFrame, ReturnType DEF Wakes, Places, Results
<1>8. ASSUME NEW f \in Fibers, GetCreates(f) PROVE TypeInv'
  <2>1. call[f].fd \in Fds
      BY <1>8, CallHasFd DEF GetCreates
  <2>2. KernelType'
      BY <1>0, <1>8, <2>1 DEF GetCreates, KernelType, IsOpen, Closed
  <2>3. FreshCtx(call[f].fd) \in [id : Nat, isSocket : BOOLEAN, userNonblock : BOOLEAN,
                                  timeout : [Events -> Times]]
      BY <1>0, <2>1 DEF FreshCtx, KernelType, IsOpen, Times
  <2>4. TableType'
      BY <1>0, <1>8, <2>3 DEF GetCreates, TableType
  <2> QED BY <1>0, <1>8, <2>2, <2>4, TypeFrame, ReturnType DEF GetCreates, Results
<1>9. ASSUME NEW f \in Fibers, CloseCancels(f) PROVE TypeInv'
  <2>1. SlotType' /\ PcType'
      BY <1>0, <1>9, CallHasFd, TriggerType DEF CloseCancels, SlotType, PcType, Places
  <2> QED BY <1>0, <1>9, <2>1, TypeFrame DEF CloseCancels
<1>10. ASSUME NEW f \in Fibers, CloseDeletes(f) PROVE TypeInv'
  <2>1. TableType'
      BY <1>0, <1>10 DEF CloseDeletes, TableType, NoCtx, Times
  <2> QED BY <1>0, <1>10, <2>1, TypeFrame, ReturnType DEF CloseDeletes, Places
<1>11. ASSUME NEW f \in Fibers, CloseF(f) PROVE TypeInv'
  <2>1. KernelType'
      BY <1>0, <1>11 DEF CloseF, KernelType, Closed, Conns
  <2> QED BY <1>0, <1>11, <2>1, TypeFrame, ReturnType DEF CloseF, Results
<1>12. ASSUME NEW t \in timers, Expires(t) PROVE TypeInv'
  <2>1. TimerType'
      BY <1>0, <1>12 DEF Expires, TimerType
  <2> QED BY <1>0, <1>12, <2>1, TypeFrame DEF Expires
<1>13. ASSUME NEW t \in cbs, Callback(t) PROVE TypeInv'
  <2>1. TimerType'
      BY <1>0, <1>13 DEF Callback, TimerType
  <2> QED BY <1>0, <1>13, <2>1, TypeFrame DEF Callback
<1>14. ASSUME NEW t \in firing, CallbackCancels(t) PROVE TypeInv'
  <2>1. t.fd \in Fds /\ t.event \in Events
      BY <1>0 DEF TimerType, Infos
  <2>2. SlotType' /\ PcType'
      BY <1>0, <1>14, <2>1, TriggerType DEF CallbackCancels, CancelEvent, Triggered, SlotType, PcType
  <2>3. TimerType'
      BY <1>0, <1>14 DEF CallbackCancels, TimerType
  <2> QED BY <1>0, <1>14, <2>2, <2>3, TypeFrame DEF CallbackCancels, CancelEvent
<1>15. ASSUME NEW fd \in Fds, NEW e \in Events, Report(fd, e) PROVE TypeInv'
  <2>1. SlotType' /\ PcType'
      BY <1>0, <1>15, TriggerType DEF Report, Triggered, SlotType, PcType
  <2> QED BY <1>0, <1>15, <2>1, TypeFrame DEF Report
<1>16. ASSUME NEW fd \in Fds, NEW conn \in {"connected", "refused"}, Answered(fd, conn)
       PROVE  TypeInv'
  <2>1. KernelType'
    <3>1. socks[fd].id # 0
        BY <1>0, <1>16 DEF Answered, KernelType, Closed
    <3> QED BY <1>0, <1>16, <3>1 DEF Answered, KernelType, Conns
  <2> QED BY <1>0, <1>16, <2>1, TypeFrame DEF Answered
<1>17. ASSUME NEW fd \in Fds, ReportError(fd) PROVE TypeInv'
  <2>1. SlotType' /\ PcType'
      BY <1>0, <1>17, TriggerType, TypeFrame DEF ReportError, Triggered, SlotType, PcType
  <2>2. KernelType'
      BY <1>0, <1>17 DEF ReportError, KernelType
  <2> QED BY <1>0, <1>17, <2>1, <2>2, TypeFrame DEF ReportError
<1> QED BY <1>1, <1>2, <1>3, <1>5, <1>6, <1>7, <1>8, <1>9, <1>10, <1>11, <1>12, <1>13, <1>14,
           <1>15, <1>16, <1>17 DEF HookStep

\* socket() keeps the types.
LEMMA SocketFType ==
    ASSUME TypeInv, NEW f \in Fibers, NEW conn \in Conns, SocketF(f, conn)
    PROVE  KernelType' /\ TableType' /\ SlotType' /\ TimerType' /\ PcType' /\ CallType'
<1>1. CASE \E fd \in Fds : NewFd(fd, conn) /\ Begin(f, "socket", fd, Forever, "new", None)
  <2>1. PICK fd \in Fds : NewFd(fd, conn) /\ Begin(f, "socket", fd, Forever, "new", None)
      BY <1>1
  <2>2. KernelType'
      BY <2>1 DEF NewFd, KernelType
  <2> QED BY <2>1, <2>2, BeginType, TypeFrame DEF SocketF, Ops, Times, Places, Results
<1>2. CASE UNCHANGED kernelVars /\ Begin(f, "socket", Forever, Forever, "ret", "error")
    BY <1>2, BeginType, TypeFrame DEF SocketF, Ops, Times, Places, Results, Forever
<1> QED BY <1>1, <1>2 DEF SocketF

\* So do the other system calls,
LEMMA DoIoType ==
    ASSUME TypeInv, NEW f \in Fibers, NEW fd \in Fds, NEW op \in Moving, DoIo(f, op, fd)
    PROVE  KernelType' /\ TableType' /\ SlotType' /\ TimerType' /\ PcType' /\ CallType'
<1>1. m_datas[fd].timeout[Event(op)] \in Times
    BY DEF TableType, Event, Events
<1>2. (IF Hooked(fd) THEN "try" ELSE "raw") \in Places
    BY DEF Places
<1> QED BY <1>1, <1>2, BeginType, TypeFrame DEF DoIo, Moving, Ops, Results

\* The first step of the hooked close() keeps the types.
LEMMA CloseBeginsType ==
    ASSUME TypeInv, NEW f \in Fibers, NEW fd \in Fds, CloseBegins(f, fd)
    PROVE  KernelType' /\ TableType' /\ SlotType' /\ TimerType' /\ PcType' /\ CallType'
<1>1. (IF m_datas[fd] = NoCtx THEN "closef" ELSE "cancel") \in Places
    BY DEF Places
<1> QED BY <1>1, BeginType, TypeFrame DEF CloseBegins, Ops, Times, Results

\* What connect_f() may do: the state of the socket and the place where the call goes on.
ConnectsTo(f, fd, to, conn, at, result) ==
    /\ socks' = [socks EXCEPT ![fd].conn = conn]
    /\ Begin(f, "connect", fd, to, at, result)
    /\ UNCHANGED <<made, m_datas, slots>>
    /\ at = "arm" \/ at = "ret"

\* connect_f() leaves the state of the socket as it is, or changes the one of an open socket.
LEMMA ConnectMoves ==
    ASSUME NEW f \in Fibers, NEW fd \in Fds, NEW to \in Times, ConnectF(f, fd, to)
    PROVE  \E conn \in Conns \cup {socks[fd].conn}, at \in Places, result \in Results :
              /\ ConnectsTo(f, fd, to, conn, at, result)
              /\ conn = socks[fd].conn \/ socks[fd].conn = "new"
<1>1. CASE m_datas[fd] = NoCtx
  <2>1. ConnectsTo(f, fd, to, socks[fd].conn, "ret", "EBADF")
      BY <1>1 DEF ConnectF, ConnectsTo
  <2> QED BY <2>1 DEF Places, Results
<1>2. CASE m_datas[fd] # NoCtx
  <2>1. \/ socks[fd].conn = "new" /\ ConnectsTo(f, fd, to, "connected", "ret", "ok")
        \/ socks[fd].conn = "datagram" /\ ConnectsTo(f, fd, to, "datagram", "ret", "ok")
        \/ ConnectsTo(f, fd, to, socks[fd].conn, "ret", "error")
        \/ socks[fd].conn = "new" /\ ConnectsTo(f, fd, to, "connecting", "arm", None)
        \/ socks[fd].conn = "new" /\ ConnectsTo(f, fd, to, "connecting", "ret", "EINPROGRESS")
      BY <1>2 DEF ConnectF, ConnectsTo
  <2> QED BY <2>1 DEF Conns, Places, Results
<1> QED BY <1>1, <1>2

\* The first step of the hooked connect() keeps the types.
LEMMA ConnectFType ==
    ASSUME TypeInv, NEW f \in Fibers, NEW fd \in Fds, NEW to \in Times, ConnectF(f, fd, to)
    PROVE  KernelType' /\ TableType' /\ SlotType' /\ TimerType' /\ PcType' /\ CallType'
<1>1. PICK conn \in Conns \cup {socks[fd].conn}, at \in Places, result \in Results :
           /\ ConnectsTo(f, fd, to, conn, at, result)
           /\ conn = socks[fd].conn \/ socks[fd].conn = "new"
    BY ConnectMoves
<1>2. KernelType'
  <2>1. CASE conn = socks[fd].conn
      BY <1>1, <2>1 DEF ConnectsTo, KernelType, Closed
  <2>2. CASE socks[fd].conn = "new"
    <3>1. socks[fd].id # 0
        BY <2>2 DEF KernelType, Closed
    <3> QED BY <1>1, <2>2, <3>1 DEF ConnectsTo, KernelType, Conns
  <2> QED BY <1>1, <2>1, <2>2
<1> QED BY <1>1, <1>2, BeginType, TypeFrame DEF ConnectsTo, Ops

\* and the end of a method.
LEMMA MethodEndsType ==
    ASSUME TypeInv, NEW f \in Fibers, MethodEnds(f)
    PROVE  /\ KernelType' /\ TableType' /\ SlotType' /\ TimerType' /\ PcType' /\ CallType'
           /\ MethType'
<1>1. CallType'
    BY DEF MethodEnds, CallType, NoCall, Ops, Forever, Times, Results
<1>2. PcType' /\ MethType'
    BY DEF MethodEnds, PcType, MethType, Places, NoMethod, Names
<1> QED BY <1>1, <1>2, TypeFrame DEF MethodEnds

\* The beginning of a method.
LEMMA EntersType ==
    ASSUME TypeInv, NEW f \in Fibers, NEW name \in Names, NEW o \in Objects \cup {None},
           Enters(f, name, o)
    PROVE  MethType'
BY DEF Enters, MethType

\* The methods, by how they begin, and the options.
LEMMA ClientType ==
    ASSUME SocketInv, Step
    PROVE  TypeInv'
<1>0. TypeInv
    BY DEF SocketInv
<1>1. CASE HookStep /\ UNCHANGED <<objVars, meth>>
    BY <1>1, HookType
<1>2. \A o \in Objects : IsValid(o) => m_sock[o] \in Fds
    BY <1>0 DEF ObjType, IsValid
<1>3. ASSUME NEW o \in Objects, CreateTCP(o) PROVE TypeInv'
  <2>1. ObjType'
      BY <1>0, <1>3 DEF CreateTCP, ObjType
  <2> QED BY <1>0, <1>3, <2>1, TypeFrame DEF CreateTCP, hookVars
<1>4. ASSUME NEW o \in Objects, Option(o) PROVE TypeInv'
  <2>1. ObjType' /\ m_sock[o] \in Fds
      BY <1>0, <1>2, <1>4 DEF Option, ObjType
  <2>2. SlotType' /\ TimerType' /\ PcType' /\ CallType' /\ MethType'
      BY <1>0, <1>4, TypeFrame DEF Option, SetSockOpt, FcntlSetFl, Ioctl
  <2>3. IsOpen(m_sock[o])
    <3>1. Holds(o, m_sock[o])
        BY <1>4 DEF Option, Holds, Gone, Users, Closing
    <3> QED BY <2>1, <3>1 DEF SocketInv, OwnInv
  <2>4. TableType'
    <3>1. ASSUME NEW e \in Events, NEW v \in Timeouts, SetSockOpt(m_sock[o], e, v) PROVE TableType'
      <4>1. [m_datas[m_sock[o]].timeout EXCEPT ![e] = v] \in [Events -> Times]
          BY <1>0, <2>1 DEF TableType, Times
      <4> QED BY <1>0, <2>1, <3>1, <4>1 DEF SetSockOpt, TableType
    <3>2. ASSUME NEW b \in BOOLEAN, FcntlSetFl(m_sock[o], b) \/ Ioctl(m_sock[o], b) PROVE TableType'
        BY <1>0, <2>1, <3>2 DEF FcntlSetFl, Ioctl, TableType
    <3> QED BY <1>4, <3>1, <3>2 DEF Option
  <2>5. KernelType'
    <3>1. ASSUME NEW e \in Events, NEW v \in Timeouts, SetSockOpt(m_sock[o], e, v) PROVE KernelType'
        BY <1>0, <3>1, TypeFrame DEF SetSockOpt
    <3>2. ASSUME NEW b \in BOOLEAN, FcntlSetFl(m_sock[o], b) \/ Ioctl(m_sock[o], b) PROVE KernelType'
      <4>1. socks[m_sock[o]].id # 0
          BY <1>0, <2>1, <2>3 DEF IsOpen, KernelType
      <4>2. m_datas[m_sock[o]].isSocket \in BOOLEAN
          BY <1>0, <2>1 DEF TableType
      <4>3. \E c \in BOOLEAN : socks' = [socks EXCEPT ![m_sock[o]].nonblock = c] /\ UNCHANGED made
          BY <3>2, <4>2 DEF FcntlSetFl, Ioctl
      <4> QED BY <1>0, <2>1, <4>1, <4>3 DEF KernelType
    <3> QED BY <1>4, <3>1, <3>2 DEF Option
  <2> QED BY <2>1, <2>2, <2>4, <2>5
<1>5. ASSUME NEW o \in Objects, NEW e \in Events, Cancel(o, e) PROVE TypeInv'
  <2>1. SlotType' /\ PcType'
      BY <1>0, <1>2, <1>5, TriggerType DEF Cancel, CancelEvent, Triggered, SlotType, PcType
  <2> QED BY <1>0, <1>5, <2>1, TypeFrame DEF Cancel, CancelEvent
<1>6. ASSUME NEW f \in Fibers, NEW o \in Objects, NEW name \in Closing, Close(f, o, name) PROVE TypeInv'
  <2>1. ObjType'
      BY <1>0, <1>6 DEF Close, ObjType
  <2>2. CASE CloseBegins(f, m_sock[o]) /\ Enters(f, name, o) /\ IsValid(o)
      BY <1>0, <1>2, <2>1, <2>2, CloseBeginsType, EntersType DEF Names
  <2>3. CASE UNCHANGED <<hookVars, meth>>
      BY <1>0, <2>1, <2>3, TypeFrame DEF hookVars
  <2> QED BY <1>6, <2>2, <2>3 DEF Close
<1>7. ASSUME NEW f \in Fibers, NEW o \in Objects, NEW to \in Times, Connect(f, o, to) PROVE TypeInv'
  <2>1. ObjType'
      BY <1>0, <1>7 DEF Connect, ObjType
  <2>2. CASE IsValid(o) /\ ConnectF(f, m_sock[o], to) /\ Enters(f, "connect", o)
      BY <1>0, <1>2, <2>1, <2>2, ConnectFType, EntersType DEF Names
  <2>3. CASE SocketF(f, Kind(o)) /\ Enters(f, "connectNew", o)
      BY <1>0, <2>1, <2>3, SocketFType, EntersType DEF Names, Making, Kind, Conns
  <2> QED BY <1>7, <2>2, <2>3 DEF Connect
<1>8. ASSUME NEW f \in Fibers, NEW o \in Objects, CreateUDP(f, o) \/ Bind(f, o) PROVE TypeInv'
  <2>1. ObjType'
      BY <1>0, <1>8 DEF CreateUDP, Bind, ObjType
  <2>2. SocketF(f, Kind(o)) /\ (Enters(f, "create", o) \/ Enters(f, "bind", o))
      BY <1>8 DEF CreateUDP, Bind
  <2> QED BY <1>0, <2>1, <2>2, SocketFType, EntersType DEF Names, Making, Kind, Conns
<1>9. ASSUME NEW f \in Fibers, NEW o \in Objects, Listen(f, o) PROVE TypeInv'
  <2>1. KernelType'
    <3>1. m_sock[o] \in Fds /\ socks[m_sock[o]].id # 0
        BY <1>0, <1>2, <1>9 DEF Listen, KernelType, Closed
    <3> QED BY <1>0, <1>9, <3>1 DEF Listen, KernelType, Conns
  <2> QED BY <1>0, <1>9, <2>1, TypeFrame DEF Listen
<1>10. ASSUME NEW f \in Fibers, NEW o \in Objects, NEW new \in Objects, Accept(f, o, new) PROVE TypeInv'
  <2>1. ObjType' /\ MethType'
      BY <1>0, <1>10 DEF Accept, ObjType, MethType, Names, Moving
  <2> QED BY <1>0, <1>2, <1>10, <2>1, DoIoType DEF Accept, Moving
<1>11. ASSUME NEW f \in Fibers, NEW o \in Objects, NEW name \in {"recv", "send"}, Transfer(f, o, name)
       PROVE  TypeInv'
  <2>1. ObjType'
      BY <1>0, <1>11 DEF Transfer, ObjType
  <2> QED BY <1>0, <1>2, <1>11, <2>1, DoIoType, EntersType DEF Transfer, Moving, Names
<1>12. ASSUME NEW f \in Fibers, Sleeps(f) PROVE TypeInv'
  <2>1. ObjType' /\ MethType'
      BY <1>0, <1>12, EntersType DEF Sleeps, ObjType, Names
  <2>2. PcType' /\ CallType' /\ TimerType'
      BY <1>0, <1>12, TypeFrame, BeginType
         DEF Sleeps, Sleep, Forever, Ops, Times, Places, Results
  <2> QED BY <1>0, <1>12, <2>1, <2>2, TypeFrame DEF Sleeps, Sleep
<1>13. ASSUME NEW f \in Fibers, CreateReturns(f) \/ CloseReturns(f) \/ BindReturns(f) PROVE TypeInv'
  <2>1. meth[f].obj \in Objects
    <3>1. meth[f].name \notin {None, "sleep"}
        BY <1>13 DEF CreateReturns, CloseReturns, BindReturns, Returned, None
    <3> QED BY <1>0, <3>1 DEF SocketInv, ObjectInv, MethType
  <2>2. call[f].fd \in Fds \cup {-1}
      BY <1>0 DEF CallType
  <2>3. ObjType'
      BY <1>0, <1>13, <2>1, <2>2 DEF CreateReturns, CloseReturns, BindReturns, ObjType
  <2> QED BY <1>0, <1>13, <2>3, MethodEndsType DEF CreateReturns, CloseReturns, BindReturns
<1>14. ASSUME NEW f \in Fibers, ConnectReturns(f) PROVE TypeInv'
  <2>1. ObjType'
      BY <1>0, <1>14 DEF ConnectReturns, ObjType
  <2>2. meth[f].obj \in Objects /\ m_sock[meth[f].obj] \in Fds
    <3>1. Using(f) /\ meth[f].name \notin {None, "sleep"}
        BY <1>14 DEF ConnectReturns, Returned, Using, None
    <3> QED BY <1>0, <3>1 DEF SocketInv, ObjectInv, WorkInv, Works, MethType
  <2> QED BY <1>0, <1>14, <2>1, <2>2, MethodEndsType, CloseBeginsType, EntersType
          DEF ConnectReturns, Names, Closing
<1>15. ASSUME NEW f \in Fibers, AcceptReturns(f) PROVE TypeInv'
  <2>1. meth[f].new \in Objects /\ call[f].fd \in Fds \cup {-1}
      BY <1>0, <1>15 DEF AcceptReturns, Returned, SocketInv, ObjectInv, MethType, CallType
  <2>2. ObjType'
      BY <1>0, <1>15, <2>1 DEF AcceptReturns, ObjType
  <2> QED BY <1>0, <1>15, <2>2, MethodEndsType DEF AcceptReturns
<1>16. ASSUME NEW f \in Fibers, TransferReturns(f) PROVE TypeInv'
    BY <1>0, <1>16, MethodEndsType, TypeFrame DEF TransferReturns
<1>17. ASSUME NEW f \in Fibers, NEW to \in Times, ConnectNew(f, to) PROVE TypeInv'
  <2>1. meth[f].obj \in Objects /\ call[f].fd \in Fds \cup {-1}
      BY <1>0, <1>17 DEF ConnectNew, Returned, SocketInv, ObjectInv, MethType, CallType, None
  <2>2. ObjType'
      BY <1>0, <1>17, <2>1 DEF ConnectNew, ObjType
  <2> QED BY <1>0, <1>17, <2>1, <2>2, MethodEndsType, ConnectFType, EntersType DEF ConnectNew, Names
<1>18. CASE Finished /\ UNCHANGED vars
    BY <1>0, <1>18, TypeFrame DEF vars, hookVars
<1> QED BY <1>1, <1>3, <1>4, <1>5, <1>6, <1>7, <1>8, <1>9, <1>10, <1>11, <1>12, <1>13, <1>14, <1>15,
           <1>16, <1>17, <1>18 DEF Step, Closing, Times
-----------------------------------------------------------------------------
(* What a step does to the fibers *)

\* The fiber stays in its call, and may be resumed.
Stays(f) ==
    /\ meth'[f] = meth[f] /\ call'[f] = call[f] /\ calls'[f] = calls[f]
    /\ pc'[f] = pc[f] \/ (pc[f] = "wait" /\ pc'[f] = "woken")
OthersStay(f) == \A g \in Fibers \ {f} : Stays(g)
OthersRest(f) == OthersStay(f) /\ \A g \in Fibers \ {f} : pc'[g] = pc[g]

\* A step of the call a fiber is in.
FiberStep(f) ==
    \/ FunSucceeds(f) \/ FunAccepts(f) \/ FunFails(f)
    \/ AddConditionTimer(f) \/ AddEvent(f) \/ Wakes(f)
    \/ ConnectChecks(f) \/ GetFinds(f) \/ GetCreates(f)
    \/ CloseCancels(f) \/ CloseDeletes(f) \/ CloseF(f) \/ SleepEnds(f)

\* A step of the kernel, a timer or a client that resumes fibers or changes none.
OuterStep ==
    \/ \E t \in timers : Expires(t)
    \/ \E t \in cbs : Callback(t)
    \/ \E t \in firing : CallbackCancels(t)
    \/ \E fd \in Fds, e \in Events : Report(fd, e)
    \/ \E fd \in Fds : ReportError(fd)
    \/ \E fd \in Fds, conn \in {"connected", "refused"} : Answered(fd, conn)
    \/ \E o \in Objects, e \in Events : Cancel(o, e)

\* Only fibers that wait are resumed.
LEMMA ResumedWait ==
    ASSUME SocketInv, NEW fd \in Fds, NEW es \in SUBSET Events, NEW f \in Fibers
    PROVE  \/ Resumed(fd, es)[f] = pc[f]
           \/ pc[f] = "wait" /\ Resumed(fd, es)[f] = "woken"
<1>1. ASSUME NEW e \in es, slots[fd][e].fiber = f PROVE pc[f] = "wait"
  <2>1. slots[fd][e] # Empty
      BY <1>1, HookAssumption DEF Empty, None
  <2> QED BY <1>1, <2>1 DEF SocketInv, SlotInv, SlotOf
<1> QED BY <1>1 DEF Resumed

\* A step of one fiber's call leaves the others in theirs.
LEMMA FiberStays ==
    ASSUME SocketInv, UNCHANGED meth, NEW f \in Fibers, FiberStep(f)
    PROVE  OthersStay(f)
<1>0. PcType /\ CallType
    BY DEF SocketInv
<1>1. CASE FunSucceeds(f) \/ FunFails(f) \/ ConnectChecks(f) \/ GetFinds(f) \/ GetCreates(f)
           \/ CloseDeletes(f) \/ CloseF(f) \/ SleepEnds(f)
    BY <1>0, <1>1 DEF PcType, CallType, FunSucceeds, FunFails, ConnectChecks, GetFinds, GetCreates,
                      CloseDeletes, CloseF, SleepEnds, Goto, Return, OthersStay, Stays
<1>2. CASE FunAccepts(f)
    BY <1>0, <1>2 DEF PcType, CallType, FunAccepts, OthersStay, Stays
<1>3. CASE AddConditionTimer(f) \/ AddEvent(f) \/ Wakes(f)
    BY <1>0, <1>3 DEF PcType, CallType, AddConditionTimer, AddEvent, Wakes, Goto, Return, OthersStay, Stays
<1>4. CASE CloseCancels(f)
  <2>1. call[f].fd \in Fds
      BY <1>4, CallHasFd DEF CloseCancels
  <2>2. \A g \in Fibers \ {f} : pc'[g] = Resumed(call[f].fd, Events)[g]
      BY <1>4 DEF CloseCancels, Resumed
  <2> QED BY <1>4, <2>1, <2>2, ResumedWait DEF CloseCancels, OthersStay, Stays
<1> QED BY <1>1, <1>2, <1>3, <1>4 DEF FiberStep

\* The other steps leave all fibers in their calls.
LEMMA OuterStays ==
    ASSUME SocketInv, UNCHANGED meth, OuterStep
    PROVE  \A f \in Fibers : Stays(f)
<1>0. TimerType /\ ObjType
    BY DEF SocketInv
<1>1. ASSUME NEW t \in timers, Expires(t) PROVE \A f \in Fibers : Stays(f)
    BY <1>1 DEF Expires, Stays
<1>2. ASSUME NEW t \in cbs, Callback(t) PROVE \A f \in Fibers : Stays(f)
    BY <1>2 DEF Callback, Stays
<1>3. ASSUME NEW fd \in Fds, NEW conn \in {"connected", "refused"}, Answered(fd, conn)
      PROVE  \A f \in Fibers : Stays(f)
    BY <1>3 DEF Answered, Stays
<1>4. ASSUME NEW fd \in Fds, NEW es \in SUBSET Events, pc' = Resumed(fd, es), UNCHANGED <<call, calls>>
      PROVE  \A f \in Fibers : Stays(f)
    BY <1>4, ResumedWait DEF Stays
<1>5. ASSUME NEW t \in firing, CallbackCancels(t) PROVE \A f \in Fibers : Stays(f)
    BY <1>0, <1>4, <1>5 DEF CallbackCancels, CancelEvent, Triggered, TimerType, Infos
<1>6. ASSUME NEW o \in Objects, NEW e \in Events, Cancel(o, e) PROVE \A f \in Fibers : Stays(f)
    BY <1>0, <1>4, <1>6 DEF Cancel, CancelEvent, Triggered, ObjType, IsValid
<1>7. ASSUME NEW fd \in Fds, NEW e \in Events, Report(fd, e) PROVE \A f \in Fibers : Stays(f)
    BY <1>4, <1>7 DEF Report, Triggered
<1>8. ASSUME NEW fd \in Fds, ReportError(fd) PROVE \A f \in Fibers : Stays(f)
  <2>1. CASE Triggered(fd, Events)
      BY <1>4, <1>8, <2>1 DEF ReportError, Triggered
  <2>2. CASE UNCHANGED <<slots, pc>>
      BY <1>8, <2>2 DEF ReportError, Stays
  <2> QED BY <1>8, <2>1, <2>2 DEF ReportError
<1> QED BY <1>1, <1>2, <1>3, <1>5, <1>6, <1>7, <1>8 DEF OuterStep

\* A fiber that stays in its call keeps its place.
LEMMA StaysPlace ==
    ASSUME SocketInv, NEW f \in Fibers, Stays(f)
    PROVE  PlaceOK(meth'[f].name, pc'[f], call'[f].op)
BY DEF SocketInv, PlaceInv, PlaceOK, Stays, Making, Moving, Closing, None

\* A step of a call leads to a place of the same method.
LEMMA FiberPlace ==
    ASSUME SocketInv, UNCHANGED meth, NEW f \in Fibers, FiberStep(f)
    PROVE  PlaceOK(meth'[f].name, pc'[f], call'[f].op)
<1>0. PcType /\ CallType /\ PlaceOK(meth[f].name, pc[f], call[f].op) /\ meth[f].name \in Names
    BY DEF SocketInv, PlaceInv, MethType
<1> USE DEF PlaceOK, Making, Moving, Closing, None
<1>1. ASSUME NEW result, Return(f, result), pc[f] # "app"
      PROVE  PlaceOK(meth'[f].name, pc'[f], call'[f].op)
    BY <1>0, <1>1 DEF Return, PcType, CallType
<1>2. ASSUME NEW at, Goto(f, at), PlaceOK(meth[f].name, at, call[f].op)
      PROVE  PlaceOK(meth'[f].name, pc'[f], call'[f].op)
    BY <1>0, <1>2 DEF Goto, PcType
<1>3. CASE FunSucceeds(f) \/ ConnectChecks(f) \/ GetCreates(f) \/ CloseF(f) \/ SleepEnds(f)
    BY <1>1, <1>3 DEF FunSucceeds, ConnectChecks, GetCreates, CloseF, SleepEnds
<1>4. CASE FunFails(f)
    BY <1>0, <1>1, <1>2, <1>4 DEF FunFails, Names
<1>5. CASE FunAccepts(f)
    BY <1>0, <1>5 DEF FunAccepts, Names, PcType, CallType
<1>6. CASE AddConditionTimer(f)
    BY <1>0, <1>2, <1>6 DEF AddConditionTimer, Names
<1>7. CASE AddEvent(f)
    BY <1>0, <1>1, <1>2, <1>7 DEF AddEvent, Names
<1>8. CASE Wakes(f)
    BY <1>0, <1>1, <1>2, <1>8 DEF Wakes, Names
<1>9. CASE GetFinds(f)
    BY <1>0, <1>1, <1>2, <1>9 DEF GetFinds, Names
<1>10. CASE CloseDeletes(f)
    BY <1>0, <1>2, <1>10 DEF CloseDeletes, Names
<1>11. CASE CloseCancels(f)
  <2>1. pc'[f] = "del" /\ call' = call
      BY <1>11 DEF CloseCancels, Resumed
  <2> QED BY <1>0, <1>11, <2>1 DEF CloseCancels, Names
<1> QED BY <1>3, <1>4, <1>5, <1>6, <1>7, <1>8, <1>9, <1>10, <1>11 DEF FiberStep
-----------------------------------------------------------------------------
(* What the beginning and the end of a call do *)

\* The sockets keep their identities and flags, or one is made.
KernelKeeps ==
    \A fd \in Fds :
        /\ socks'[fd].id = socks[fd].id /\ socks'[fd].nonblock = socks[fd].nonblock
        /\ socks'[fd] = Closed <=> socks[fd] = Closed
NewSocket(fd) ==
    /\ socks[fd] = Closed /\ socks'[fd] # Closed
    /\ \A x \in Fds \ {fd} : socks'[x] = socks[x]

\* A method makes a descriptor.
Makes(f, o, name) ==
    /\ pc[f] = "app" /\ name \in Making
    /\ m_sock[o] = -1 /\ Users(o) = {} /\ (o \in alive <=> name # "create")
    /\ OthersRest(f) /\ meth'[f] = [name |-> name, obj |-> o, new |-> None]
    /\ \/ \E fd \in Fds : NewSocket(fd) /\ pc'[f] = "new" /\ call'[f].fd = fd
       \/ KernelKeeps /\ pc'[f] = "ret" /\ call'[f].fd = -1 /\ call'[f].result = "error"
    /\ UNCHANGED <<m_datas, slots, timers, alive, m_sock>>

\* A method, new or under way, begins a call on its object's descriptor.
CallBegins(f, o, name, new) ==
    /\ name \in {"connect"} \cup Moving \cup Closing
    /\ OthersRest(f) /\ meth'[f] = [name |-> name, obj |-> o, new |-> new]
    /\ PlaceOK(name, pc'[f], call'[f].op)
    /\ pc'[f] \in {"try", "raw", "arm", "cancel", "closef", "ret"}
    /\ pc'[f] = "ret" => name = "connect"
    /\ pc'[f] = "closef" => m_datas[m_sock'[o]] = NoCtx
    /\ m_sock'[o] \in Fds /\ call'[f].fd = m_sock'[o] /\ call'[f].id = socks[m_sock'[o]].id
    /\ KernelKeeps
    /\ UNCHANGED <<m_datas, slots, timers>>

Starts(f, o, name, new) ==
    /\ pc[f] = "app" /\ o \in alive
    /\ \A g \in Users(o) : /\ name \in Moving /\ meth[g].name \in Moving
                           /\ Event(meth[g].name) # Event(name)
    /\ IF name = "accept" THEN new \in Objects \ alive /\ Users(new) = {} ELSE new = None
    /\ CallBegins(f, o, name, new)
    /\ UNCHANGED <<alive, m_sock>>

Ends(f) ==
    /\ pc[f] = "ret" /\ OthersRest(f) /\ meth'[f] = NoMethod /\ pc'[f] = "app"
    /\ UNCHANGED <<socks, m_datas, slots, timers>>

\* The beginning of a call changes the fiber that makes it.
LEMMA BeginMoves ==
    ASSUME SocketInv, NEW f \in Fibers, NEW op \in Ops, NEW fd \in Fds \cup {-1}, NEW to \in Times,
           NEW at \in Places, NEW result \in Results, Begin(f, op, fd, to, at, result)
    PROVE  /\ \A g \in Fibers \ {f} : pc'[g] = pc[g] /\ (meth'[g] = meth[g] => Stays(g))
           /\ UNCHANGED timers
           /\ pc'[f] = at /\ call'[f].op = op /\ call'[f].fd = fd /\ call'[f].result = result
           /\ fd \in Fds => call'[f].id = socks'[fd].id
BY DEF SocketInv, PcType, CallType, Begin, Stays

\* The beginning of a method changes the fiber that is in it.
LEMMA EntersMoves ==
    ASSUME SocketInv, NEW f \in Fibers, NEW name, NEW o, NEW new,
           meth' = [meth EXCEPT ![f] = [name |-> name, obj |-> o, new |-> new]]
    PROVE  /\ meth'[f] = [name |-> name, obj |-> o, new |-> new]
           /\ \A g \in Fibers \ {f} : meth'[g] = meth[g]
BY DEF SocketInv, MethType

\* The values that calls begin with.
LEMMA CallConstants ==
    /\ {"socket", "connect", "close", "sleep"} \cup Moving \subseteq Ops
    /\ {"new", "ret", "try", "raw", "arm", "cancel", "closef", "sleep"} \subseteq Places
    /\ {None, "error"} \subseteq Results /\ Forever \in Times /\ Forever = -1
BY DEF Ops, Moving, Places, Results, Times, Forever

\* socket() gives the method a new descriptor, or fails and changes nothing.
LEMMA SocketFMakes ==
    ASSUME SocketInv, NEW f \in Fibers, NEW conn \in Conns, SocketF(f, conn),
           NEW name \in Making, NEW o \in Objects, Enters(f, name, o)
    PROVE  /\ OthersRest(f) /\ meth'[f] = [name |-> name, obj |-> o, new |-> None]
           /\ \/ \E fd \in Fds : NewSocket(fd) /\ pc'[f] = "new" /\ call'[f].fd = fd
              \/ KernelKeeps /\ pc'[f] = "ret" /\ call'[f].fd = -1 /\ call'[f].result = "error"
           /\ UNCHANGED <<m_datas, slots, timers>>
<1>1. /\ meth'[f] = [name |-> name, obj |-> o, new |-> None]
      /\ \A g \in Fibers \ {f} : meth'[g] = meth[g]
    BY EntersMoves DEF Enters
<1>2. CASE \E fd \in Fds : NewFd(fd, conn) /\ Begin(f, "socket", fd, Forever, "new", None)
  <2>1. PICK fd \in Fds : NewFd(fd, conn) /\ Begin(f, "socket", fd, Forever, "new", None)
      BY <1>2
  <2>2. NewSocket(fd)
      BY <2>1 DEF SocketInv, KernelType, NewFd, NewSocket, Free, IsOpen, Closed
  <2>3. pc'[f] = "new" /\ call'[f].fd = fd /\ UNCHANGED <<m_datas, slots, timers>>
    <3>1. Begin(f, "socket", fd, Forever, "new", None) /\ UNCHANGED <<m_datas, slots>>
        BY <2>1 DEF SocketF
    <3> QED BY <3>1, BeginMoves, CallConstants
  <2>4. OthersRest(f)
      BY <1>1, <2>1, BeginMoves, CallConstants DEF OthersRest, OthersStay
  <2> QED BY <1>1, <2>2, <2>3, <2>4
<1>3. CASE UNCHANGED kernelVars /\ Begin(f, "socket", Forever, Forever, "ret", "error")
  <2>1. pc'[f] = "ret" /\ call'[f].fd = -1 /\ call'[f].result = "error"
        /\ UNCHANGED <<m_datas, slots, timers>>
      BY <1>3, BeginMoves, CallConstants DEF SocketF
  <2>2. OthersRest(f)
      BY <1>1, <1>3, BeginMoves, CallConstants DEF OthersRest, OthersStay
  <2>3. KernelKeeps
      BY <1>3 DEF KernelKeeps
  <2> QED BY <1>1, <2>1, <2>2, <2>3
<1> QED BY <1>2, <1>3 DEF SocketF

\* The hooked connect() begins a call on the descriptor of its object.
LEMMA ConnectFBegins ==
    ASSUME SocketInv, NEW f \in Fibers, NEW o \in Objects, m_sock'[o] \in Fds, NEW to \in Times,
           ConnectF(f, m_sock'[o], to), Enters(f, "connect", o)
    PROVE  CallBegins(f, o, "connect", None)
<1> DEFINE fd == m_sock'[o]
<1>1. /\ meth'[f] = [name |-> "connect", obj |-> o, new |-> None]
      /\ \A g \in Fibers \ {f} : meth'[g] = meth[g]
    BY EntersMoves DEF Enters
<1>2. PICK conn \in Conns \cup {socks[fd].conn}, at \in Places, result \in Results :
           /\ ConnectsTo(f, fd, to, conn, at, result)
           /\ conn = socks[fd].conn \/ socks[fd].conn = "new"
    BY ConnectMoves
<1>3. KernelKeeps
  <2>1. KernelType
      BY DEF SocketInv
  <2>2. CASE conn = socks[fd].conn
      BY <1>2, <2>1, <2>2 DEF KernelType, KernelKeeps, ConnectsTo
  <2>3. CASE socks[fd].conn = "new"
    <3>1. socks[fd].id # 0
        BY <2>1, <2>3 DEF KernelType, Closed
    <3>2. \A x \in Fds : socks'[x].id = socks[x].id /\ socks'[x].nonblock = socks[x].nonblock
                           /\ (x # fd => socks'[x] = socks[x])
        BY <1>2, <2>1 DEF KernelType, ConnectsTo
    <3> QED BY <3>1, <3>2 DEF KernelKeeps, Closed
  <2> QED BY <1>2, <2>2, <2>3
<1>4. Begin(f, "connect", fd, to, at, result) /\ (at = "arm" \/ at = "ret")
      /\ UNCHANGED <<m_datas, slots>>
    BY <1>2 DEF ConnectsTo
<1>5. PlaceOK("connect", at, "connect")
    BY <1>4 DEF PlaceOK, Making, Moving, Closing, None
<1>6. /\ UNCHANGED timers /\ pc'[f] = at /\ call'[f].op = "connect"
      /\ call'[f].fd = fd /\ call'[f].id = socks'[fd].id
    BY <1>4, BeginMoves DEF Ops
<1>7. OthersRest(f)
    BY <1>1, <1>4, BeginMoves DEF OthersRest, OthersStay, Ops
<1> QED BY <1>1, <1>3, <1>4, <1>5, <1>6, <1>7 DEF CallBegins, KernelKeeps

\* do_io() begins a call on the descriptor of its object.
LEMMA DoIoBegins ==
    ASSUME SocketInv, NEW f \in Fibers, NEW o \in Objects, m_sock[o] \in Fds, NEW name \in Moving,
           DoIo(f, name, m_sock[o]), UNCHANGED m_sock, NEW new,
           meth' = [meth EXCEPT ![f] = [name |-> name, obj |-> o, new |-> new]]
    PROVE  CallBegins(f, o, name, new)
<1>1. PICK at \in {"try", "raw"}, to \in Times : Begin(f, name, m_sock[o], to, at, None)
  <2>1. m_datas[m_sock[o]].timeout[Event(name)] \in Times
      BY DEF SocketInv, TableType, Event, Events
  <2> QED BY <2>1 DEF DoIo
<1>2. PlaceOK(name, at, name)
    BY DEF PlaceOK, Making, Moving, Closing, None
<1>3. KernelKeeps /\ UNCHANGED <<socks, m_datas, slots>>
    BY DEF DoIo, KernelKeeps
<1>4. /\ UNCHANGED timers /\ pc'[f] = at /\ call'[f].op = name
      /\ call'[f].fd = m_sock[o] /\ call'[f].id = socks'[m_sock[o]].id
      /\ \A g \in Fibers \ {f} : pc'[g] = pc[g] /\ (meth'[g] = meth[g] => Stays(g))
  <2>1. name \in Ops /\ at \in Places /\ None \in Results /\ m_sock[o] \in Fds \cup {-1}
      BY CallConstants
  <2> QED BY <1>1, <2>1, BeginMoves
<1>5. /\ meth'[f] = [name |-> name, obj |-> o, new |-> new]
      /\ \A g \in Fibers \ {f} : meth'[g] = meth[g]
    BY EntersMoves
<1>6. OthersRest(f)
    BY <1>4, <1>5 DEF OthersRest, OthersStay
<1> QED BY <1>2, <1>3, <1>4, <1>5, <1>6 DEF CallBegins

\* The hooked close() begins a call on the descriptor of its object.
LEMMA CloseBeginsBegins ==
    ASSUME SocketInv, NEW f \in Fibers, NEW o \in Objects, m_sock[o] \in Fds, NEW name \in Closing,
           CloseBegins(f, m_sock[o]), UNCHANGED m_sock, Enters(f, name, o)
    PROVE  CallBegins(f, o, name, None)
<1>1. /\ meth'[f] = [name |-> name, obj |-> o, new |-> None]
      /\ \A g \in Fibers \ {f} : meth'[g] = meth[g]
    BY EntersMoves DEF Enters
<1>2. PICK at \in {"cancel", "closef"} :
           /\ Begin(f, "close", m_sock[o], Forever, at, None)
           /\ at = "closef" => m_datas[m_sock[o]] = NoCtx
    BY DEF CloseBegins
<1>3. PlaceOK(name, at, "close")
    BY DEF PlaceOK, Making, Moving, Closing, None
<1>4. KernelKeeps /\ UNCHANGED <<socks, m_datas, slots>>
    BY DEF CloseBegins, KernelKeeps
<1>5. /\ UNCHANGED timers /\ pc'[f] = at /\ call'[f].op = "close"
      /\ call'[f].fd = m_sock[o] /\ call'[f].id = socks'[m_sock[o]].id
      /\ \A g \in Fibers \ {f} : pc'[g] = pc[g] /\ (meth'[g] = meth[g] => Stays(g))
  <2>1. "close" \in Ops /\ at \in Places /\ None \in Results /\ Forever \in Times
        /\ m_sock[o] \in Fds \cup {-1}
      BY CallConstants
  <2>2. Begin(f, "close", m_sock[o], Forever, at, None)
      BY <1>2
  <2> QED BY <2>1, <2>2, BeginMoves
<1>6. OthersRest(f)
    BY <1>1, <1>5 DEF OthersRest, OthersStay
<1> QED BY <1>1, <1>2, <1>3, <1>4, <1>5, <1>6 DEF CallBegins

\* A method that ends leaves its fiber without a call.
LEMMA MethodEndsEnds ==
    ASSUME SocketInv, NEW f \in Fibers, pc[f] = "ret", MethodEnds(f)
    PROVE  Ends(f)
BY DEF SocketInv, PcType, CallType, MethType, MethodEnds, Ends, OthersRest, OthersStay, Stays
-----------------------------------------------------------------------------
(* The steps of clients, by what they do with descriptors *)

\* An object without a descriptor comes or goes, or nothing happens.
Idles ==
    /\ UNCHANGED <<hookVars, meth, m_sock>>
    /\ alive' \subseteq Objects
    /\ \A o \in Objects : (o \in alive' <=> o \in alive) \/ (Users(o) = {} /\ m_sock[o] = -1)

\* A fiber begins to sleep.
Naps(f) ==
    /\ pc[f] = "app" /\ OthersRest(f) /\ pc'[f] = "sleep"
    /\ meth'[f] = [name |-> "sleep", obj |-> None, new |-> None]
    /\ UNCHANGED <<socks, m_datas, slots, timers, alive, m_sock>>

\* connect() goes on with the descriptor it has made, or with close() after an error.
ConnectsNew(f) ==
    /\ pc[f] = "ret" /\ meth[f].name = "connectNew"
    /\ CallBegins(f, meth[f].obj, "connect", None)
    /\ m_sock' = [m_sock EXCEPT ![meth[f].obj] = call[f].fd]
    /\ UNCHANGED alive
GivesUp(f) ==
    /\ pc[f] = "ret" /\ meth[f].name = "connect"
    /\ CallBegins(f, meth[f].obj, "close", None)
    /\ UNCHANGED <<alive, m_sock>>

\* A method ends: its new descriptor is stored, its closed one forgotten, or neither.
Stores(f, o) ==
    /\ Ends(f) /\ Pending(f)
    /\ \/ meth[f].name \in Making /\ o = meth[f].obj
       \/ meth[f].name = "accept" /\ o = meth[f].new
    /\ m_sock' = [m_sock EXCEPT ![o] = call[f].fd]
    /\ alive' = alive \cup {o}
Frees(f) ==
    /\ Ends(f) /\ Gone(f)
    /\ m_sock' = [m_sock EXCEPT ![meth[f].obj] = -1]
    /\ alive' = alive \/ alive' = alive \ {meth[f].obj}
Leaves(f) ==
    /\ Ends(f) /\ ~Pending(f) /\ ~Gone(f)
    /\ UNCHANGED <<alive, m_sock>>

ClientStep ==
    \/ Idles
    \/ \E f \in Fibers : Naps(f) \/ ConnectsNew(f) \/ GivesUp(f) \/ Frees(f) \/ Leaves(f)
    \/ \E f \in Fibers, o \in Objects : Stores(f, o)
    \/ \E f \in Fibers, o \in Objects, name \in Names : Makes(f, o, name)
    \/ \E f \in Fibers, o \in Objects, name \in Names, new \in Objects \cup {None} :
          Starts(f, o, name, new)

\* A method on an object for one direction may begin.
LEMMA BesideShares ==
    ASSUME NEW f \in Fibers, NEW o \in Objects, NEW name \in Moving, Beside(f, o, name)
    PROVE  /\ pc[f] = "app" /\ o \in alive
           /\ \A g \in Users(o) : /\ name \in Moving /\ meth[g].name \in Moving
                                  /\ Event(meth[g].name) # Event(name)
BY DEF Beside, Idle, Moving

\* Every step is one inside a call, one from outside of all calls, or a step of a
\* method of one of the kinds above.
LEMMA ClientMoves ==
    ASSUME SocketInv, ~Sharing, Step
    PROVE  \/ UNCHANGED <<objVars, meth>> /\ \E f \in Fibers : FiberStep(f)
           \/ UNCHANGED <<objVars, meth>> /\ OuterStep
           \/ \E o \in Objects : Option(o)
           \/ \E f \in Fibers, o \in Objects : Listen(f, o)
           \/ ClientStep
<1>0. TypeInv
    BY DEF SocketInv
<1>1. CASE HookStep /\ UNCHANGED <<objVars, meth>>
    BY <1>1 DEF HookStep, FiberStep, OuterStep
<1>2. \A o \in Objects : IsValid(o) <=> m_sock[o] \in Fds
    BY <1>0, HookAssumption DEF ObjType, IsValid
<1>3. ASSUME NEW o \in Objects, CreateTCP(o) PROVE Idles
  <2>1. m_sock[o] = -1
      BY <1>3 DEF SocketInv, ObjectInv, CreateTCP
  <2>2. m_sock' = m_sock
      BY <1>0, <1>3, <2>1 DEF CreateTCP, ObjType
  <2> QED BY <1>0, <1>3, <2>1, <2>2 DEF CreateTCP, Idles, ObjType
<1>4. ASSUME NEW o \in Objects, NEW e \in Events, Cancel(o, e)
      PROVE  UNCHANGED <<objVars, meth>> /\ OuterStep
    BY <1>4 DEF Cancel, OuterStep
<1>5. ASSUME NEW f \in Fibers, NEW o \in Objects, NEW name \in Closing, Close(f, o, name)
      PROVE  ClientStep
  <2>1. pc[f] = "app" /\ o \in alive /\ Users(o) = {}
      BY <1>5 DEF Close, Alone, Idle
  <2>2. CASE IsValid(o) /\ CloseBegins(f, m_sock[o]) /\ Enters(f, name, o) /\ UNCHANGED <<alive, m_sock>>
    <3>1. CallBegins(f, o, name, None)
        BY <1>2, <2>2, CloseBeginsBegins
    <3>2. Starts(f, o, name, None) /\ name \in Names
        BY <2>1, <2>2, <3>1 DEF Starts, Closing, Names
    <3> QED BY <3>2 DEF ClientStep
  <2>3. CASE /\ ~IsValid(o) /\ alive' = IF name = "destroy" THEN alive \ {o} ELSE alive
             /\ UNCHANGED <<hookVars, m_sock, meth, methods>>
    <3>1. Idles
        BY <1>0, <2>1, <2>3 DEF Idles, IsValid, ObjType
    <3> QED BY <3>1 DEF ClientStep
  <2> QED BY <1>5, <2>2, <2>3 DEF Close
<1>6. ASSUME NEW f \in Fibers, NEW o \in Objects, NEW name \in Making, SocketF(f, Kind(o)),
             Enters(f, name, o), pc[f] = "app", Users(o) = {}, m_sock[o] = -1,
             o \in alive <=> name # "create", UNCHANGED <<alive, m_sock>>
      PROVE  ClientStep
  <2>1. Kind(o) \in Conns /\ name \in Names
      BY DEF Kind, Conns, Names
  <2>2. Makes(f, o, name)
      BY <1>6, <2>1, SocketFMakes DEF Makes
  <2> QED BY <2>1, <2>2 DEF ClientStep
<1>7. ASSUME NEW f \in Fibers, NEW o \in Objects, NEW to \in Times, Connect(f, o, to)
      PROVE  ClientStep
  <2>1. pc[f] = "app" /\ o \in alive /\ Users(o) = {} /\ UNCHANGED <<alive, m_sock>>
      BY <1>7 DEF Connect, Alone, Idle
  <2>2. CASE IsValid(o) /\ ConnectF(f, m_sock[o], to) /\ Enters(f, "connect", o)
    <3>1. CallBegins(f, o, "connect", None)
        BY <1>2, <2>1, <2>2, ConnectFBegins
    <3>2. Starts(f, o, "connect", None) /\ "connect" \in Names
        BY <2>1, <3>1 DEF Starts, Names
    <3> QED BY <3>2 DEF ClientStep
  <2>3. CASE ~IsValid(o) /\ SocketF(f, Kind(o)) /\ Enters(f, "connectNew", o)
      BY <1>6, <2>1, <2>3 DEF IsValid, Making
  <2> QED BY <1>7, <2>2, <2>3 DEF Connect
<1>8. ASSUME NEW f \in Fibers, NEW o \in Objects, CreateUDP(f, o) PROVE ClientStep
  <2>1. o \notin alive /\ m_sock[o] = -1
      BY <1>8 DEF CreateUDP, SocketInv, ObjectInv
  <2> QED BY <1>6, <1>8, <2>1 DEF CreateUDP, Idle, Making
<1>9. ASSUME NEW f \in Fibers, NEW o \in Objects, Bind(f, o) PROVE ClientStep
    BY <1>6, <1>9 DEF Bind, Alone, Idle, IsValid, Making
<1>10. ASSUME NEW f \in Fibers, NEW o \in Objects, NEW new \in Objects, Accept(f, o, new)
       PROVE  ClientStep
  <2>1. CallBegins(f, o, "accept", new)
      BY <1>2, <1>10, DoIoBegins DEF Accept, Moving
  <2>2. Starts(f, o, "accept", new) /\ "accept" \in Names
      BY <1>10, <2>1, BesideShares DEF Accept, Starts, Names, Moving
  <2> QED BY <2>2 DEF ClientStep
<1>11. ASSUME NEW f \in Fibers, NEW o \in Objects, NEW name \in {"recv", "send"}, Transfer(f, o, name)
       PROVE  ClientStep
  <2>1. name \in Moving /\ name \in Names
      BY DEF Moving, Names
  <2>2. CallBegins(f, o, name, None)
      BY <1>2, <1>11, <2>1, DoIoBegins DEF Transfer, Enters
  <2>3. Starts(f, o, name, None)
      BY <1>11, <2>1, <2>2, BesideShares DEF Transfer, Starts
  <2> QED BY <2>1, <2>3 DEF ClientStep
<1>12. ASSUME NEW f \in Fibers, Sleeps(f) PROVE ClientStep
  <2>1. /\ meth'[f] = [name |-> "sleep", obj |-> None, new |-> None]
        /\ \A g \in Fibers \ {f} : meth'[g] = meth[g]
      BY <1>12, EntersMoves DEF Sleeps, Enters
  <2>2. pc'[f] = "sleep" /\ UNCHANGED timers
      BY <1>12, BeginMoves, CallConstants DEF Sleeps, Sleep
  <2>3. OthersRest(f)
      BY <1>12, <2>1, BeginMoves, CallConstants DEF Sleeps, Sleep, OthersRest, OthersStay
  <2>4. Naps(f)
      BY <1>12, <2>1, <2>2, <2>3 DEF Sleeps, Sleep, Idle, Naps
  <2> QED BY <2>4 DEF ClientStep
<1>13. ASSUME NEW f \in Fibers, pc[f] = "ret", meth[f].name \in Making PROVE meth[f].obj \in Objects
    BY <1>0, <1>13 DEF SocketInv, ObjectInv, MethType, Making, None
<1>14. ASSUME NEW f \in Fibers, CreateReturns(f) PROVE ClientStep
  <2>1. Stores(f, meth[f].obj) /\ meth[f].obj \in Objects
      BY <1>13, <1>14, MethodEndsEnds DEF CreateReturns, Returned, Stores, Pending, Making
  <2> QED BY <2>1 DEF ClientStep
<1>15. ASSUME NEW f \in Fibers, pc[f] = "ret", meth[f].name \in {"bind", "connectNew"}, MethodEnds(f),
              m_sock' = [m_sock EXCEPT ![meth[f].obj] = call[f].fd], UNCHANGED alive
       PROVE  ClientStep
  <2>1. meth[f].obj \in alive
      BY <1>15 DEF SocketInv, ObjectInv, None
  <2>2. Stores(f, meth[f].obj) /\ meth[f].obj \in Objects
      BY <1>13, <1>15, <2>1, MethodEndsEnds DEF Stores, Pending, Making
  <2> QED BY <2>2 DEF ClientStep
<1>16. ASSUME NEW f \in Fibers, BindReturns(f) PROVE ClientStep
    BY <1>15, <1>16 DEF BindReturns, Returned
<1>17. ASSUME NEW f \in Fibers, NEW to \in Times, ConnectNew(f, to) PROVE ClientStep
  <2>1. CASE call[f].fd # -1 /\ ConnectF(f, call[f].fd, to) /\ Enters(f, "connect", meth[f].obj)
    <3>1. meth[f].obj \in Objects /\ call[f].fd \in Fds
        BY <1>0, <1>13, <1>17, <2>1 DEF ConnectNew, Returned, Making, CallType
    <3>2. m_sock'[meth[f].obj] = call[f].fd
        BY <1>0, <1>17, <3>1 DEF ConnectNew, ObjType
    <3>3. CallBegins(f, meth[f].obj, "connect", None)
        BY <2>1, <3>1, <3>2, ConnectFBegins
    <3>4. ConnectsNew(f)
        BY <1>17, <3>3 DEF ConnectNew, Returned, ConnectsNew
    <3> QED BY <3>4 DEF ClientStep
  <2>2. CASE MethodEnds(f)
      BY <1>15, <1>17, <2>2 DEF ConnectNew, Returned
  <2> QED BY <1>17, <2>1, <2>2 DEF ConnectNew
<1>18. ASSUME NEW f \in Fibers, CloseReturns(f) PROVE ClientStep
  <2>1. Frees(f)
      BY <1>18, MethodEndsEnds DEF CloseReturns, Returned, Frees, Gone, Closing
  <2> QED BY <2>1 DEF ClientStep
<1>19. ASSUME NEW f \in Fibers, ConnectReturns(f) PROVE ClientStep
  <2>1. CASE MethodEnds(f)
    <3>1. Leaves(f)
        BY <1>19, <2>1, MethodEndsEnds DEF ConnectReturns, Returned, Leaves, Pending, Gone, Making, Closing
    <3> QED BY <3>1 DEF ClientStep
  <2>2. CASE CloseBegins(f, m_sock[meth[f].obj]) /\ Enters(f, "close", meth[f].obj)
    <3>1. Using(f) /\ meth[f].name = "connect"
        BY <1>19 DEF ConnectReturns, Returned, Using
    <3>2. meth[f].obj \in Objects /\ m_sock[meth[f].obj] \in Fds
        BY <1>0, <3>1 DEF SocketInv, ObjectInv, WorkInv, Works, MethType, None
    <3>3. CallBegins(f, meth[f].obj, "close", None)
        BY <1>19, <2>2, <3>2, CloseBeginsBegins DEF ConnectReturns, Closing
    <3>4. GivesUp(f)
        BY <1>19, <3>3 DEF ConnectReturns, Returned, GivesUp
    <3> QED BY <3>4 DEF ClientStep
  <2> QED BY <1>19, <2>1, <2>2 DEF ConnectReturns
<1>20. ASSUME NEW f \in Fibers, AcceptReturns(f) PROVE ClientStep
  <2>1. pc[f] = "ret" /\ meth[f].name = "accept" /\ MethodEnds(f)
      BY <1>20 DEF AcceptReturns, Returned
  <2>2. CASE call[f].result = "ok"
    <3>1. m_datas[call[f].fd].isSocket
        BY <2>1, <2>2 DEF SocketInv, CtxInv, CtxAt
    <3>2. Stores(f, meth[f].new) /\ meth[f].new \in Objects
        BY <1>0, <1>20, <2>1, <2>2, <3>1, MethodEndsEnds
           DEF AcceptReturns, Stores, Pending, SocketInv, ObjectInv, MethType
    <3> QED BY <3>2 DEF ClientStep
  <2>3. CASE call[f].result # "ok"
    <3>1. Leaves(f)
        BY <1>20, <2>1, <2>3, MethodEndsEnds DEF AcceptReturns, Leaves, Pending, Gone, Making, Closing
    <3> QED BY <3>1 DEF ClientStep
  <2> QED BY <2>2, <2>3
<1>21. ASSUME NEW f \in Fibers, TransferReturns(f) PROVE ClientStep
  <2>1. Leaves(f)
      BY <1>21, MethodEndsEnds
         DEF TransferReturns, Returned, Leaves, Pending, Gone, Making, Closing
  <2> QED BY <2>1 DEF ClientStep
<1>22. CASE Finished /\ UNCHANGED vars
  <2>1. Idles
      BY <1>0, <1>22 DEF vars, hookVars, Idles, ObjType
  <2> QED BY <2>1 DEF ClientStep
<1>23. Idles => ClientStep
    BY DEF ClientStep
<1> QED BY <1>1, <1>3, <1>4, <1>5, <1>7, <1>8, <1>9, <1>10, <1>11, <1>12, <1>14, <1>16, <1>17, <1>18,
           <1>19, <1>20, <1>21, <1>22, <1>23 DEF Step, Closing, Times

\* Listen() and the options change neither fibers nor objects.
LEMMA OptionStays ==
    ASSUME (\E o \in Objects : Option(o)) \/ (\E f \in Fibers, o \in Objects : Listen(f, o))
    PROVE  UNCHANGED <<pc, call, calls, slots, timers, meth, alive, m_sock>>
BY DEF Option, Listen, SetSockOpt, FcntlSetFl, Ioctl
-----------------------------------------------------------------------------
(* Places, objects and sharing *)

\* Where the methods are and what they work on is an invariant.
LEMMA PlaceKeeps ==
    ASSUME SocketInv, ~Sharing, Step
    PROVE  PlaceInv'
<1>1. ASSUME NEW f \in Fibers, OthersStay(f), PlaceOK(meth'[f].name, pc'[f], call'[f].op)
      PROVE  PlaceInv'
    BY <1>1, StaysPlace DEF OthersStay, PlaceInv
<1>2. ASSUME \A f \in Fibers : Stays(f) PROVE PlaceInv'
    BY <1>2, StaysPlace DEF PlaceInv
<1>3. ASSUME NEW f \in Fibers, Ends(f) PROVE PlaceInv'
  <2>1. PlaceOK(meth'[f].name, pc'[f], call'[f].op)
      BY <1>3 DEF Ends, PlaceOK, NoMethod, Making, Moving, Closing, None
  <2> QED BY <1>1, <1>3, <2>1 DEF Ends, OthersRest
<1>4. CASE UNCHANGED <<objVars, meth>> /\ \E f \in Fibers : FiberStep(f)
    BY <1>1, <1>4, FiberStays, FiberPlace
<1>5. CASE UNCHANGED <<objVars, meth>> /\ OuterStep
    BY <1>2, <1>5, OuterStays
<1>6. CASE UNCHANGED <<pc, call, calls, meth>>
    BY <1>2, <1>6 DEF Stays
<1>7. CASE ClientStep
  <2>1. CASE Idles
      BY <1>6, <2>1 DEF Idles, hookVars
  <2>2. ASSUME NEW f \in Fibers, NEW o, NEW name, NEW new, CallBegins(f, o, name, new) PROVE PlaceInv'
      BY <1>1, <2>2 DEF CallBegins, OthersRest
  <2>3. ASSUME NEW f \in Fibers, Naps(f) PROVE PlaceInv'
    <3>1. PlaceOK(meth'[f].name, pc'[f], call'[f].op)
        BY <2>3 DEF Naps, PlaceOK, Making, Moving, Closing, None
    <3> QED BY <1>1, <2>3, <3>1 DEF Naps, OthersRest
  <2>4. ASSUME NEW f \in Fibers, NEW o \in Objects, NEW name \in Names, Makes(f, o, name) PROVE PlaceInv'
    <3>1. PlaceOK(meth'[f].name, pc'[f], call'[f].op)
        BY <2>4 DEF Makes, PlaceOK, Making, Moving, Closing, None
    <3> QED BY <1>1, <2>4, <3>1 DEF Makes, OthersRest
  <2> QED BY <1>3, <1>7, <2>1, <2>2, <2>3, <2>4
          DEF ClientStep, ConnectsNew, GivesUp, Starts, Stores, Frees, Leaves
<1> QED BY <1>4, <1>5, <1>6, <1>7, ClientMoves, OptionStays

\* Every step keeps what is known of objects and of the methods that use them.
LEMMA ObjectKeeps ==
    ASSUME SocketInv, ~Sharing, Step
    PROVE  ObjectInv'
<1>0. ObjectInv /\ ShareInv /\ MethType /\ ObjType /\ PlaceInv
    BY DEF SocketInv
<1> USE SocketAssumption DEF ObjectInv
<1>1. CASE UNCHANGED <<alive, m_sock, meth>>
    BY <1>0, <1>1
<1>2. ASSUME NEW f \in Fibers, OthersStay(f) PROVE \A g \in Fibers \ {f} : meth'[g] = meth[g]
    BY <1>2 DEF OthersStay, Stays
<1>3. CASE Idles
  <2>1. \A f \in Fibers : meth[f].obj \in Objects => f \in Users(meth[f].obj)
      BY DEF Users
  <2>2. \A f \in Fibers : meth[f].new \in Objects => f \in Users(meth[f].new)
      BY DEF Users
  <2> QED BY <1>0, <1>3, <2>1, <2>2 DEF Idles, MethType, ObjType
<1>4. ASSUME NEW f \in Fibers, Naps(f) PROVE ObjectInv'
    BY <1>0, <1>2, <1>4 DEF Naps, None, ObjType, Making, OthersRest
<1>5. ASSUME NEW f \in Fibers, NEW o \in Objects, NEW name \in Names, Makes(f, o, name)
      PROVE  ObjectInv'
  <2>1. meth'[f] = [name |-> name, obj |-> o, new |-> None] /\ name \notin {None, "sleep", "accept"}
      BY <1>5 DEF Makes, Making, None
  <2> QED BY <1>0, <1>2, <1>5, <2>1 DEF Makes, ObjType, OthersRest
<1>6. ASSUME NEW f \in Fibers, NEW o \in Objects, NEW name \in Names, NEW new \in Objects \cup {None},
             Starts(f, o, name, new)
      PROVE  ObjectInv'
  <2>1. /\ meth'[f] = [name |-> name, obj |-> o, new |-> new]
        /\ name \notin {None, "sleep", "create"}
        /\ \A g \in Fibers \ {f} : meth'[g] = meth[g]
      BY <1>2, <1>6 DEF Starts, CallBegins, Moving, Closing, None, OthersRest
  <2>2. (name = "accept" <=> new # None) /\ new \notin alive
      BY <1>0, <1>6 DEF Starts, ObjType
  <2>3. name \notin Making
      BY <1>6 DEF Starts, CallBegins, Making, Moving, Closing
  <2> QED BY <1>0, <1>6, <2>1, <2>2, <2>3 DEF Starts
<1>7. ASSUME NEW f \in Fibers, ConnectsNew(f) \/ GivesUp(f) PROVE ObjectInv'
  <2>1. PICK name \in {"connect", "close"} : meth'[f] = [name |-> name, obj |-> meth[f].obj, new |-> None]
      BY <1>7 DEF ConnectsNew, GivesUp, CallBegins
  <2>2. \A g \in Fibers \ {f} : meth'[g] = meth[g]
      BY <1>2, <1>7 DEF ConnectsNew, GivesUp, CallBegins, OthersRest
  <2>3. meth[f].obj \in alive /\ alive' = alive
      BY <1>0, <1>7 DEF ConnectsNew, GivesUp, None
  <2>4. \A o \in Objects : o \notin alive => m_sock'[o] = m_sock[o]
      BY <1>0, <1>7, <2>3 DEF ConnectsNew, GivesUp, ObjType
  <2>5. \A g \in Fibers \ {f} : meth[g].obj \in Objects => m_sock'[meth[g].obj] = m_sock[meth[g].obj]
      BY <1>0, <1>7, <2>3 DEF ConnectsNew, GivesUp, ShareInv, Moving, ObjType
  <2> QED BY <1>0, <2>1, <2>2, <2>3, <2>4, <2>5 DEF ObjType, MethType, None, Making
<1>8. ASSUME NEW f \in Fibers, Ends(f)
      PROVE  meth'[f] = NoMethod /\ \A g \in Fibers \ {f} : meth'[g] = meth[g]
    BY <1>2, <1>8 DEF Ends, OthersRest
<1>9. ASSUME NEW f \in Fibers, NEW o \in Objects, Stores(f, o) PROVE ObjectInv'
  <2>1. \A g \in Fibers \ {f} : meth[g].obj # o /\ meth[g].new # o
    <3>1. CASE o = meth[f].obj /\ meth[f].name \in Making
        BY <1>0, <3>1 DEF ShareInv, Making, Moving, MethType
    <3>2. CASE o = meth[f].new
        BY <1>0, <3>2 DEF ShareInv, MethType
    <3> QED BY <1>9, <3>1, <3>2 DEF Stores
  <2>2. \A p \in Objects \ {o} : m_sock'[p] = m_sock[p] /\ (p \in alive' <=> p \in alive)
      BY <1>0, <1>9 DEF Stores, ObjType
  <2>3. o \in alive'
      BY <1>9 DEF Stores
  <2>4. ASSUME NEW g \in Fibers, g # f, meth[g].name \in Making
        PROVE  meth[g].obj \in Objects /\ m_sock'[meth[g].obj] = -1
      BY <1>0, <2>1, <2>2, <2>4 DEF MethType, Making, None
  <2>5. \A p \in Objects : p \notin alive' => m_sock'[p] = -1
      BY <1>0, <2>2, <2>3
  <2>6. None \notin alive'
      BY <1>0, <1>9 DEF Stores, ObjType
  <2>7. ASSUME NEW g \in Fibers, g # f
        PROVE  (meth[g].obj \in alive' <=> meth[g].obj \in alive) /\ meth[g].new \notin alive'
      BY <1>0, <2>1, <2>2, <2>6, <2>7 DEF MethType, ObjType
  <2>8. meth'[f].name = None /\ meth'[f].obj = None /\ meth'[f].new = None
        /\ \A g \in Fibers \ {f} : meth'[g] = meth[g]
      BY <1>8, <1>9 DEF Stores, NoMethod
  <2> QED BY <1>0, <2>4, <2>5, <2>6, <2>7, <2>8 DEF Making, None
<1>10. ASSUME NEW f \in Fibers, Frees(f) PROVE ObjectInv'
  <2>1. \A g \in Fibers \ {f} : meth[g].obj # meth[f].obj
      BY <1>0, <1>10 DEF Frees, Gone, ShareInv, Closing, Moving, None
  <2>2. \A o \in Objects : m_sock'[o] = m_sock[o] \/ m_sock'[o] = -1
      BY <1>0, <1>10 DEF Frees, ObjType
  <2>3. \A g \in Fibers : meth[g].name \in Making => meth[g].obj \in Objects
      BY <1>0 DEF MethType, Making, None
  <2> QED BY <1>0, <1>8, <1>10, <2>1, <2>2, <2>3 DEF Frees, ObjType, NoMethod, None, Making
<1>11. ASSUME NEW f \in Fibers, Leaves(f) PROVE ObjectInv'
    BY <1>0, <1>8, <1>11 DEF Leaves, ObjType, NoMethod, None, Making
<1> QED BY <1>1, <1>3, <1>4, <1>5, <1>6, <1>7, <1>9, <1>10, <1>11, ClientMoves, OptionStays DEF ClientStep

\* No step lets two methods share an object unless one reads and the other writes.
LEMMA ShareKeeps ==
    ASSUME SocketInv, ~Sharing, Step
    PROVE  ShareInv'
<1>0. ObjectInv /\ ShareInv /\ MethType
    BY DEF SocketInv
<1> USE SocketAssumption
<1>1. CASE UNCHANGED meth
    BY <1>0, <1>1 DEF ShareInv
<1>2. ASSUME NEW f \in Fibers, OthersStay(f) PROVE \A g \in Fibers \ {f} : meth'[g] = meth[g]
    BY <1>2 DEF OthersStay, Stays
<1>3. ASSUME NEW f \in Fibers, OthersStay(f), meth'[f].obj = None, meth'[f].new = None
      PROVE  ShareInv'
    BY <1>0, <1>2, <1>3 DEF ShareInv
<1>4. ASSUME NEW f \in Fibers, OthersStay(f), NEW o \in Objects, Users(o) = {}, meth'[f].obj = o,
             meth'[f].new = None
      PROVE  ShareInv'
    BY <1>0, <1>2, <1>4 DEF ShareInv, Users
<1>5. ASSUME NEW f \in Fibers, NEW o \in Objects, NEW name \in Names, NEW new \in Objects \cup {None},
             Starts(f, o, name, new)
      PROVE  ShareInv'
  <2>1. /\ meth'[f] = [name |-> name, obj |-> o, new |-> new]
        /\ \A g \in Fibers \ {f} : meth'[g] = meth[g]
      BY <1>2, <1>5 DEF Starts, CallBegins, OthersRest
  <2>2. \A g \in Fibers \ {f} :
           /\ meth[g].obj = o => /\ name \in Moving /\ meth[g].name \in Moving
                                 /\ Event(meth[g].name) # Event(name)
           /\ meth[g].new # o
      BY <1>0, <1>5 DEF Starts, Users, ObjectInv
  <2>3. new # None => \A g \in Fibers \ {f} : new \notin {meth[g].obj, meth[g].new}
      BY <1>5 DEF Starts, Users
  <2>4. ASSUME NEW g \in Fibers, NEW h \in Fibers, g # h
        PROVE  /\ meth'[g].obj # None /\ meth'[g].obj = meth'[h].obj =>
                     /\ meth'[g].name \in Moving /\ meth'[h].name \in Moving
                     /\ Event(meth'[g].name) # Event(meth'[h].name)
               /\ meth'[g].new # None => meth'[g].new \notin {meth'[h].obj, meth'[h].new}
    <3>1. CASE g = f
        BY <2>1, <2>2, <2>3, <2>4, <3>1
    <3>2. CASE h = f
        BY <2>1, <2>2, <2>3, <2>4, <3>2
    <3>3. CASE g # f /\ h # f
        BY <1>0, <2>1, <2>4, <3>3 DEF ShareInv
    <3> QED BY <3>1, <3>2, <3>3
  <2> QED BY <2>4 DEF ShareInv
<1>6. ASSUME NEW f \in Fibers, ConnectsNew(f) \/ GivesUp(f) PROVE ShareInv'
  <2>1. \A g \in Fibers \ {f} : meth'[g] = meth[g]
      BY <1>2, <1>6 DEF ConnectsNew, GivesUp, CallBegins, OthersRest
  <2>2. meth'[f].obj = meth[f].obj /\ meth'[f].new = None
      BY <1>6 DEF ConnectsNew, GivesUp, CallBegins
  <2>3. \A g \in Fibers \ {f} : meth[g].obj # meth[f].obj /\ meth[f].obj # None
      BY <1>0, <1>6 DEF ConnectsNew, GivesUp, ShareInv, ObjectInv, Moving, None
  <2> QED BY <1>0, <2>1, <2>2, <2>3 DEF ShareInv
<1>7. ASSUME NEW f \in Fibers, Ends(f) PROVE ShareInv'
    BY <1>3, <1>7 DEF Ends, NoMethod, OthersRest
<1>8. ASSUME NEW f \in Fibers, NEW o \in Objects, NEW name \in Names, Makes(f, o, name) PROVE ShareInv'
    BY <1>4, <1>8 DEF Makes, OthersRest
<1>9. ASSUME NEW f \in Fibers, Naps(f) PROVE ShareInv'
    BY <1>3, <1>9 DEF Naps, OthersRest
<1> QED BY <1>1, <1>5, <1>6, <1>7, <1>8, <1>9, ClientMoves, OptionStays
        DEF ClientStep, Idles, Stores, Frees, Leaves
-----------------------------------------------------------------------------
(* Owners *)

\* Sockets are neither made nor closed.
IdsKeep ==
    \A fd \in Fds : socks'[fd].id = socks[fd].id /\ (socks'[fd] = Closed <=> socks[fd] = Closed)

\* The part a fiber plays for its descriptor does not change.
RoleKeeps(f) ==
    /\ Pending(f)' <=> Pending(f)
    /\ Gone(f)' <=> Gone(f)
    /\ Using(f)' <=> Using(f)
    /\ call'[f].fd = call[f].fd /\ call'[f].id = call[f].id

\* A call in progress works on a descriptor its object holds.
LEMMA UsingHolds ==
    ASSUME SocketInv, NEW f \in Fibers, Using(f)
    PROVE  /\ meth[f].obj \in Objects /\ call[f].fd \in Fds /\ Holds(meth[f].obj, call[f].fd)
           /\ IsOpen(call[f].fd)
<1>1. meth[f].obj \in Objects
    BY DEF SocketInv, MethType, ObjectInv, Using, Closing, None
<1>2. call[f].fd \in Fds /\ call[f].fd = m_sock[meth[f].obj]
    BY DEF SocketInv, WorkInv, Works
<1>3. ASSUME NEW g \in Fibers, meth[g].obj = meth[f].obj PROVE ~Gone(g)
  <2>1. CASE g = f
      BY <2>1 DEF Using, Gone, Closing
  <2>2. CASE g # f
      BY <1>1, <1>3, <2>2, SocketAssumption DEF SocketInv, ShareInv, Gone, Closing, Moving
  <2> QED BY <2>1, <2>2
<1>4. Holds(meth[f].obj, call[f].fd)
    BY <1>2, <1>3 DEF Holds
<1> QED BY <1>1, <1>2, <1>4 DEF SocketInv, OwnInv

\* Calls on one descriptor are calls on one object, which one of them reads and the
\* other writes.
LEMMA UsersShare ==
    ASSUME SocketInv, NEW f \in Fibers, NEW g \in Fibers, f # g, Using(f), Using(g),
           call[f].fd = call[g].fd
    PROVE  /\ meth[f].obj = meth[g].obj
           /\ meth[f].name \in Moving /\ meth[g].name \in Moving /\ Ev(f) # Ev(g)
<1>1. meth[f].obj = meth[g].obj /\ meth[f].obj # None
    BY UsingHolds, SocketAssumption DEF SocketInv, OwnInv
<1>2. /\ meth[f].name \in Moving /\ meth[g].name \in Moving
      /\ Event(meth[f].name) # Event(meth[g].name)
    BY <1>1 DEF SocketInv, ShareInv
<1> QED BY <1>1, <1>2 DEF SocketInv, PlaceInv, PlaceOK, Ev

\* Nobody works on a descriptor that is on its way to an object.
LEMMA PendingAlone ==
    ASSUME SocketInv, NEW f \in Fibers, NEW g \in Fibers, Pending(f), call[f].fd \in Fds, f # g,
           Pending(g) \/ Using(g)
    PROVE  call[g].fd # call[f].fd
<1>1. CASE Pending(g)
    BY <1>1 DEF SocketInv, OwnInv, Brings
<1>2. CASE Using(g)
    BY <1>2, UsingHolds DEF SocketInv, OwnInv, Brings
<1> QED BY <1>1, <1>2

\* A fiber that stays in its call keeps its part.
LEMMA StaysRole ==
    ASSUME NEW f \in Fibers, Stays(f)
    PROVE  RoleKeeps(f)
BY DEF Stays, RoleKeeps, Pending, Gone, Using

\* So does one that makes a step other than accept_f() and close_f().
LEMMA FiberRole ==
    ASSUME SocketInv, UNCHANGED meth, NEW f \in Fibers, FiberStep(f), ~FunAccepts(f), ~CloseF(f)
    PROVE  RoleKeeps(f) /\ IdsKeep
<1>0. PcType /\ CallType /\ KernelType /\ meth[f].name \in Names
      /\ PlaceOK(meth[f].name, pc[f], call[f].op)
    BY DEF SocketInv, MethType, PlaceInv
<1> USE DEF PlaceOK, Making, Moving, Closing, None
<1>1. ASSUME NEW at, Goto(f, at), pc[f] \notin {"app", "ret", "new", "create"},
             at \notin {"app", "ret", "new", "create"}
      PROVE  RoleKeeps(f)
    BY <1>0, <1>1 DEF Goto, PcType, RoleKeeps, Pending, Gone, Using
<1>2. ASSUME NEW result, Return(f, result), pc[f] \notin {"app", "ret", "closef", "cancel", "del"},
             result = "ok" => call[f].op # "accept" \/ pc[f] \in {"new", "create"},
             pc[f] \in {"new", "create"} => result = "ok"
      PROVE  RoleKeeps(f)
  <2>1. pc'[f] = "ret" /\ call'[f].result = result /\ call'[f].fd = call[f].fd /\ call'[f].id = call[f].id
      BY <1>0, <1>2 DEF Return, PcType, CallType
  <2> QED BY <1>0, <1>2, <2>1 DEF Names, RoleKeeps, Pending, Gone, Using
<1>3. UNCHANGED socks => IdsKeep
    BY DEF IdsKeep
<1>4. CASE FunSucceeds(f)
    BY <1>2, <1>3, <1>4 DEF FunSucceeds
<1>5. CASE FunFails(f)
    BY <1>1, <1>2, <1>3, <1>5 DEF FunFails
<1>6. CASE AddConditionTimer(f)
    BY <1>1, <1>3, <1>6 DEF AddConditionTimer
<1>7. CASE AddEvent(f)
    BY <1>1, <1>2, <1>3, <1>7 DEF AddEvent
<1>8. CASE Wakes(f)
    BY <1>1, <1>2, <1>3, <1>8 DEF Wakes
<1>9. CASE ConnectChecks(f)
  <2>1. call[f].op # "accept"
      BY <1>0, <1>9 DEF ConnectChecks, Names
  <2> QED BY <1>2, <1>3, <1>9, <2>1 DEF ConnectChecks
<1>10. CASE GetFinds(f)
  <2>1. CASE Return(f, "ok")
      BY <1>2, <1>3, <1>10, <2>1 DEF GetFinds
  <2>2. CASE Goto(f, "create")
      BY <1>0, <1>3, <1>10, <2>2 DEF GetFinds, Goto, PcType, RoleKeeps, Pending, Gone, Using, Names
  <2> QED BY <1>10, <2>1, <2>2 DEF GetFinds
<1>11. CASE GetCreates(f)
  <2>1. IdsKeep
      BY <1>0, <1>11 DEF GetCreates, KernelType, IdsKeep, IsOpen, Closed
  <2> QED BY <1>2, <1>11, <2>1 DEF GetCreates
<1>12. CASE CloseCancels(f)
  <2>1. pc'[f] = "del" /\ call' = call
      BY <1>12 DEF CloseCancels, Resumed
  <2> QED BY <1>0, <1>3, <1>12, <2>1 DEF CloseCancels, RoleKeeps, Pending, Gone, Using, Names
<1>13. CASE CloseDeletes(f)
    BY <1>1, <1>3, <1>13 DEF CloseDeletes
<1>14. CASE SleepEnds(f)
  <2>1. meth[f].name = "sleep"
      BY <1>0, <1>14 DEF SleepEnds, Names
  <2>2. pc'[f] = "ret" /\ call'[f].fd = call[f].fd /\ call'[f].id = call[f].id
      BY <1>0, <1>14 DEF SleepEnds, Return, PcType, CallType
  <2> QED BY <1>3, <1>14, <2>1, <2>2 DEF SleepEnds, RoleKeeps, Pending, Gone, Using
<1> QED BY <1>4, <1>5, <1>6, <1>7, <1>8, <1>9, <1>10, <1>11, <1>12, <1>13, <1>14 DEF FiberStep

\* accept_f() makes a socket, and its fiber brings the descriptor.
LEMMA AcceptRole ==
    ASSUME SocketInv, UNCHANGED meth, NEW f \in Fibers, FunAccepts(f)
    PROVE  \E new \in Fds :
              /\ NewSocket(new) /\ call'[f].fd = new
              /\ meth[f].name = "accept" /\ Using(f) /\ ~Pending(f) /\ ~Gone(f)
              /\ Pending(f)' /\ ~Using(f)' /\ ~Gone(f)'
<1>0. PcType /\ CallType /\ KernelType /\ meth[f].name \in Names
      /\ PlaceOK(meth[f].name, pc[f], call[f].op)
    BY DEF SocketInv, MethType, PlaceInv
<1>1. meth[f].name = "accept" /\ pc[f] \in {"try", "raw"}
    BY <1>0 DEF FunAccepts, PlaceOK, Names, Making, Moving, Closing, None
<1>2. PICK new \in Fds : /\ NewFd(new, "connected")
                         /\ call' = [call EXCEPT ![f].fd = new, ![f].id = made + 1]
    BY DEF FunAccepts, Free
<1>3. NewSocket(new)
    BY <1>0, <1>2 DEF KernelType, NewFd, NewSocket, Free, IsOpen, Closed
<1>4. pc'[f] = "new" /\ call'[f].fd = new
    BY <1>0, <1>2 DEF FunAccepts, PcType, CallType
<1> QED BY <1>1, <1>3, <1>4 DEF Using, Pending, Gone, Making, Closing

\* close_f() ends a socket, and with it the claim of the object.
LEMMA CloseRole ==
    ASSUME SocketInv, UNCHANGED meth, NEW f \in Fibers, CloseF(f)
    PROVE  /\ meth[f].name \in Closing /\ Using(f) /\ ~Pending(f) /\ ~Gone(f)
           /\ ~Pending(f)' /\ ~Using(f)' /\ Gone(f)'
           /\ call[f].fd \in Fds /\ call'[f].fd = call[f].fd
           /\ socks' = [socks EXCEPT ![call[f].fd] = Closed]
<1>0. PcType /\ CallType /\ meth[f].name \in Names
      /\ PlaceOK(meth[f].name, pc[f], call[f].op)
    BY DEF SocketInv, MethType, PlaceInv
<1>1. meth[f].name \in Closing
    BY <1>0 DEF CloseF, PlaceOK, Names, Making, Moving, Closing, None
<1>2. pc[f] = "closef" /\ pc'[f] = "ret" /\ call'[f].fd = call[f].fd
    BY <1>0 DEF CloseF, Return, PcType, CallType
<1>3. call[f].fd \in Fds
    BY <1>2, CallHasFd
<1> QED BY <1>1, <1>2, <1>3 DEF CloseF, Using, Pending, Gone, Making, Closing

HoldsKeep(o) == \A fd \in Fds : Holds(o, fd)' <=> Holds(o, fd)
BringsKeep(f) == \A fd \in Fds : Brings(f, fd)' <=> Brings(f, fd)

\* What the fibers that stay bring, and what objects hold that are not being closed.
LEMMA BringsFrame ==
    ASSUME NEW f \in Fibers, OthersStay(f)
    PROVE  \A g \in Fibers \ {f} : BringsKeep(g)
BY StaysRole DEF OthersStay, RoleKeeps, BringsKeep, Brings

\* An object keeps its descriptor if no fiber loses or gets one.
LEMMA HoldsFrame ==
    ASSUME NEW f \in Fibers, OthersStay(f), ~Gone(f), ~Gone(f)', NEW o \in Objects, m_sock'[o] = m_sock[o]
    PROVE  HoldsKeep(o)
<1>1. \A g \in Fibers \ {f} : (Gone(g)' <=> Gone(g)) /\ meth'[g].obj = meth[g].obj
    BY StaysRole DEF OthersStay, RoleKeeps, Stays
<1> QED BY <1>1 DEF HoldsKeep, Holds

\* Nothing changes hands.
LEMMA OwnQuiet ==
    ASSUME SocketInv, IdsKeep, \A o \in Objects : HoldsKeep(o), \A f \in Fibers : BringsKeep(f)
    PROVE  OwnInv'
BY DEF SocketInv, OwnInv, IdsKeep, HoldsKeep, BringsKeep, IsOpen

\* A new descriptor belongs to the method that made it.
LEMMA OwnNew ==
    ASSUME SocketInv, NEW f \in Fibers, NEW fd \in Fds, OthersStay(f), NewSocket(fd),
           ~Pending(f), Pending(f)', call'[f].fd = fd, \A o \in Objects : HoldsKeep(o)
    PROVE  OwnInv'
<1>1. \A x \in Fds : (Brings(f, x)' <=> x = fd) /\ ~Brings(f, x)
    BY DEF Brings
<1>2. \A g \in Fibers \ {f} : BringsKeep(g)
    BY BringsFrame
<1>3. \A x \in Fds : IsOpen(x)' <=> IsOpen(x) \/ x = fd
    BY DEF NewSocket, IsOpen
<1>4. (\A o \in Objects : ~Holds(o, fd)) /\ (\A g \in Fibers : ~Brings(g, fd))
    BY DEF NewSocket, SocketInv, OwnInv, IsOpen
<1>5. ASSUME NEW x \in Fds, x # fd
      PROVE  \A g \in Fibers : Brings(g, x)' <=> Brings(g, x)
    BY <1>1, <1>2, <1>5 DEF BringsKeep
<1>6. \A g \in Fibers \ {f} : ~Brings(g, fd)'
    BY <1>2, <1>4 DEF BringsKeep
<1>7. \A o \in Objects : ~Holds(o, fd)'
    BY <1>4 DEF HoldsKeep
<1> QED BY <1>1, <1>3, <1>5, <1>6, <1>7 DEF SocketInv, OwnInv, HoldsKeep

\* A descriptor passes from the method that made it to its object.
LEMMA OwnStore ==
    ASSUME SocketInv, IdsKeep, NEW f \in Fibers, NEW o \in Objects, OthersStay(f),
           Pending(f), ~Pending(f)', \A p \in Objects \ {o} : HoldsKeep(p),
           \A x \in Fds : ~Holds(o, x) /\ (Holds(o, x)' <=> x = call[f].fd)
    PROVE  OwnInv'
<1>1. \A x \in Fds : (Brings(f, x) <=> x = call[f].fd) /\ ~Brings(f, x)'
    BY DEF Brings
<1>2. \A g \in Fibers \ {f}, x \in Fds : Brings(g, x)' <=> Brings(g, x)
    BY BringsFrame DEF BringsKeep
<1>3. \A x \in Fds : IsOpen(x)' <=> IsOpen(x)
    BY DEF IdsKeep, IsOpen
<1>4. \A p \in Objects \ {o}, x \in Fds : Holds(p, x)' <=> Holds(p, x)
    BY DEF HoldsKeep
<1> QED BY <1>1, <1>2, <1>3, <1>4 DEF SocketInv, OwnInv

\* A closed descriptor belongs to nobody.
LEMMA OwnClose ==
    ASSUME SocketInv, UNCHANGED <<meth, m_sock>>, NEW f \in Fibers, CloseF(f)
    PROVE  OwnInv'
<1>0. OthersStay(f)
    BY FiberStays DEF FiberStep
<1>1. PICK o \in Objects, fd \in Fds : o = meth[f].obj /\ fd = call[f].fd /\ Holds(o, fd)
    BY CloseRole, UsingHolds
<1>2. \A x \in Fds : IsOpen(x)' <=> IsOpen(x) /\ x # fd
    BY <1>1, CloseRole DEF SocketInv, KernelType, IsOpen
<1>3. \A g \in Fibers : BringsKeep(g)
    BY <1>0, BringsFrame, CloseRole DEF BringsKeep, Brings
<1>4. \A x \in Fds : ~Holds(o, x)'
    BY <1>1, CloseRole DEF Holds
<1>5. ASSUME NEW p \in Objects, p # o PROVE HoldsKeep(p)
  <2>1. \A g \in Fibers \ {f} : Gone(g)' <=> Gone(g)
      BY <1>0, StaysRole DEF OthersStay, RoleKeeps
  <2> QED BY <1>1, <1>5, <2>1 DEF HoldsKeep, Holds
<1>6. \A p \in Objects : ~Holds(p, fd)'
    BY <1>1, <1>4, <1>5 DEF HoldsKeep, SocketInv, OwnInv
<1>7. \A g \in Fibers : ~Brings(g, fd)'
    BY <1>1, <1>3 DEF BringsKeep, SocketInv, OwnInv
<1>8. ASSUME NEW x \in Fds, x # fd
      PROVE  /\ \A p \in Objects : Holds(p, x)' <=> Holds(p, x)
             /\ \A g \in Fibers : Brings(g, x)' <=> Brings(g, x)
             /\ IsOpen(x)' <=> IsOpen(x)
  <2>1. ~Holds(o, x)
      BY <1>1, <1>8 DEF Holds
  <2> QED BY <1>2, <1>3, <1>4, <1>5, <1>8, <2>1 DEF HoldsKeep, BringsKeep
<1> QED BY <1>1, <1>2, <1>6, <1>7, <1>8 DEF SocketInv, OwnInv

\* A fiber outside of methods owns nothing and works on nothing.
LEMMA AppRole ==
    ASSUME SocketInv, NEW f \in Fibers, pc[f] = "app"
    PROVE  ~Pending(f) /\ ~Gone(f) /\ ~Using(f)
BY DEF SocketInv, PlaceInv, PlaceOK, Pending, Gone, Using, Making, Moving, Closing, None

\* A fiber without a method has no descriptor.
LEMMA EndsRole ==
    ASSUME NEW f \in Fibers, Ends(f) \/ Naps(f)
    PROVE  ~Pending(f)' /\ ~Gone(f)' /\ ~Using(f)'
BY DEF Ends, Naps, NoMethod, Pending, Gone, Using, Making, Moving, Closing, None

\* A call that begins uses its object's descriptor and leaves all sockets alone.
LEMMA BeginsRole ==
    ASSUME NEW f \in Fibers, NEW o, NEW name, NEW new, CallBegins(f, o, name, new)
    PROVE  ~Pending(f)' /\ ~Gone(f)' /\ Using(f)' /\ IdsKeep
<1>1. name \in {"connect"} \cup Moving \cup Closing /\ meth'[f].name = name
      /\ pc'[f] \notin {"new", "create"} /\ (pc'[f] = "ret" => name = "connect")
    BY DEF CallBegins
<1>2. IdsKeep
    BY DEF CallBegins, KernelKeeps, IdsKeep
<1> QED BY <1>1, <1>2 DEF Pending, Gone, Using, Making, Moving, Closing

\* A method that makes a socket has a descriptor that no object has yet.
LEMMA MakesRole ==
    ASSUME NEW f \in Fibers, NEW o, NEW name, Makes(f, o, name)
    PROVE  Pending(f)' /\ ~Gone(f)' /\ ~Using(f)'
BY DEF Makes, Pending, Gone, Using, Making, Moving, Closing

\* The answer to an attempt to connect, listen() and the options keep the sockets.
LEMMA OuterIds ==
    ASSUME SocketInv, OuterStep
    PROVE  IdsKeep
<1>1. ASSUME NEW fd \in Fds, NEW conn \in {"connected", "refused"}, Answered(fd, conn) PROVE IdsKeep
  <2>1. socks[fd].id # 0
      BY <1>1 DEF SocketInv, Answered, KernelType, Closed
  <2>2. \A x \in Fds : socks'[x].id = socks[x].id /\ (x # fd => socks'[x] = socks[x])
      BY <1>1 DEF SocketInv, Answered, KernelType
  <2> QED BY <2>1, <2>2 DEF IdsKeep, Closed
<1>2. UNCHANGED socks => IdsKeep
    BY DEF IdsKeep
<1> QED BY <1>1, <1>2 DEF OuterStep, Expires, Callback, CallbackCancels, CancelEvent, Report, ReportError, Cancel

\* Options and listen() leave the identity of every socket alone.
LEMMA OptionIds ==
    ASSUME SocketInv, (\E o \in Objects : Option(o)) \/ (\E f \in Fibers, o \in Objects : Listen(f, o))
    PROVE  IdsKeep
<1>0. KernelType /\ ObjType
    BY DEF SocketInv
<1>1. PICK o \in Objects : Option(o) \/ \E f \in Fibers : Listen(f, o)
    OBVIOUS
<1>2. PICK fd \in Fds : fd = m_sock[o] /\ IsOpen(fd)
  <2>1. m_sock[o] \in Fds
      BY <1>0, <1>1 DEF ObjType, Option, Listen, IsValid
  <2>2. Holds(o, m_sock[o])
      BY <1>1 DEF Option, Listen, Alone, Holds, Gone, Users, Closing
  <2> QED BY <2>1, <2>2 DEF SocketInv, OwnInv
<1>3. socks[fd].id # 0
    BY <1>0, <1>2 DEF KernelType, IsOpen
<1>4. \A x \in Fds : socks'[x].id = socks[x].id /\ (x # fd => socks'[x] = socks[x])
  <2>1. CASE \E f \in Fibers : Listen(f, o)
      BY <1>0, <1>2, <2>1 DEF KernelType, Listen
  <2>2. CASE Option(o)
    <3>1. CASE \E e \in Events, v \in Timeouts : SetSockOpt(m_sock[o], e, v)
        BY <3>1 DEF SetSockOpt
    <3>2. CASE \E b \in BOOLEAN : FcntlSetFl(m_sock[o], b) \/ Ioctl(m_sock[o], b)
        BY <1>0, <1>2, <3>2 DEF KernelType, FcntlSetFl, Ioctl
    <3> QED BY <2>2, <3>1, <3>2 DEF Option
  <2> QED BY <1>1, <2>1, <2>2
<1> QED BY <1>2, <1>3, <1>4 DEF IdsKeep, IsOpen, Closed

\* Every step keeps the owners apart.
LEMMA OwnKeeps ==
    ASSUME SocketInv, ~Sharing, Step
    PROVE  OwnInv'
<1>0. TypeInv
    BY DEF SocketInv
<1>1. ASSUME NEW f \in Fibers, OthersStay(f), IdsKeep, UNCHANGED m_sock,
             Gone(f) <=> FALSE, Gone(f)' <=> FALSE, BringsKeep(f)
      PROVE  OwnInv'
  <2>1. \A o \in Objects : HoldsKeep(o)
      BY <1>1, HoldsFrame
  <2>2. \A g \in Fibers : BringsKeep(g)
      BY <1>1, BringsFrame
  <2> QED BY <1>1, <2>1, <2>2, OwnQuiet
<1>2. ASSUME \A f \in Fibers : RoleKeeps(f) /\ meth'[f].obj = meth[f].obj, UNCHANGED m_sock, IdsKeep
      PROVE  OwnInv'
  <2>1. \A o \in Objects : HoldsKeep(o)
      BY <1>2 DEF RoleKeeps, HoldsKeep, Holds
  <2>2. \A f \in Fibers : BringsKeep(f)
      BY <1>2 DEF RoleKeeps, BringsKeep, Brings
  <2> QED BY <1>2, <2>1, <2>2, OwnQuiet
<1>3. ASSUME NEW f \in Fibers, ~Pending(f), ~Pending(f)' PROVE BringsKeep(f)
    BY <1>3 DEF BringsKeep, Brings
<1>4. UNCHANGED socks => IdsKeep
    BY DEF IdsKeep
<1>5. CASE UNCHANGED <<objVars, meth>> /\ \E f \in Fibers : FiberStep(f)
  <2>1. PICK f \in Fibers : FiberStep(f)
      BY <1>5
  <2>2. OthersStay(f)
      BY <1>5, <2>1, FiberStays
  <2>3. CASE FunAccepts(f)
    <3>1. PICK new \in Fds : /\ NewSocket(new) /\ call'[f].fd = new /\ ~Pending(f) /\ ~Gone(f)
                             /\ Pending(f)' /\ ~Gone(f)'
        BY <1>5, <2>3, AcceptRole
    <3>2. \A o \in Objects : HoldsKeep(o)
        BY <1>5, <2>2, <3>1, HoldsFrame
    <3> QED BY <2>2, <3>1, <3>2, OwnNew
  <2>4. CASE CloseF(f)
      BY <1>5, <2>4, OwnClose
  <2>5. CASE ~FunAccepts(f) /\ ~CloseF(f)
    <3>1. RoleKeeps(f) /\ IdsKeep
        BY <1>5, <2>1, <2>5, FiberRole
    <3> QED BY <1>2, <1>5, <2>2, <3>1, StaysRole DEF OthersStay
  <2> QED BY <2>3, <2>4, <2>5
<1>6. CASE UNCHANGED <<objVars, meth>> /\ OuterStep
    BY <1>2, <1>6, OuterIds, OuterStays, StaysRole DEF Stays
<1>7. CASE (\E o \in Objects : Option(o)) \/ (\E f \in Fibers, o \in Objects : Listen(f, o))
  <2>1. \A f \in Fibers : Stays(f)
      BY <1>7, OptionStays DEF Stays
  <2> QED BY <1>2, <1>7, <2>1, StaysRole, OptionStays, OptionIds DEF Stays
<1>8. CASE ClientStep
  <2>1. CASE Idles
    <3>1. \A f \in Fibers : Stays(f)
        BY <2>1 DEF Idles, hookVars, Stays
    <3> QED BY <1>2, <1>4, <2>1, <3>1, StaysRole DEF Idles, hookVars
  <2>2. ASSUME NEW f \in Fibers, Naps(f) PROVE OwnInv'
      BY <1>1, <1>3, <1>4, <2>2, AppRole, EndsRole DEF Naps, OthersRest
  <2>3. ASSUME NEW f \in Fibers, Leaves(f) PROVE OwnInv'
      BY <1>1, <1>3, <1>4, <2>3, EndsRole DEF Leaves, Ends, OthersRest
  <2>4. ASSUME NEW f \in Fibers, GivesUp(f) PROVE OwnInv'
    <3>1. ~Pending(f) /\ ~Gone(f)
        BY <2>4 DEF GivesUp, Pending, Gone, Making, Closing
    <3>2. ~Pending(f)' /\ ~Gone(f)' /\ IdsKeep /\ OthersStay(f)
        BY <2>4, BeginsRole DEF GivesUp, CallBegins, OthersRest
    <3> QED BY <1>1, <1>3, <2>4, <3>1, <3>2 DEF GivesUp
  <2>5. ASSUME NEW f \in Fibers, NEW o \in Objects, NEW name \in Names, NEW new \in Objects \cup {None},
               Starts(f, o, name, new)
        PROVE  OwnInv'
    <3>1. ~Pending(f) /\ ~Gone(f)
        BY <2>5, AppRole DEF Starts
    <3>2. ~Pending(f)' /\ ~Gone(f)' /\ IdsKeep /\ OthersStay(f)
        BY <2>5, BeginsRole DEF Starts, CallBegins, OthersRest
    <3> QED BY <1>1, <1>3, <2>5, <3>1, <3>2 DEF Starts
  <2>6. ASSUME NEW f \in Fibers, NEW o \in Objects, NEW name \in Names, Makes(f, o, name) PROVE OwnInv'
    <3>1. ~Pending(f) /\ ~Gone(f) /\ Pending(f)' /\ ~Gone(f)' /\ OthersStay(f)
        BY <2>6, AppRole, MakesRole DEF Makes, OthersRest
    <3>2. CASE \E fd \in Fds : NewSocket(fd) /\ pc'[f] = "new" /\ call'[f].fd = fd
      <4>1. \A p \in Objects : HoldsKeep(p)
          BY <2>6, <3>1, HoldsFrame DEF Makes
      <4> QED BY <3>1, <3>2, <4>1, OwnNew
    <3>3. CASE KernelKeeps /\ call'[f].fd = -1
      <4>1. BringsKeep(f) /\ IdsKeep
          BY <3>1, <3>3, HookAssumption DEF BringsKeep, Brings, KernelKeeps, IdsKeep
      <4> QED BY <1>1, <2>6, <3>1, <4>1 DEF Makes
    <3> QED BY <2>6, <3>2, <3>3 DEF Makes
  <2>7. ASSUME NEW f \in Fibers, NEW o \in Objects, OthersStay(f), IdsKeep, Pending(f), ~Pending(f)',
               ~Gone(f), ~Gone(f)', m_sock[o] = -1, m_sock' = [m_sock EXCEPT ![o] = call[f].fd],
               \A g \in Fibers \ {f} : meth[g].obj # o
        PROVE  OwnInv'
    <3>1. \A p \in Objects \ {o} : HoldsKeep(p)
        BY <1>0, <2>7, HoldsFrame DEF ObjType
    <3>2. \A x \in Fds : ~Holds(o, x)
        BY <2>7, HookAssumption DEF Holds
    <3>3. \A x \in Fds : Holds(o, x)' <=> x = call[f].fd
      <4>1. m_sock'[o] = call[f].fd
          BY <1>0, <2>7 DEF ObjType
      <4>2. \A g \in Fibers : meth'[g].obj = o => ~Gone(g)'
          BY <2>7 DEF OthersStay, Stays
      <4> QED BY <4>1, <4>2 DEF Holds
    <3> QED BY <2>7, <3>1, <3>2, <3>3, OwnStore
  <2>8. ASSUME NEW f \in Fibers, ConnectsNew(f) PROVE OwnInv'
    <3>1. PICK o \in Objects : o = meth[f].obj
        BY <1>0, <2>8 DEF ConnectsNew, SocketInv, ObjectInv, MethType, None
    <3>2. Pending(f) /\ ~Gone(f)
        BY <2>8 DEF ConnectsNew, Pending, Gone, Making, Closing
    <3>3. ~Pending(f)' /\ ~Gone(f)' /\ IdsKeep /\ OthersStay(f)
        BY <2>8, BeginsRole DEF ConnectsNew, CallBegins, OthersRest
    <3>4. \A g \in Fibers \ {f} : meth[g].obj # o
        BY <2>8, <3>1, SocketAssumption DEF ConnectsNew, SocketInv, ShareInv, Moving
    <3>5. m_sock[o] = -1
        BY <2>8, <3>1 DEF ConnectsNew, SocketInv, ObjectInv, Making
    <3> QED BY <2>7, <2>8, <3>1, <3>2, <3>3, <3>4, <3>5 DEF ConnectsNew
  <2>9. ASSUME NEW f \in Fibers, NEW o \in Objects, Stores(f, o) PROVE OwnInv'
    <3>1. Pending(f) /\ ~Gone(f) /\ ~Pending(f)' /\ ~Gone(f)' /\ IdsKeep /\ OthersStay(f)
        BY <1>4, <2>9, EndsRole DEF Stores, Ends, Pending, Gone, Making, Closing, OthersRest
    <3>2. \A g \in Fibers \ {f} : meth[g].obj # o
        BY <2>9, SocketAssumption DEF Stores, SocketInv, ShareInv, Moving, Making
    <3>3. m_sock[o] = -1
        BY <2>9 DEF Stores, SocketInv, ObjectInv
    <3> QED BY <2>7, <2>9, <3>1, <3>2, <3>3 DEF Stores
  <2>10. ASSUME NEW f \in Fibers, Frees(f) PROVE OwnInv'
    <3>1. PICK o \in Objects : o = meth[f].obj
        BY <1>0, <2>10 DEF Frees, Gone, SocketInv, ObjectInv, MethType, Closing, None
    <3>2. ~Pending(f) /\ ~Pending(f)' /\ ~Gone(f)' /\ Gone(f) /\ OthersStay(f) /\ IdsKeep
        BY <1>4, <2>10, EndsRole DEF Frees, Ends, Gone, Pending, Making, Closing, OthersRest
    <3>3. m_sock'[o] = -1 /\ \A p \in Objects \ {o} : m_sock'[p] = m_sock[p]
        BY <1>0, <2>10, <3>1 DEF Frees, ObjType
    <3>4. HoldsKeep(o)
        BY <3>1, <3>2, <3>3, HookAssumption DEF HoldsKeep, Holds
    <3>5. ASSUME NEW p \in Objects, p # o PROVE HoldsKeep(p)
      <4>1. \A g \in Fibers \ {f} : (Gone(g)' <=> Gone(g)) /\ meth'[g].obj = meth[g].obj
          BY <3>2, StaysRole DEF OthersStay, RoleKeeps, Stays
      <4>2. meth[f].obj # p /\ ~Gone(f)'
          BY <3>1, <3>2, <3>5
      <4> QED BY <3>3, <3>5, <4>1, <4>2 DEF HoldsKeep, Holds
    <3>6. \A g \in Fibers : BringsKeep(g)
        BY <1>3, <3>2, BringsFrame
    <3> QED BY <3>2, <3>4, <3>5, <3>6, OwnQuiet
  <2> QED BY <1>8, <2>1, <2>2, <2>3, <2>4, <2>5, <2>6, <2>8, <2>9, <2>10 DEF ClientStep
<1> QED BY <1>5, <1>6, <1>7, <1>8, ClientMoves
-----------------------------------------------------------------------------
(* Calls and their sockets *)

\* A fiber that stays works on as before if neither its object's descriptor nor the
\* socket behind it has changed.
LEMMA StaysWorks ==
    ASSUME SocketInv, NEW f \in Fibers, Stays(f),
           Using(f) \/ Gone(f) => m_sock'[meth[f].obj] = m_sock[meth[f].obj],
           Using(f) => socks'[call[f].fd].id = socks[call[f].fd].id
    PROVE  Works(f)'
<1>1. RoleKeeps(f) /\ meth'[f] = meth[f] /\ call'[f] = call[f] /\ (pc'[f] = "ret" <=> pc[f] = "ret")
    BY StaysRole DEF Stays
<1> QED BY <1>1 DEF RoleKeeps, SocketInv, WorkInv, Works

\* Every step keeps each call on the descriptor and the socket of its object.
LEMMA WorkKeeps ==
    ASSUME SocketInv, ~Sharing, Step
    PROVE  WorkInv'
<1>0. TypeInv
    BY DEF SocketInv
<1>1. ASSUME NEW f \in Fibers, Using(f) PROVE call[f].fd \in Fds /\ socks[call[f].fd] # Closed
    BY <1>1, UsingHolds DEF IsOpen
<1>2. ASSUME NEW f \in Fibers, OthersStay(f), IdsKeep, Works(f)',
             \A g \in Fibers \ {f} : Using(g) \/ Gone(g) => m_sock'[meth[g].obj] = m_sock[meth[g].obj]
      PROVE  WorkInv'
    BY <1>1, <1>2, StaysWorks DEF OthersStay, IdsKeep, WorkInv
<1>3. ASSUME \A f \in Fibers : Stays(f), UNCHANGED m_sock, IdsKeep PROVE WorkInv'
    BY <1>1, <1>3, StaysWorks DEF IdsKeep, WorkInv
<1>4. ASSUME NEW f \in Fibers, OthersStay(f), NEW fd \in Fds, NewSocket(fd), Works(f)', UNCHANGED m_sock
      PROVE  WorkInv'
    BY <1>1, <1>4, StaysWorks DEF OthersStay, NewSocket, WorkInv
<1>5. UNCHANGED socks => IdsKeep
    BY DEF IdsKeep
<1>6. CASE UNCHANGED <<objVars, meth>> /\ \E f \in Fibers : FiberStep(f)
  <2>1. PICK f \in Fibers : FiberStep(f)
      BY <1>6
  <2>2. OthersStay(f)
      BY <1>6, <2>1, FiberStays
  <2>3. CASE FunAccepts(f)
    <3>1. PICK new \in Fds : /\ NewSocket(new) /\ call'[f].fd = new /\ ~Using(f)' /\ ~Gone(f)'
        BY <1>6, <2>3, AcceptRole
    <3>2. Works(f)'
        BY <3>1 DEF Works
    <3> QED BY <1>4, <1>6, <2>2, <3>1, <3>2
  <2>4. CASE CloseF(f)
    <3>1. /\ meth[f].name \in Closing /\ Using(f) /\ ~Pending(f)' /\ ~Using(f)' /\ Gone(f)'
          /\ call[f].fd \in Fds /\ call'[f].fd = call[f].fd
          /\ socks' = [socks EXCEPT ![call[f].fd] = Closed]
        BY <1>6, <2>4, CloseRole
    <3>2. Works(f)'
        BY <1>6, <3>1 DEF SocketInv, WorkInv, Works
    <3>3. ASSUME NEW g \in Fibers, g # f, Using(g) PROVE socks'[call[g].fd] = socks[call[g].fd]
      <4>1. call[g].fd # call[f].fd
          BY <3>1, <3>3, UsersShare DEF Closing, Moving
      <4> QED BY <1>0, <1>1, <3>1, <3>3, <4>1 DEF KernelType
    <3> QED BY <1>6, <2>2, <3>2, <3>3, StaysWorks DEF OthersStay, WorkInv
  <2>5. CASE ~FunAccepts(f) /\ ~CloseF(f)
    <3>1. RoleKeeps(f) /\ IdsKeep
        BY <1>6, <2>1, <2>5, FiberRole
    <3>2. Pending(f) => call[f].fd \in Fds
      <4>1. pc[f] \notin {"app", "ret"}
          BY <2>1 DEF FiberStep, FunSucceeds, FunAccepts, FunFails, AddConditionTimer, AddEvent, Wakes,
                      ConnectChecks, GetFinds, GetCreates, CloseCancels, CloseDeletes, CloseF, SleepEnds
      <4>2. pc[f] = "sleep" => ~Pending(f)
          BY DEF SocketInv, PlaceInv, PlaceOK, Pending, Making, Moving
      <4> QED BY <4>1, <4>2, CallHasFd
    <3>3. Using(f) => socks'[call[f].fd].id = socks[call[f].fd].id
        BY <1>1, <3>1 DEF IdsKeep
    <3>4. Works(f)'
        BY <1>6, <3>1, <3>2, <3>3 DEF RoleKeeps, SocketInv, WorkInv, Works
    <3> QED BY <1>2, <1>6, <2>2, <3>1, <3>4
  <2> QED BY <2>3, <2>4, <2>5
<1>7. CASE UNCHANGED <<objVars, meth>> /\ OuterStep
    BY <1>3, <1>7, OuterStays, OuterIds
<1>8. CASE (\E o \in Objects : Option(o)) \/ (\E f \in Fibers, o \in Objects : Listen(f, o))
    BY <1>3, <1>8, OptionStays, OptionIds DEF Stays
<1>9. CASE ClientStep
  <2>1. CASE Idles
    <3>1. \A f \in Fibers : Stays(f)
        BY <2>1 DEF Idles, hookVars, Stays
    <3> QED BY <1>3, <1>5, <2>1, <3>1 DEF Idles, hookVars
  <2>2. ASSUME NEW f \in Fibers, Naps(f) PROVE WorkInv'
    <3>1. Works(f)'
        BY <2>2, EndsRole DEF Works
    <3> QED BY <1>2, <1>5, <2>2, <3>1 DEF Naps, OthersRest
  <2>3. ASSUME NEW f \in Fibers, Ends(f),
               \A g \in Fibers \ {f} : Using(g) \/ Gone(g) => m_sock'[meth[g].obj] = m_sock[meth[g].obj]
        PROVE  WorkInv'
    <3>1. Works(f)'
        BY <2>3, EndsRole DEF Works
    <3> QED BY <1>2, <1>5, <2>3, <3>1 DEF Ends, OthersRest
  <2>4. ASSUME NEW f \in Fibers, Leaves(f) PROVE WorkInv'
      BY <2>3, <2>4 DEF Leaves
  <2>5. ASSUME NEW f \in Fibers, NEW o \in Objects, \A g \in Fibers \ {f} : meth[g].obj # o,
               NEW v, m_sock' = [m_sock EXCEPT ![o] = v]
        PROVE  \A g \in Fibers \ {f} : Using(g) \/ Gone(g) => m_sock'[meth[g].obj] = m_sock[meth[g].obj]
      BY <1>0, <2>5 DEF ObjType
  <2>6. ASSUME NEW f \in Fibers, NEW o \in Objects, Stores(f, o) PROVE WorkInv'
    <3>1. \A g \in Fibers \ {f} : meth[g].obj # o
        BY <2>6, SocketAssumption DEF Stores, SocketInv, ShareInv, Moving, Making
    <3> QED BY <2>3, <2>5, <2>6, <3>1 DEF Stores
  <2>7. ASSUME NEW f \in Fibers, Frees(f) PROVE WorkInv'
    <3>1. PICK o \in Objects : o = meth[f].obj
        BY <1>0, <2>7 DEF Frees, Gone, SocketInv, ObjectInv, MethType, Closing, None
    <3>2. \A g \in Fibers \ {f} : meth[g].obj # o
        BY <2>7, <3>1, SocketAssumption DEF Frees, Gone, SocketInv, ShareInv, Moving, Closing
    <3> QED BY <2>3, <2>5, <2>7, <3>1, <3>2 DEF Frees
  <2>8. ASSUME NEW f \in Fibers, NEW o, NEW name, NEW new, CallBegins(f, o, name, new) PROVE Works(f)'
    <3>1. ~Pending(f)' /\ Using(f)'
        BY <2>8, BeginsRole
    <3>2. /\ call'[f].fd \in Fds /\ call'[f].fd = m_sock'[meth'[f].obj]
          /\ call'[f].id = socks'[call'[f].fd].id
        BY <2>8 DEF CallBegins, KernelKeeps
    <3> QED BY <3>1, <3>2 DEF Works
  <2>9. ASSUME NEW f \in Fibers, GivesUp(f) PROVE WorkInv'
      BY <1>2, <2>8, <2>9, BeginsRole DEF GivesUp, CallBegins, OthersRest
  <2>10. ASSUME NEW f \in Fibers, NEW o \in Objects, NEW name \in Names, NEW new \in Objects \cup {None},
                Starts(f, o, name, new)
         PROVE  WorkInv'
      BY <1>2, <2>8, <2>10, BeginsRole DEF Starts, CallBegins, OthersRest
  <2>11. ASSUME NEW f \in Fibers, ConnectsNew(f) PROVE WorkInv'
    <3>1. PICK o \in Objects : o = meth[f].obj
        BY <1>0, <2>11 DEF ConnectsNew, SocketInv, ObjectInv, MethType, None
    <3>2. \A g \in Fibers \ {f} : meth[g].obj # o
        BY <2>11, <3>1, SocketAssumption DEF ConnectsNew, SocketInv, ShareInv, Moving
    <3>3. \A g \in Fibers \ {f} : Using(g) \/ Gone(g) => m_sock'[meth[g].obj] = m_sock[meth[g].obj]
        BY <2>5, <2>11, <3>1, <3>2 DEF ConnectsNew
    <3>4. Works(f)' /\ IdsKeep /\ OthersStay(f)
        BY <2>8, <2>11, BeginsRole DEF ConnectsNew, CallBegins, OthersRest
    <3> QED BY <1>2, <3>3, <3>4
  <2>12. ASSUME NEW f \in Fibers, NEW o \in Objects, NEW name \in Names, Makes(f, o, name) PROVE WorkInv'
    <3>1. ~Using(f)' /\ ~Gone(f)'
        BY <2>12, MakesRole
    <3>2. CASE \E fd \in Fds : NewSocket(fd) /\ call'[f].fd = fd
      <4>1. Works(f)'
          BY <3>1, <3>2 DEF Works
      <4> QED BY <1>4, <2>12, <3>2, <4>1 DEF Makes, OthersRest
    <3>3. CASE KernelKeeps /\ pc'[f] = "ret" /\ call'[f].result = "error"
      <4>1. Works(f)' /\ IdsKeep
          BY <3>1, <3>3 DEF Works, KernelKeeps, IdsKeep
      <4> QED BY <1>2, <2>12, <4>1 DEF Makes, OthersRest
    <3> QED BY <2>12, <3>2, <3>3 DEF Makes
  <2> QED BY <1>9, <2>1, <2>2, <2>4, <2>6, <2>7, <2>9, <2>10, <2>11, <2>12 DEF ClientStep
<1> QED BY <1>6, <1>7, <1>8, <1>9, ClientMoves
-----------------------------------------------------------------------------
(* Contexts *)

\* Sockets that have a context stay open and non-blocking.
FlagsKeep ==
    \A fd \in Fds : m_datas[fd] # NoCtx =>
        /\ socks'[fd] # Closed /\ socks'[fd].id = socks[fd].id
        /\ ~FionbioOff => socks'[fd].nonblock

\* A fiber between accept_f() and the end, and one in close(), have their descriptors
\* to themselves.
LEMMA CtxUsers ==
    ASSUME SocketInv, NEW f \in Fibers
    PROVE  /\ pc[f] \in {"del", "closef"} => meth[f].name \in Closing /\ Using(f)
           /\ pc[f] \in {"new", "create"} => Pending(f) /\ call[f].fd \in Fds /\ IsOpen(call[f].fd)
           /\ meth[f].name = "accept" /\ pc[f] = "ret" /\ call[f].result = "ok" =>
                 Pending(f) /\ call[f].fd \in Fds
<1>0. meth[f].name \in Names /\ PlaceOK(meth[f].name, pc[f], call[f].op)
    BY DEF SocketInv, MethType, PlaceInv
<1>1. pc[f] \in {"del", "closef"} => meth[f].name \in Closing /\ Using(f)
    BY <1>0 DEF PlaceOK, Names, Making, Moving, Closing, None, Using, Gone
<1>2. ASSUME pc[f] \in {"new", "create"} PROVE Pending(f) /\ call[f].fd \in Fds /\ IsOpen(call[f].fd)
  <2>1. Pending(f)
      BY <1>0, <1>2 DEF PlaceOK, Names, Making, Moving, Closing, None, Pending
  <2>2. call[f].fd \in Fds
      BY <1>2, CallHasFd
  <2> QED BY <2>1, <2>2 DEF SocketInv, OwnInv, Brings
<1>3. ASSUME meth[f].name = "accept", pc[f] = "ret", call[f].result = "ok"
      PROVE  Pending(f) /\ call[f].fd \in Fds
    BY <1>3 DEF Pending, SocketInv, WorkInv, Works
<1> QED BY <1>1, <1>2, <1>3

\* What a step of another fiber leaves alone.
LEMMA CtxFrame ==
    ASSUME SocketInv
    PROVE  /\ UNCHANGED m_datas /\ FlagsKeep => \A fd \in Fds : CtxOf(fd)'
           /\ UNCHANGED m_datas => \A f \in Fibers : Stays(f) => CtxAt(f)'
<1>1. (\A fd \in Fds : CtxOf(fd)) /\ (\A f \in Fibers : CtxAt(f))
    BY DEF SocketInv, CtxInv
<1>2. ASSUME UNCHANGED m_datas, FlagsKeep PROVE \A fd \in Fds : CtxOf(fd)'
    BY <1>1, <1>2 DEF CtxOf, FlagsKeep, IsOpen
<1>3. ASSUME UNCHANGED m_datas, NEW f \in Fibers, Stays(f) PROVE CtxAt(f)'
    BY <1>1, <1>3 DEF CtxAt, Stays
<1> QED BY <1>2, <1>3

\* Sockets are not closed, or a number without a context gets a new one.
LEMMA FlagsFrame ==
    ASSUME SocketInv
    PROVE  /\ UNCHANGED socks \/ KernelKeeps => FlagsKeep
           /\ \A fd \in Fds : NewSocket(fd) => FlagsKeep
<1>1. \A fd \in Fds : CtxOf(fd)
    BY DEF SocketInv, CtxInv
<1>2. UNCHANGED socks => FlagsKeep
    BY <1>1 DEF CtxOf, FlagsKeep, IsOpen
<1>3. KernelKeeps => FlagsKeep
    BY <1>1 DEF CtxOf, FlagsKeep, IsOpen, KernelKeeps
<1>4. ASSUME NEW fd \in Fds, NewSocket(fd) PROVE FlagsKeep
    BY <1>1, <1>4 DEF CtxOf, FlagsKeep, IsOpen, NewSocket
<1> QED BY <1>2, <1>3, <1>4

\* The steps of a call.
LEMMA FiberCtx ==
    ASSUME SocketInv, UNCHANGED meth, NEW f \in Fibers, FiberStep(f)
    PROVE  CtxInv'
<1>0. /\ PcType /\ CallType /\ KernelType /\ TableType
      /\ meth[f].name \in Names /\ PlaceOK(meth[f].name, pc[f], call[f].op)
      /\ \A fd \in Fds : CtxOf(fd)
      /\ \A g \in Fibers : CtxAt(g)
    BY DEF SocketInv, MethType, PlaceInv, CtxInv
<1>1. \A g \in Fibers \ {f} : Stays(g)
    BY FiberStays DEF OthersStay
<1>2. ASSUME UNCHANGED m_datas, FlagsKeep, CtxAt(f)' PROVE CtxInv'
    BY <1>1, <1>2, CtxFrame DEF CtxInv
<1>3. ASSUME NEW at, Goto(f, at), at \notin {"closef", "ret"} PROVE CtxAt(f)'
    BY <1>0, <1>3 DEF Goto, PcType, CtxAt
<1>4. ASSUME NEW result, Return(f, result),
             meth[f].name = "accept" /\ result = "ok" => m_datas'[call[f].fd].isSocket
      PROVE  CtxAt(f)'
  <2>1. pc'[f] = "ret" /\ call'[f].result = result /\ call'[f].fd = call[f].fd
      BY <1>0, <1>4 DEF Return, PcType, CallType
  <2> QED BY <1>4, <2>1 DEF CtxAt
<1>5. CASE FunSucceeds(f) \/ FunFails(f)
  <2>1. FunSucceeds(f) => meth[f].name # "accept"
      BY <1>0 DEF FunSucceeds, PlaceOK, Moving
  <2>2. CtxAt(f)'
      BY <1>3, <1>4, <1>5, <2>1 DEF FunSucceeds, FunFails
  <2> QED BY <1>2, <1>5, <2>2, FlagsFrame DEF FunSucceeds, FunFails
<1>6. CASE FunAccepts(f)
  <2>1. FlagsKeep
      BY <1>6, AcceptRole, FlagsFrame
  <2>2. CtxAt(f)'
      BY <1>0, <1>6 DEF FunAccepts, PcType, CtxAt
  <2> QED BY <1>2, <1>6, <2>1, <2>2 DEF FunAccepts
<1>7. CASE AddConditionTimer(f) \/ AddEvent(f) \/ Wakes(f)
  <2>1. CtxAt(f)'
      BY <1>3, <1>4, <1>7 DEF AddConditionTimer, AddEvent, Wakes
  <2> QED BY <1>2, <1>7, <2>1, FlagsFrame DEF AddConditionTimer, AddEvent, Wakes
<1>8. CASE ConnectChecks(f) \/ SleepEnds(f)
  <2>1. meth[f].name # "accept"
      BY <1>0, <1>8 DEF ConnectChecks, SleepEnds, PlaceOK, Moving
  <2>2. CtxAt(f)'
      BY <1>4, <1>8, <2>1 DEF ConnectChecks, SleepEnds
  <2> QED BY <1>2, <1>8, <2>2, FlagsFrame DEF ConnectChecks, SleepEnds
<1>9. CASE GetFinds(f)
  <2>1. call[f].fd \in Fds
      BY <1>9, CtxUsers DEF GetFinds
  <2>2. CtxAt(f)'
      BY <1>0, <1>3, <1>4, <1>9, <2>1 DEF GetFinds, CtxOf
  <2> QED BY <1>2, <1>9, <2>2, FlagsFrame DEF GetFinds
<1>10. CASE CloseCancels(f)
  <2>1. pc'[f] = "del"
      BY <1>10 DEF CloseCancels, Resumed
  <2>2. CtxAt(f)'
      BY <2>1 DEF CtxAt
  <2> QED BY <1>2, <1>10, <2>2, FlagsFrame DEF CloseCancels
<1>11. CASE GetCreates(f)
  <2>1. PICK fd \in Fds : fd = call[f].fd /\ IsOpen(fd) /\ Pending(f)
      BY <1>11, CtxUsers DEF GetCreates
  <2>2. m_datas'[fd].isSocket /\ m_datas'[fd].id = socks[fd].id
      BY <1>0, <1>11, <2>1 DEF GetCreates, FreshCtx, TableType
  <2>3. \A x \in Fds \ {fd} : m_datas'[x] = m_datas[x] /\ socks'[x] = socks[x]
      BY <1>0, <1>11, <2>1 DEF GetCreates, TableType, KernelType
  <2>4. socks'[fd].id = socks[fd].id /\ socks'[fd].nonblock = TRUE
      BY <1>0, <1>11, <2>1 DEF GetCreates, KernelType
  <2>5. socks'[fd] # Closed
      BY <2>4 DEF Closed
  <2>6. \A x \in Fds : CtxOf(x)'
      BY <1>0, <2>2, <2>3, <2>4, <2>5 DEF CtxOf, IsOpen
  <2>7. CtxAt(f)'
      BY <1>4, <1>11, <2>1, <2>2 DEF GetCreates
  <2>8. ASSUME NEW g \in Fibers, g # f PROVE CtxAt(g)'
    <3>1. Stays(g)
        BY <1>1, <2>8
    <3>2. CASE pc[g] = "closef"
      <4>1. call[g].fd \in Fds \ {fd}
          BY <2>1, <2>8, <3>2, CtxUsers, PendingAlone, CallHasFd
      <4> QED BY <1>0, <2>3, <3>1, <3>2, <4>1 DEF CtxAt, Stays
    <3>3. CASE meth[g].name = "accept" /\ pc[g] = "ret" /\ call[g].result = "ok"
      <4>1. call[g].fd \in Fds \ {fd}
          BY <2>1, <2>8, <3>3, CtxUsers, PendingAlone
      <4> QED BY <1>0, <2>3, <3>1, <3>3, <4>1 DEF CtxAt, Stays
    <3> QED BY <3>1, <3>2, <3>3 DEF CtxAt, Stays
  <2> QED BY <2>6, <2>7, <2>8 DEF CtxInv
<1>12. CASE CloseDeletes(f)
  <2>1. PICK fd \in Fds : fd = call[f].fd /\ Using(f)
      BY <1>12, CtxUsers, UsingHolds DEF CloseDeletes
  <2>2. m_datas'[fd] = NoCtx /\ \A x \in Fds \ {fd} : m_datas'[x] = m_datas[x]
      BY <1>0, <1>12, <2>1 DEF CloseDeletes, TableType
  <2>3. \A x \in Fds : CtxOf(x)'
      BY <1>0, <1>12, <2>2 DEF CloseDeletes, CtxOf, IsOpen
  <2>4. CtxAt(f)'
      BY <1>0, <1>12, <2>1, <2>2 DEF CloseDeletes, Goto, PcType, CtxAt
  <2>5. ASSUME NEW g \in Fibers, g # f PROVE CtxAt(g)'
    <3>1. Stays(g)
        BY <1>1, <2>5
    <3>2. CASE pc[g] = "closef"
      <4>1. call[g].fd \in Fds
          BY <3>2, CallHasFd
      <4> QED BY <1>0, <2>2, <3>1, <3>2, <4>1 DEF CtxAt, Stays
    <3>3. CASE meth[g].name = "accept" /\ pc[g] = "ret" /\ call[g].result = "ok"
      <4>1. call[g].fd \in Fds \ {fd}
          BY <2>1, <2>5, <3>3, CtxUsers, PendingAlone
      <4> QED BY <1>0, <2>2, <3>1, <3>3, <4>1 DEF CtxAt, Stays
    <3> QED BY <3>1, <3>2, <3>3 DEF CtxAt, Stays
  <2> QED BY <2>3, <2>4, <2>5 DEF CtxInv
<1>13. CASE CloseF(f)
  <2>1. meth[f].name \in Closing /\ call[f].fd \in Fds /\ m_datas[call[f].fd] = NoCtx
        /\ socks' = [socks EXCEPT ![call[f].fd] = Closed]
      BY <1>0, <1>13, CloseRole DEF CtxAt, CloseF
  <2>2. FlagsKeep
      BY <1>0, <2>1 DEF FlagsKeep, KernelType, CtxOf, IsOpen
  <2>3. CtxAt(f)'
      BY <1>4, <1>13, <2>1 DEF CloseF, Closing
  <2> QED BY <1>2, <1>13, <2>2, <2>3 DEF CloseF
<1> QED BY <1>5, <1>6, <1>7, <1>8, <1>9, <1>10, <1>11, <1>12, <1>13 DEF FiberStep

\* The options of a socket.
LEMMA OptionCtx ==
    ASSUME SocketInv, NEW o \in Objects, Option(o)
    PROVE  CtxInv'
<1>0. /\ KernelType /\ TableType /\ ObjType
      /\ \A x \in Fds : CtxOf(x)
      /\ \A f \in Fibers : CtxAt(f)
    BY DEF SocketInv, CtxInv
<1>1. PICK fd \in Fds : fd = m_sock[o]
    BY <1>0 DEF ObjType, Option, IsValid
<1>2. UNCHANGED <<pc, call, meth>>
    BY OptionStays
<1>3. IdsKeep
    BY OptionIds
<1>4. \A x \in Fds : /\ m_datas'[x].id = m_datas[x].id /\ m_datas'[x].isSocket = m_datas[x].isSocket
                     /\ m_datas[x] = NoCtx => m_datas'[x] = NoCtx
  <2>1. ASSUME NEW e \in Events, NEW v \in Timeouts, SetSockOpt(fd, e, v)
        PROVE  \A x \in Fds : /\ m_datas'[x].id = m_datas[x].id
                              /\ m_datas'[x].isSocket = m_datas[x].isSocket
                              /\ m_datas[x] = NoCtx => m_datas'[x] = NoCtx
      BY <1>0, <2>1 DEF SetSockOpt, TableType
  <2>2. ASSUME NEW b \in BOOLEAN, FcntlSetFl(fd, b) \/ Ioctl(fd, b)
        PROVE  \A x \in Fds : /\ m_datas'[x].id = m_datas[x].id
                              /\ m_datas'[x].isSocket = m_datas[x].isSocket
                              /\ m_datas[x] = NoCtx => m_datas'[x] = NoCtx
    <3>1. m_datas[fd] = NoCtx => ~m_datas[fd].isSocket
        BY DEF NoCtx
    <3> QED BY <1>0, <2>2, <3>1 DEF FcntlSetFl, Ioctl, TableType
  <2> QED BY <1>1, <2>1, <2>2 DEF Option
<1>5. \A x \in Fds : m_datas[x] # NoCtx => (~FionbioOff => socks'[x].nonblock)
  <2>1. CASE UNCHANGED socks
      BY <1>0, <2>1 DEF CtxOf
  <2>2. ASSUME NEW b \in BOOLEAN, FcntlSetFl(fd, b)
        PROVE  \A x \in Fds : m_datas[x] # NoCtx => (~FionbioOff => socks'[x].nonblock)
    <3>1. socks'[fd].nonblock = (m_datas[fd].isSocket \/ b) /\ \A x \in Fds \ {fd} : socks'[x] = socks[x]
        BY <1>0, <2>2 DEF FcntlSetFl, KernelType
    <3> QED BY <1>0, <3>1 DEF CtxOf
  <2>3. ASSUME NEW b \in BOOLEAN, Ioctl(fd, b)
        PROVE  \A x \in Fds : m_datas[x] # NoCtx => (~FionbioOff => socks'[x].nonblock)
    <3>1. socks'[fd].nonblock = b /\ \A x \in Fds \ {fd} : socks'[x] = socks[x]
        BY <1>0, <2>3 DEF Ioctl, KernelType
    <3> QED BY <1>0, <2>3, <3>1 DEF CtxOf, Ioctl
  <2> QED BY <1>1, <2>1, <2>2, <2>3 DEF Option, SetSockOpt
<1>6. \A x \in Fds : CtxOf(x)'
    BY <1>0, <1>3, <1>4, <1>5 DEF CtxOf, IdsKeep, IsOpen
<1>7. ASSUME NEW f \in Fibers PROVE CtxAt(f)'
  <2>1. pc[f] = "closef" => call[f].fd \in Fds
      BY CallHasFd
  <2>2. meth[f].name = "accept" /\ pc[f] = "ret" /\ call[f].result = "ok" => call[f].fd \in Fds
      BY CtxUsers
  <2> QED BY <1>0, <1>2, <1>4, <2>1, <2>2 DEF CtxAt
<1> QED BY <1>6, <1>7 DEF CtxInv

\* No step leaves a context to the next socket of its number.
LEMMA CtxKeeps ==
    ASSUME SocketInv, ~Sharing, Step
    PROVE  CtxInv'
<1>1. ASSUME NEW f \in Fibers, OthersStay(f), UNCHANGED m_datas, FlagsKeep, CtxAt(f)' PROVE CtxInv'
    BY <1>1, CtxFrame DEF OthersStay, CtxInv
<1>2. ASSUME \A f \in Fibers : Stays(f), UNCHANGED m_datas, FlagsKeep PROVE CtxInv'
    BY <1>2, CtxFrame DEF CtxInv
<1>3. CASE UNCHANGED <<objVars, meth>> /\ \E f \in Fibers : FiberStep(f)
    BY <1>3, FiberCtx
<1>4. CASE UNCHANGED <<objVars, meth>> /\ OuterStep
  <2>1. UNCHANGED m_datas
      BY <1>4 DEF OuterStep, Expires, Callback, CallbackCancels, CancelEvent, Report, ReportError, Answered, Cancel
  <2>2. ASSUME NEW fd \in Fds, NEW conn \in {"connected", "refused"}, Answered(fd, conn) PROVE KernelKeeps
    <3>1. \A x \in Fds : socks'[x].nonblock = socks[x].nonblock
        BY <2>2 DEF SocketInv, Answered, KernelType
    <3> QED BY <1>4, <3>1, OuterIds DEF IdsKeep, KernelKeeps
  <2>3. UNCHANGED socks \/ KernelKeeps
      BY <1>4, <2>2 DEF OuterStep, Expires, Callback, CallbackCancels, CancelEvent, Report, ReportError, Cancel
  <2> QED BY <1>2, <1>4, <2>1, <2>3, OuterStays, FlagsFrame
<1>5. ASSUME NEW f \in Fibers, NEW o \in Objects, Listen(f, o) PROVE CtxInv'
  <2>1. IdsKeep /\ \A g \in Fibers : Stays(g)
      BY <1>5, OptionIds, OptionStays DEF Stays
  <2>2. \A x \in Fds : socks'[x].nonblock = socks[x].nonblock
      BY <1>5 DEF SocketInv, Listen, KernelType
  <2>3. KernelKeeps
      BY <2>1, <2>2 DEF IdsKeep, KernelKeeps
  <2> QED BY <1>2, <1>5, <2>1, <2>3, FlagsFrame DEF Listen
<1>6. CASE ClientStep
  <2>1. CASE Idles
    <3>1. \A f \in Fibers : Stays(f)
        BY <2>1 DEF Idles, hookVars, Stays
    <3> QED BY <1>2, <2>1, <3>1, FlagsFrame DEF Idles, hookVars
  <2>2. ASSUME NEW f \in Fibers, Naps(f) \/ Ends(f) PROVE CtxInv'
    <3>1. CtxAt(f)'
        BY <2>2 DEF Naps, Ends, CtxAt
    <3> QED BY <1>1, <2>2, <3>1, FlagsFrame DEF Naps, Ends, OthersRest
  <2>3. ASSUME NEW f \in Fibers, NEW o, NEW name, NEW new, CallBegins(f, o, name, new) PROVE CtxInv'
    <3>1. CtxAt(f)'
        BY <2>3 DEF CallBegins, CtxAt
    <3> QED BY <1>1, <2>3, <3>1, FlagsFrame DEF CallBegins, OthersRest
  <2>4. ASSUME NEW f \in Fibers, NEW o \in Objects, NEW name \in Names, Makes(f, o, name) PROVE CtxInv'
    <3>1. CtxAt(f)'
        BY <2>4 DEF Makes, Making, CtxAt
    <3> QED BY <1>1, <2>4, <3>1, FlagsFrame DEF Makes, OthersRest
  <2> QED BY <1>6, <2>1, <2>2, <2>3, <2>4
          DEF ClientStep, ConnectsNew, GivesUp, Starts, Stores, Frees, Leaves
<1> QED BY <1>3, <1>4, <1>5, <1>6, ClientMoves, OptionCtx
-----------------------------------------------------------------------------
(* Slots *)

\* A fiber that waits works on an open descriptor.
LEMMA WaitersUse ==
    ASSUME SocketInv, NEW f \in Fibers, pc[f] \in {"reg", "wait"}
    PROVE  Using(f) /\ call[f].fd \in Fds /\ socks[call[f].fd] # Closed /\ Ev(f) \in Events
<1>1. meth[f].name \in Names /\ PlaceOK(meth[f].name, pc[f], call[f].op)
    BY DEF SocketInv, MethType, PlaceInv
<1>2. Using(f)
    BY <1>1 DEF PlaceOK, Names, Making, Moving, Closing, None, Using, Pending
<1> QED BY <1>2, UsingHolds DEF IsOpen, Ev, Event, Events

\* Nobody comes to wait, and the sockets that are waited for stay.
LEMMA SlotFrame ==
    ASSUME SocketInv, UNCHANGED slots,
           \A f \in Fibers : /\ pc'[f] = "wait" <=> pc[f] = "wait"
                             /\ pc[f] = "wait" => /\ call'[f] = call[f]
                                                  /\ socks'[call[f].fd].id = socks[call[f].fd].id
    PROVE  SlotInv'
<1>1. (\A f \in Fibers : WaitsAt(f)) /\ (\A fd \in Fds, e \in Events : SlotOf(fd, e))
    BY DEF SocketInv, SlotInv
<1>2. ASSUME NEW f \in Fibers PROVE WaitsAt(f)'
    BY <1>1, <1>2 DEF WaitsAt, Ev
<1>3. ASSUME NEW fd \in Fds, NEW e \in Events PROVE SlotOf(fd, e)'
    BY <1>1, <1>3 DEF SlotOf, Ev
<1> QED BY <1>2, <1>3 DEF SlotInv

\* Whoever waits for the events of a descriptor is resumed, and nobody else.
LEMMA SlotTrigger ==
    ASSUME SocketInv, NEW fd \in Fds, NEW es \in SUBSET Events, slots' = Emptied(fd, es),
           UNCHANGED <<socks, call>>,
           \A f \in Fibers : pc[f] = "wait" \/ pc'[f] = "wait" => pc'[f] = Resumed(fd, es)[f]
    PROVE  SlotInv'
<1>1. (\A f \in Fibers : WaitsAt(f)) /\ (\A x \in Fds, e \in Events : SlotOf(x, e)) /\ SlotType
    BY DEF SocketInv, SlotInv
<1>2. \A x \in Fds, e \in Events :
         slots'[x][e] = IF x = fd /\ e \in es THEN Empty ELSE slots[x][e]
    BY <1>1 DEF SlotType, Emptied
<1>3. ASSUME NEW f \in Fibers, pc'[f] = "wait"
      PROVE  pc[f] = "wait" /\ \A e \in es : slots[fd][e].fiber # f
    BY <1>3 DEF Resumed
<1>4. ASSUME NEW f \in Fibers, pc'[f] = "wait" PROVE WaitsAt(f)'
  <2>1. pc[f] = "wait" /\ call[f].fd \in Fds /\ Ev(f) \in Events
      BY <1>3, <1>4, WaitersUse
  <2>2. slots[call[f].fd][Ev(f)] = [fiber |-> f, id |-> socks[call[f].fd].id]
      BY <1>1, <2>1 DEF WaitsAt
  <2>3. ~(call[f].fd = fd /\ Ev(f) \in es)
      BY <1>3, <1>4, <2>2
  <2> QED BY <1>2, <2>1, <2>2, <2>3 DEF WaitsAt, Ev
<1>5. ASSUME NEW x \in Fds, NEW e \in Events PROVE SlotOf(x, e)'
  <2>1. CASE x = fd /\ e \in es
      BY <1>2, <2>1 DEF SlotOf
  <2>2. CASE ~(x = fd /\ e \in es) /\ slots[x][e] # Empty
    <3>1. PICK f \in Fibers : slots[x][e].fiber = f /\ pc[f] = "wait" /\ call[f].fd = x /\ Ev(f) = e
        BY <1>1, <2>2 DEF SlotOf
    <3>2. ASSUME NEW d \in es, slots[fd][d].fiber = f PROVE FALSE
      <4>1. slots[fd][d] # Empty
          BY <3>2, HookAssumption DEF Empty, None
      <4> QED BY <1>1, <2>2, <3>1, <3>2, <4>1 DEF SlotOf
    <3>3. pc'[f] = "wait"
        BY <3>1, <3>2 DEF Resumed
    <3>4. slots'[x][e] = slots[x][e]
        BY <1>2, <2>2
    <3> QED BY <3>1, <3>3, <3>4 DEF SlotOf, Ev
  <2>3. CASE ~(x = fd /\ e \in es) /\ slots[x][e] = Empty
      BY <1>2, <2>3 DEF SlotOf
  <2> QED BY <2>1, <2>2, <2>3
<1> QED BY <1>4, <1>5 DEF SlotInv, WaitsAt

\* addEvent() fills an empty slot.
LEMMA SlotAdd ==
    ASSUME SocketInv, NEW f \in Fibers, AddEvent(f)
    PROVE  SlotInv'
<1>1. (\A g \in Fibers : WaitsAt(g)) /\ (\A x \in Fds, e \in Events : SlotOf(x, e)) /\ SlotType /\ PcType
    BY DEF SocketInv, SlotInv
<1>2. PICK fd \in Fds, ev \in Events : fd = call[f].fd /\ ev = Ev(f) /\ IsOpen(fd)
    BY WaitersUse DEF AddEvent, IsOpen
<1>3. /\ pc[f] = "reg" /\ slots[fd][ev] = Empty
      /\ slots' = [slots EXCEPT ![fd][ev] = [fiber |-> f, id |-> socks[fd].id]]
      /\ pc' = [pc EXCEPT ![f] = "wait"] /\ UNCHANGED <<call, socks>>
    BY <1>2 DEF AddEvent, Goto
<1>4. \A x \in Fds, e \in Events :
         slots'[x][e] = IF x = fd /\ e = ev THEN [fiber |-> f, id |-> socks[fd].id] ELSE slots[x][e]
    BY <1>1, <1>3 DEF SlotType
<1>5. pc'[f] = "wait" /\ \A g \in Fibers \ {f} : pc'[g] = pc[g]
    BY <1>1, <1>3 DEF PcType
<1>6. ASSUME NEW g \in Fibers, pc'[g] = "wait" PROVE WaitsAt(g)'
  <2>1. CASE g = f
      BY <1>2, <1>3, <1>4, <2>1 DEF WaitsAt, Ev
  <2>2. CASE g # f
    <3>1. pc[g] = "wait" /\ call[g].fd \in Fds /\ Ev(g) \in Events
        BY <1>5, <1>6, <2>2, WaitersUse
    <3>2. slots[call[g].fd][Ev(g)] = [fiber |-> g, id |-> socks[call[g].fd].id]
        BY <1>1, <3>1 DEF WaitsAt
    <3>3. ~(call[g].fd = fd /\ Ev(g) = ev)
        BY <1>3, <3>2, HookAssumption DEF Empty, None
    <3> QED BY <1>3, <1>4, <3>1, <3>2, <3>3 DEF WaitsAt, Ev
  <2> QED BY <2>1, <2>2
<1>7. ASSUME NEW x \in Fds, NEW e \in Events PROVE SlotOf(x, e)'
  <2>1. CASE x = fd /\ e = ev
      BY <1>2, <1>3, <1>4, <1>5, <2>1 DEF SlotOf, Ev
  <2>2. CASE ~(x = fd /\ e = ev)
    <3>1. slots'[x][e] = slots[x][e]
        BY <1>4, <2>2
    <3>2. \A g \in Fibers : pc[g] = "wait" => pc'[g] = "wait"
        BY <1>3, <1>5
    <3> QED BY <1>1, <1>3, <3>1, <3>2 DEF SlotOf, Ev
  <2> QED BY <2>1, <2>2
<1> QED BY <1>6, <1>7 DEF SlotInv, WaitsAt

\* The steps of a call.
LEMMA FiberSlot ==
    ASSUME SocketInv, UNCHANGED meth, NEW f \in Fibers, FiberStep(f)
    PROVE  SlotInv'
<1>0. PcType /\ CallType /\ KernelType
    BY DEF SocketInv
<1>1. ASSUME NEW at, pc' = [pc EXCEPT ![f] = at], at # "wait", pc[f] # "wait", UNCHANGED slots,
             \A g \in Fibers \ {f} : call'[g] = call[g],
             \A g \in Fibers \ {f} : pc[g] = "wait" => socks'[call[g].fd].id = socks[call[g].fd].id
      PROVE  SlotInv'
  <2>1. \A g \in Fibers : /\ pc'[g] = "wait" <=> pc[g] = "wait"
                          /\ pc[g] = "wait" => /\ call'[g] = call[g]
                                               /\ socks'[call[g].fd].id = socks[call[g].fd].id
      BY <1>0, <1>1 DEF PcType
  <2> QED BY <1>1, <2>1, SlotFrame
<1>2. ASSUME UNCHANGED <<socks, slots>>, pc[f] # "wait",
             \/ \E at : at # "wait" /\ Goto(f, at)
             \/ \E result : Return(f, result)
      PROVE  SlotInv'
    BY <1>0, <1>1, <1>2 DEF Goto, Return, CallType
<1>3. CASE FunSucceeds(f) \/ FunFails(f) \/ ConnectChecks(f) \/ SleepEnds(f) \/ GetFinds(f)
  <2>1. UNCHANGED <<socks, slots>> /\ pc[f] # "wait"
      BY <1>3 DEF FunSucceeds, FunFails, ConnectChecks, SleepEnds, GetFinds
  <2>2. \/ \E at : at # "wait" /\ Goto(f, at)
        \/ \E result : Return(f, result)
      BY <1>3 DEF FunSucceeds, FunFails, ConnectChecks, SleepEnds, GetFinds
  <2> QED BY <1>2, <2>1, <2>2
<1>4. CASE AddConditionTimer(f) \/ Wakes(f) \/ CloseDeletes(f)
  <2>1. UNCHANGED <<socks, slots>> /\ pc[f] # "wait"
      BY <1>4 DEF AddConditionTimer, Wakes, CloseDeletes
  <2>2. \/ \E at : at # "wait" /\ Goto(f, at)
        \/ \E result : Return(f, result)
      BY <1>4 DEF AddConditionTimer, Wakes, CloseDeletes
  <2> QED BY <1>2, <2>1, <2>2
<1>5. CASE FunAccepts(f)
  <2>1. PICK new \in Fds : NewSocket(new)
      BY <1>5, AcceptRole
  <2>2. \A g \in Fibers : pc[g] = "wait" => socks'[call[g].fd] = socks[call[g].fd]
      BY <2>1, WaitersUse DEF NewSocket
  <2>3. \A g \in Fibers \ {f} : call'[g] = call[g]
      BY <1>5, FiberStays DEF OthersStay, Stays
  <2> QED BY <1>1, <1>5, <2>2, <2>3 DEF FunAccepts
<1>6. CASE GetCreates(f)
  <2>1. IdsKeep
      BY <1>6, FiberRole DEF FunAccepts, CloseF, GetCreates
  <2>2. \A g \in Fibers : pc[g] = "wait" => socks'[call[g].fd].id = socks[call[g].fd].id
      BY <2>1, WaitersUse DEF IdsKeep
  <2>3. \A g \in Fibers \ {f} : call'[g] = call[g]
      BY <1>6, FiberStays DEF OthersStay, Stays
  <2> QED BY <1>1, <1>6, <2>2, <2>3 DEF GetCreates, Return
<1>7. CASE CloseF(f)
  <2>1. /\ meth[f].name \in Closing /\ Using(f) /\ call[f].fd \in Fds
        /\ socks' = [socks EXCEPT ![call[f].fd] = Closed]
      BY <1>7, CloseRole
  <2>2. ASSUME NEW g \in Fibers, pc[g] = "wait" PROVE socks'[call[g].fd] = socks[call[g].fd]
    <3>1. Using(g) /\ call[g].fd \in Fds /\ g # f
        BY <1>7, <2>2, WaitersUse DEF CloseF
    <3>2. call[g].fd # call[f].fd
        BY <2>1, <3>1, UsersShare DEF Closing, Moving
    <3> QED BY <1>0, <2>1, <3>1, <3>2 DEF KernelType
  <2>3. \A g \in Fibers \ {f} : call'[g] = call[g]
      BY <1>7, FiberStays DEF OthersStay, Stays
  <2> QED BY <1>1, <1>7, <2>2, <2>3 DEF CloseF, Return
<1>8. CASE CloseCancels(f)
  <2>1. call[f].fd \in Fds /\ Events \in SUBSET Events
      BY <1>8, CallHasFd DEF CloseCancels
  <2>2. pc[f] # "wait" /\ pc'[f] # "wait"
      BY <1>8 DEF CloseCancels, Resumed
  <2>3. \A g \in Fibers \ {f} : pc'[g] = Resumed(call[f].fd, Events)[g]
      BY <1>8 DEF CloseCancels, Resumed
  <2>4. slots' = Emptied(call[f].fd, Events) /\ UNCHANGED <<socks, call>>
      BY <1>8 DEF CloseCancels
  <2> QED BY <2>1, <2>2, <2>3, <2>4, SlotTrigger
<1> QED BY <1>3, <1>4, <1>5, <1>6, <1>7, <1>8, SlotAdd DEF FiberStep

\* No step loses a waiting fiber or resumes one twice.
LEMMA SlotKeeps ==
    ASSUME SocketInv, ~Sharing, Step
    PROVE  SlotInv'
<1>0. TimerType /\ ObjType
    BY DEF SocketInv
<1>1. ASSUME UNCHANGED <<slots, pc, call>>, IdsKeep PROVE SlotInv'
    BY <1>1, SlotFrame, WaitersUse DEF IdsKeep
<1>2. ASSUME NEW fd \in Fds, NEW es \in SUBSET Events, Triggered(fd, es), UNCHANGED <<socks, call>>
      PROVE  SlotInv'
    BY <1>2, SlotTrigger DEF Triggered
<1>3. CASE UNCHANGED <<objVars, meth>> /\ \E f \in Fibers : FiberStep(f)
    BY <1>3, FiberSlot
<1>4. CASE UNCHANGED <<objVars, meth>> /\ OuterStep
  <2>1. ASSUME NEW t \in timers \cup cbs, Expires(t) \/ Callback(t) PROVE SlotInv'
      BY <1>1, <1>4, <2>1, OuterIds DEF Expires, Callback
  <2>2. ASSUME NEW t \in firing, CallbackCancels(t) PROVE SlotInv'
      BY <1>0, <1>2, <2>2 DEF CallbackCancels, CancelEvent, TimerType, Infos
  <2>3. ASSUME NEW fd \in Fds, NEW e \in Events, Report(fd, e) PROVE SlotInv'
      BY <1>2, <2>3 DEF Report
  <2>4. ASSUME NEW fd \in Fds, NEW conn \in {"connected", "refused"}, Answered(fd, conn) PROVE SlotInv'
      BY <1>1, <1>4, <2>4, OuterIds DEF Answered
  <2>5. ASSUME NEW o \in Objects, NEW e \in Events, Cancel(o, e) PROVE SlotInv'
      BY <1>0, <1>2, <2>5 DEF Cancel, CancelEvent, ObjType, IsValid
  <2>6. ASSUME NEW fd \in Fds, ReportError(fd) PROVE SlotInv'
    <3>1. CASE Triggered(fd, Events)
        BY <1>2, <2>6, <3>1 DEF ReportError
    <3>2. CASE UNCHANGED <<slots, pc>>
        BY <1>1, <1>4, <2>6, <3>2, OuterIds DEF ReportError
    <3> QED BY <2>6, <3>1, <3>2 DEF ReportError
  <2> QED BY <1>4, <2>1, <2>2, <2>3, <2>4, <2>5, <2>6 DEF OuterStep
<1>5. CASE (\E o \in Objects : Option(o)) \/ (\E f \in Fibers, o \in Objects : Listen(f, o))
    BY <1>1, <1>5, OptionStays, OptionIds
<1>6. CASE ClientStep
  <2>1. UNCHANGED socks => IdsKeep
      BY DEF IdsKeep
  <2>2. CASE Idles
      BY <1>1, <2>1, <2>2 DEF Idles, hookVars
  <2>3. ASSUME NEW f \in Fibers, OthersRest(f), pc[f] # "wait", pc'[f] # "wait", UNCHANGED slots,
               IdsKeep \/ \E fd \in Fds : NewSocket(fd)
        PROVE  SlotInv'
    <3>1. \A g \in Fibers : pc[g] = "wait" => socks'[call[g].fd].id = socks[call[g].fd].id
        BY <2>3, WaitersUse DEF IdsKeep, NewSocket
    <3>2. \A g \in Fibers : (pc'[g] = "wait" <=> pc[g] = "wait") /\ (pc[g] = "wait" => call'[g] = call[g])
        BY <2>3 DEF OthersRest, OthersStay, Stays
    <3> QED BY <2>3, <3>1, <3>2, SlotFrame
  <2>4. ASSUME NEW f \in Fibers, Naps(f) \/ Ends(f) PROVE SlotInv'
      BY <2>1, <2>3, <2>4 DEF Naps, Ends
  <2>5. ASSUME NEW f \in Fibers, NEW o, NEW name, NEW new, CallBegins(f, o, name, new), pc[f] # "wait"
        PROVE  SlotInv'
      BY <2>3, <2>5, BeginsRole DEF CallBegins
  <2>6. ASSUME NEW f \in Fibers, NEW o \in Objects, NEW name \in Names, Makes(f, o, name) PROVE SlotInv'
    <3>1. KernelKeeps => IdsKeep
        BY DEF KernelKeeps, IdsKeep
    <3> QED BY <2>3, <2>6, <3>1 DEF Makes
  <2> QED BY <1>6, <2>2, <2>4, <2>5, <2>6
          DEF ClientStep, ConnectsNew, GivesUp, Starts, Stores, Frees, Leaves
<1> QED BY <1>3, <1>4, <1>5, <1>6, ClientMoves
-----------------------------------------------------------------------------
(* Timers *)

\* The timers of fibers that stay in their calls.
LEMMA TimerFrame ==
    ASSUME SocketInv, timers' \subseteq timers, \A t \in timers' : Stays(t.fiber)
    PROVE  TimerInv'
<1> SUFFICES ASSUME NEW t \in timers'
             PROVE  pc'[t.fiber] \in {"reg", "wait", "woken"} /\ t = Captures(t.fiber)'
    BY DEF TimerInv
<1>1. pc[t.fiber] \in {"reg", "wait", "woken"} /\ t = Captures(t.fiber) /\ Stays(t.fiber)
    BY DEF SocketInv, TimerInv
<1> QED BY <1>1 DEF Stays, Captures, Ev

\* A timer ends with the call that set it.
LEMMA TimerKeeps ==
    ASSUME SocketInv, ~Sharing, Step
    PROVE  TimerInv'
<1>0. /\ PcType /\ CallType
      /\ \A t \in timers : t.fiber \in Fibers /\ pc[t.fiber] \in {"reg", "wait", "woken"}
                           /\ t = Captures(t.fiber)
    BY DEF SocketInv, TimerInv, TimerType, Infos
<1>1. ASSUME NEW f \in Fibers, OthersStay(f), UNCHANGED timers, pc[f] \notin {"reg", "wait", "woken"}
      PROVE  TimerInv'
    BY <1>0, <1>1, TimerFrame DEF OthersStay
<1>2. ASSUME \A f \in Fibers : Stays(f), timers' \subseteq timers PROVE TimerInv'
    BY <1>0, <1>2, TimerFrame
<1>3. CASE UNCHANGED <<objVars, meth>> /\ \E f \in Fibers : FiberStep(f)
  <2>1. PICK f \in Fibers : FiberStep(f)
      BY <1>3
  <2>2. OthersStay(f)
      BY <1>3, <2>1, FiberStays
  <2>3. CASE AddConditionTimer(f)
    <3>1. pc[f] = "arm" /\ pc'[f] = "reg" /\ UNCHANGED <<call, calls>>
        BY <1>0, <2>3 DEF AddConditionTimer, Goto, PcType
    <3>2. \A t \in timers' : t \in timers \/ t = Captures(f)
        BY <2>3 DEF AddConditionTimer
    <3>3. ASSUME NEW t \in timers
          PROVE  pc'[t.fiber] \in {"reg", "wait", "woken"} /\ t = Captures(t.fiber)'
      <4>1. Stays(t.fiber) /\ pc[t.fiber] \in {"reg", "wait", "woken"} /\ t = Captures(t.fiber)
          BY <1>0, <2>2, <3>1, <3>3 DEF OthersStay
      <4> QED BY <4>1 DEF Stays, Captures, Ev
    <3>4. Captures(f).fiber = f /\ Captures(f)' = Captures(f)
        BY <3>1 DEF Captures, Ev
    <3> QED BY <3>1, <3>2, <3>3, <3>4 DEF TimerInv
  <2>4. CASE AddEvent(f)
    <3>1. IsOpen(call[f].fd) /\ pc[f] = "reg"
        BY <2>4, WaitersUse DEF AddEvent, IsOpen
    <3>2. UNCHANGED <<timers, call, calls>> /\ pc'[f] = "wait"
        BY <1>0, <2>4, <3>1 DEF AddEvent, Goto, PcType
    <3>3. ASSUME NEW t \in timers
          PROVE  pc'[t.fiber] \in {"reg", "wait", "woken"} /\ t = Captures(t.fiber)'
      <4>1. CASE t.fiber = f
          BY <1>0, <3>2, <3>3, <4>1 DEF Captures, Ev
      <4>2. CASE t.fiber # f
          BY <1>0, <2>2, <3>3, <4>2 DEF OthersStay, Stays, Captures, Ev
      <4> QED BY <4>1, <4>2
    <3> QED BY <3>2, <3>3 DEF TimerInv
  <2>5. CASE Wakes(f)
    <3>1. timers' = timers \ {Captures(f)}
        BY <2>5 DEF Wakes
    <3>2. \A t \in timers' : t.fiber # f
        BY <1>0, <3>1
    <3> QED BY <1>0, <2>2, <3>1, <3>2, TimerFrame DEF OthersStay
  <2>6. CASE FunSucceeds(f) \/ FunAccepts(f) \/ FunFails(f) \/ ConnectChecks(f) \/ GetFinds(f)
             \/ GetCreates(f) \/ CloseCancels(f) \/ CloseDeletes(f) \/ CloseF(f) \/ SleepEnds(f)
      BY <1>1, <2>2, <2>6 DEF FunSucceeds, FunAccepts, FunFails, ConnectChecks, GetFinds, GetCreates,
                              CloseCancels, CloseDeletes, CloseF, SleepEnds
  <2> QED BY <2>1, <2>3, <2>4, <2>5, <2>6 DEF FiberStep
<1>4. CASE UNCHANGED <<objVars, meth>> /\ OuterStep
  <2>1. timers' \subseteq timers
      BY <1>4 DEF OuterStep, Expires, Callback, CallbackCancels, CancelEvent, Report, ReportError, Answered, Cancel
  <2> QED BY <1>2, <1>4, <2>1, OuterStays
<1>5. CASE (\E o \in Objects : Option(o)) \/ (\E f \in Fibers, o \in Objects : Listen(f, o))
    BY <1>2, <1>5, OptionStays DEF Stays
<1>6. CASE ClientStep
  <2>1. CASE Idles
    <3>1. (\A f \in Fibers : Stays(f)) /\ UNCHANGED timers
        BY <2>1 DEF Idles, hookVars, Stays
    <3> QED BY <1>2, <3>1
  <2>2. ASSUME NEW f \in Fibers, Naps(f) \/ Ends(f) PROVE TimerInv'
      BY <1>1, <2>2 DEF Naps, Ends, OthersRest
  <2>3. ASSUME NEW f \in Fibers, NEW o, NEW name, NEW new, CallBegins(f, o, name, new),
               pc[f] \in {"app", "ret"}
        PROVE  TimerInv'
      BY <1>1, <2>3 DEF CallBegins, OthersRest
  <2>4. ASSUME NEW f \in Fibers, NEW o \in Objects, NEW name \in Names, Makes(f, o, name) PROVE TimerInv'
      BY <1>1, <2>4 DEF Makes, OthersRest
  <2> QED BY <1>6, <2>1, <2>2, <2>3, <2>4
          DEF ClientStep, ConnectsNew, GivesUp, Starts, Stores, Frees, Leaves
<1> QED BY <1>3, <1>4, <1>5, <1>6, ClientMoves
-----------------------------------------------------------------------------
(* The invariant and what it shows *)

\* Nothing happens.
LEMMA SocketInvStutters ==
    ASSUME SocketInv, UNCHANGED vars
    PROVE  SocketInv'
<1> USE DEF vars, hookVars
<1>1. TypeInv'
    BY TypeFrame DEF SocketInv
<1>2. PlaceInv' /\ ObjectInv' /\ ShareInv'
    BY DEF SocketInv, PlaceInv, ObjectInv, ShareInv
<1>3. \A f \in Fibers : RoleKeeps(f)
    BY DEF RoleKeeps, Pending, Gone, Using
<1>4. OwnInv'
    BY <1>3 DEF SocketInv, OwnInv, Holds, Brings, RoleKeeps, IsOpen
<1>5. WorkInv'
    BY <1>3 DEF SocketInv, WorkInv, Works, RoleKeeps
<1>6. CtxInv'
    BY DEF SocketInv, CtxInv, CtxOf, CtxAt, IsOpen
<1>7. SlotInv'
    BY DEF SocketInv, SlotInv, WaitsAt, SlotOf, Ev
<1>8. TimerInv'
    BY DEF SocketInv, TimerInv, Captures, Ev
<1> QED BY <1>1, <1>2, <1>4, <1>5, <1>6, <1>7, <1>8 DEF SocketInv

\* Every step, and every stuttering step, keeps the whole invariant.
LEMMA SocketInvNext ==
    ASSUME SocketInv, ~Sharing, [Next]_vars
    PROVE  SocketInv'
<1>1. CASE Step
    BY <1>1, ClientType, PlaceKeeps, ObjectKeeps, ShareKeeps, OwnKeeps, WorkKeeps, CtxKeeps, SlotKeeps,
       TimerKeeps DEF SocketInv
<1> QED BY <1>1, SocketInvStutters DEF Next

\* The part of every method, call, slot and timer is as the code's conventions have it,
\* as long as no fiber closes a Socket that another one is using.
THEOREM SocketsAreOwned ==
    ASSUME ~Sharing
    PROVE  Spec => []SocketInv
<1>1. Init => SocketInv
    BY SocketInvInit
<1>2. SocketInv /\ [Next]_vars => SocketInv'
    BY SocketInvNext
<1> QED BY <1>1, <1>2, PTL DEF Spec

\* close() deletes a context before the kernel can give its number out again, and socket()
\* and accept() make one before anybody else can name the new descriptor: a context is
\* always one of the socket that is behind the number now.
THEOREM ContextsAreCurrent ==
    ASSUME ~Sharing
    PROVE  Spec => []CtxIsCurrent
<1>1. SocketInv => CtxIsCurrent
    BY DEF SocketInv, CtxInv, CtxOf, CtxIsCurrent
<1> QED BY <1>1, SocketsAreOwned, PTL

\* On every path of connect(), accept(), bind() and close(), failures included, an open
\* descriptor belongs to one object or to the one method that is about to store it.
THEOREM DescriptorsAreNotLost ==
    ASSUME ~Sharing
    PROVE  Spec => []NoLeak
<1>1. SocketInv => NoLeak
  <2> SUFFICES ASSUME SocketInv, NEW fd \in Fds, IsOpen(fd)
               PROVE  \/ \E o \in alive : m_sock[o] = fd /\ \A p \in alive \ {o} : m_sock[p] # fd
                      \/ \E f \in Fibers : pc[f] # "app" /\ call[f].fd = fd
      BY DEF NoLeak
  <2>1. CASE \E f \in Fibers : Brings(f, fd)
    <3>1. PICK f \in Fibers : Pending(f) /\ call[f].fd = fd
        BY <2>1 DEF Brings
    <3> QED BY <3>1, AppRole
  <2>2. CASE \E o \in Objects : Holds(o, fd)
    <3>1. PICK o \in Objects : Holds(o, fd)
        BY <2>2
    <3>2. o \in alive /\ m_sock[o] = fd
        BY <3>1, HookAssumption DEF Holds, SocketInv, ObjectInv
    <3>3. CASE \E p \in alive \ {o} : m_sock[p] = fd
      <4>1. PICK p \in Objects \ {o} : m_sock[p] = fd
          BY <3>3 DEF SocketInv, ObjType
      <4>2. PICK f \in Fibers : meth[f].obj = p /\ Gone(f)
          BY <3>1, <4>1 DEF SocketInv, OwnInv, Holds
      <4>3. call[f].fd = fd /\ pc[f] # "app"
          BY <4>1, <4>2, AppRole DEF SocketInv, WorkInv, Works
      <4> QED BY <4>3
    <3> QED BY <3>2, <3>3
  <2> QED BY <2>1, <2>2 DEF SocketInv, OwnInv
<1> QED BY <1>1, SocketsAreOwned, PTL

\* fcntl() hides the kernel's flag from the user, so that do_io() never blocks its thread,
\* unless somebody turns non-blocking off with ioctl(), which passes it through.
THEOREM SocketsNeverBlock ==
    ASSUME ~Sharing, ~FionbioOff
    PROVE  Spec => []NoThreadBlocks
<1>1. SocketInv => NoThreadBlocks
    BY DEF SocketInv, CtxInv, CtxOf, NoThreadBlocks
<1> QED BY <1>1, SocketsAreOwned, PTL

\* addEvent() never meets its assertion: no two calls in progress on one descriptor wait for
\* the same event.
THEOREM SlotsAreFree ==
    ASSUME ~Sharing
    PROVE  Spec => []NoAbort
<1>1. SocketInv => NoAbort
  <2> SUFFICES ASSUME SocketInv, NEW f \in Fibers, pc[f] = "reg", slots[call[f].fd][Ev(f)] # Empty
               PROVE  FALSE
      BY DEF NoAbort
  <2>1. Using(f) /\ call[f].fd \in Fds /\ Ev(f) \in Events
      BY WaitersUse
  <2>2. PICK g \in Fibers : pc[g] = "wait" /\ call[g].fd = call[f].fd /\ Ev(g) = Ev(f)
      BY <2>1 DEF SocketInv, SlotInv, SlotOf
  <2> QED BY <2>1, <2>2, WaitersUse, UsersShare
<1> QED BY <1>1, SocketsAreOwned, PTL

\* A fiber that has yielded in do_io() or connect() is in the slot of its own socket, where
\* an event, its timer or cancelRead() finds it.
THEOREM WaitersAreFound ==
    ASSUME ~Sharing
    PROVE  Spec => []WaitersAreReachable
<1>1. SocketInv => WaitersAreReachable
    BY DEF SocketInv, SlotInv, WaitsAt, WaitersAreReachable
<1> QED BY <1>1, SocketsAreOwned, PTL

\* Every way out of do_io() and connect() cancels the call's timer, or the timer is what led
\* there.
THEOREM TimersEndWithTheirCalls ==
    ASSUME ~Sharing
    PROVE  Spec => []NoStaleTimer
<1>1. SocketInv => NoStaleTimer
  <2> SUFFICES ASSUME SocketInv, NEW t \in timers
               PROVE  calls[t.fiber] = t.info /\ pc[t.fiber] \in {"reg", "wait", "woken"}
      BY DEF NoStaleTimer
  <2>1. pc[t.fiber] \in {"reg", "wait", "woken"} /\ t = Captures(t.fiber)
      BY DEF SocketInv, TimerInv
  <2> QED BY <2>1 DEF Captures
<1> QED BY <1>1, SocketsAreOwned, PTL
=============================================================================
