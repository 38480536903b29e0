---------------------------- MODULE ContextTable -----------------------------
(***************************************************************************)
(* IOManager::m_fdContexts: the vector that maps a descriptor to its       *)
(* FdContext, read and grown by addEvent(), read by delEvent(),            *)
(* cancelEvent() and cancelAll(). addEvent() looks at the size under the   *)
(* read lock, releases it, and resizes under the write lock without        *)
(* looking again. Only the vector, and which contexts have an event, are   *)
(* modelled; a context is named by its descriptor and the number of the    *)
(* contextResize() that allocated it.                                      *)
(***************************************************************************)
EXTENDS Integers

CONSTANTS
    Threads,      \* threads that call the IOManager
    Fds,          \* the descriptors they use
    FirstSize,    \* the size the constructor gives the vector (32 in the code)
    MaxResizes    \* bound: calls of contextResize()

ASSUME ContextTableAssumption ==
    /\ FirstSize \in Nat /\ FirstSize >= 2
    /\ Fds \subseteq Nat
    /\ MaxResizes \in Nat

VARIABLES
    m_fdContexts, \* index -> number of the resize that made the context
    resizes,      \* number of the last contextResize()
    pc, arg, ptr, \* per thread: place in addEvent(), its fd, its fd_ctx
    waiting,      \* contexts <<fd, number>> with a registered event
    inEpoll,      \* kernel: registered descriptors
    bad           \* m_fdContexts[fd] was read out of range

vars == <<m_fdContexts, resizes, pc, arg, ptr, waiting, inEpoll, bad>>

NoPtr == <<0, -1>>
InTable(fd) == fd \in DOMAIN m_fdContexts

Init == /\ m_fdContexts = [i \in 0..(FirstSize - 1) |-> 0]
        /\ resizes = 0
        /\ pc = [t \in Threads |-> "out"]
        /\ arg = [t \in Threads |-> 0]
        /\ ptr = [t \in Threads |-> NoPtr]
        /\ waiting = {} /\ inEpoll = {}
        /\ bad = FALSE

\* addEvent(fd): the size is read under the read lock.
AddEvent(t, fd) ==
    /\ pc[t] = "out"
    /\ arg' = [arg EXCEPT ![t] = fd]
    /\ IF InTable(fd)
       THEN /\ pc' = [pc EXCEPT ![t] = "register"]
            /\ ptr' = [ptr EXCEPT ![t] = <<fd, m_fdContexts[fd]>>]
       ELSE /\ pc' = [pc EXCEPT ![t] = "resize"]
            /\ UNCHANGED ptr
    /\ UNCHANGED <<m_fdContexts, resizes, waiting, inEpoll, bad>>

\* Mutant: the vector is made to end at the descriptor.
NewSizeShort(fd) == fd

\* The argument fd * 1.5 of contextResize(), converted to size_t.
NewSize(fd) == (fd * 3) \div 2

\* contextResize(size): vector::resize() keeps the first `size' entries and adds
\* null pointers, for which contexts are allocated.
Resized(size) ==
    [i \in 0..(size - 1) |-> IF InTable(i) THEN m_fdContexts[i] ELSE resizes + 1]

\* The vector was too short: under the write lock it is resized, and read.
ContextResize(t) ==
    LET fd == arg[t]
        new == Resized(NewSize(fd))
    IN
    /\ pc[t] = "resize" /\ resizes < MaxResizes
    /\ m_fdContexts' = new
    /\ resizes' = resizes + 1
    /\ IF fd \in DOMAIN new
       THEN /\ ptr' = [ptr EXCEPT ![t] = <<fd, new[fd]>>]
            /\ pc' = [pc EXCEPT ![t] = "register"]
            /\ UNCHANGED bad
       ELSE bad' = TRUE /\ UNCHANGED <<ptr, pc>>
    /\ UNCHANGED <<arg, waiting, inEpoll>>

\* Under the context's mutex: epoll_ctl(ADD), which fails if the descriptor is
\* registered already, and the event becomes pending. Callers do not register an
\* event that is pending in the same context (addEvent() asserts it).
Register(t) ==
    /\ pc[t] = "register" /\ ptr[t] \notin waiting
    /\ IF arg[t] \in inEpoll THEN UNCHANGED <<waiting, inEpoll>>
       ELSE /\ inEpoll' = inEpoll \cup {arg[t]}
            /\ waiting' = waiting \cup {ptr[t]}
    /\ pc' = [pc EXCEPT ![t] = "out"]
    /\ arg' = [arg EXCEPT ![t] = 0]
    /\ ptr' = [ptr EXCEPT ![t] = NoPtr]
    /\ UNCHANGED <<m_fdContexts, resizes, bad>>

\* delEvent(), cancelEvent() or cancelAll(): false if the vector is too short or
\* the context it holds has no event.
Cancel(fd) ==
    /\ InTable(fd) /\ <<fd, m_fdContexts[fd]>> \in waiting
    /\ waiting' = waiting \ {<<fd, m_fdContexts[fd]>>}
    /\ inEpoll' = inEpoll \ {fd}
    /\ UNCHANGED <<m_fdContexts, resizes, pc, arg, ptr, bad>>

\* idle() gets the context from epoll itself (event.data.ptr).
Triggered(c) ==
    /\ c \in waiting
    /\ waiting' = waiting \ {c}
    /\ inEpoll' = inEpoll \ {c[1]}
    /\ UNCHANGED <<m_fdContexts, resizes, pc, arg, ptr, bad>>

\* A thread may wait for ever only for what the bound forbids.
Stuck == \A t \in Threads : pc[t] = "resize" /\ resizes = MaxResizes

Next == \/ /\ ~bad
           /\ \/ \E t \in Threads : \/ ContextResize(t) \/ Register(t)
                                    \/ \E fd \in Fds : AddEvent(t, fd)
              \/ \E fd \in Fds : Cancel(fd)
              \/ \E c \in waiting : Triggered(c)
        \/ (bad \/ Stuck) /\ UNCHANGED vars

Spec == Init /\ [][Next]_vars
-----------------------------------------------------------------------------
(* Properties *)

\* m_fdContexts[fd] is never read past the end of the vector, whatever other
\* threads do between the check and the resize.
InRange == ~bad
=============================================================================
