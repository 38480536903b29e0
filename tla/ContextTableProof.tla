-------------------------- MODULE ContextTableProof --------------------------
(***************************************************************************)
(* addEvent() never reads m_fdContexts out of range, for any number of     *)
(* threads and any descriptors, although it resizes the vector on the      *)
(* strength of a size it read before it took the write lock.               *)
(***************************************************************************)
EXTENDS ContextTable, TLAPS

\* fd * 1.5 rounded down exceeds fd from 2 on.
LEMMA NewSizeExceeds ==
    ASSUME NEW fd \in Nat, fd >= 2
    PROVE  NewSize(fd) \in Nat /\ NewSize(fd) > fd
<1>1. fd * 3 \in Nat /\ fd * 3 = fd + fd + fd
    OBVIOUS
<1>2. (fd + fd + fd) \div 2 \in Nat /\ (fd + fd + fd) \div 2 > fd
    OBVIOUS
<1> QED BY <1>1, <1>2 DEF NewSize

\* The vector is an interval from 0 that holds the first two descriptors, so a
\* thread that found it too short asks for a descriptor from 2 on. No resize, not
\* even one that shrinks the vector, goes below that.
RangeInv ==
    /\ ~bad
    /\ pc \in [Threads -> {"out", "register", "resize"}]
    /\ arg \in [Threads -> Nat]
    /\ \E n \in Nat : n >= 2 /\ DOMAIN m_fdContexts = 0..(n - 1)
    /\ \A t \in Threads : pc[t] = "resize" => arg[t] >= 2

\* No step breaks this.
LEMMA RangeStep == RangeInv /\ [Next]_vars => RangeInv'
<1> SUFFICES ASSUME RangeInv, [Next]_vars PROVE RangeInv'
    OBVIOUS
<1>1. ASSUME NEW t \in Threads, NEW fd \in Fds, AddEvent(t, fd) PROVE RangeInv'
  <2>1. fd \in Nat
      BY ContextTableAssumption
  <2>2. ~InTable(fd) => fd >= 2
      BY <2>1 DEF RangeInv, InTable
  <2> QED BY <1>1, <2>1, <2>2 DEF AddEvent, RangeInv
<1>2. ASSUME NEW t \in Threads, ContextResize(t) PROVE RangeInv'
  <2> DEFINE fd == arg[t]
  <2>1. fd \in Nat /\ fd >= 2
      BY <1>2 DEF RangeInv, ContextResize
  <2>2. NewSize(fd) \in Nat /\ NewSize(fd) > fd
      BY <2>1, NewSizeExceeds
  <2>3. DOMAIN Resized(NewSize(fd)) = 0..(NewSize(fd) - 1)
      BY DEF Resized
  <2>4. fd \in DOMAIN Resized(NewSize(fd))
      BY <2>1, <2>2, <2>3
  <2>5. /\ m_fdContexts' = Resized(NewSize(fd)) /\ UNCHANGED <<arg, bad>>
        /\ pc' = [pc EXCEPT ![t] = "register"]
      BY <1>2, <2>4 DEF ContextResize
  <2>6. \E n \in Nat : n >= 2 /\ DOMAIN m_fdContexts' = 0..(n - 1)
    <3>1. NewSize(fd) >= 2
        BY <2>1, <2>2
    <3> QED BY <2>2, <2>3, <2>5, <3>1
  <2> QED BY <2>5, <2>6 DEF RangeInv
<1>3. ASSUME NEW t \in Threads, Register(t) PROVE RangeInv'
    BY <1>3 DEF Register, RangeInv
<1>4. ASSUME NEW fd \in Fds, Cancel(fd) PROVE RangeInv'
    BY <1>4 DEF Cancel, RangeInv
<1>5. ASSUME NEW c \in waiting, Triggered(c) PROVE RangeInv'
    BY <1>5 DEF Triggered, RangeInv
<1>6. CASE UNCHANGED vars
    BY <1>6 DEF vars, RangeInv
<1> QED BY <1>1, <1>2, <1>3, <1>4, <1>5, <1>6 DEF Next

\* It holds at the beginning.
LEMMA RangeInit == Init => RangeInv
<1> SUFFICES ASSUME Init PROVE RangeInv
    OBVIOUS
<1>1. FirstSize \in Nat /\ FirstSize >= 2 /\ DOMAIN m_fdContexts = 0..(FirstSize - 1)
    BY ContextTableAssumption DEF Init
<1>2. \E n \in Nat : n >= 2 /\ DOMAIN m_fdContexts = 0..(n - 1)
    BY <1>1
<1> QED BY <1>2 DEF Init, RangeInv

\* m_fdContexts[fd] is always read in range.
THEOREM AlwaysInRange == Spec => []InRange
<1>1. RangeInv => InRange
    BY DEF RangeInv, InRange
<1> QED BY <1>1, RangeInit, RangeStep, PTL DEF Spec
=============================================================================
