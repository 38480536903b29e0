------------------------------- MODULE Thread --------------------------------
(***************************************************************************)
(* Thread objects: the constructor starts a thread and waits on a          *)
(* semaphore until run() has filled in the object and taken the callback   *)
(* out of it; afterwards the owner joins the thread or destroys the        *)
(* object, which detaches a thread that still runs. One owner makes and    *)
(* destroys all objects, as Scheduler::start() and stop() do. What the     *)
(* callback does is left to the module that extends this one.              *)
(***************************************************************************)
EXTENDS Naturals

CONSTANT Tids     \* the threads, each with the Thread object that starts it

VARIABLES
    obj,          \* the object: not made, its constructor waits, usable, destroyed
    m_thread,     \* the object holds a handle to join or to detach
    m_id,         \* m_id is known
    m_semaphore,  \* the count of the object's semaphore
    at            \* place of the thread in run()

threadVars == <<obj, m_thread, m_id, m_semaphore, at>>

ThreadInit == /\ obj = [t \in Tids |-> "none"]
              /\ m_thread = [t \in Tids |-> FALSE]
              /\ m_id = [t \in Tids |-> FALSE]
              /\ m_semaphore = [t \in Tids |-> 0]
              /\ at = [t \in Tids |-> "none"]

\* The constructor up to its wait. The owner waits with it: it makes one object at
\* a time. A failed pthread_create() throws and leaves no object.
Construct(t) ==
    /\ obj[t] = "none" /\ \A u \in Tids : obj[u] # "waiting"
    /\ obj' = [obj EXCEPT ![t] = "waiting"]
    /\ m_thread' = [m_thread EXCEPT ![t] = TRUE]
    /\ at' = [at EXCEPT ![t] = "start"]
    /\ UNCHANGED <<m_id, m_semaphore>>

\* Mutant: the constructor does not wait.
ConstructedAtOnce(t) ==
    /\ obj[t] = "waiting"
    /\ obj' = [obj EXCEPT ![t] = "usable"]
    /\ UNCHANGED <<m_thread, m_id, m_semaphore, at>>

\* m_semaphore.wait() returns, and with it the constructor.
Constructed(t) ==
    /\ obj[t] = "waiting" /\ m_semaphore[t] > 0
    /\ m_semaphore' = [m_semaphore EXCEPT ![t] = @ - 1]
    /\ obj' = [obj EXCEPT ![t] = "usable"]
    /\ UNCHANGED <<m_thread, m_id, at>>

\* run(): the thread's locals and the object's m_id, and the callback is swapped out.
Run(t) ==
    /\ at[t] = "start"
    /\ m_id' = [m_id EXCEPT ![t] = TRUE]
    /\ at' = [at EXCEPT ![t] = "known"]
    /\ UNCHANGED <<obj, m_thread, m_semaphore>>

\* m_semaphore.notify(); from here on run() uses its own copies only.
Notify(t) ==
    /\ at[t] = "known"
    /\ m_semaphore' = [m_semaphore EXCEPT ![t] = @ + 1]
    /\ at' = [at EXCEPT ![t] = "cb"]
    /\ UNCHANGED <<obj, m_thread, m_id>>

\* cb() returns and the thread ends.
Return(t) ==
    /\ at[t] = "cb"
    /\ at' = [at EXCEPT ![t] = "ended"]
    /\ UNCHANGED <<obj, m_thread, m_id, m_semaphore>>

\* join() waits for the end of the thread.
Join(t) ==
    /\ obj[t] = "usable" /\ m_thread[t] /\ at[t] = "ended"
    /\ m_thread' = [m_thread EXCEPT ![t] = FALSE]
    /\ UNCHANGED <<obj, m_id, m_semaphore, at>>

\* The destructor; a thread that was not joined is detached.
Destroy(t) ==
    /\ obj[t] = "usable"
    /\ obj' = [obj EXCEPT ![t] = "destroyed"]
    /\ UNCHANGED <<m_thread, m_id, m_semaphore, at>>

OwnerStep(t) == Construct(t) \/ Constructed(t) \/ Join(t) \/ Destroy(t)
StartStep(t) == Run(t) \/ Notify(t)
-----------------------------------------------------------------------------
(* Properties *)

\* The new thread uses its Thread object only while the constructor waits, and a
\* constructed object knows its thread: Scheduler::start() asks it for getId() at
\* once, and the owner may destroy it at once.
HandshakeHolds == \A t \in Tids :
    /\ at[t] \in {"start", "known"} => obj[t] = "waiting"
    /\ obj[t] = "usable" => m_id[t]
=============================================================================
