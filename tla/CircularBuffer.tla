--------------------------- MODULE CircularBuffer ---------------------------
(***************************************************************************)
(* CircularBuffer<T, Capacity> (application/tools/buffer/circular_buffer.h)*)
(* shared by tasks: the callback of a timer pushes, the main task takes,   *)
(* as with m_pending_status_data of NetServer.                             *)
(*                                                                         *)
(* push() and get() hold m_mutex, isEmpty() does not: NetServer::update()  *)
(* reads m_nb_element without it before it calls get().  A ++ or -- of     *)
(* m_nb_element is a read and a write, with a step of its own for each.    *)
(***************************************************************************)
EXTENDS Integers, Sequences

CONSTANTS
    Capacity,
    Elements,
    NoElement,          \* an empty Option<T>, and what new T[Capacity] holds
    Producers,          \* tasks that call push()
    Consumer,           \* the task that calls isEmpty() and get()
    NoTask              \* the holder of a mutex that is free

\* Capacity is a uint8_t.
ASSUME BufferAssumption ==
    /\ Capacity \in 1 .. 255
    /\ NoElement \notin Elements
    /\ Consumer \notin Producers
    /\ NoTask \notin Producers \cup {Consumer}

Tasks == Producers \cup {Consumer}

Indices == 0 .. Capacity - 1

VARIABLES
    m_mutex,            \* the task that holds it, or NoTask
    m_data,
    m_head,
    m_tail,
    m_nb_element

VARIABLES               \* the locals of the tasks
    pc,                 \* "out" of push() and get(), "in" the critical section, ...
    element,            \* argument of push()
    nb_read,            \* m_nb_element as ++ or -- has read it
    checked,            \* isEmpty() was false and get() is next
    result              \* what get() returns

bufferVars == <<m_mutex, m_data, m_head, m_tail, m_nb_element>>
vars == <<bufferVars, pc, element, nb_read, checked, result>>

Init ==
    /\ m_mutex = NoTask
    /\ m_data = [i \in Indices |-> NoElement]
    /\ m_head = 0
    /\ m_tail = 0
    /\ m_nb_element = 0
    /\ pc = [t \in Tasks |-> "out"]
    /\ element = [p \in Producers |-> NoElement]
    /\ nb_read = [t \in Tasks |-> 0]
    /\ checked = FALSE
    /\ result = NoElement

isFull == m_nb_element = Capacity
isEmpty == m_nb_element = 0

Goto(t, label) == pc' = [pc EXCEPT ![t] = label]

\* Mutant: the mutex is not waited for.
LockAtOnce(t) ==
    /\ pc[t] = "out"
    /\ m_mutex' = t
    /\ Goto(t, "in")

Lock(t) ==
    /\ pc[t] = "out"
    /\ m_mutex = NoTask
    /\ m_mutex' = t
    /\ Goto(t, "in")

\* The lock_guard goes out of scope.
Unlock(t) == m_mutex' = NoTask /\ Goto(t, "out")

\* Mutant: no wrapping.
FollowingUnwrapped(i) == i + 1

\* An index after ++ and the comparison with Capacity.
Following(i) == IF i + 1 = Capacity THEN 0 ELSE i + 1

-----------------------------------------------------------------------------
(* push(e)                                                                 *)

PushLock(p, e) ==
    /\ Lock(p)
    /\ element' = [element EXCEPT ![p] = e]
    /\ UNCHANGED <<m_data, m_head, m_tail, m_nb_element, nb_read, checked, result>>

PushFull(p) ==
    /\ pc[p] = "in" /\ isFull
    /\ Unlock(p)
    /\ UNCHANGED <<m_data, m_head, m_tail, m_nb_element, element, nb_read, checked, result>>

\* Mutant: a full buffer is written to.
PushStoreUnchecked(p) ==
    /\ pc[p] = "in"
    /\ m_data' = [m_data EXCEPT ![m_tail] = element[p]]
    /\ nb_read' = [nb_read EXCEPT ![p] = m_nb_element]
    /\ Goto(p, "count")
    /\ UNCHANGED <<m_mutex, m_head, m_tail, m_nb_element, element, checked, result>>

PushStore(p) ==
    /\ pc[p] = "in" /\ ~isFull
    /\ m_data' = [m_data EXCEPT ![m_tail] = element[p]]
    /\ nb_read' = [nb_read EXCEPT ![p] = m_nb_element]
    /\ Goto(p, "count")
    /\ UNCHANGED <<m_mutex, m_head, m_tail, m_nb_element, element, checked, result>>

PushCount(p) ==
    /\ pc[p] = "count"
    /\ m_nb_element' = nb_read[p] + 1
    /\ Goto(p, "advance")
    /\ UNCHANGED <<m_mutex, m_data, m_head, m_tail, element, nb_read, checked, result>>

PushAdvance(p) ==
    /\ pc[p] = "advance"
    /\ m_tail' = Following(m_tail)
    /\ Unlock(p)
    /\ UNCHANGED <<m_data, m_head, m_nb_element, element, nb_read, checked, result>>

-----------------------------------------------------------------------------
(* if (!isEmpty()) ... get()                                               *)

\* Mutant: the check is forgotten.
CheckNothing ==
    /\ pc[Consumer] = "out"
    /\ checked' = TRUE
    /\ UNCHANGED <<bufferVars, pc, element, nb_read, result>>

CheckNotEmpty ==
    /\ pc[Consumer] = "out"
    /\ ~isEmpty
    /\ checked' = TRUE
    /\ UNCHANGED <<bufferVars, pc, element, nb_read, result>>

\* With or without the check.
GetLock ==
    /\ Lock(Consumer)
    /\ UNCHANGED <<m_data, m_head, m_tail, m_nb_element, element, nb_read, checked, result>>

GetNone ==
    /\ pc[Consumer] = "in" /\ isEmpty
    /\ result' = NoElement
    /\ checked' = FALSE
    /\ Unlock(Consumer)
    /\ UNCHANGED <<m_data, m_head, m_tail, m_nb_element, element, nb_read>>

GetTake ==
    /\ pc[Consumer] = "in" /\ ~isEmpty
    /\ result' = m_data[m_head]
    /\ nb_read' = [nb_read EXCEPT ![Consumer] = m_nb_element]
    /\ checked' = FALSE
    /\ Goto(Consumer, "count")
    /\ UNCHANGED <<bufferVars, element>>

GetCount ==
    /\ pc[Consumer] = "count"
    /\ m_nb_element' = nb_read[Consumer] - 1
    /\ Goto(Consumer, "advance")
    /\ UNCHANGED <<m_mutex, m_data, m_head, m_tail, element, nb_read, checked, result>>

\* Mutant: m_head stays where it is.
GetAdvanceNot ==
    /\ pc[Consumer] = "advance"
    /\ Unlock(Consumer)
    /\ UNCHANGED <<m_data, m_head, m_tail, m_nb_element, element, nb_read, checked, result>>

GetAdvance ==
    /\ pc[Consumer] = "advance"
    /\ m_head' = Following(m_head)
    /\ Unlock(Consumer)
    /\ UNCHANGED <<m_data, m_tail, m_nb_element, element, nb_read, checked, result>>

Push(p) ==
    \/ \E e \in Elements : PushLock(p, e)
    \/ PushFull(p) \/ PushStore(p) \/ PushCount(p) \/ PushAdvance(p)

Get == CheckNotEmpty \/ GetLock \/ GetNone \/ GetTake \/ GetCount \/ GetAdvance

Next == (\E p \in Producers : Push(p)) \/ Get

Spec == Init /\ [][Next]_vars

-----------------------------------------------------------------------------
(* Properties                                                              *)

\* Every variable has a value of its kind; no index leaves the array.
TypeOK ==
    /\ m_mutex \in Tasks \cup {NoTask}
    /\ m_data \in [Indices -> Elements \cup {NoElement}]
    /\ m_head \in Indices
    /\ m_tail \in Indices
    /\ m_nb_element \in 0 .. Capacity
    /\ pc \in [Tasks -> {"out", "in", "count", "advance"}]
    /\ element \in [Producers -> Elements \cup {NoElement}]
    /\ nb_read \in [Tasks -> 0 .. Capacity]
    /\ checked \in BOOLEAN
    /\ result \in Elements \cup {NoElement}

\* The queue the members stand for.  An element joins it when m_nb_element is
\* written, and leaves it when get() copies it, two writes before m_head moves.
Wrap(i) == IF i >= Capacity THEN i - Capacity ELSE i
First == IF pc[Consumer] \in {"count", "advance"} THEN Following(m_head) ELSE m_head
Length == IF pc[Consumer] = "count" THEN m_nb_element - 1 ELSE m_nb_element
Queue == [k \in 1 .. Length |-> m_data[Wrap(First + k - 1)]]

\* Exactly the holder of the mutex is inside, and what it read is still true.
MutexSound ==
    /\ \A t \in Tasks : pc[t] # "out" <=> m_mutex = t
    /\ \A t \in Tasks : pc[t] = "count" => nb_read[t] = m_nb_element

\* m_tail is where the queue ends, except to a producer that has yet to move it;
\* and the queue holds elements, as does every argument under way.
TailSound ==
    /\ m_tail = IF \E p \in Producers : pc[p] = "advance"
                THEN Wrap(First + Length - 1) ELSE Wrap(First + Length)
    /\ \A p \in Producers : pc[p] \in {"in", "count"} => element[p] \in Elements
    /\ \A p \in Producers : pc[p] = "count" => m_data[m_tail] = element[p] /\ ~isFull
    /\ \A p \in Producers : pc[p] = "advance" => Length > 0
    /\ pc[Consumer] = "count" => ~isEmpty
    /\ pc[Consumer] = "advance" => ~isFull

\* A get() that follows a false isEmpty() finds an element, though the mutex was
\* not held in between (server.cpp:101, :103 takes getData() unchecked).
CheckedGetFinds == checked => pc[Consumer] \in {"out", "in"} /\ ~isEmpty

\* The inductive invariant the proofs use.
IInv == TypeOK /\ MutexSound /\ TailSound /\ CheckedGetFinds

Abstract == INSTANCE BoundedQueue WITH queue <- Queue, taken <- result

\* The buffer is a bounded first-in first-out queue.
IsQueue == Abstract!QueueSpec

=============================================================================
