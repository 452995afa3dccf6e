------------------------ MODULE CircularBufferProofs ------------------------
(***************************************************************************)
(* Proofs about CircularBuffer, for every capacity, every set of elements  *)
(* and every set of producers.                                             *)
(***************************************************************************)
EXTENDS CircularBuffer, SequenceTheorems, TLAPS

\* The index after i, for an index i of the array.
LEMMA FollowingIndex ==
    ASSUME NEW i \in Indices
    PROVE  Following(i) \in Indices /\ Following(i) = Wrap(i + 1)
PROOF
    BY BufferAssumption DEF Indices, Following, Wrap

\* Inside the critical section a task is alone.
LEMMA Alone ==
    ASSUME MutexSound, NEW t \in Tasks, pc[t] # "out"
    PROVE  m_mutex = t /\ \A u \in Tasks \ {t} : pc[u] = "out"
PROOF
    BY DEF MutexSound

LEMMA NoTaskInside ==
    ASSUME MutexSound, m_mutex = NoTask
    PROVE  \A t \in Tasks : pc[t] = "out"
PROOF
    BY BufferAssumption DEF MutexSound, Tasks

LEMMA InitEstablishes ==
    ASSUME Init
    PROVE  IInv
PROOF
<1>1. TypeOK
    <2>1. 0 \in Indices /\ 0 \in 0 .. Capacity
        BY BufferAssumption DEF Indices
    <2>2. QED
        BY <2>1 DEF Init, TypeOK, Tasks
<1>2. MutexSound
    BY BufferAssumption DEF Init, MutexSound, Tasks
<1>3. TailSound
    <2>1. pc[Consumer] = "out" /\ \A p \in Producers : pc[p] = "out"
        BY DEF Init, Tasks
    <2>2. First = 0 /\ Length = 0
        BY <2>1 DEF Init, First, Length
    <2>3. QED
        BY <2>1, <2>2, BufferAssumption DEF Init, TailSound, Wrap
<1>4. CheckedGetFinds
    BY DEF Init, CheckedGetFinds
<1>5. QED
    BY <1>1, <1>2, <1>3, <1>4 DEF IInv

-----------------------------------------------------------------------------
(* push()                                                                  *)

LEMMA PushPreserves ==
    ASSUME IInv, NEW p \in Producers, Push(p)
    PROVE  IInv'
PROOF
<1>. p \in Tasks /\ Consumer \in Tasks /\ p # Consumer /\ p # NoTask /\ Consumer # NoTask
    BY BufferAssumption DEF Tasks
<1>. USE DEF IInv
<1>1. CASE \E e \in Elements : PushLock(p, e)
    <2>1. PICK e \in Elements : PushLock(p, e)
        BY <1>1
    <2>2. pc' = [pc EXCEPT ![p] = "in"] /\ m_mutex' = p /\ m_mutex = NoTask
          /\ element' = [element EXCEPT ![p] = e]
          /\ UNCHANGED <<m_data, m_head, m_tail, m_nb_element, nb_read, checked, result>>
        BY <2>1 DEF PushLock, Lock, Goto
    <2>3. \A t \in Tasks : pc[t] = "out"
        BY <2>2, NoTaskInside
    <2>4. TypeOK'
        BY <2>2 DEF TypeOK, Tasks
    <2>5. MutexSound'
        BY <2>2, <2>3 DEF MutexSound, TypeOK
    <2>6. pc'[Consumer] = "out" /\ pc'[p] = "in" /\ \A q \in Producers \ {p} : pc'[q] = "out"
        BY <2>2, <2>3 DEF TypeOK, Tasks
    <2>7. First' = First /\ Length' = Length
        BY <2>2, <2>3, <2>6 DEF First, Length
    <2>8. TailSound'
        BY <2>2, <2>3, <2>6, <2>7 DEF TailSound, TypeOK, Tasks
    <2>9. CheckedGetFinds'
        BY <2>2, <2>3, <2>6 DEF CheckedGetFinds, isEmpty
    <2>10. QED
        BY <2>4, <2>5, <2>8, <2>9
<1>2. CASE PushFull(p)
    <2>1. pc' = [pc EXCEPT ![p] = "out"] /\ m_mutex' = NoTask /\ pc[p] = "in"
          /\ UNCHANGED <<m_data, m_head, m_tail, m_nb_element, element, nb_read, checked, result>>
        BY <1>2 DEF PushFull, Unlock, Goto
    <2>2. m_mutex = p /\ \A t \in Tasks \ {p} : pc[t] = "out"
        BY <2>1, Alone
    <2>3. \A t \in Tasks : pc'[t] = "out"
        BY <2>1, <2>2 DEF TypeOK
    <2>4. TypeOK'
        BY <2>1 DEF TypeOK
    <2>5. MutexSound'
        BY <2>1, <2>3, BufferAssumption DEF MutexSound, Tasks
    <2>6. First' = First /\ Length' = Length
        BY <2>1, <2>2, <2>3 DEF First, Length
    <2>7. TailSound'
        BY <2>1, <2>2, <2>3, <2>6 DEF TailSound, Tasks
    <2>8. CheckedGetFinds'
        BY <2>1, <2>2 DEF CheckedGetFinds, isEmpty
    <2>9. QED
        BY <2>4, <2>5, <2>7, <2>8
<1>3. CASE PushStore(p)
    <2>1. pc' = [pc EXCEPT ![p] = "count"] /\ pc[p] = "in" /\ ~isFull
          /\ m_data' = [m_data EXCEPT ![m_tail] = element[p]]
          /\ nb_read' = [nb_read EXCEPT ![p] = m_nb_element]
          /\ UNCHANGED <<m_mutex, m_head, m_tail, m_nb_element, element, checked, result>>
        BY <1>3 DEF PushStore, Goto
    <2>2. m_mutex = p /\ \A t \in Tasks \ {p} : pc[t] = "out"
        BY <2>1, Alone
    <2>3. pc'[p] = "count" /\ \A t \in Tasks \ {p} : pc'[t] = "out"
        BY <2>1, <2>2 DEF TypeOK
    <2>4. TypeOK'
        BY <2>1 DEF TypeOK
    <2>5. MutexSound'
        BY <2>1, <2>2, <2>3 DEF MutexSound, TypeOK
    <2>6. First' = First /\ Length' = Length
        BY <2>1, <2>2, <2>3 DEF First, Length
    <2>7. TailSound'
        BY <2>1, <2>2, <2>3, <2>6 DEF TailSound, Tasks, TypeOK, isFull
    <2>8. CheckedGetFinds'
        BY <2>1, <2>2 DEF CheckedGetFinds, isEmpty
    <2>9. QED
        BY <2>4, <2>5, <2>7, <2>8
<1>4. CASE PushCount(p)
    <2>1. pc' = [pc EXCEPT ![p] = "advance"] /\ pc[p] = "count"
          /\ m_nb_element' = nb_read[p] + 1
          /\ UNCHANGED <<m_mutex, m_data, m_head, m_tail, element, nb_read, checked, result>>
        BY <1>4 DEF PushCount, Goto
    <2>2. m_mutex = p /\ \A t \in Tasks \ {p} : pc[t] = "out"
        BY <2>1, Alone
    <2>3. pc'[p] = "advance" /\ \A t \in Tasks \ {p} : pc'[t] = "out"
        BY <2>1, <2>2 DEF TypeOK
    <2>4. m_nb_element' = m_nb_element + 1 /\ m_nb_element < Capacity /\ m_nb_element \in 0 .. Capacity
        BY <2>1, BufferAssumption DEF MutexSound, TailSound, TypeOK, isFull
    <2>5. TypeOK'
        <3>1. m_nb_element' \in 0 .. Capacity
            BY <2>4, BufferAssumption
        <3>2. QED
            BY <2>1, <3>1 DEF TypeOK
    <2>6. MutexSound'
        BY <2>1, <2>2, <2>3 DEF MutexSound, TypeOK
    <2>7. First' = First /\ Length' = Length + 1 /\ Length = m_nb_element
        BY <2>1, <2>2, <2>3, <2>4 DEF First, Length
    <2>8. TailSound'
        <3>1. m_tail = Wrap(First + Length)
            BY <2>1, <2>2 DEF TailSound, Tasks
        <3>2. First \in Indices
            BY FollowingIndex DEF First, TypeOK
        <3>3. First' + Length' - 1 = First + Length
            BY <2>4, <2>7, <3>2, BufferAssumption DEF Indices
        <3>4. m_tail' = Wrap(First' + Length' - 1)
            BY <2>1, <3>1, <3>3
        <3>5. Length' > 0
            BY <2>4, <2>7
        <3>6. QED
            BY <2>1, <2>3, <3>4, <3>5 DEF TailSound, Tasks, Wrap
    <2>9. CheckedGetFinds'
        BY <2>1, <2>2, <2>3, <2>4 DEF CheckedGetFinds, isEmpty
    <2>10. QED
        BY <2>5, <2>6, <2>8, <2>9
<1>5. CASE PushAdvance(p)
    <2>1. pc' = [pc EXCEPT ![p] = "out"] /\ m_mutex' = NoTask /\ pc[p] = "advance"
          /\ m_tail' = Following(m_tail)
          /\ UNCHANGED <<m_data, m_head, m_nb_element, element, nb_read, checked, result>>
        BY <1>5 DEF PushAdvance, Unlock, Goto
    <2>2. m_mutex = p /\ \A t \in Tasks \ {p} : pc[t] = "out"
        BY <2>1, Alone
    <2>3. \A t \in Tasks : pc'[t] = "out"
        BY <2>1, <2>2 DEF TypeOK
    <2>4. TypeOK'
        BY <2>1, FollowingIndex DEF TypeOK
    <2>5. MutexSound'
        BY <2>1, <2>3, BufferAssumption DEF MutexSound, Tasks
    <2>6. First' = First /\ Length' = Length /\ First = m_head /\ Length = m_nb_element
        BY <2>1, <2>2, <2>3 DEF First, Length
    <2>7. TailSound'
        <3>1. m_tail = Wrap(First + Length - 1) /\ Length > 0
            BY <2>1 DEF TailSound
        <3>2. Following(m_tail) = Wrap(First + Length)
            BY <2>6, <3>1, BufferAssumption DEF Following, Wrap, TypeOK, Indices
        <3>3. QED
            BY <2>1, <2>3, <2>6, <3>2 DEF TailSound, Tasks, Wrap
    <2>8. CheckedGetFinds'
        BY <2>1, <2>2 DEF CheckedGetFinds, isEmpty
    <2>9. QED
        BY <2>4, <2>5, <2>7, <2>8
<1>6. QED
    BY <1>1, <1>2, <1>3, <1>4, <1>5 DEF Push

-----------------------------------------------------------------------------
(* isEmpty() and get()                                                     *)

LEMMA GetPreserves ==
    ASSUME IInv, Get
    PROVE  IInv'
PROOF
<1>. Consumer \in Tasks /\ Consumer # NoTask /\ Consumer \notin Producers /\ Producers \subseteq Tasks
    BY BufferAssumption DEF Tasks
<1>. USE DEF IInv
<1>1. CASE CheckNotEmpty
    <2>1. ~isEmpty /\ UNCHANGED <<bufferVars, pc, element, nb_read, result>> /\ checked' = TRUE
        BY <1>1 DEF CheckNotEmpty
    <2>2. TypeOK'
        BY <2>1 DEF bufferVars, TypeOK
    <2>3. MutexSound'
        BY <2>1 DEF bufferVars, MutexSound
    <2>4. First' = First /\ Length' = Length
        BY <2>1 DEF bufferVars, First, Length
    <2>5. TailSound'
        BY <2>1, <2>4 DEF bufferVars, TailSound, Wrap, isFull, isEmpty
    <2>6. CheckedGetFinds'
        BY <2>1, <1>1 DEF CheckNotEmpty, bufferVars, CheckedGetFinds, isEmpty
    <2>7. QED
        BY <2>2, <2>3, <2>5, <2>6
<1>2. CASE GetLock
    <2>1. pc' = [pc EXCEPT ![Consumer] = "in"] /\ m_mutex' = Consumer /\ m_mutex = NoTask
          /\ UNCHANGED <<m_data, m_head, m_tail, m_nb_element, element, nb_read, checked, result>>
        BY <1>2 DEF GetLock, Lock, Goto
    <2>2. \A t \in Tasks : pc[t] = "out"
        BY <2>1, NoTaskInside
    <2>3. pc'[Consumer] = "in" /\ \A t \in Tasks \ {Consumer} : pc'[t] = "out"
        BY <2>1, <2>2 DEF TypeOK
    <2>4. TypeOK'
        BY <2>1 DEF TypeOK
    <2>5. MutexSound'
        BY <2>1, <2>2, <2>3 DEF MutexSound
    <2>6. First' = First /\ Length' = Length
        BY <2>1, <2>2, <2>3 DEF First, Length
    <2>7. TailSound'
        BY <2>1, <2>2, <2>3, <2>6 DEF TailSound
    <2>8. CheckedGetFinds'
        BY <2>1, <2>2 DEF CheckedGetFinds, isEmpty
    <2>9. QED
        BY <2>4, <2>5, <2>7, <2>8
<1>3. CASE GetNone
    <2>1. pc' = [pc EXCEPT ![Consumer] = "out"] /\ m_mutex' = NoTask /\ pc[Consumer] = "in"
          /\ checked' = FALSE /\ result' = NoElement
          /\ UNCHANGED <<m_data, m_head, m_tail, m_nb_element, element, nb_read>>
        BY <1>3 DEF GetNone, Unlock, Goto
    <2>2. m_mutex = Consumer /\ \A t \in Tasks \ {Consumer} : pc[t] = "out"
        BY <2>1, Alone
    <2>3. \A t \in Tasks : pc'[t] = "out"
        BY <2>1, <2>2 DEF TypeOK
    <2>4. TypeOK'
        BY <2>1 DEF TypeOK
    <2>5. MutexSound'
        BY <2>1, <2>3, BufferAssumption DEF MutexSound, Tasks
    <2>6. First' = First /\ Length' = Length
        BY <2>1, <2>2, <2>3 DEF First, Length
    <2>7. TailSound'
        BY <2>1, <2>2, <2>3, <2>6 DEF TailSound
    <2>8. CheckedGetFinds'
        BY <2>1 DEF CheckedGetFinds
    <2>9. QED
        BY <2>4, <2>5, <2>7, <2>8
<1>4. CASE GetTake
    <2>1. pc' = [pc EXCEPT ![Consumer] = "count"] /\ pc[Consumer] = "in" /\ ~isEmpty
          /\ result' = m_data[m_head] /\ checked' = FALSE
          /\ nb_read' = [nb_read EXCEPT ![Consumer] = m_nb_element]
          /\ UNCHANGED <<m_mutex, m_data, m_head, m_tail, m_nb_element, element>>
        BY <1>4 DEF GetTake, Goto, bufferVars
    <2>2. m_mutex = Consumer /\ \A t \in Tasks \ {Consumer} : pc[t] = "out"
        BY <2>1, Alone
    <2>3. pc'[Consumer] = "count" /\ \A t \in Tasks \ {Consumer} : pc'[t] = "out"
        BY <2>1, <2>2 DEF TypeOK
    <2>4. TypeOK'
        BY <2>1 DEF TypeOK
    <2>5. MutexSound'
        BY <2>1, <2>2, <2>3 DEF MutexSound, TypeOK
    <2>6. First' = Following(m_head) /\ Length' = m_nb_element - 1
          /\ First = m_head /\ Length = m_nb_element
        BY <2>1, <2>2, <2>3 DEF First, Length, Following
    <2>7. Wrap(First' + Length') = Wrap(First + Length)
        BY <2>1, <2>6, BufferAssumption DEF Wrap, Following, TypeOK, Indices, isEmpty
    <2>8. TailSound'
        BY <2>1, <2>2, <2>3, <2>7 DEF TailSound, Wrap, isEmpty
    <2>9. CheckedGetFinds'
        BY <2>1 DEF CheckedGetFinds
    <2>10. QED
        BY <2>4, <2>5, <2>8, <2>9
<1>5. CASE GetCount
    <2>1. pc' = [pc EXCEPT ![Consumer] = "advance"] /\ pc[Consumer] = "count"
          /\ m_nb_element' = nb_read[Consumer] - 1
          /\ UNCHANGED <<m_mutex, m_data, m_head, m_tail, element, nb_read, checked, result>>
        BY <1>5 DEF GetCount, Goto
    <2>2. m_mutex = Consumer /\ \A t \in Tasks \ {Consumer} : pc[t] = "out"
        BY <2>1, Alone
    <2>3. pc'[Consumer] = "advance" /\ \A t \in Tasks \ {Consumer} : pc'[t] = "out"
        BY <2>1, <2>2 DEF TypeOK
    <2>4. m_nb_element' = m_nb_element - 1 /\ m_nb_element > 0 /\ m_nb_element \in 0 .. Capacity
        BY <2>1, BufferAssumption DEF MutexSound, TailSound, TypeOK, isEmpty
    <2>5. TypeOK'
        <3>1. m_nb_element' \in 0 .. Capacity
            BY <2>4, BufferAssumption
        <3>2. QED
            BY <2>1, <3>1 DEF TypeOK
    <2>6. MutexSound'
        BY <2>1, <2>2, <2>3 DEF MutexSound, TypeOK
    <2>7. First' = First /\ Length' = Length
        BY <2>1, <2>3, <2>4 DEF First, Length, Following
    <2>8. TailSound'
        <3>1. ~isFull'
            BY <2>4, BufferAssumption DEF isFull
        <3>2. QED
            BY <2>1, <2>2, <2>3, <2>7, <3>1 DEF TailSound, Wrap
    <2>9. CheckedGetFinds'
        BY <2>1 DEF CheckedGetFinds
    <2>10. QED
        BY <2>5, <2>6, <2>8, <2>9
<1>6. CASE GetAdvance
    <2>1. pc' = [pc EXCEPT ![Consumer] = "out"] /\ m_mutex' = NoTask /\ pc[Consumer] = "advance"
          /\ m_head' = Following(m_head)
          /\ UNCHANGED <<m_data, m_tail, m_nb_element, element, nb_read, checked, result>>
        BY <1>6 DEF GetAdvance, Unlock, Goto
    <2>2. m_mutex = Consumer /\ \A t \in Tasks \ {Consumer} : pc[t] = "out"
        BY <2>1, Alone
    <2>3. \A t \in Tasks : pc'[t] = "out"
        BY <2>1, <2>2 DEF TypeOK
    <2>4. TypeOK'
        BY <2>1, FollowingIndex DEF TypeOK
    <2>5. MutexSound'
        BY <2>1, <2>3, BufferAssumption DEF MutexSound, Tasks
    <2>6. First' = First /\ Length' = Length
        BY <2>1, <2>3 DEF First, Length, Following
    <2>7. TailSound'
        BY <2>1, <2>2, <2>3, <2>6 DEF TailSound, Wrap
    <2>8. CheckedGetFinds'
        BY <2>1 DEF CheckedGetFinds
    <2>9. QED
        BY <2>4, <2>5, <2>7, <2>8
<1>7. QED
    BY <1>1, <1>2, <1>3, <1>4, <1>5, <1>6 DEF Get

LEMMA NextPreserves ==
    ASSUME IInv, [Next]_vars
    PROVE  IInv'
PROOF
<1>1. CASE \E p \in Producers : Push(p)
    BY <1>1, PushPreserves
<1>2. CASE Get
    BY <1>2, GetPreserves
<1>3. CASE UNCHANGED vars
    BY <1>3 DEF vars, bufferVars, IInv, TypeOK, MutexSound, TailSound, CheckedGetFinds, First, Length,
                Wrap, Following, isFull, isEmpty
<1>4. QED
    BY <1>1, <1>2, <1>3 DEF Next

-----------------------------------------------------------------------------
(* The safety properties.                                                  *)

\* The inductive invariant holds in every reachable state.
THEOREM Invariance == Spec => []IInv
PROOF
<1>1. Init => IInv
    BY InitEstablishes
<1>2. IInv /\ [Next]_vars => IInv'
    BY NextPreserves
<1>3. QED
    BY <1>1, <1>2, PTL DEF Spec

\* Whatever the tasks do, indices stay in the array and the number of elements
\* in its range, for every capacity a uint8_t can be.
THEOREM TypeCorrect == Spec => []TypeOK
PROOF
<1>1. IInv => TypeOK
    BY DEF IInv
<1>2. QED
    BY <1>1, Invariance, PTL

\* For every interleaving of any number of tasks, at most one is between lock
\* and unlock (circular_buffer.h:34), where alone the indices and the count move.
THEOREM MutexIsSound == Spec => []MutexSound
PROOF
<1>1. IInv => MutexSound
    BY DEF IInv
<1>2. QED
    BY <1>1, Invariance, PTL

\* For every capacity, tail, head and count agree outside the lock, and inside
\* it differ by what the task there has still to do.
THEOREM TailIsSound == Spec => []TailSound
PROOF
<1>1. IInv => TailSound
    BY DEF IInv
<1>2. QED
    BY <1>1, Invariance, PTL

\* The get() that follows a false isEmpty() finds an element.
THEOREM CheckedGetSucceeds == Spec => []CheckedGetFinds
PROOF
<1>1. IInv => CheckedGetFinds
    BY DEF IInv
<1>2. QED
    BY <1>1, Invariance, PTL

-----------------------------------------------------------------------------
(* The buffer implements BoundedQueue.                                     *)

\* The queue is as long as the members say, and no longer than the array.
LEMMA QueueLength ==
    ASSUME IInv
    PROVE  /\ First \in Indices /\ Length \in 0 .. Capacity
           /\ Queue \in Seq(Elements \cup {NoElement})
           /\ Len(Queue) = Length
           /\ \A k \in 1 .. Length : Wrap(First + k - 1) \in Indices
                                     /\ Queue[k] = m_data[Wrap(First + k - 1)]
PROOF
<1>1. First \in Indices
    BY FollowingIndex DEF IInv, TypeOK, First
<1>2. Length \in 0 .. Capacity
    BY BufferAssumption DEF IInv, TypeOK, TailSound, Length, isEmpty
<1>3. \A k \in 1 .. Length : Wrap(First + k - 1) \in Indices
    BY <1>1, <1>2, BufferAssumption DEF Wrap, Indices
<1>4. Queue \in [1 .. Length -> Elements \cup {NoElement}]
    BY <1>3 DEF IInv, TypeOK, Queue
<1>5. Queue \in Seq(Elements \cup {NoElement}) /\ Len(Queue) = Length
    BY <1>2, <1>4
<1>6. \A k \in 1 .. Length : Queue[k] = m_data[Wrap(First + k - 1)]
    BY DEF Queue
<1>7. QED
    BY <1>1, <1>2, <1>3, <1>5, <1>6

\* No two places of the queue, up to a whole array of them, are the same index.
LEMMA WrapInjective ==
    ASSUME NEW first \in Indices, NEW j \in 0 .. Capacity - 1, NEW k \in 0 .. Capacity - 1,
           Wrap(first + j) = Wrap(first + k)
    PROVE  j = k
PROOF
    BY BufferAssumption DEF Indices, Wrap

LEMMA PushCountEnqueues ==
    ASSUME IInv, IInv', NEW p \in Producers, PushCount(p)
    PROVE  Abstract!Enqueue(element[p]) /\ element[p] \in Elements
PROOF
<1>. p \in Tasks /\ Consumer \in Tasks /\ p # Consumer
    BY BufferAssumption DEF Tasks
<1>1. pc' = [pc EXCEPT ![p] = "advance"] /\ pc[p] = "count"
      /\ m_nb_element' = nb_read[p] + 1
      /\ UNCHANGED <<m_mutex, m_data, m_head, m_tail, element, nb_read, checked, result>>
    BY DEF PushCount, Goto
<1>2. pc[Consumer] = "out" /\ pc'[Consumer] = "out" /\ \A q \in Producers : pc[q] # "advance"
    BY <1>1, Alone DEF IInv, TypeOK, Tasks
<1>3. First' = First /\ Length' = Length + 1 /\ Length = m_nb_element /\ Length < Capacity
    BY <1>1, <1>2, BufferAssumption DEF IInv, MutexSound, TailSound, TypeOK, First, Length, isFull
<1>4. m_tail = Wrap(First + Length) /\ m_data[m_tail] = element[p] /\ element[p] \in Elements
    BY <1>1, <1>2 DEF IInv, TailSound
<1>5. Len(Queue) = Length /\ Queue \in Seq(Elements \cup {NoElement}) /\ Length \in Nat
      /\ First \in Indices
    BY QueueLength, BufferAssumption
<1>6. Queue' = [k \in 1 .. Length + 1 |-> m_data[Wrap(First + k - 1)]]
    BY <1>1, <1>3 DEF Queue, Wrap
<1>7. Append(Queue, element[p]) = [k \in 1 .. Length + 1 |-> m_data[Wrap(First + k - 1)]]
    <2>1. Append(Queue, element[p]) =
            [k \in 1 .. Length + 1 |-> IF k = Length + 1 THEN element[p] ELSE Queue[k]]
        BY <1>4, <1>5
    <2>2. \A k \in 1 .. Length : Queue[k] = m_data[Wrap(First + k - 1)]
        BY DEF Queue
    <2>3. m_data[Wrap(First + (Length + 1) - 1)] = element[p]
        <3>1. First + (Length + 1) - 1 = First + Length
            BY <1>5, BufferAssumption DEF Indices
        <3>2. QED
            BY <1>4, <3>1
    <2>4. QED
        BY <1>5, <2>1, <2>2, <2>3
<1>8. QED
    BY <1>1, <1>3, <1>4, <1>5, <1>6, <1>7 DEF Abstract!Enqueue

LEMMA GetTakeDequeues ==
    ASSUME IInv, IInv', GetTake
    PROVE  Abstract!Dequeue
PROOF
<1>. Consumer \in Tasks
    BY BufferAssumption DEF Tasks
<1>1. pc' = [pc EXCEPT ![Consumer] = "count"] /\ pc[Consumer] = "in" /\ ~isEmpty
      /\ result' = m_data[m_head]
      /\ UNCHANGED <<m_mutex, m_data, m_head, m_tail, m_nb_element, element>>
    BY DEF GetTake, Goto, bufferVars
<1>2. pc'[Consumer] = "count"
    BY <1>1 DEF IInv, TypeOK
<1>3. First = m_head /\ Length = m_nb_element /\ Length' = m_nb_element - 1 /\ First' = Following(m_head)
    BY <1>1, <1>2 DEF First, Length, Following
<1>4. Len(Queue) = Length /\ Queue \in Seq(Elements \cup {NoElement}) /\ Length \in 1 .. Capacity
      /\ First \in Indices
    BY <1>1, <1>3, QueueLength, BufferAssumption DEF isEmpty
<1>5. result' = Head(Queue) /\ Queue # <<>>
    <2>1. Wrap(First + 1 - 1) = First
        BY <1>4, BufferAssumption DEF Wrap, Indices
    <2>2. Queue[1] = m_data[m_head]
        BY <1>3, <1>4, <2>1 DEF Queue
    <2>3. QED
        BY <1>1, <1>4, <2>2
<1>6. Tail(Queue) = [k \in 1 .. Length - 1 |-> Queue[k + 1]]
    <2>1. /\ Tail(Queue) \in Seq(Elements \cup {NoElement}) /\ Len(Tail(Queue)) = Length - 1
          /\ \A k \in 1 .. Length - 1 : Tail(Queue)[k] = Queue[k + 1]
        BY <1>4, <1>5, HeadTailProperties
    <2>2. Tail(Queue) \in [1 .. Length - 1 -> Elements \cup {NoElement}]
        BY <2>1, LenProperties
    <2>3. QED
        BY <2>1, <2>2
<1>7. \A k \in 1 .. Length - 1 : Queue[k + 1] = m_data[Wrap(First' + k - 1)]
    <2>1. TAKE k \in 1 .. Length - 1
    <2>2. Queue[k + 1] = m_data[Wrap(First + (k + 1) - 1)]
        BY <1>4 DEF Queue
    <2>3. Wrap(First' + k - 1) = Wrap(First + (k + 1) - 1)
        BY <1>3, <1>4, BufferAssumption DEF Wrap, Following, Indices
    <2>4. QED
        BY <2>2, <2>3
<1>8. Queue' = [k \in 1 .. Length - 1 |-> m_data[Wrap(First' + k - 1)]]
    BY <1>1, <1>3 DEF Queue, Wrap
<1>9. QED
    BY <1>5, <1>6, <1>7, <1>8 DEF Abstract!Dequeue

\* A push() that has stored its element has not changed the queue yet.
LEMMA PushStoreHidden ==
    ASSUME IInv, NEW p \in Producers, PushStore(p)
    PROVE  UNCHANGED <<Queue, result>>
PROOF
<1>. p \in Tasks /\ Consumer \in Tasks /\ p # Consumer
    BY BufferAssumption DEF Tasks
<1>1. pc' = [pc EXCEPT ![p] = "count"] /\ pc[p] = "in" /\ ~isFull
      /\ m_data' = [m_data EXCEPT ![m_tail] = element[p]]
      /\ UNCHANGED <<m_head, m_nb_element, result>>
    BY DEF PushStore, Goto
<1>2. pc[Consumer] = "out" /\ pc'[Consumer] = "out" /\ \A q \in Producers : pc[q] # "advance"
    BY <1>1, Alone DEF IInv, TypeOK, Tasks
<1>3. First' = First /\ Length' = Length /\ Length = m_nb_element /\ Length < Capacity
    BY <1>1, <1>2, BufferAssumption DEF IInv, TypeOK, First, Length, isFull
<1>4. m_tail = Wrap(First + Length) /\ First \in Indices /\ Length \in 0 .. Capacity
    BY <1>2, QueueLength DEF IInv, TailSound
<1>5. ASSUME NEW k \in 1 .. Length
      PROVE  m_data'[Wrap(First + k - 1)] = m_data[Wrap(First + k - 1)]
    <2>1. First + k - 1 = First + (k - 1) /\ k - 1 \in 0 .. Capacity - 1 /\ Length \in 0 .. Capacity - 1
          /\ k - 1 # Length
        BY <1>3, <1>4, BufferAssumption DEF Indices
    <2>2. Wrap(First + k - 1) # m_tail
        BY <1>4, <2>1, WrapInjective
    <2>3. QED
        BY <1>1, <1>3, <2>2, QueueLength DEF IInv, TypeOK
<1>6. Queue' = Queue
    BY <1>3, <1>5 DEF Queue, Wrap
<1>7. QED
    BY <1>1, <1>6

\* The steps between those change neither the queue nor what get() returned.
LEMMA OthersHidden ==
    ASSUME IInv,
           \/ \E p \in Producers :
                (\E e \in Elements : PushLock(p, e)) \/ PushFull(p) \/ PushAdvance(p)
           \/ CheckNotEmpty \/ GetLock \/ GetCount \/ GetAdvance
    PROVE  UNCHANGED <<Queue, result>>
PROOF
<1>. Consumer \in Tasks /\ Consumer \notin Producers /\ Producers \subseteq Tasks
    BY BufferAssumption DEF Tasks
<1>1. CASE \E p \in Producers : (\E e \in Elements : PushLock(p, e)) \/ PushFull(p) \/ PushAdvance(p)
    <2>1. UNCHANGED <<m_data, m_head, m_nb_element, result>> /\ pc'[Consumer] = pc[Consumer]
        BY <1>1 DEF IInv, TypeOK, PushLock, PushFull, PushAdvance, Lock, Unlock, Goto
    <2>2. First' = First /\ Length' = Length
        BY <2>1 DEF First, Length, Following
    <2>3. QED
        BY <2>1, <2>2 DEF Queue, Wrap
<1>2. CASE CheckNotEmpty
    BY <1>2 DEF CheckNotEmpty, bufferVars, Queue, First, Length, Wrap, Following
<1>3. CASE GetLock
    <2>1. UNCHANGED <<m_data, m_head, m_nb_element, result>> /\ pc[Consumer] = "out" /\ pc'[Consumer] = "in"
        BY <1>3 DEF IInv, TypeOK, GetLock, Lock, Goto
    <2>2. First' = First /\ Length' = Length
        BY <2>1 DEF First, Length, Following
    <2>3. QED
        BY <2>1, <2>2 DEF Queue, Wrap
<1>4. CASE GetCount
    <2>1. UNCHANGED <<m_data, m_head, result>> /\ m_nb_element' = m_nb_element - 1
          /\ pc[Consumer] = "count" /\ pc'[Consumer] = "advance"
        BY <1>4 DEF IInv, TypeOK, MutexSound, GetCount, Goto
    <2>2. First' = First /\ Length' = Length
        BY <2>1 DEF First, Length, Following
    <2>3. QED
        BY <2>1, <2>2 DEF Queue, Wrap
<1>5. CASE GetAdvance
    <2>1. UNCHANGED <<m_data, m_nb_element, result>> /\ m_head' = Following(m_head)
          /\ pc[Consumer] = "advance" /\ pc'[Consumer] = "out"
        BY <1>5 DEF IInv, TypeOK, GetAdvance, Unlock, Goto
    <2>2. First' = First /\ Length' = Length
        BY <2>1 DEF First, Length
    <2>3. QED
        BY <2>1, <2>2 DEF Queue, Wrap
<1>6. QED
    BY <1>1, <1>2, <1>3, <1>4, <1>5

\* Whatever the interleaving of the tasks, the buffer is a bounded first-in
\* first-out queue: an element that push() accepted is handed out once, whole,
\* and after those accepted before it.
THEOREM BufferImplementsQueue == Spec => IsQueue
PROOF
<1>1. ASSUME Init
      PROVE  Abstract!QueueInit
    <2>1. Length = 0
        BY <1>1, BufferAssumption DEF Init, Length, Tasks
    <2>2. QED
        BY <1>1, <2>1 DEF Init, Queue, Abstract!QueueInit
<1>2. ASSUME IInv, [Next]_vars
      PROVE  [Abstract!QueueNext]_<<Queue, result>>
    <2>1. IInv'
        BY <1>2, NextPreserves
    <2>2. CASE \E p \in Producers : PushCount(p)
        BY <1>2, <2>1, <2>2, PushCountEnqueues DEF Abstract!QueueNext
    <2>3. CASE \E p \in Producers : PushStore(p)
        BY <1>2, <2>3, PushStoreHidden
    <2>4. CASE GetTake
        BY <1>2, <2>1, <2>4, GetTakeDequeues DEF Abstract!QueueNext
    <2>5. CASE GetNone
        <3>1. pc[Consumer] = "in" /\ pc' = [pc EXCEPT ![Consumer] = "out"] /\ m_nb_element = 0
              /\ result' = NoElement /\ UNCHANGED <<m_data, m_head, m_nb_element>>
            BY <2>5 DEF GetNone, Unlock, Goto, isEmpty
        <3>2. pc'[Consumer] = "out"
            BY <1>2, <3>1 DEF IInv, TypeOK, Tasks
        <3>3. Length = 0 /\ Length' = 0
            BY <3>1, <3>2 DEF Length
        <3>4. Queue = <<>> /\ Queue' = Queue
            BY <3>3 DEF Queue
        <3>5. QED
            BY <3>1, <3>4 DEF Abstract!QueueNext, Abstract!FindEmpty
    <2>6. CASE \/ \E p \in Producers :
                    (\E e \in Elements : PushLock(p, e)) \/ PushFull(p) \/ PushAdvance(p)
               \/ CheckNotEmpty \/ GetLock \/ GetCount \/ GetAdvance
        BY <1>2, <2>6, OthersHidden
    <2>7. CASE UNCHANGED vars
        BY <2>7 DEF vars, bufferVars, Queue, First, Length, Wrap, Following
    <2>8. QED
        BY <1>2, <2>2, <2>3, <2>4, <2>5, <2>6, <2>7 DEF Next, Push, Get
<1>3. QED
    BY <1>1, <1>2, Invariance, PTL DEF Spec, IsQueue, Abstract!QueueSpec

=============================================================================
