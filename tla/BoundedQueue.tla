---------------------------- MODULE BoundedQueue ----------------------------
(***************************************************************************)
(* What CircularBuffer promises its callers: a first-in first-out queue of *)
(* at most Capacity elements.  An element that finds it full is refused,   *)
(* an element that is in it is neither lost, changed nor handed out twice. *)
(***************************************************************************)
EXTENDS Naturals, Sequences

CONSTANTS
    Capacity,
    Elements,
    NoElement       \* an empty Option<T>

VARIABLES
    queue,
    taken           \* what the last get() found

QueueInit == queue = <<>> /\ taken = NoElement

Enqueue(e) ==
    /\ Len(queue) < Capacity
    /\ queue' = Append(queue, e)
    /\ UNCHANGED taken

Dequeue ==
    /\ queue # <<>>
    /\ taken' = Head(queue)
    /\ queue' = Tail(queue)

FindEmpty ==
    /\ queue = <<>>
    /\ taken' = NoElement
    /\ UNCHANGED queue

QueueNext == (\E e \in Elements : Enqueue(e)) \/ Dequeue \/ FindEmpty

QueueSpec == QueueInit /\ [][QueueNext]_<<queue, taken>>

=============================================================================
