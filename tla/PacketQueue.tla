----------------------------- MODULE PacketQueue -----------------------------
(***************************************************************************)
(* The value of a SafeQueue<PacketPtr>: two FIFO lanes of at most           *)
(* QUEUE_MAX entries each, and what one operation does to it while its      *)
(* mutex is held.  The relay modules use these operators for the queues     *)
(* that join their threads; module SafeQueue is the class with its mutex,   *)
(* condition variable and waiting threads.                                  *)
(***************************************************************************)
EXTENDS Naturals, Sequences

CONSTANT QUEUE_MAX  \* entries a lane holds (10000 in the source)

ASSUME QueueMaxAssumption == QUEUE_MAX \in Nat \ {0}

EmptyQueue == [q |-> <<>>, qPriority |-> <<>>]

Queues(S) == [q : Seq(S), qPriority : Seq(S)]

\* The queues that keep to the bound.
BoundedQueues(S) == {pq \in Queues(S) : /\ Len(pq.q) <= QUEUE_MAX
                                        /\ Len(pq.qPriority) <= QUEUE_MAX}

IsEmpty(pq) == pq.q = <<>> /\ pq.qPriority = <<>>

Size(pq) == Len(pq.q) + Len(pq.qPriority)

\* Mutant: the bound is tested one too late.
PushOffByOne(lane, x) == IF Len(lane) > QUEUE_MAX THEN lane ELSE Append(lane, x)

\* Mutant: a full lane makes room by dropping its oldest entry.
PushDropOldest(lane, x) == IF Len(lane) >= QUEUE_MAX
                           THEN Append(Tail(lane), x) ELSE Append(lane, x)

\* An entry that finds the lane full is dropped without a word to the caller.
Push(lane, x) == IF Len(lane) >= QUEUE_MAX THEN lane ELSE Append(lane, x)

Enqueue(pq, x) == [pq EXCEPT !.q = Push(@, x)]

EnqueuePriority(pq, x) == [pq EXCEPT !.qPriority = Push(@, x)]

\* dequeue takes from the priority lane first.  Both need ~IsEmpty(pq).
First(pq) == IF pq.qPriority # <<>> THEN Head(pq.qPriority) ELSE Head(pq.q)

Rest(pq) == IF pq.qPriority # <<>>
            THEN [pq EXCEPT !.qPriority = Tail(@)]
            ELSE [pq EXCEPT !.q = Tail(@)]
==============================================================================
