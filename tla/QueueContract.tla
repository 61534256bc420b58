---------------------------- MODULE QueueContract ----------------------------
(***************************************************************************)
(* What SafeQueue promises the threads that share it: an atomic two-lane    *)
(* queue.  A thread that asks for an entry is given the oldest one of the   *)
(* priority lane, else the oldest of the normal lane; some asking thread is *)
(* served whenever an entry is there; a thread goes away empty-handed only  *)
(* once the queue is being destroyed.                                       *)
(***************************************************************************)
EXTENDS PacketQueue, FiniteSets

CONSTANTS Threads,  \* threads that call dequeue
          MaxPuts   \* bound: calls of enqueue and enqueuePriority in a behaviour

VARIABLES pq,       \* the queue's contents
          asking,   \* threads inside dequeue
          last,     \* last[t]: what t's latest dequeue returned (0 = nullptr)
          puts,     \* number of enqueue calls; call n offers the entry n
          closing   \* the destructor has begun

contractVars == <<pq, asking, last, puts, closing>>

Init == /\ pq = EmptyQueue
        /\ asking = {}
        /\ last = [t \in Threads |-> 0]
        /\ puts = 0
        /\ closing = FALSE

\* An entry is offered to one of the lanes (a full lane leaves pq as it is).
Put == /\ puts < MaxPuts
       /\ ~closing
       /\ puts' = puts + 1
       /\ pq' \in {Enqueue(pq, puts + 1), EnqueuePriority(pq, puts + 1)}
       /\ UNCHANGED <<asking, last, closing>>

Ask(t) == /\ t \notin asking
          /\ ~closing
          /\ asking' = asking \cup {t}
          /\ UNCHANGED <<pq, last, puts, closing>>

Deliver(t) == /\ t \in asking
              /\ ~IsEmpty(pq)
              /\ last' = [last EXCEPT ![t] = First(pq)]
              /\ pq' = Rest(pq)
              /\ asking' = asking \ {t}
              /\ UNCHANGED <<puts, closing>>

Close == /\ ~closing
         /\ closing' = TRUE
         /\ UNCHANGED <<pq, asking, last, puts>>

GiveUp(t) == /\ t \in asking
             /\ closing
             /\ last' = [last EXCEPT ![t] = 0]
             /\ asking' = asking \ {t}
             /\ UNCHANGED <<pq, puts, closing>>

Next == \/ Put
        \/ Close
        \/ \E t \in Threads : Ask(t) \/ Deliver(t) \/ GiveUp(t)

\* While the queue lives, entries and askers never stay side by side for ever.
ServeSomeone == ~closing /\ \E t \in Threads : Deliver(t)

Spec == Init /\ [][Next]_contractVars /\ WF_contractVars(ServeSomeone)
==============================================================================
