------------------------------ MODULE SafeQueue ------------------------------
(***************************************************************************)
(* src/src/lib/SafeQueue.hpp: a two-lane bounded queue guarded by a mutex m *)
(* and one condition variable c, shared by any number of threads.           *)
(*                                                                          *)
(* A step is what happens while m is held, except in dequeue: a thread      *)
(* that found both lanes empty keeps m until c.wait blocks it ("blocking"), *)
(* so that the destructor, which does not take m, can run in between.       *)
(* Entry n is the argument of the n-th enqueue call; 0 stands for nullptr.  *)
(***************************************************************************)
EXTENDS PacketQueue, FiniteSets

CONSTANTS Threads,  \* threads that call dequeue
          MaxPuts   \* bound: calls of enqueue and enqueuePriority in a behaviour

ASSUME ThreadsAssumption == IsFiniteSet(Threads)
ASSUME MaxPutsAssumption == MaxPuts \in Nat

VARIABLES pq,        \* q and qPriority
          pc,        \* where each thread is in dequeue
          last,      \* what each thread's latest dequeue returned
          puts,      \* number of enqueue calls so far
          destruct   \* "no", "set" (flag stored, notify pending), "done"

vars == <<pq, pc, last, puts, destruct>>

(* "enter":    called dequeue, wants m                                      *)
(* "blocking": holds m, both lanes were empty, about to call c.wait          *)
(* "waiting":  blocked in c.wait, m released                                 *)
(* "woken":    c.wait is returning, wants m again                            *)
PCs == {"idle", "enter", "blocking", "waiting", "woken"}

At(p) == {t \in Threads : pc[t] = p}

\* Mutant: nobody takes the mutex.
MutexIgnored == TRUE

\* The mutex m is held across a step only by a thread about to call c.wait.
MutexFree == At("blocking") = {}

Init == /\ pq = EmptyQueue
        /\ pc = [t \in Threads |-> "idle"]
        /\ last = [t \in Threads |-> 0]
        /\ puts = 0
        /\ destruct = "no"
------------------------------------------------------------------------------
\* Mutant: notify only the push that makes the queue non-empty.
NotifyFirstOnly == IF At("waiting") = {} \/ ~IsEmpty(pq)
                   THEN pc' = pc
                   ELSE \E t \in At("waiting") : pc' = [pc EXCEPT ![t] = "woken"]

\* c.notify_one(): one blocked thread, if any, starts to return from c.wait.
NotifyOne == IF At("waiting") = {}
             THEN pc' = pc
             ELSE \E t \in At("waiting") : pc' = [pc EXCEPT ![t] = "woken"]

\* enqueue and enqueuePriority: push and notify, or return early, without a
\* notify, when the lane was full and the queue stays as it is.
Put(pushed) ==
    /\ destruct = "no"
    /\ puts < MaxPuts
    /\ MutexFree
    /\ puts' = puts + 1
    /\ pq' = pushed
    /\ IF pushed = pq THEN pc' = pc ELSE NotifyOne
    /\ UNCHANGED <<last, destruct>>

EnqueueStep == Put(Enqueue(pq, puts + 1))

EnqueuePriorityStep == Put(EnqueuePriority(pq, puts + 1))
------------------------------------------------------------------------------
Return(t, x) == /\ pc' = [pc EXCEPT ![t] = "idle"]
                /\ last' = [last EXCEPT ![t] = x]

CallDequeue(t) == /\ pc[t] = "idle"
                  /\ destruct = "no"
                  /\ pc' = [pc EXCEPT ![t] = "enter"]
                  /\ UNCHANGED <<pq, last, puts, destruct>>

\* The loop test of dequeue, with m held: block, or take an entry and return.
TestLanes(t) ==
    IF IsEmpty(pq)
    THEN /\ pc' = [pc EXCEPT ![t] = "blocking"]
         /\ UNCHANGED <<pq, last>>
    ELSE /\ Return(t, First(pq))
         /\ pq' = Rest(pq)

EnterDequeue(t) == /\ pc[t] = "enter"
                   /\ MutexFree
                   /\ TestLanes(t)
                   /\ UNCHANGED <<puts, destruct>>

Wait(t) == /\ pc[t] = "blocking"
           /\ pc' = [pc EXCEPT ![t] = "waiting"]
           /\ UNCHANGED <<pq, last, puts, destruct>>

\* c.wait may return without a notify.
SpuriousWake(t) == /\ pc[t] = "waiting"
                   /\ pc' = [pc EXCEPT ![t] = "woken"]
                   /\ UNCHANGED <<pq, last, puts, destruct>>

\* Mutant: a woken thread leaves without testing the lanes again.
WakeUpNoLoop(t) == /\ pc[t] = "woken"
                   /\ MutexFree
                   /\ IF IsEmpty(pq)
                      THEN Return(t, 0) /\ UNCHANGED pq
                      ELSE TestLanes(t)
                   /\ UNCHANGED <<puts, destruct>>

\* After c.wait: nullptr if the queue is being destroyed, even when an entry
\* is there; otherwise the loop test again.
WakeUp(t) == /\ pc[t] = "woken"
             /\ MutexFree
             /\ IF destruct # "no"
                THEN Return(t, 0) /\ UNCHANGED pq
                ELSE TestLanes(t)
             /\ UNCHANGED <<puts, destruct>>
------------------------------------------------------------------------------
\* ~SafeQueue stores the flag and then notifies one thread; it never takes m.
Destruct == /\ destruct = "no"
            /\ destruct' = "set"
            /\ UNCHANGED <<pq, pc, last, puts>>

DestructNotify == /\ destruct = "set"
                  /\ destruct' = "done"
                  /\ NotifyOne
                  /\ UNCHANGED <<pq, last, puts>>

Next == \/ EnqueueStep
        \/ EnqueuePriorityStep
        \/ Destruct
        \/ DestructNotify
        \/ \E t \in Threads : \/ CallDequeue(t)
                              \/ EnterDequeue(t)
                              \/ Wait(t)
                              \/ SpuriousWake(t)
                              \/ WakeUp(t)

\* A thread inside dequeue that can run does run; nothing obliges a thread to
\* call enqueue or dequeue, and nothing obliges c.wait to return unasked.
Fairness == \A t \in Threads : WF_vars(EnterDequeue(t) \/ Wait(t) \/ WakeUp(t))

Spec == Init /\ [][Next]_vars /\ Fairness
------------------------------------------------------------------------------
\* Types, and the bound QUEUE_MAX on each lane of SafeQueue.hpp.
TypeOK == /\ pq \in BoundedQueues(1..MaxPuts)
          /\ pc \in [Threads -> PCs]
          /\ last \in [Threads -> 0..MaxPuts]
          /\ puts \in 0..MaxPuts
          /\ destruct \in {"no", "set", "done"}

\* No wakeup is lost: as long as a thread sleeps in c.wait, there are at least
\* as many threads on their way out of it as there are entries (one notify_one
\* per accepted push, a push into a full lane gives none).  An entry next to a
\* sleeping thread with nobody coming would be stuck until the next push.
NoLostWakeup ==
    destruct = "no" /\ At("waiting") # {} => Size(pq) <= Cardinality(At("woken"))

\* The entry of a thread that is about to sleep is still absent: no push gets
\* between its test of the lanes and c.wait, because m is held throughout.
TestStillHolds == At("blocking") # {} => IsEmpty(pq)

\* SafeQueue implements the atomic queue of QueueContract, liveness included.
Contract == INSTANCE QueueContract
              WITH asking <- Threads \ At("idle"), closing <- (destruct # "no")

ContractSpec == Contract!Spec
==============================================================================
