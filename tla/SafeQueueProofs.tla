--------------------------- MODULE SafeQueueProofs ---------------------------
(***************************************************************************)
(* The safety of SafeQueue for any number of threads, any QUEUE_MAX and any *)
(* number of enqueue calls.                                                 *)
(*                                                                          *)
(* TypeOK, TestStillHolds and NoLostWakeup are inductive together: a thread *)
(* goes to sleep only while TestStillHolds says the lanes are empty, and    *)
(* from then on every entry that gets in wakes a thread of its own.         *)
(***************************************************************************)
EXTENDS SafeQueue, PacketQueueProofs, FiniteSetTheorems

IInv == TypeOK /\ TestStillHolds /\ NoLostWakeup

\* There are finitely many threads at each place of dequeue.
LEMMA AtFinite ==
  ASSUME NEW p
  PROVE  IsFiniteSet(At(p)) /\ Cardinality(At(p)) \in Nat
<1>1. At(p) \in SUBSET Threads
  BY DEF At
<1> QED
  BY <1>1, ThreadsAssumption, FS_Subset, FS_CardinalityType

\* The empty queue is within its bounds.
LEMMA EmptyQueueProperties ==
  EmptyQueue \in BoundedQueues(1..MaxPuts) /\ Size(EmptyQueue) = 0
<1>1. <<>> \in Seq(1..MaxPuts) /\ Len(<<>>) = 0 /\ Len(<<>>) <= QUEUE_MAX
  BY EmptySeq, QueueMaxAssumption
<1>2. /\ EmptyQueue \in BoundedQueues(1..MaxPuts)
      /\ Size(EmptyQueue) = Len(<<>>) + Len(<<>>)
  BY <1>1, QueueOfLanes, Zenon DEF EmptyQueue
<1> QED
  BY <1>1, <1>2

\* What notify_one does to the places of the threads: nobody enters dequeue,
\* blocks or falls asleep; if somebody sleeps, exactly one more is woken.
LEMMA NotifyOneProperties ==
  ASSUME TypeOK, NotifyOne
  PROVE  /\ pc' \in [Threads -> PCs]
         /\ At("blocking")' = At("blocking")
         /\ At("waiting")' \subseteq At("waiting")
         /\ At("waiting") # {} =>
               Cardinality(At("woken")') = Cardinality(At("woken")) + 1
<1>1. CASE At("waiting") = {}
  BY <1>1 DEF NotifyOne, TypeOK, At
<1>2. CASE At("waiting") # {}
  <2>1. PICK t \in At("waiting") : pc' = [pc EXCEPT ![t] = "woken"]
    BY <1>2 DEF NotifyOne
  <2>2. t \in Threads /\ pc[t] = "waiting" /\ t \notin At("woken")
    BY DEF At
  <2>3. pc' \in [Threads -> PCs]
    BY <2>1, <2>2 DEF TypeOK, PCs
  <2>4. At("blocking")' = At("blocking") /\ At("waiting")' \subseteq At("waiting")
    BY <2>1, <2>2 DEF At, TypeOK
  <2>5. At("woken")' = At("woken") \cup {t}
    BY <2>1, <2>2 DEF At, TypeOK
  <2>6. Cardinality(At("woken") \cup {t}) = Cardinality(At("woken")) + 1
    BY <2>2, AtFinite, FS_AddElement
  <2> QED
    BY <2>3, <2>4, <2>5, <2>6
<1> QED
  BY <1>1, <1>2

\* A queue starts empty, with every thread outside.
LEMMA InitInductive == Init => IInv
<1> SUFFICES ASSUME Init PROVE IInv
  OBVIOUS
<1>1. TypeOK
  BY EmptyQueueProperties, MaxPutsAssumption DEF Init, TypeOK, PCs
<1>2. At("waiting") = {} /\ At("blocking") = {}
  BY DEF Init, At
<1> QED
  BY <1>1, <1>2 DEF IInv, TestStillHolds, NoLostWakeup

\* A call of enqueue or enqueuePriority on an argument within the types.
LEMMA PutInductive ==
  ASSUME IInv, NEW pushed, Put(pushed),
         pushed \in BoundedQueues(1..MaxPuts),
         pushed # pq => Size(pushed) = Size(pq) + 1
  PROVE  IInv'
<1> USE DEF IInv
<1>0. /\ puts < MaxPuts /\ puts' = puts + 1 /\ pq' = pushed
      /\ last' = last /\ destruct' = destruct /\ destruct = "no"
      /\ At("blocking") = {}
      /\ IF pushed = pq THEN pc' = pc ELSE NotifyOne
  BY DEF Put, MutexFree
<1>1. /\ pc' \in [Threads -> PCs]
      /\ At("blocking")' = {}
      /\ At("waiting")' \subseteq At("waiting")
  <2>1. CASE pushed = pq
    BY <1>0, <2>1 DEF TypeOK, At
  <2>2. CASE pushed # pq
    BY <1>0, <2>2, NotifyOneProperties
  <2> QED
    BY <2>1, <2>2
<1>2. TypeOK'
  <2>1. puts + 1 \in 0..MaxPuts
    BY <1>0, MaxPutsAssumption DEF TypeOK
  <2> QED
    BY <1>0, <1>1, <2>1 DEF TypeOK
<1>3. TestStillHolds'
  BY <1>1 DEF TestStillHolds
<1>4. NoLostWakeup'
  <2> SUFFICES ASSUME At("waiting")' # {}
               PROVE  Size(pushed) <= Cardinality(At("woken")')
    BY <1>0 DEF NoLostWakeup
  <2>1. At("waiting") # {} /\ Size(pq) <= Cardinality(At("woken"))
    BY <1>0, <1>1 DEF NoLostWakeup
  <2>2. CASE pushed = pq
    BY <1>0, <2>1, <2>2 DEF At
  <2>3. CASE pushed # pq
    <3>1. Cardinality(At("woken")') = Cardinality(At("woken")) + 1
      BY <1>0, <2>1, <2>3, NotifyOneProperties
    <3>2. Size(pq) \in Nat /\ Cardinality(At("woken")) \in Nat
      BY AtFinite, SizeProperties DEF TypeOK
    <3>3. Size(pushed) = Size(pq) + 1
      BY <2>3
    <3> QED
      BY <2>1, <3>1, <3>2, <3>3
  <2> QED
    BY <2>2, <2>3
<1> QED
  BY <1>2, <1>3, <1>4

\* A thread moves from one place of dequeue to another, without m being
\* handed over and without touching the queue: nobody else's place changes.
LEMMA MoveProperties ==
  ASSUME TypeOK, NEW t \in Threads, NEW p \in PCs, pc' = [pc EXCEPT ![t] = p]
  PROVE  /\ pc' \in [Threads -> PCs]
         /\ \A r \in PCs : At(r)' = IF r = p THEN At(r) \cup {t} ELSE At(r) \ {t}
<1>1. pc' \in [Threads -> PCs]
  BY DEF TypeOK
<1>2. \A u \in Threads : pc'[u] = IF u = t THEN p ELSE pc[u]
  BY DEF TypeOK
<1> QED
  BY <1>1, <1>2 DEF At

\* The loop test of dequeue, by a thread that enters or was woken.
LEMMA TestLanesInductive ==
  ASSUME IInv, NEW t \in Threads, pc[t] \in {"enter", "woken"},
         MutexFree, TestLanes(t), UNCHANGED <<puts, destruct>>
  PROVE  IInv'
<1> USE DEF IInv
<1>1. CASE IsEmpty(pq)
  <2>1. pc' = [pc EXCEPT ![t] = "blocking"] /\ pq' = pq /\ last' = last
    BY <1>1 DEF TestLanes
  <2>2. TypeOK'
    BY <2>1 DEF TypeOK, PCs
  <2>3. TestStillHolds'
    BY <1>1, <2>1 DEF TestStillHolds
  <2>4. Size(pq) = 0 /\ Cardinality(At("woken")') \in Nat
    <3>1. Size(pq) = 0
      BY <1>1, SizeProperties DEF TypeOK
    <3>2. At("woken")' \in SUBSET Threads
      BY DEF At
    <3> QED
      BY <3>1, <3>2, ThreadsAssumption, FS_Subset, FS_CardinalityType
  <2>5. NoLostWakeup'
    BY <2>1, <2>4 DEF NoLostWakeup
  <2> QED
    BY <2>2, <2>3, <2>5
<1>2. CASE ~IsEmpty(pq)
  <2>1. /\ pc' = [pc EXCEPT ![t] = "idle"]
        /\ last' = [last EXCEPT ![t] = First(pq)]
        /\ pq' = Rest(pq)
    BY <1>2 DEF TestLanes, Return
  <2>2. /\ First(pq) \in 1..MaxPuts
        /\ Rest(pq) \in BoundedQueues(1..MaxPuts)
        /\ Size(Rest(pq)) = Size(pq) - 1
    BY <1>2, DequeueProperties DEF TypeOK
  <2>3. /\ pc' \in [Threads -> PCs]
        /\ At("blocking")' \subseteq At("blocking")
        /\ At("waiting")' \subseteq At("waiting")
        /\ At("woken")' = At("woken") \ {t}
    <3>1. "idle" \in PCs /\ {"blocking", "waiting", "woken"} \subseteq PCs
      BY DEF PCs
    <3>2. TypeOK
      OBVIOUS
    <3>3. /\ pc' \in [Threads -> PCs]
          /\ \A r \in PCs : At(r)' = IF r = "idle" THEN At(r) \cup {t} ELSE At(r) \ {t}
      BY <2>1, <3>1, <3>2, MoveProperties
    <3> QED
      BY <3>1, <3>3
  <2>4. TypeOK'
    <3>1. First(pq) \in 0..MaxPuts
      BY <2>2, MaxPutsAssumption
    <3>2. last' \in [Threads -> 0..MaxPuts]
      BY <2>1, <3>1 DEF TypeOK
    <3> QED
      BY <2>1, <2>2, <2>3, <3>2 DEF TypeOK
  <2>5. TestStillHolds'
    BY <2>3 DEF TestStillHolds, MutexFree
  <2>6. NoLostWakeup'
    <3> SUFFICES ASSUME destruct = "no", At("waiting")' # {}
                 PROVE  Size(Rest(pq)) <= Cardinality(At("woken")')
      BY <2>1 DEF NoLostWakeup
    <3>1. Size(pq) <= Cardinality(At("woken"))
      BY <2>3 DEF NoLostWakeup
    <3>2. Cardinality(At("woken") \ {t}) =
             IF t \in At("woken") THEN Cardinality(At("woken")) - 1
                                  ELSE Cardinality(At("woken"))
      BY AtFinite, FS_RemoveElement
    <3>3. Size(pq) \in Nat /\ Cardinality(At("woken")) \in Nat
      BY AtFinite, SizeProperties DEF TypeOK
    <3>4. Size(Rest(pq)) <= Cardinality(At("woken") \ {t})
      BY <2>2, <3>1, <3>2, <3>3
    <3> QED
      BY <2>3, <3>4
  <2> QED
    BY <2>4, <2>5, <2>6
<1> QED
  BY <1>1, <1>2

\* Every step of the class keeps the invariant.
LEMMA NextInductive == IInv /\ [Next]_vars => IInv'
<1> SUFFICES ASSUME IInv, [Next]_vars PROVE IInv'
  OBVIOUS
<1> USE DEF IInv
<1>1. CASE EnqueueStep
  <2>1. puts + 1 \in 1..MaxPuts
    BY <1>1, MaxPutsAssumption DEF EnqueueStep, Put, TypeOK
  <2>2. /\ Enqueue(pq, puts + 1) \in BoundedQueues(1..MaxPuts)
        /\ Enqueue(pq, puts + 1) # pq => Size(Enqueue(pq, puts + 1)) = Size(pq) + 1
    BY <2>1, EnqueueProperties DEF TypeOK
  <2> QED
    BY <1>1, <2>2, PutInductive DEF EnqueueStep
<1>2. CASE EnqueuePriorityStep
  <2>1. puts + 1 \in 1..MaxPuts
    BY <1>2, MaxPutsAssumption DEF EnqueuePriorityStep, Put, TypeOK
  <2>2. /\ EnqueuePriority(pq, puts + 1) \in BoundedQueues(1..MaxPuts)
        /\ EnqueuePriority(pq, puts + 1) # pq =>
              Size(EnqueuePriority(pq, puts + 1)) = Size(pq) + 1
    BY <2>1, EnqueueProperties DEF TypeOK
  <2> QED
    BY <1>2, <2>2, PutInductive DEF EnqueuePriorityStep
<1>3. CASE Destruct
  BY <1>3 DEF Destruct, TypeOK, TestStillHolds, NoLostWakeup, At
<1>4. CASE DestructNotify
  <2>1. /\ NotifyOne /\ destruct' = "done"
        /\ pq' = pq /\ last' = last /\ puts' = puts
    BY <1>4 DEF DestructNotify
  <2>2. pc' \in [Threads -> PCs] /\ At("blocking")' = At("blocking")
    BY <2>1, NotifyOneProperties
  <2> QED
    BY <2>1, <2>2 DEF TypeOK, TestStillHolds, NoLostWakeup
<1>5. ASSUME NEW t \in Threads, CallDequeue(t) PROVE IInv'
  <2>1. /\ pc[t] = "idle" /\ pc' = [pc EXCEPT ![t] = "enter"]
        /\ UNCHANGED <<pq, last, puts, destruct>>
    BY <1>5 DEF CallDequeue
  <2>2. /\ pc' \in [Threads -> PCs]
        /\ At("blocking")' = At("blocking")
        /\ At("waiting")' = At("waiting")
        /\ At("woken")' = At("woken")
    BY <2>1, MoveProperties DEF PCs, At
  <2> QED
    BY <2>1, <2>2 DEF TypeOK, TestStillHolds, NoLostWakeup
<1>6. ASSUME NEW t \in Threads, EnterDequeue(t) PROVE IInv'
  BY <1>6, TestLanesInductive DEF EnterDequeue
<1>7. ASSUME NEW t \in Threads, Wait(t) PROVE IInv'
  <2>1. /\ pc[t] = "blocking" /\ pc' = [pc EXCEPT ![t] = "waiting"]
        /\ UNCHANGED <<pq, last, puts, destruct>>
    BY <1>7 DEF Wait
  <2>2. /\ pc' \in [Threads -> PCs]
        /\ At("blocking")' \subseteq At("blocking")
        /\ At("woken")' = At("woken")
    BY <2>1, MoveProperties DEF PCs, At
  <2>3. IsEmpty(pq)
    BY <2>1 DEF TestStillHolds, At
  <2>4. Size(pq) = 0 /\ Cardinality(At("woken")) \in Nat
    BY <2>3, SizeProperties, AtFinite DEF TypeOK
  <2>5. TypeOK'
    BY <2>1, <2>2 DEF TypeOK
  <2>6. TestStillHolds'
    BY <2>1, <2>3 DEF TestStillHolds
  <2>7. NoLostWakeup'
    BY <2>1, <2>2, <2>4 DEF NoLostWakeup
  <2> QED
    BY <2>5, <2>6, <2>7
<1>8. ASSUME NEW t \in Threads, SpuriousWake(t) PROVE IInv'
  <2>1. /\ pc[t] = "waiting" /\ pc' = [pc EXCEPT ![t] = "woken"]
        /\ UNCHANGED <<pq, last, puts, destruct>>
    BY <1>8 DEF SpuriousWake
  <2>2. /\ pc' \in [Threads -> PCs]
        /\ At("blocking")' = At("blocking")
        /\ At("waiting")' \subseteq At("waiting")
        /\ At("woken")' = At("woken") \cup {t}
    BY <2>1, MoveProperties DEF PCs, At
  <2>3. t \notin At("woken")
    BY <2>1 DEF At
  <2>4. Cardinality(At("woken")') = Cardinality(At("woken")) + 1
    BY <2>2, <2>3, AtFinite, FS_AddElement
  <2>5. Size(pq) \in Nat /\ Cardinality(At("woken")) \in Nat
    BY AtFinite, SizeProperties DEF TypeOK
  <2>6. NoLostWakeup'
    <3>1. ASSUME destruct = "no", At("waiting")' # {}
          PROVE  Size(pq) <= Cardinality(At("woken"))
      BY <2>2, <3>1 DEF NoLostWakeup
    <3>2. ASSUME destruct = "no", At("waiting")' # {}
          PROVE  Size(pq) <= Cardinality(At("woken")')
      BY <2>4, <2>5, <3>1, <3>2
    <3> QED
      BY <2>1, <3>2 DEF NoLostWakeup
  <2> QED
    BY <2>1, <2>2, <2>6 DEF TypeOK, TestStillHolds
<1>9. ASSUME NEW t \in Threads, WakeUp(t) PROVE IInv'
  <2>1. /\ pc[t] = "woken" /\ MutexFree /\ UNCHANGED <<puts, destruct>>
    BY <1>9 DEF WakeUp
  <2>2. CASE destruct = "no"
    BY <1>9, <2>1, <2>2, TestLanesInductive DEF WakeUp
  <2>3. CASE destruct # "no"
    <3>1. /\ pc' = [pc EXCEPT ![t] = "idle"]
          /\ last' = [last EXCEPT ![t] = 0]
          /\ pq' = pq
      BY <1>9, <2>3 DEF WakeUp, Return
    <3>2. /\ pc' \in [Threads -> PCs]
          /\ At("blocking")' \subseteq At("blocking")
      BY <3>1, MoveProperties DEF PCs
    <3>3. TypeOK'
      BY <2>1, <3>1, <3>2, MaxPutsAssumption DEF TypeOK
    <3> QED
      BY <2>1, <2>3, <3>2, <3>3 DEF TestStillHolds, NoLostWakeup, MutexFree
  <2> QED
    BY <2>2, <2>3
<1>10. CASE UNCHANGED vars
  BY <1>10 DEF vars, TypeOK, TestStillHolds, NoLostWakeup, At
<1> QED
  BY <1>1, <1>2, <1>3, <1>4, <1>5, <1>6, <1>7, <1>8, <1>9, <1>10 DEF Next

\* The invariant holds in every reachable state.
LEMMA Invariance == Spec => []IInv
<1> QED
  BY InitInductive, NextInductive, PTL DEF Spec

\* The queue of SafeQueue.hpp never outgrows QUEUE_MAX entries a lane, and
\* every variable keeps its type.
THEOREM TypeCorrect == Spec => []TypeOK
<1>1. IInv => TypeOK
  BY DEF IInv
<1> QED
  BY <1>1, Invariance, PTL

\* The test of the lanes that sends a thread to sleep is still true when it
\* sleeps, whoever pushes and destroys the queue meanwhile.
THEOREM TestStillHoldsAlways == Spec => []TestStillHolds
<1>1. IInv => TestStillHolds
  BY DEF IInv
<1> QED
  BY <1>1, Invariance, PTL

\* One notify_one for each accepted push is enough for any number of threads:
\* no entry is left beside a sleeping thread with nobody on the way to take it.
THEOREM NoWakeupIsLost == Spec => []NoLostWakeup
<1>1. IInv => NoLostWakeup
  BY DEF IInv
<1> QED
  BY <1>1, Invariance, PTL
------------------------------------------------------------------------------
(* SafeQueue implements the safety part of QueueContract: a thread asks     *)
(* while it is inside dequeue, the queue closes when the destructor stores  *)
(* its flag, and each step is a step of the contract or changes nothing the *)
(* contract sees.                                                           *)

Asking == Threads \ At("idle")

\* The contract's operations on queues are those of the class.
LEMMA SameOperations ==
  /\ EmptyQueue = Contract!EmptyQueue
  /\ \A x : /\ Enqueue(pq, x) = Contract!Enqueue(pq, x)
            /\ EnqueuePriority(pq, x) = Contract!EnqueuePriority(pq, x)
  /\ IsEmpty(pq) <=> Contract!IsEmpty(pq)
  /\ First(pq) = Contract!First(pq)
  /\ Rest(pq) = Contract!Rest(pq)
<1>1. \A lane, x : Push(lane, x) = Contract!Push(lane, x)
  BY DEF Push, Contract!Push
<1> QED
  BY <1>1 DEF EmptyQueue, Contract!EmptyQueue, Enqueue, Contract!Enqueue,
              EnqueuePriority, Contract!EnqueuePriority, IsEmpty, Contract!IsEmpty,
              First, Contract!First, Rest, Contract!Rest

\* A thread that moves between two places inside dequeue keeps asking.
LEMMA MoveInside ==
  ASSUME TypeOK, NEW t \in Threads, pc[t] # "idle",
         NEW p \in PCs \ {"idle"}, pc' = [pc EXCEPT ![t] = p]
  PROVE  Asking' = Asking
BY DEF TypeOK, Asking, At

\* notify_one moves a thread from one place inside dequeue to another.
LEMMA NotifyInside ==
  ASSUME TypeOK, NotifyOne
  PROVE  Asking' = Asking
<1>1. CASE At("waiting") = {}
  BY <1>1 DEF NotifyOne, Asking, At
<1>2. CASE At("waiting") # {}
  <2>1. PICK t \in At("waiting") : pc' = [pc EXCEPT ![t] = "woken"]
    BY <1>2 DEF NotifyOne
  <2>2. t \in Threads /\ pc[t] # "idle" /\ "woken" \in PCs \ {"idle"}
    BY DEF At, PCs
  <2> QED
    BY <2>1, <2>2, MoveInside
<1> QED
  BY <1>1, <1>2

\* A thread that returns from dequeue was asking and does so no more.
LEMMA ReturnInside ==
  ASSUME TypeOK, NEW t \in Threads, pc[t] # "idle", pc' = [pc EXCEPT ![t] = "idle"]
  PROVE  t \in Asking /\ Asking' = Asking \ {t}
BY DEF TypeOK, Asking, At

\* A push, accepted or dropped, is a Put of the contract.
LEMMA PutImplements ==
  ASSUME TypeOK, NEW pushed \in {Enqueue(pq, puts + 1), EnqueuePriority(pq, puts + 1)},
         Put(pushed)
  PROVE  Contract!Put
<1>1. Asking' = Asking
  <2>1. CASE pushed = pq
    BY <2>1 DEF Put, Asking, At
  <2>2. CASE pushed # pq
    BY <2>2, NotifyInside DEF Put
  <2> QED
    BY <2>1, <2>2
<1>2. pq' \in {Contract!Enqueue(pq, puts + 1), Contract!EnqueuePriority(pq, puts + 1)}
  BY SameOperations DEF Put
<1> QED
  BY <1>1, <1>2 DEF Put, Contract!Put, Asking

\* The loop test of dequeue delivers an entry, or changes nothing the contract
\* sees.
LEMMA TestLanesImplements ==
  ASSUME TypeOK, NEW t \in Threads, pc[t] \in {"enter", "woken"}, TestLanes(t),
         UNCHANGED <<puts, destruct>>
  PROVE  Contract!Deliver(t) \/ UNCHANGED Contract!contractVars
<1>1. CASE IsEmpty(pq)
  <2>1. pc' = [pc EXCEPT ![t] = "blocking"] /\ UNCHANGED <<pq, last>>
    BY <1>1 DEF TestLanes
  <2>2. Asking' = Asking
    BY <2>1, MoveInside DEF PCs
  <2> QED
    BY <2>1, <2>2 DEF Contract!contractVars, Asking
<1>2. CASE ~IsEmpty(pq)
  <2>1. /\ pc' = [pc EXCEPT ![t] = "idle"]
        /\ last' = [last EXCEPT ![t] = First(pq)]
        /\ pq' = Rest(pq)
    BY <1>2 DEF TestLanes, Return
  <2>2. t \in Asking /\ Asking' = Asking \ {t}
    BY <2>1, ReturnInside
  <2>3. /\ ~Contract!IsEmpty(pq)
        /\ First(pq) = Contract!First(pq)
        /\ Rest(pq) = Contract!Rest(pq)
    BY <1>2, SameOperations
  <2> QED
    BY <2>1, <2>2, <2>3 DEF Contract!Deliver, Asking
<1> QED
  BY <1>1, <1>2

\* Every step of the class is a step of the contract or a stutter.
LEMMA StepImplements ==
  ASSUME TypeOK, [Next]_vars
  PROVE  [Contract!Next]_(Contract!contractVars)
<1>1. CASE EnqueueStep
  BY <1>1, PutImplements DEF EnqueueStep, Contract!Next
<1>2. CASE EnqueuePriorityStep
  BY <1>2, PutImplements DEF EnqueuePriorityStep, Contract!Next
<1>3. CASE Destruct
  <2>1. Asking' = Asking
    BY <1>3 DEF Destruct, Asking, At
  <2> QED
    BY <1>3, <2>1 DEF Destruct, Contract!Close, Contract!Next, Asking
<1>4. CASE DestructNotify
  <2>1. Asking' = Asking
    BY <1>4, NotifyInside DEF DestructNotify
  <2> QED
    BY <1>4, <2>1 DEF DestructNotify, Contract!contractVars, Asking
<1>5. ASSUME NEW t \in Threads, CallDequeue(t) PROVE Contract!Ask(t)
  <2>1. t \notin Asking /\ Asking' = Asking \cup {t}
    BY <1>5 DEF CallDequeue, Asking, At, TypeOK
  <2> QED
    BY <1>5, <2>1 DEF CallDequeue, Contract!Ask, Asking
<1>6. ASSUME NEW t \in Threads, EnterDequeue(t)
      PROVE  Contract!Deliver(t) \/ UNCHANGED Contract!contractVars
  BY <1>6, TestLanesImplements DEF EnterDequeue
<1>7. ASSUME NEW t \in Threads, Wait(t) \/ SpuriousWake(t)
      PROVE  UNCHANGED Contract!contractVars
  <2>1. Asking' = Asking
    BY <1>7, MoveInside DEF Wait, SpuriousWake, PCs
  <2> QED
    BY <1>7, <2>1 DEF Wait, SpuriousWake, Contract!contractVars, Asking
<1>8. ASSUME NEW t \in Threads, WakeUp(t)
      PROVE  \/ Contract!Deliver(t) \/ Contract!GiveUp(t)
             \/ UNCHANGED Contract!contractVars
  <2>1. CASE destruct = "no"
    BY <1>8, <2>1, TestLanesImplements DEF WakeUp
  <2>2. CASE destruct # "no"
    <3>1. t \in Asking /\ Asking' = Asking \ {t}
      BY <1>8, <2>2, ReturnInside DEF WakeUp, Return
    <3> QED
      BY <1>8, <2>2, <3>1 DEF WakeUp, Return, Contract!GiveUp, Asking
  <2> QED
    BY <2>1, <2>2
<1>9. CASE UNCHANGED vars
  BY <1>9 DEF vars, Contract!contractVars, At
<1> QED
  BY <1>1, <1>2, <1>3, <1>4, <1>5, <1>6, <1>7, <1>8, <1>9 DEF Next, Contract!Next

\* SafeQueue behaves as an atomic two-lane queue towards the threads that
\* share it: first from the priority lane, each entry to one thread only, and
\* nullptr only once the queue is being destroyed.
THEOREM ImplementsContract ==
  Spec => Contract!Init /\ [][Contract!Next]_(Contract!contractVars)
<1>1. Init => Contract!Init
  BY SameOperations DEF Init, Contract!Init, At
<1>2. TypeOK /\ [Next]_vars => [Contract!Next]_(Contract!contractVars)
  BY StepImplements
<1> QED
  BY <1>1, <1>2, TypeCorrect, PTL DEF Spec
==============================================================================
