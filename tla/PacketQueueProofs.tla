-------------------------- MODULE PacketQueueProofs --------------------------
(***************************************************************************)
(* Facts about the operations of PacketQueue, for queues over any set S.    *)
(***************************************************************************)
EXTENDS PacketQueue, TLAPS, SequenceTheorems

\* What it takes to be a bounded queue, and its size, in terms of its lanes.
LEMMA QueueOfLanes ==
  ASSUME NEW S, NEW a \in Seq(S), NEW b \in Seq(S),
         Len(a) <= QUEUE_MAX, Len(b) <= QUEUE_MAX
  PROVE  /\ [q |-> a, qPriority |-> b] \in BoundedQueues(S)
         /\ Size([q |-> a, qPriority |-> b]) = Len(a) + Len(b)
<1>1. [q |-> a, qPriority |-> b] \in Queues(S)
  BY DEF Queues
<1> QED
  BY <1>1 DEF BoundedQueues, Size

LEMMA LanesOfQueue ==
  ASSUME NEW S, NEW queue \in BoundedQueues(S)
  PROVE  /\ queue.q \in Seq(S) /\ Len(queue.q) <= QUEUE_MAX
         /\ queue.qPriority \in Seq(S) /\ Len(queue.qPriority) <= QUEUE_MAX
         /\ Len(queue.q) \in Nat /\ Len(queue.qPriority) \in Nat
         /\ queue = [q |-> queue.q, qPriority |-> queue.qPriority]
         /\ Size(queue) = Len(queue.q) + Len(queue.qPriority)
<1>1. /\ queue \in Queues(S)
      /\ Len(queue.q) <= QUEUE_MAX /\ Len(queue.qPriority) <= QUEUE_MAX
  BY DEF BoundedQueues
<1>2. /\ queue.q \in Seq(S) /\ queue.qPriority \in Seq(S)
      /\ queue = [q |-> queue.q, qPriority |-> queue.qPriority]
  BY <1>1 DEF Queues
<1>3. Len(queue.q) \in Nat /\ Len(queue.qPriority) \in Nat
  BY <1>2, LenProperties
<1>4. Size(queue) = Len(queue.q) + Len(queue.qPriority)
  BY DEF Size
<1> QED
  BY <1>1, <1>2, <1>3, <1>4

\* A push keeps a lane within QUEUE_MAX, and changes it by one entry at its
\* end or not at all.
LEMMA PushProperties ==
  ASSUME NEW S, NEW lane \in Seq(S), Len(lane) <= QUEUE_MAX, NEW x \in S
  PROVE  /\ Push(lane, x) \in Seq(S)
         /\ Len(Push(lane, x)) <= QUEUE_MAX
         /\ Push(lane, x) # lane => Len(Push(lane, x)) = Len(lane) + 1
<1>1. CASE Len(lane) >= QUEUE_MAX
  BY <1>1 DEF Push
<1>2. CASE ~(Len(lane) >= QUEUE_MAX)
  <2>1. Push(lane, x) = Append(lane, x)
    BY <1>2 DEF Push
  <2>2. /\ Append(lane, x) \in Seq(S)
        /\ Len(Append(lane, x)) = Len(lane) + 1
    BY AppendProperties
  <2>3. QUEUE_MAX \in Nat /\ Len(lane) \in Nat
    BY QueueMaxAssumption, LenProperties
  <2> QED
    BY <1>2, <2>1, <2>2, <2>3
<1> QED
  BY <1>1, <1>2

\* What an enqueue does to the lanes.
LEMMA EnqueueLanes ==
  ASSUME NEW S, NEW queue \in BoundedQueues(S), NEW x
  PROVE  /\ Enqueue(queue, x).q \in {queue.q, Append(queue.q, x)}
         /\ Enqueue(queue, x).qPriority = queue.qPriority
         /\ Enqueue(queue, x) # queue => Enqueue(queue, x).q = Append(queue.q, x)
         /\ EnqueuePriority(queue, x).q = queue.q
         /\ EnqueuePriority(queue, x).qPriority
              \in {queue.qPriority, Append(queue.qPriority, x)}
<1>1. queue = [q |-> queue.q, qPriority |-> queue.qPriority]
  BY LanesOfQueue
<1>2. Enqueue(queue, x) = [q |-> Push(queue.q, x), qPriority |-> queue.qPriority]
  BY <1>1 DEF Enqueue
<1>3. EnqueuePriority(queue, x) = [q |-> queue.q, qPriority |-> Push(queue.qPriority, x)]
  BY <1>1 DEF EnqueuePriority
<1>4. /\ Push(queue.q, x) \in {queue.q, Append(queue.q, x)}
      /\ Push(queue.qPriority, x) \in {queue.qPriority, Append(queue.qPriority, x)}
  BY DEF Push
<1> QED
  BY <1>1, <1>2, <1>3, <1>4

\* What a dequeue takes, and from which lane.
LEMMA DequeueLanes ==
  ASSUME NEW S, NEW queue \in BoundedQueues(S), ~IsEmpty(queue)
  PROVE  \/ /\ queue.qPriority # <<>>
            /\ First(queue) = Head(queue.qPriority)
            /\ Rest(queue).q = queue.q
            /\ Rest(queue).qPriority = Tail(queue.qPriority)
         \/ /\ queue.q # <<>> /\ queue.qPriority = <<>>
            /\ First(queue) = Head(queue.q)
            /\ Rest(queue).q = Tail(queue.q)
            /\ Rest(queue).qPriority = queue.qPriority
<1>1. queue = [q |-> queue.q, qPriority |-> queue.qPriority]
  BY LanesOfQueue
<1>2. CASE queue.qPriority # <<>>
  <2>1. Rest(queue) = [q |-> queue.q, qPriority |-> Tail(queue.qPriority)]
    BY <1>1, <1>2 DEF Rest
  <2> QED
    BY <1>2, <2>1 DEF First
<1>3. CASE queue.qPriority = <<>>
  <2>1. Rest(queue) = [q |-> Tail(queue.q), qPriority |-> queue.qPriority]
    BY <1>1, <1>3 DEF Rest
  <2> QED
    BY <1>3, <2>1 DEF First, IsEmpty
<1> QED
  BY <1>2, <1>3

\* An enqueue, on either lane, keeps a queue within its bounds; one that is not
\* dropped makes it exactly one entry longer.
LEMMA EnqueueProperties ==
  ASSUME NEW S, NEW queue \in BoundedQueues(S), NEW x \in S
  PROVE  \A pushed \in {Enqueue(queue, x), EnqueuePriority(queue, x)} :
            /\ pushed \in BoundedQueues(S)
            /\ pushed # queue => Size(pushed) = Size(queue) + 1
<1>1. /\ queue.q \in Seq(S) /\ Len(queue.q) <= QUEUE_MAX
      /\ queue.qPriority \in Seq(S) /\ Len(queue.qPriority) <= QUEUE_MAX
      /\ Size(queue) = Len(queue.q) + Len(queue.qPriority)
      /\ queue = [q |-> queue.q, qPriority |-> queue.qPriority]
  BY LanesOfQueue
<1>2. Len(queue.q) \in Nat /\ Len(queue.qPriority) \in Nat
  BY LanesOfQueue
<1>3. Enqueue(queue, x) = [q |-> Push(queue.q, x), qPriority |-> queue.qPriority]
  BY <1>1 DEF Enqueue
<1>4. EnqueuePriority(queue, x) = [q |-> queue.q, qPriority |-> Push(queue.qPriority, x)]
  BY <1>1 DEF EnqueuePriority
<1>5. /\ Push(queue.q, x) \in Seq(S)
      /\ Len(Push(queue.q, x)) <= QUEUE_MAX
      /\ Push(queue.q, x) # queue.q => Len(Push(queue.q, x)) = Len(queue.q) + 1
  BY <1>1, PushProperties
<1>6. /\ Push(queue.qPriority, x) \in Seq(S)
      /\ Len(Push(queue.qPriority, x)) <= QUEUE_MAX
      /\ Push(queue.qPriority, x) # queue.qPriority
            => Len(Push(queue.qPriority, x)) = Len(queue.qPriority) + 1
  BY <1>1, PushProperties
<1>7. /\ Enqueue(queue, x) \in BoundedQueues(S)
      /\ Enqueue(queue, x) # queue => Size(Enqueue(queue, x)) = Size(queue) + 1
  <2>1. /\ Enqueue(queue, x) \in BoundedQueues(S)
        /\ Size(Enqueue(queue, x)) = Len(Push(queue.q, x)) + Len(queue.qPriority)
    BY <1>1, <1>3, <1>5, QueueOfLanes
  <2>2. Enqueue(queue, x) # queue => Push(queue.q, x) # queue.q
    BY <1>1, <1>3
  <2>3. ASSUME Enqueue(queue, x) # queue
        PROVE  Size(Enqueue(queue, x)) = Size(queue) + 1
    <3>1. Len(Push(queue.q, x)) = Len(queue.q) + 1
      BY <2>2, <2>3, <1>5
    <3> QED
      BY <1>1, <1>2, <2>1, <3>1
  <2> QED
    BY <2>1, <2>3
<1>8. /\ EnqueuePriority(queue, x) \in BoundedQueues(S)
      /\ EnqueuePriority(queue, x) # queue
            => Size(EnqueuePriority(queue, x)) = Size(queue) + 1
  <2>1. /\ EnqueuePriority(queue, x) \in BoundedQueues(S)
        /\ Size(EnqueuePriority(queue, x)) = Len(queue.q) + Len(Push(queue.qPriority, x))
    BY <1>1, <1>4, <1>6, QueueOfLanes
  <2>2. EnqueuePriority(queue, x) # queue => Push(queue.qPriority, x) # queue.qPriority
    BY <1>1, <1>4
  <2>3. ASSUME EnqueuePriority(queue, x) # queue
        PROVE  Size(EnqueuePriority(queue, x)) = Size(queue) + 1
    <3>1. Len(Push(queue.qPriority, x)) = Len(queue.qPriority) + 1
      BY <2>2, <2>3, <1>6
    <3> QED
      BY <1>1, <1>2, <2>1, <3>1
  <2> QED
    BY <2>1, <2>3
<1> QED
  BY <1>7, <1>8

\* A dequeue returns an entry of the queue and leaves one entry less.
LEMMA DequeueProperties ==
  ASSUME NEW S, NEW queue \in BoundedQueues(S), ~IsEmpty(queue)
  PROVE  /\ First(queue) \in S
         /\ Rest(queue) \in BoundedQueues(S)
         /\ Size(Rest(queue)) = Size(queue) - 1
<1>1. /\ queue.q \in Seq(S) /\ Len(queue.q) <= QUEUE_MAX
      /\ queue.qPriority \in Seq(S) /\ Len(queue.qPriority) <= QUEUE_MAX
      /\ Size(queue) = Len(queue.q) + Len(queue.qPriority)
      /\ queue = [q |-> queue.q, qPriority |-> queue.qPriority]
  BY LanesOfQueue
<1>2. Len(queue.q) \in Nat /\ Len(queue.qPriority) \in Nat /\ QUEUE_MAX \in Nat
  BY <1>1, LenProperties, QueueMaxAssumption
<1>3. CASE queue.qPriority # <<>>
  <2>1. /\ Head(queue.qPriority) \in S
        /\ Tail(queue.qPriority) \in Seq(S)
        /\ Len(Tail(queue.qPriority)) = Len(queue.qPriority) - 1
    BY <1>1, <1>3, HeadTailProperties
  <2>2. Rest(queue) = [q |-> queue.q, qPriority |-> Tail(queue.qPriority)]
    BY <1>1, <1>3 DEF Rest
  <2>3. Len(Tail(queue.qPriority)) <= QUEUE_MAX
    BY <1>1, <1>2, <2>1
  <2>4. /\ Rest(queue) \in BoundedQueues(S)
        /\ Size(Rest(queue)) = Len(queue.q) + Len(Tail(queue.qPriority))
    BY <1>1, <2>1, <2>2, <2>3, QueueOfLanes
  <2>5. First(queue) \in S
    BY <1>3, <2>1 DEF First
  <2>6. Size(Rest(queue)) = Size(queue) - 1
    BY <1>1, <1>2, <2>1, <2>4
  <2> QED
    BY <2>4, <2>5, <2>6
<1>4. CASE queue.qPriority = <<>>
  <2>0. queue.q # <<>>
    BY <1>4 DEF IsEmpty
  <2>1. /\ Head(queue.q) \in S
        /\ Tail(queue.q) \in Seq(S)
        /\ Len(Tail(queue.q)) = Len(queue.q) - 1
    BY <1>1, <2>0, HeadTailProperties
  <2>2. Rest(queue) = [q |-> Tail(queue.q), qPriority |-> queue.qPriority]
    BY <1>1, <1>4 DEF Rest
  <2>3. Len(Tail(queue.q)) <= QUEUE_MAX
    BY <1>1, <1>2, <2>1
  <2>4. /\ Rest(queue) \in BoundedQueues(S)
        /\ Size(Rest(queue)) = Len(Tail(queue.q)) + Len(queue.qPriority)
    BY <1>1, <2>1, <2>2, <2>3, QueueOfLanes
  <2>5. First(queue) \in S
    BY <1>4, <2>1 DEF First
  <2>6. Size(Rest(queue)) = Size(queue) - 1
    BY <1>1, <1>2, <2>1, <2>4
  <2> QED
    BY <2>4, <2>5, <2>6
<1> QED
  BY <1>3, <1>4

\* The size of a queue is a natural number, zero exactly when it is empty.
LEMMA SizeProperties ==
  ASSUME NEW S, NEW queue \in BoundedQueues(S)
  PROVE  /\ Size(queue) \in Nat
         /\ IsEmpty(queue) <=> Size(queue) = 0
<1>1. /\ queue.q \in Seq(S) /\ queue.qPriority \in Seq(S)
      /\ Len(queue.q) \in Nat /\ Len(queue.qPriority) \in Nat
      /\ Size(queue) = Len(queue.q) + Len(queue.qPriority)
  BY LanesOfQueue
<1>2. /\ queue.q = <<>> <=> Len(queue.q) = 0
      /\ queue.qPriority = <<>> <=> Len(queue.qPriority) = 0
  BY <1>1, EmptySeq
<1>3. IsEmpty(queue) <=> Len(queue.q) = 0 /\ Len(queue.qPriority) = 0
  BY <1>2 DEF IsEmpty
<1>4. ASSUME NEW m \in Nat, NEW n \in Nat
      PROVE  m + n \in Nat /\ (m + n = 0 <=> (m = 0 /\ n = 0))
  OBVIOUS
<1>5. Len(queue.q) \in Nat /\ Len(queue.qPriority) \in Nat
  BY <1>1
<1>6. /\ Len(queue.q) + Len(queue.qPriority) \in Nat
      /\ Len(queue.q) + Len(queue.qPriority) = 0
            <=> (Len(queue.q) = 0 /\ Len(queue.qPriority) = 0)
  BY <1>4, <1>5
<1>7. Size(queue) = Len(queue.q) + Len(queue.qPriority)
  BY <1>1
<1> QED
  BY <1>3, <1>6, <1>7, Zenon
==============================================================================
