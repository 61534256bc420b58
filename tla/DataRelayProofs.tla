--------------------------- MODULE DataRelayProofs ---------------------------
(***************************************************************************)
(* Theorems about DataRelay, for every bound of the queue's lanes, every    *)
(* number of packets, with and without injectors and filters: the relay     *)
(* preserves the order of what it relays, accounts for every packet,        *)
(* filters zero-length packets as its comment says, and implements the      *)
(* channel of RelayContract.                                                *)
(***************************************************************************)
EXTENDS DataRelay, PacketQueueProofs

------------------------------------------------------------------------------
(* Numbers and Ascending of the sequences the relay's steps build.          *)

\* A packet's number is a natural number within the bound.
LEMMA PacketFields ==
  ASSUME NEW p \in Packet
  PROVE  /\ p.id \in Nat /\ p.id <= MaxReceived
         /\ p.kind \in {"zlp", "data", "injected", "null"}
<1>1. MaxReceived \in Nat
  BY BoundsAssumption
<1>2. p.id \in 0..MaxReceived /\ p.kind \in {"zlp", "data", "injected", "null"}
  BY DEF Packet
<1> QED
  BY <1>1, <1>2

\* The members of Numbers(s), and where they stand in s.
LEMMA NumbersMembers ==
  ASSUME NEW s \in Seq(Packet)
  PROVE  /\ Numbers(s) \subseteq 1..MaxReceived
         /\ \A i \in 1..Len(s) : s[i].id # 0 => s[i].id \in Numbers(s)
         /\ \A n \in Numbers(s) : n # 0 /\ \E i \in 1..Len(s) : s[i].id = n
<1>1. \A i \in 1..Len(s) : s[i].id \in Nat /\ s[i].id <= MaxReceived
  BY ElementOfSeq, PacketFields
<1>2. MaxReceived \in Nat
  BY BoundsAssumption
<1> QED
  BY <1>1, <1>2 DEF Numbers

LEMMA NumbersOfNone == Numbers(<<>>) = {} /\ Ascending(<<>>)
BY DEF Numbers, Ascending

LEMMA NumbersOfOne ==
  ASSUME NEW p \in Packet
  PROVE  Numbers(<<p>>) = {p.id} \ {0} /\ Ascending(<<p>>)
<1>1. Len(<<p>>) = 1 /\ <<p>>[1] = p
  OBVIOUS
<1>2. 1..1 = {1}
  OBVIOUS
<1>3. Numbers(<<p>>) = {p.id} \ {0}
  BY <1>1, <1>2 DEF Numbers
<1>4. Ascending(<<p>>)
  BY <1>1 DEF Ascending
<1> QED
  BY <1>3, <1>4

\* Joining two sequences joins their numbers; the result ascends if both do and
\* no number of the second is below one of the first.
Before(A, B) == \A m \in A, n \in B : m < n

LEMMA NumbersOfConcat ==
  ASSUME NEW s \in Seq(Packet), NEW t \in Seq(Packet)
  PROVE  /\ Numbers(s \o t) = Numbers(s) \cup Numbers(t)
         /\ Ascending(s) /\ Ascending(t) /\ Before(Numbers(s), Numbers(t))
               => Ascending(s \o t)
<1> DEFINE st == s \o t
<1>1. /\ st \in Seq(Packet)
      /\ Len(st) = Len(s) + Len(t)
      /\ \A i \in 1..(Len(s) + Len(t)) :
            st[i] = IF i <= Len(s) THEN s[i] ELSE t[i - Len(s)]
  BY ConcatProperties
<1>2. Len(s) \in Nat /\ Len(t) \in Nat
  BY LenProperties
<1> HIDE DEF st
<1>3. \A i \in 1..Len(s) : i \in 1..Len(st) /\ st[i] = s[i]
  BY <1>1, <1>2
<1>4. \A i \in 1..Len(t) : /\ (i + Len(s)) \in 1..Len(st)
                           /\ st[i + Len(s)] = t[i]
  BY <1>1, <1>2
<1>5. \A i \in 1..Len(st) : \/ i \in 1..Len(s)
                            \/ i - Len(s) \in 1..Len(t) /\ st[i] = t[i - Len(s)]
  BY <1>1, <1>2
<1>6. Numbers(st) = Numbers(s) \cup Numbers(t)
  <2>1. Numbers(st) \subseteq Numbers(s) \cup Numbers(t)
    BY <1>3, <1>5 DEF Numbers
  <2>2. Numbers(s) \subseteq Numbers(st)
    BY <1>3 DEF Numbers
  <2>3. Numbers(t) \subseteq Numbers(st)
    <3> SUFFICES ASSUME NEW i \in 1..Len(t), t[i].id # 0
                 PROVE  t[i].id \in Numbers(st)
      BY DEF Numbers
    <3>1. (i + Len(s)) \in 1..Len(st) /\ st[i + Len(s)].id = t[i].id
      BY <1>4
    <3> QED
      BY <3>1, <1>1, NumbersMembers
  <2> QED
    BY <2>1, <2>2, <2>3
<1>7. ASSUME Ascending(s), Ascending(t), Before(Numbers(s), Numbers(t))
      PROVE  Ascending(st)
  <2> SUFFICES ASSUME NEW i \in 1..Len(st), NEW j \in 1..Len(st),
                      i < j, st[i].id # 0, st[j].id # 0
               PROVE  st[i].id < st[j].id
    BY DEF Ascending
  <2>1. CASE j \in 1..Len(s)
    <3>1. i \in 1..Len(s)
      BY <1>1, <1>2, <2>1
    <3>2. st[i] = s[i] /\ st[j] = s[j]
      BY <1>3, <2>1, <3>1
    <3> QED
      BY <1>7, <2>1, <3>1, <3>2 DEF Ascending
  <2>2. CASE i \in 1..Len(s) /\ j \notin 1..Len(s)
    <3>1. j - Len(s) \in 1..Len(t) /\ st[j] = t[j - Len(s)] /\ st[i] = s[i]
      BY <1>3, <1>5, <2>2
    <3>2. st[i].id \in Numbers(s) /\ st[j].id \in Numbers(t)
      BY <2>2, <3>1, NumbersMembers
    <3> QED
      BY <1>7, <3>2 DEF Before
  <2>3. CASE i \notin 1..Len(s) /\ j \notin 1..Len(s)
    <3>1. /\ j - Len(s) \in 1..Len(t) /\ st[j] = t[j - Len(s)]
          /\ i - Len(s) \in 1..Len(t) /\ st[i] = t[i - Len(s)]
      BY <1>5, <2>3
    <3>2. i - Len(s) < j - Len(s)
      BY <1>1, <1>2
    <3> QED
      BY <1>7, <3>1, <3>2 DEF Ascending
  <2> QED
    BY <2>1, <2>2, <2>3
<1> QED
  BY <1>6, <1>7 DEF st

LEMMA NumbersOfAppend ==
  ASSUME NEW s \in Seq(Packet), NEW p \in Packet
  PROVE  /\ Numbers(Append(s, p)) = Numbers(s) \cup ({p.id} \ {0})
         /\ Ascending(s) /\ Before(Numbers(s), {p.id} \ {0}) => Ascending(Append(s, p))
<1>1. Append(s, p) = s \o <<p>>
  BY AppendIsConcat
<1>2. <<p>> \in Seq(Packet)
  OBVIOUS
<1>3. Numbers(<<p>>) = {p.id} \ {0} /\ Ascending(<<p>>)
  BY NumbersOfOne
<1> QED
  BY <1>1, <1>2, <1>3, NumbersOfConcat

\* The head of an ascending sequence has the least number, and is not among
\* those of the tail.
LEMMA NumbersOfTail ==
  ASSUME NEW s \in Seq(Packet), s # <<>>
  PROVE  /\ Numbers(s) = ({Head(s).id} \ {0}) \cup Numbers(Tail(s))
         /\ Ascending(s) => /\ Ascending(Tail(s))
                            /\ Before({Head(s).id} \ {0}, Numbers(Tail(s)))
<1> DEFINE t == Tail(s)
<1>1. /\ t \in Seq(Packet) /\ Len(t) = Len(s) - 1
      /\ \A i \in 1..Len(t) : t[i] = s[i + 1]
      /\ Head(s) = s[1] /\ Head(s) \in Packet
  BY HeadTailProperties
<1>2. Len(s) \in Nat \ {0}
  BY EmptySeq, LenProperties
<1> HIDE DEF t
<1>3. \A i \in 1..Len(t) : (i + 1) \in 1..Len(s) /\ t[i] = s[i + 1]
  BY <1>1, <1>2
<1>4. 1 \in 1..Len(s)
  BY <1>2
<1>5. \A i \in 1..Len(s) : i # 1 => i - 1 \in 1..Len(t) /\ s[i] = t[i - 1]
  BY <1>1, <1>2
<1>6. Numbers(s) = ({Head(s).id} \ {0}) \cup Numbers(t)
  <2>1. Numbers(s) \subseteq ({Head(s).id} \ {0}) \cup Numbers(t)
    <3> SUFFICES ASSUME NEW i \in 1..Len(s), s[i].id # 0, i # 1
                 PROVE  s[i].id \in Numbers(t)
      BY <1>1 DEF Numbers
    <3>1. i - 1 \in 1..Len(t) /\ s[i] = t[i - 1]
      BY <1>5
    <3> QED
      BY <1>1, <3>1, NumbersMembers
  <2>2. {Head(s).id} \ {0} \subseteq Numbers(s)
    BY <1>1, <1>4, NumbersMembers
  <2>3. Numbers(t) \subseteq Numbers(s)
    <3> SUFFICES ASSUME NEW i \in 1..Len(t), t[i].id # 0
                 PROVE  t[i].id \in Numbers(s)
      BY DEF Numbers
    <3>1. (i + 1) \in 1..Len(s) /\ t[i].id = s[i + 1].id
      BY <1>3
    <3> QED
      BY <3>1, NumbersMembers
  <2> QED
    BY <2>1, <2>2, <2>3
<1>7. ASSUME Ascending(s)
      PROVE  Ascending(t) /\ Before({Head(s).id} \ {0}, Numbers(t))
  <2>1. \A i, j \in 1..Len(t) : i < j => i + 1 < j + 1
    BY <1>1, <1>2
  <2>2. Ascending(t)
    BY <1>3, <1>7, <2>1 DEF Ascending
  <2>3. ASSUME NEW n \in Numbers(t), Head(s).id # 0
        PROVE  Head(s).id < n
    <3>1. PICK i \in 1..Len(t) : t[i].id = n /\ n # 0
      BY <1>1, NumbersMembers
    <3>2. (i + 1) \in 1..Len(s) /\ s[i + 1].id = n /\ 1 < i + 1
      BY <1>2, <1>3, <3>1
    <3> QED
      BY <1>1, <1>4, <1>7, <2>3, <3>1, <3>2 DEF Ascending
  <2> QED
    BY <2>2, <2>3 DEF Before
<1> QED
  BY <1>6, <1>7 DEF t
------------------------------------------------------------------------------
(* The inductive invariant.                                                 *)

\* A packet with a number is of the kind that was received under that number.
Faithful(p, kinds) == IF p.id = 0 THEN p.kind \in {"injected", "null"}
                      ELSE p.id <= Len(kinds) /\ p.kind = kinds[p.id]

\* How many packets the reader is through with.
Passed == IF rpc \in {"test", "push"} THEN Len(received) - 1 ELSE Len(received)

LastIsZlp == queue.q # <<>> /\ queue.q[Len(queue.q)].kind = "zlp"

\* The priority lane holds no packet of the reader's.
Marked == /\ \A i \in 1..Len(queue.q) : Faithful(queue.q[i], received)
          /\ \A i \in 1..Len(queue.qPriority) : queue.qPriority[i].id = 0
          /\ rpc \in {"test", "push"} => Len(received) > 0
          /\ rpc = "test" => Latest.kind = "zlp"

\* What is sent came before what the writer holds, that before the queue, and
\* the queue before what the reader holds; together with the lost packets these
\* are all.
Flow == /\ Ascending(sent) /\ Ascending(queue.q)
        /\ Before(Numbers(sent), InTransit)
        /\ Before(Numbers(Held), Numbers(queue.q) \cup Numbers(InHand))
        /\ Before(Numbers(queue.q), Numbers(InHand))
        /\ 1..Len(received) = Numbers(sent) \cup InTransit \cup Lost

\* zlpCount tells whether the last packet the reader is through with was a ZLP.
\* A longer one stands between the queue and the next ZLP, or was lost to a
\* full queue.
Counted == rpc # "done" =>
    /\ zlpCount <= Passed
    /\ zlpCount # 0 => Passed > 0 /\ received[Passed] = "zlp"
    /\ zlpCount = 0 /\ Passed > 0 =>
         /\ received[Passed] = "data"
         /\ LastIsZlp => [id |-> Passed, why |-> "full"] \in dropped
    /\ rpc = "push" /\ zlpCount # 0 /\ Latest.kind = "zlp" => ~LastIsZlp

IInv == TypeOK /\ Marked /\ Flow /\ Counted /\ NoZlpFlood /\ TransferEndPassed

LEMMA TypeFacts ==
  ASSUME TypeOK
  PROVE  /\ queue \in BoundedQueues(Packet)
         /\ queue.q \in Seq(Packet) /\ queue.qPriority \in Seq(Packet)
         /\ Len(queue.q) \in Nat /\ Len(queue.qPriority) \in Nat
         /\ Len(received) \in Nat /\ Len(received) <= MaxReceived
         /\ MaxReceived \in Nat
         /\ \A n \in 1..Len(received) : received[n] \in {"zlp", "data"}
         /\ zlpCount \in Nat
<1>1. queue \in BoundedQueues(Packet)
  BY DEF TypeOK, BoundedQueues
<1>2. /\ queue.q \in Seq(Packet) /\ queue.qPriority \in Seq(Packet)
      /\ Len(queue.q) \in Nat /\ Len(queue.qPriority) \in Nat
  BY <1>1, LanesOfQueue
<1>3. received \in Seq({"zlp", "data"}) /\ Len(received) <= MaxReceived
  BY DEF TypeOK
<1>4. Len(received) \in Nat /\ \A n \in 1..Len(received) : received[n] \in {"zlp", "data"}
  BY <1>3, LenProperties, ElementOfSeq
<1>5. MaxReceived \in Nat
  BY BoundsAssumption
<1>6. zlpCount \in Nat
  BY <1>5 DEF TypeOK
<1> QED
  BY <1>1, <1>2, <1>3, <1>4, <1>5, <1>6

\* The packet in the reader's hands is the latest of the received ones.
LEMMA LatestFacts ==
  ASSUME TypeOK, Len(received) > 0
  PROVE  /\ Latest \in Packet
         /\ Latest.id = Len(received)
         /\ Latest.kind = received[Len(received)]
         /\ Latest.kind \in {"zlp", "data"}
         /\ Len(received) \in 1..Len(received)
<1>1. /\ Len(received) \in 1..Len(received) /\ Len(received) \in 0..MaxReceived
      /\ received[Len(received)] \in {"zlp", "data"}
  BY TypeFacts
<1> QED
  BY <1>1 DEF Latest, Packet

LEMMA ConstantPackets == NullPacket \in Packet /\ InjectedPacket \in Packet
<1>1. 0 \in 0..MaxReceived
  BY BoundsAssumption
<1> QED
  BY <1>1 DEF NullPacket, InjectedPacket, Packet
------------------------------------------------------------------------------
(* TypeOK.                                                                  *)

Reasons == [id : 0..MaxReceived, why : {"stop", "zlp", "full", "filter"}]

\* The parts of TypeOK, one for each thread and one for the history.
QueueTyped == queue \in BoundedQueues(Packet)
ReaderTyped == /\ rpc \in {"loop", "receive", "test", "push", "done"}
               /\ zlpCount \in 0..MaxReceived /\ rstop \in BOOLEAN
WriterTyped == /\ wpc \in {"loop", "dequeue", "filter", "wait", "done"}
               /\ wp \in Packet /\ writing \in BOOLEAN /\ wstop \in BOOLEAN
HistoryTyped == /\ received \in Seq({"zlp", "data"}) /\ Len(received) <= MaxReceived
                /\ sent \in Seq(Packet)
                /\ dropped \subseteq Reasons

LEMMA TypeParts ==
  /\ TypeOK <=> /\ QueueTyped /\ ReaderTyped /\ WriterTyped /\ HistoryTyped
                /\ stopping \in 0..3 /\ injected \in 0..MaxInjected
  /\ TypeOK' <=> /\ QueueTyped' /\ ReaderTyped' /\ WriterTyped' /\ HistoryTyped'
                 /\ stopping' \in 0..3 /\ injected' \in 0..MaxInjected
BY DEF TypeOK, QueueTyped, BoundedQueues, ReaderTyped, WriterTyped, HistoryTyped, Reasons

LEMMA TypeInitially == Init => TypeOK
<1> SUFFICES ASSUME Init PROVE TypeOK
  OBVIOUS
<1>1. 0 \in 0..MaxReceived /\ 0 \in 0..MaxInjected
  BY BoundsAssumption
<1>2. QueueTyped
  <2>1. <<>> \in Seq(Packet) /\ Len(<<>>) <= QUEUE_MAX
    BY QueueMaxAssumption
  <2> QED
    BY <2>1, QueueOfLanes DEF Init, EmptyQueue, QueueTyped
<1>3. ReaderTyped
  BY <1>1 DEF Init, ReaderTyped
<1>4. WriterTyped
  BY ConstantPackets DEF Init, WriterTyped
<1>5. HistoryTyped
  BY <1>1, BoundsAssumption DEF Init, HistoryTyped
<1>6. stopping \in 0..3 /\ injected \in 0..MaxInjected
  BY <1>1 DEF Init
<1> QED
  BY <1>2, <1>3, <1>4, <1>5, <1>6, TypeParts

\* The reader's steps keep the types; the counter is bounded because it never
\* exceeds the number of packets the reader is through with.
LEMMA ReaderKeepsTypes ==
  ASSUME TypeOK, Marked, Counted, ReaderReceive \/ ReaderOther
  PROVE  TypeOK'
<1>1. /\ QueueTyped /\ ReaderTyped /\ WriterTyped /\ HistoryTyped
      /\ stopping \in 0..3 /\ injected \in 0..MaxInjected
  BY TypeParts
<1>2. WriterTyped' /\ stopping' \in 0..3 /\ injected' \in 0..MaxInjected
  <2>1. UNCHANGED <<writerVars, stopping, injected>>
    BY DEF ReaderReceive, ReaderOther, ReaderNothing, ReaderPacket, ReaderLoop,
           ReaderTest, ReaderPush
  <2> QED
    BY <1>1, <2>1 DEF writerVars, WriterTyped
<1>3. rstop' = FALSE \/ rstop' = rstop
  BY DEF ReaderReceive, ReaderOther, ReaderNothing, ReaderPacket, ReaderLoop,
         ReaderTest, ReaderPush, ReaderDone, ReaderGoto
<1>4. rpc' \in {"loop", "receive", "test", "push", "done"}
  BY DEF ReaderReceive, ReaderOther, ReaderNothing, ReaderPacket, ReaderLoop,
         ReaderTest, ReaderPush, ReaderDone, ReaderGoto
<1>5. rstop' \in BOOLEAN
  <2>1. rstop \in BOOLEAN
    BY <1>1 DEF ReaderTyped
  <2> QED
    BY <1>3, <2>1
<1>6. CASE ReaderLoop \/ ReaderNothing
  <2>1. UNCHANGED <<queue, zlpCount, received, sent, dropped>>
    BY <1>6 DEF ReaderLoop, ReaderNothing
  <2> QED
    BY <1>1, <1>2, <1>4, <1>5, <2>1, TypeParts DEF QueueTyped, ReaderTyped, HistoryTyped
<1>7. ASSUME NEW kind \in {"zlp", "data"}, ReaderPacket(kind)
      PROVE  TypeOK'
  <2>1. /\ UNCHANGED <<queue, zlpCount, sent>>
        /\ received' = Append(received, kind) /\ Len(received) < MaxReceived
        /\ \/ dropped' = dropped
           \/ dropped' = dropped \cup {[id |-> Len(received) + 1, why |-> "stop"]}
    BY <1>7 DEF ReaderPacket, Drop
  <2>2. /\ received \in Seq({"zlp", "data"}) /\ Len(received) \in Nat
        /\ Len(received) + 1 \in 0..MaxReceived
    <3>1. Len(received) \in Nat /\ MaxReceived \in Nat
      BY TypeFacts
    <3> QED
      BY <1>1, <2>1, <3>1 DEF HistoryTyped
  <2>3. /\ Append(received, kind) \in Seq({"zlp", "data"})
        /\ Len(Append(received, kind)) = Len(received) + 1
    BY <2>2, AppendProperties
  <2>4. received' \in Seq({"zlp", "data"}) /\ Len(received') <= MaxReceived
    BY <2>1, <2>2, <2>3, BoundsAssumption
  <2>5. dropped' \subseteq Reasons
    BY <1>1, <2>1, <2>2 DEF HistoryTyped, Reasons
  <2> QED
    BY <1>1, <1>2, <1>4, <1>5, <2>1, <2>4, <2>5, TypeParts
    DEF QueueTyped, ReaderTyped, HistoryTyped
<1>8. CASE rpc \in {"test", "push"}
  <2>1. /\ Latest \in Packet /\ Latest.id \in 0..MaxReceived
        /\ zlpCount + 1 \in 0..MaxReceived /\ 0 \in 0..MaxReceived
        /\ zlpCount \in 0..MaxReceived
    <3>1. /\ Len(received) \in Nat /\ MaxReceived \in Nat /\ zlpCount \in Nat
          /\ Len(received) <= MaxReceived
      BY TypeFacts
    <3>2. Len(received) > 0
      BY <1>8 DEF Marked
    <3>3. zlpCount <= Len(received) - 1
      BY <1>8 DEF Counted, Passed
    <3>4. Latest \in Packet /\ Latest.id \in 0..MaxReceived
      BY <3>1, <3>2, LatestFacts
    <3> QED
      BY <3>1, <3>2, <3>3, <3>4
  <2>2. /\ UNCHANGED <<received, sent>>
        /\ zlpCount' \in {zlpCount, zlpCount + 1, 0}
        /\ queue' \in {queue, Enqueue(queue, Latest)}
        /\ dropped' \in {dropped} \cup {dropped \cup {[id |-> Latest.id, why |-> w]} :
                                           w \in {"zlp", "full"}}
    BY <1>8 DEF ReaderReceive, ReaderOther, ReaderNothing, ReaderPacket, ReaderLoop,
                ReaderTest, ReaderPush, Drop
  <2>3. zlpCount' \in 0..MaxReceived
    BY <2>1, <2>2
  <2>4. queue' \in BoundedQueues(Packet)
    BY <1>1, <2>1, <2>2, EnqueueProperties DEF QueueTyped
  <2>5. dropped' \subseteq Reasons
    BY <1>1, <2>1, <2>2 DEF HistoryTyped, Reasons
  <2> QED
    BY <1>1, <1>2, <1>4, <1>5, <2>2, <2>3, <2>4, <2>5, TypeParts
    DEF QueueTyped, ReaderTyped, HistoryTyped
<1>9. ReaderTest \/ ReaderPush => rpc \in {"test", "push"}
  BY DEF ReaderTest, ReaderPush
<1> QED
  BY <1>6, <1>7, <1>8, <1>9 DEF ReaderReceive, ReaderOther

LEMMA WriterKeepsTypes ==
  ASSUME TypeOK, Writer
  PROVE  TypeOK'
<1>1. /\ QueueTyped /\ ReaderTyped /\ WriterTyped /\ HistoryTyped
      /\ stopping \in 0..3 /\ injected \in 0..MaxInjected
  BY TypeParts
<1>2. UNCHANGED <<readerVars, stopping, received, injected>>
  BY DEF Writer, WriterLoop, WriterDequeue, WriterSend, WriterWait
<1>3. /\ wpc' \in {"loop", "dequeue", "filter", "wait", "done"}
      /\ wstop' = FALSE \/ wstop' = wstop
      /\ writing' = writing \/ writing' = TRUE \/ writing' = FALSE
  BY DEF Writer, WriterLoop, WriterDequeue, WriterSend, WriterWait, WriterGoto, WriterDone
<1>4. wstop' \in BOOLEAN /\ writing' \in BOOLEAN
  <2>1. wstop \in BOOLEAN /\ writing \in BOOLEAN
    BY <1>1 DEF WriterTyped
  <2> QED
    BY <1>3, <2>1
<1>5. wp \in Packet /\ NullPacket \in Packet /\ wp.id \in 0..MaxReceived
  BY <1>1, ConstantPackets DEF WriterTyped, Packet
<1>6. SUFFICES /\ queue' \in BoundedQueues(Packet)
               /\ wp' \in Packet
               /\ sent' \in Seq(Packet)
               /\ dropped' \subseteq Reasons
  BY <1>1, <1>2, <1>3, <1>4, TypeParts
  DEF QueueTyped, ReaderTyped, WriterTyped, HistoryTyped, readerVars
<1>7. queue \in BoundedQueues(Packet) /\ sent \in Seq(Packet) /\ dropped \subseteq Reasons
  BY <1>1 DEF QueueTyped, HistoryTyped
<1>8. CASE WriterLoop \/ \E complete \in BOOLEAN : WriterWait(complete)
  <2>1. UNCHANGED <<queue, sent, dropped>> /\ (wp' = wp \/ wp' = NullPacket)
    BY <1>8 DEF WriterLoop, WriterWait, WriterDone
  <2> QED
    BY <1>5, <1>7, <2>1
<1>9. CASE WriterDequeue
  <2>1. /\ ~IsEmpty(queue) /\ queue' = Rest(queue) /\ sent' = sent
        /\ wp' \in {wp, NullPacket, First(queue)}
        /\ \/ dropped' = dropped
           \/ dropped' = dropped \cup {[id |-> First(queue).id, why |-> "stop"]}
    BY <1>9 DEF WriterDequeue, WriterDone, Drop
  <2>2. First(queue) \in Packet /\ Rest(queue) \in BoundedQueues(Packet)
    BY <1>7, <2>1, DequeueProperties
  <2>3. First(queue).id \in 0..MaxReceived
    BY <2>2 DEF Packet
  <2> QED
    BY <1>5, <1>7, <2>1, <2>2, <2>3 DEF Reasons
<1>10. ASSUME NEW drop \in {FALSE, FilterDrops}, WriterSend(drop)
       PROVE  /\ queue' \in BoundedQueues(Packet)
              /\ wp' \in Packet
              /\ sent' \in Seq(Packet)
              /\ dropped' \subseteq Reasons
  <2>1. /\ queue' = queue /\ wp' = NullPacket
        /\ sent' = sent \/ sent' = Append(sent, wp)
        /\ \/ dropped' = dropped
           \/ \E why \in {"stop", "filter"} :
                 dropped' = dropped \cup {[id |-> wp.id, why |-> why]}
    BY <1>10 DEF WriterSend, WriterDone, Drop
  <2>2. Append(sent, wp) \in Seq(Packet)
    BY <1>5, <1>7, AppendProperties
  <2> QED
    BY <1>5, <1>7, <2>1, <2>2 DEF Reasons
<1> QED
  BY <1>8, <1>9, <1>10 DEF Writer

LEMMA OthersKeepTypes ==
  ASSUME TypeOK, Inject \/ Stop
  PROVE  TypeOK'
<1>1. /\ QueueTyped /\ ReaderTyped /\ WriterTyped /\ HistoryTyped
      /\ stopping \in 0..3 /\ injected \in 0..MaxInjected
  BY TypeParts
<1>2. UNCHANGED <<rpc, zlpCount, wpc, wp, writing, received, sent, dropped>>
  BY DEF Inject, Stop, SetReaderFlag, SetWriterFlag, WakeWriter, StopStep,
         readerVars, writerVars
<1>3. rstop' \in BOOLEAN /\ wstop' \in BOOLEAN
  <2>1. rstop \in BOOLEAN /\ wstop \in BOOLEAN
    BY <1>1 DEF ReaderTyped, WriterTyped
  <2>2. (rstop' = rstop \/ rstop' = TRUE) /\ (wstop' = wstop \/ wstop' = TRUE)
    BY DEF Inject, Stop, SetReaderFlag, SetWriterFlag, WakeWriter, readerVars, writerVars
  <2> QED
    BY <2>1, <2>2
<1>4. stopping' \in 0..3 /\ injected' \in 0..MaxInjected
  <2>1. \/ stopping' = stopping /\ injected < MaxInjected /\ injected' = injected + 1
        \/ stopping \in 0..2 /\ stopping' = stopping + 1 /\ injected' = injected
    BY DEF Inject, Stop, SetReaderFlag, SetWriterFlag, WakeWriter, StopStep
  <2> QED
    BY <1>1, <2>1, BoundsAssumption
<1>5. queue' \in BoundedQueues(Packet)
  <2>1. queue' \in {queue, Enqueue(queue, NullPacket), EnqueuePriority(queue, InjectedPacket)}
    BY DEF Inject, Stop, SetReaderFlag, SetWriterFlag, WakeWriter
  <2>2. queue \in BoundedQueues(Packet)
    BY <1>1 DEF QueueTyped
  <2> QED
    BY <2>1, <2>2, ConstantPackets, EnqueueProperties
<1>6. QueueTyped' /\ ReaderTyped'
  BY <1>1, <1>2, <1>3, <1>5 DEF QueueTyped, ReaderTyped
<1>7. WriterTyped' /\ HistoryTyped'
  BY <1>1, <1>2, <1>3 DEF WriterTyped, HistoryTyped
<1> QED
  BY <1>4, <1>6, <1>7, TypeParts
------------------------------------------------------------------------------
(* Flow, and with it the steps of RelayContract.                            *)

\* The numbers in the writer's and in the reader's hands.
LEMMA HeldNumbers ==
  /\ TypeOK => Numbers(Held) = IF wpc = "filter" THEN {wp.id} \ {0} ELSE {}
  /\ TypeOK' => Numbers(Held)' = IF wpc' = "filter" THEN {wp'.id} \ {0} ELSE {}
<1>1. TypeOK => wp \in Packet
  BY DEF TypeOK
<1>2. TypeOK' => wp' \in Packet
  BY DEF TypeOK
<1> QED
  BY <1>1, <1>2, NumbersOfNone, NumbersOfOne DEF Held

LEMMA InHandNumbers ==
  ASSUME TypeOK, Marked
  PROVE  /\ rpc \in {"test", "push"} => Numbers(InHand) = {Len(received)}
         /\ rpc \notin {"test", "push"} => Numbers(InHand) = {}
<1>1. CASE rpc \in {"test", "push"}
  <2>1. Latest \in Packet /\ Latest.id = Len(received) /\ Len(received) # 0
    BY <1>1, LatestFacts DEF Marked
  <2> QED
    BY <1>1, <2>1, NumbersOfOne DEF InHand
<1>2. CASE rpc \notin {"test", "push"}
  BY <1>2, NumbersOfNone DEF InHand
<1> QED
  BY <1>1, <1>2

LEMMA LostGrows ==
  ASSUME NEW p, NEW why, Drop(p, why)
  PROVE  Lost' = Lost \cup ({p.id} \ {0})
<1> DEFINE r == [id |-> p.id, why |-> why]
<1>1. r.id = p.id /\ dropped' = dropped \cup {r}
  BY DEF Drop
<1> HIDE DEF r
<1>2. Lost' = { d.id : d \in dropped' } \ {0}
  BY DEF Lost
<1> QED
  BY <1>1, <1>2 DEF Lost

\* The part of Flow that is about sets of numbers: s sent, h with the writer,
\* q queued, r with the reader, l lost, of n packets.
Parts(n, s, h, q, r, l) == /\ Before(s, h \cup q \cup r)
                           /\ Before(h, q \cup r)
                           /\ Before(q, r)
                           /\ 1..n = s \cup h \cup q \cup r \cup l

LEMMA FlowParts ==
  /\ Flow <=> /\ Ascending(sent) /\ Ascending(queue.q)
              /\ Parts(Len(received), Numbers(sent), Numbers(Held), Numbers(queue.q),
                       Numbers(InHand), Lost)
  /\ Flow' <=> /\ Ascending(sent') /\ Ascending(queue'.q)
               /\ Parts(Len(received'), Numbers(sent'), Numbers(Held)', Numbers(queue'.q),
                        Numbers(InHand)', Lost')
BY DEF Flow, Parts, InTransit

ChannelStep == [Contract!Next]_(Contract!channelVars)

\* A step that moves no packet.
LEMMA NothingMoves ==
  ASSUME Flow, UNCHANGED <<received, sent, dropped>>,
         Numbers(queue'.q) = Numbers(queue.q), Ascending(queue'.q),
         Numbers(Held)' = Numbers(Held), Numbers(InHand)' = Numbers(InHand)
  PROVE  Flow' /\ ChannelStep
<1>1. Lost' = Lost
  BY DEF Lost
<1>2. Flow'
  BY <1>1, FlowParts
<1>3. InTransit' = InTransit
  BY DEF InTransit
<1> QED
  BY <1>1, <1>2, <1>3 DEF ChannelStep, Contract!channelVars

\* The reader receives a packet: it has a number higher than all before.
LEMMA ArrivalFlows ==
  ASSUME IInv, TypeOK', Marked', NEW kind \in {"zlp", "data"}, ReaderPacket(kind)
  PROVE  Flow' /\ ChannelStep
<1> DEFINE n == Len(received)
<1>0. TypeOK /\ Marked /\ Flow
  BY DEF IInv
<1>1. /\ n \in Nat /\ n < MaxReceived /\ Len(received') = n + 1
  <2>1. n \in Nat /\ received \in Seq({"zlp", "data"})
    BY <1>0, TypeFacts DEF TypeOK
  <2> QED
    BY <2>1, AppendProperties DEF ReaderPacket
<1>2. /\ UNCHANGED sent /\ queue'.q = queue.q /\ Numbers(Held)' = Numbers(Held)
      /\ rpc \notin {"test", "push"}
  <2>1. UNCHANGED <<sent, queue, wpc, wp>> /\ rpc = "receive"
    BY DEF ReaderPacket, writerVars
  <2> QED
    BY <2>1 DEF Held
<1>3. Numbers(InHand) = {}
  BY <1>0, <1>2, InHandNumbers
<1> HIDE DEF n
<1>4. Parts(n, Numbers(sent), Numbers(Held), Numbers(queue.q), {}, Lost)
  BY <1>0, <1>3, FlowParts DEF n
<1>5. Ascending(sent') /\ Ascending(queue'.q)
  BY <1>0, <1>2, FlowParts
<1>6. 1..(n + 1) = (1..n) \cup {n + 1}
  BY <1>1
<1>7. CASE rstop
  <2>1. Lost' = Lost \cup {n + 1}
    <3>1. Drop([id |-> n + 1], "stop")
      BY <1>7 DEF ReaderPacket, n
    <3>2. [id |-> n + 1].id = n + 1 /\ n + 1 # 0
      BY <1>1
    <3> QED
      BY <3>1, <3>2, LostGrows
  <2>2. Numbers(InHand)' = {}
    <3>1. rpc' = "done"
      BY <1>7 DEF ReaderPacket, ReaderDone
    <3> QED
      BY <3>1, NumbersOfNone DEF InHand
  <2>3. Parts(n + 1, Numbers(sent), Numbers(Held), Numbers(queue.q), {}, Lost \cup {n + 1})
    BY <1>4, <1>6 DEF Parts
  <2>4. Flow'
    BY <1>1, <1>2, <1>5, <2>1, <2>2, <2>3, FlowParts DEF n
  <2>5. InTransit' = InTransit
    BY <1>2, <1>3, <2>2 DEF InTransit
  <2> QED
    BY <1>1, <1>2, <2>1, <2>4, <2>5
    DEF ChannelStep, Contract!Next, Contract!Arrive, n
<1>8. CASE ~rstop
  <2>1. UNCHANGED dropped
    BY <1>8 DEF ReaderPacket
  <2>2. Numbers(InHand)' = {n + 1}
    <3>1. rpc' \in {"test", "push"}
      BY <1>8 DEF ReaderPacket, ReaderGoto
    <3>2. InHand' = <<Latest'>> /\ Latest'.id = n + 1 /\ Latest' \in Packet
      <4>1. Latest' = [kind |-> received'[n + 1], id |-> n + 1]
        BY <1>1 DEF Latest
      <4>2. received'[n + 1] = kind
        <5>1. received \in Seq({"zlp", "data"}) /\ received' = Append(received, kind)
          BY <1>0 DEF TypeOK, ReaderPacket
        <5> QED
          BY <5>1, AppendProperties DEF n
      <4>3. n + 1 \in 0..MaxReceived
        BY <1>1, BoundsAssumption
      <4> QED
        BY <3>1, <4>1, <4>2, <4>3 DEF InHand, Packet
    <3>3. {n + 1} \ {0} = {n + 1}
      BY <1>1
    <3> QED
      BY <3>2, <3>3, NumbersOfOne
  <2>3. Parts(n + 1, Numbers(sent), Numbers(Held), Numbers(queue.q), {n + 1}, Lost)
    <3>1. \A m \in Numbers(sent) \cup Numbers(Held) \cup Numbers(queue.q) : m < n + 1
      BY <1>1, <1>4 DEF Parts
    <3> QED
      BY <1>4, <1>6, <3>1 DEF Parts, Before
  <2>4. Lost' = Lost
    BY <2>1 DEF Lost
  <2>5. Flow'
    BY <1>1, <1>2, <1>5, <2>2, <2>3, <2>4, FlowParts DEF n
  <2>6. InTransit' = InTransit \cup {n + 1}
    BY <1>2, <1>3, <2>2 DEF InTransit
  <2> QED
    BY <1>1, <1>2, <2>4, <2>5, <2>6
    DEF ChannelStep, Contract!Next, Contract!Arrive, n
<1> QED
  BY <1>7, <1>8

\* A packet in transit is lost, or the oldest one is delivered.
LEMMA LossIsAChannelStep ==
  ASSUME NEW k \in InTransit, UNCHANGED received, Numbers(sent)' = Numbers(sent),
         InTransit' = InTransit \ {k}, Lost' = Lost \cup {k}
  PROVE  ChannelStep
BY DEF ChannelStep, Contract!Next, Contract!Lose

LEMMA DeliveryIsAChannelStep ==
  ASSUME NEW k \in InTransit, \A m \in InTransit : k <= m, UNCHANGED received,
         Numbers(sent)' = Numbers(sent) \cup {k},
         InTransit' = InTransit \ {k}, Lost' = Lost
  PROVE  ChannelStep
BY DEF ChannelStep, Contract!Next, Contract!Deliver

\* The reader gives up the packet in its hands: a superfluous ZLP, or one that
\* found the queue full.
LEMMA ReaderLossFlows ==
  ASSUME IInv, rpc \in {"test", "push"}, NEW why, Drop(Latest, why),
         rpc' = "loop", UNCHANGED <<queue, wpc, wp, received, sent>>
  PROVE  Flow' /\ ChannelStep
<1> DEFINE n == Len(received)
<1>0. TypeOK /\ Marked /\ Flow
  BY DEF IInv
<1>1. Numbers(InHand) = {n} /\ Latest.id = n /\ n # 0
  BY <1>0, InHandNumbers, LatestFacts DEF Marked
<1>2. Lost' = Lost \cup {n}
  BY <1>1, LostGrows
<1>3. Numbers(InHand)' = {} /\ Numbers(Held)' = Numbers(Held)
  BY NumbersOfNone DEF InHand, Held
<1> HIDE DEF n
<1>4. Parts(n, Numbers(sent), Numbers(Held), Numbers(queue.q), {n}, Lost)
  BY <1>0, <1>1, FlowParts DEF n
<1>5. Parts(n, Numbers(sent), Numbers(Held), Numbers(queue.q), {}, Lost \cup {n})
  BY <1>4 DEF Parts, Before
<1>6. Flow'
  BY <1>0, <1>2, <1>3, <1>5, FlowParts DEF n
<1>7. n \in InTransit /\ InTransit' = InTransit \ {n}
  <2>1. n \in Nat /\ n \notin Numbers(Held) /\ n \notin Numbers(queue.q)
    <3>1. n \in Nat
      BY <1>0, TypeFacts DEF n
    <3>2. ~(n < n)
      BY <3>1
    <3> QED
      BY <1>4, <3>1, <3>2 DEF Parts, Before
  <2> QED
    BY <1>1, <1>3, <2>1 DEF InTransit
<1> QED
  BY <1>2, <1>6, <1>7, LossIsAChannelStep

LEMMA TestFlows ==
  ASSUME IInv, ReaderTest
  PROVE  Flow' /\ ChannelStep
<1>1. /\ rpc = "test" /\ UNCHANGED <<queue, wpc, wp, received, sent>>
      /\ \/ rpc' = "push" /\ UNCHANGED dropped
         \/ rpc' = "loop" /\ Drop(Latest, "zlp")
  BY DEF ReaderTest, ReaderGoto, writerVars
<1>2. CASE rpc' = "push" /\ UNCHANGED dropped
  <2>1. Numbers(Held)' = Numbers(Held) /\ Numbers(InHand)' = Numbers(InHand)
    BY <1>1, <1>2 DEF Held, InHand, Latest
  <2> QED
    BY <1>1, <1>2, <2>1, NothingMoves, FlowParts DEF IInv
<1>3. CASE rpc' = "loop" /\ Drop(Latest, "zlp")
  BY <1>1, <1>3, ReaderLossFlows
<1> QED
  BY <1>1, <1>2, <1>3

LEMMA PushFlows ==
  ASSUME IInv, ReaderPush
  PROVE  Flow' /\ ChannelStep
<1> DEFINE n == Len(received)
<1>0. TypeOK /\ Marked /\ Flow
  BY DEF IInv
<1>1. /\ rpc = "push" /\ rpc' = "loop" /\ UNCHANGED <<wpc, wp, received, sent>>
      /\ queue' = Enqueue(queue, Latest)
      /\ IF queue' = queue THEN Drop(Latest, "full") ELSE UNCHANGED dropped
  BY DEF ReaderPush, ReaderGoto, writerVars
<1>2. CASE queue' = queue
  BY <1>1, <1>2, ReaderLossFlows
<1>3. CASE queue' # queue
  <2>1. Latest \in Packet /\ Latest.id = n /\ n # 0 /\ Numbers(InHand) = {n}
    BY <1>0, <1>1, LatestFacts, InHandNumbers DEF Marked
  <2>2. queue'.q = Append(queue.q, Latest) /\ queue.q \in Seq(Packet)
    BY <1>0, <1>1, <1>3, TypeFacts, EnqueueLanes
  <2>3. Numbers(InHand)' = {} /\ Numbers(Held)' = Numbers(Held) /\ Lost' = Lost
    BY <1>1, <1>3, NumbersOfNone DEF InHand, Held, Lost
  <2> HIDE DEF n
  <2>4. Parts(n, Numbers(sent), Numbers(Held), Numbers(queue.q), {n}, Lost)
    BY <1>0, <2>1, FlowParts DEF n
  <2>5. /\ Numbers(queue'.q) = Numbers(queue.q) \cup {n}
        /\ Ascending(queue'.q)
    <3>1. {Latest.id} \ {0} = {n}
      BY <2>1
    <3>2. Before(Numbers(queue.q), {n}) /\ Ascending(queue.q)
      BY <1>0, <2>4, FlowParts DEF Parts
    <3> QED
      BY <2>1, <2>2, <3>1, <3>2, NumbersOfAppend
  <2>6. Parts(n, Numbers(sent), Numbers(Held), Numbers(queue.q) \cup {n}, {}, Lost)
    BY <2>4 DEF Parts, Before
  <2>7. Flow'
    BY <1>0, <1>1, <2>3, <2>5, <2>6, FlowParts DEF n
  <2>8. InTransit' = InTransit
    BY <2>1, <2>3, <2>5 DEF InTransit
  <2> QED
    BY <1>1, <2>3, <2>7, <2>8 DEF ChannelStep, Contract!channelVars
<1> QED
  BY <1>2, <1>3

\* The writer takes the oldest packet of the queue, or one of an injector.
LEMMA DequeueFlows ==
  ASSUME IInv, TypeOK', WriterDequeue
  PROVE  Flow' /\ ChannelStep
<1> DEFINE p == First(queue)
<1>0. TypeOK /\ Marked /\ Flow
  BY DEF IInv
<1>1. /\ wpc = "dequeue" /\ ~IsEmpty(queue) /\ queue' = Rest(queue)
      /\ UNCHANGED <<rpc, received, sent>>
      /\ \/ wpc' = "done" /\ Drop(p, "stop")
         \/ wpc' = "loop" /\ p.kind = "null" /\ UNCHANGED dropped
         \/ wpc' = "filter" /\ wp' = p /\ UNCHANGED dropped
  BY DEF WriterDequeue, WriterGoto, WriterDone, readerVars
<1>2. p \in Packet /\ p.id \in Nat
  BY <1>0, <1>1, TypeFacts, DequeueProperties, PacketFields
<1>3. Numbers(Held) = {} /\ Numbers(InHand)' = Numbers(InHand)
  BY <1>0, <1>1, HeldNumbers DEF InHand, Latest
<1>4. /\ Ascending(queue'.q)
      /\ Numbers(queue.q) = ({p.id} \ {0}) \cup Numbers(queue'.q)
      /\ Before({p.id} \ {0}, Numbers(queue'.q))
  <2>1. /\ queue.q \in Seq(Packet) /\ queue.qPriority \in Seq(Packet)
        /\ Ascending(queue.q)
    BY <1>0, TypeFacts, FlowParts
  <2>2. CASE /\ queue.qPriority # <<>>
             /\ p = Head(queue.qPriority) /\ queue'.q = queue.q
    <3>1. p.id = 0
      <4>1. 1 \in 1..Len(queue.qPriority)
        BY <1>0, <2>1, <2>2, TypeFacts, EmptySeq
      <4> QED
        BY <1>0, <2>1, <2>2, <4>1 DEF Marked
    <3> QED
      BY <2>1, <2>2, <3>1 DEF Before
  <2>3. CASE queue.q # <<>> /\ p = Head(queue.q) /\ queue'.q = Tail(queue.q)
    BY <2>1, <2>3, NumbersOfTail
  <2> QED
    BY <1>0, <1>1, <2>2, <2>3, TypeFacts, DequeueLanes
<1>5. p.kind = "null" => p.id = 0
  <2>1. \/ \E i \in 1..Len(queue.qPriority) : p = queue.qPriority[i]
        \/ \E i \in 1..Len(queue.q) : p = queue.q[i]
    <3>1. queue.q # <<>> => 1 \in 1..Len(queue.q) /\ Head(queue.q) = queue.q[1]
      BY <1>0, TypeFacts, EmptySeq
    <3>2. queue.qPriority # <<>> =>
             1 \in 1..Len(queue.qPriority) /\ Head(queue.qPriority) = queue.qPriority[1]
      BY <1>0, TypeFacts, EmptySeq
    <3> QED
      BY <1>0, <1>1, <3>1, <3>2, TypeFacts, DequeueLanes
  <2>2. CASE \E i \in 1..Len(queue.qPriority) : p = queue.qPriority[i]
    BY <1>0, <2>2 DEF Marked
  <2>3. CASE \E i \in 1..Len(queue.q) : p = queue.q[i]
    <3>1. Faithful(p, received)
      BY <1>0, <2>3 DEF Marked
    <3>2. ASSUME p.id # 0 PROVE p.kind \in {"zlp", "data"}
      <4>1. p.id \in 1..Len(received) /\ p.kind = received[p.id]
        <5>1. p.id <= Len(received) /\ p.kind = received[p.id] /\ Len(received) \in Nat
          BY <1>0, <3>1, <3>2, TypeFacts DEF Faithful
        <5> QED
          BY <1>2, <3>2, <5>1
      <4> QED
        BY <1>0, <4>1, TypeFacts
    <3> QED
      BY <3>2
  <2> QED
    BY <2>1, <2>2, <2>3
<1>6. Parts(Len(received), Numbers(sent), {}, ({p.id} \ {0}) \cup Numbers(queue'.q),
            Numbers(InHand), Lost)
  BY <1>0, <1>3, <1>4, FlowParts
<1>7. InTransit = ({p.id} \ {0}) \cup Numbers(queue'.q) \cup Numbers(InHand)
  BY <1>3, <1>4 DEF InTransit
<1>8. /\ Before({p.id} \ {0}, Numbers(queue'.q) \cup Numbers(InHand))
      /\ p.id \notin Numbers(queue'.q) \cup Numbers(InHand)
  <2>1. Before({p.id} \ {0}, Numbers(queue'.q) \cup Numbers(InHand))
    BY <1>4, <1>6 DEF Parts, Before
  <2>2. ~(p.id < p.id)
    BY <1>2
  <2>3. 0 \notin Numbers(queue'.q) \cup Numbers(InHand)
    BY DEF Numbers
  <2> QED
    BY <2>1, <2>2, <2>3 DEF Before
<1> HIDE DEF p
<1>9. ASSUME wpc' = "done", Drop(p, "stop")
      PROVE  Flow' /\ ChannelStep
  <2>1. Numbers(Held)' = {} /\ Lost' = Lost \cup ({p.id} \ {0})
    BY <1>9, NumbersOfNone, LostGrows DEF Held
  <2>2. Parts(Len(received), Numbers(sent), {}, Numbers(queue'.q), Numbers(InHand),
              Lost \cup ({p.id} \ {0}))
    BY <1>6 DEF Parts, Before
  <2>3. Flow'
    BY <1>0, <1>1, <1>3, <1>4, <2>1, <2>2, FlowParts
  <2>4. InTransit' = InTransit \ {p.id}
    <3>1. InTransit' = Numbers(queue'.q) \cup Numbers(InHand)
      BY <1>3, <2>1 DEF InTransit
    <3> QED
      BY <1>7, <1>8, <3>1
  <2>5. CASE p.id = 0
    <3>1. InTransit' = InTransit /\ Lost' = Lost
      <4>1. 0 \notin InTransit
        BY DEF InTransit, Numbers
      <4> QED
        BY <2>1, <2>4, <2>5, <4>1
    <3> QED
      BY <1>1, <2>3, <3>1 DEF ChannelStep, Contract!channelVars
  <2>6. CASE p.id # 0
    <3>1. p.id \in InTransit /\ Lost' = Lost \cup {p.id}
      BY <1>7, <2>1, <2>6
    <3> QED
      BY <1>1, <2>3, <2>4, <3>1, LossIsAChannelStep
  <2> QED
    BY <2>5, <2>6
<1>10. ASSUME \/ wpc' = "filter" /\ wp' = p
              \/ wpc' = "loop" /\ p.id = 0,
              UNCHANGED dropped
       PROVE  Flow' /\ ChannelStep
  <2>1. Numbers(Held)' = {p.id} \ {0} /\ Lost' = Lost
    BY <1>10, HeldNumbers DEF Lost
  <2>2. Parts(Len(received), Numbers(sent), {p.id} \ {0}, Numbers(queue'.q),
              Numbers(InHand), Lost)
    BY <1>6, <1>8 DEF Parts, Before
  <2>3. Flow'
    BY <1>0, <1>1, <1>3, <1>4, <2>1, <2>2, FlowParts
  <2>4. InTransit' = InTransit
    BY <1>3, <1>7, <2>1 DEF InTransit
  <2> QED
    BY <1>1, <2>1, <2>3, <2>4 DEF ChannelStep, Contract!channelVars
<1> QED
  BY <1>1, <1>5, <1>9, <1>10

\* The writer sends the packet it holds, or gives it up.
LEMMA SendFlows ==
  ASSUME IInv, TypeOK', NEW drop, WriterSend(drop)
  PROVE  Flow' /\ ChannelStep
<1> DEFINE h == {wp.id} \ {0}
<1>0. TypeOK /\ Marked /\ Flow
  BY DEF IInv
<1>1. /\ wpc = "filter" /\ wpc' # "filter" /\ UNCHANGED <<queue, rpc, received>>
      /\ \/ sent' = sent /\ \E why \in {"stop", "filter"} : Drop(wp, why)
         \/ sent' = Append(sent, wp) /\ UNCHANGED dropped
  <2>1. /\ wpc = "filter" /\ UNCHANGED <<queue, rpc, received>>
        /\ wpc' = "done" \/ wpc' = "loop"
    BY DEF WriterSend, WriterGoto, WriterDone, readerVars
  <2>2. \/ sent' = sent /\ (Drop(wp, "stop") \/ Drop(wp, "filter"))
        \/ sent' = Append(sent, wp) /\ UNCHANGED dropped
    BY DEF WriterSend
  <2> QED
    BY <2>1, <2>2
<1>2. wp \in Packet /\ wp.id \in Nat /\ sent \in Seq(Packet)
  BY <1>0, PacketFields DEF TypeOK
<1>3. /\ Numbers(Held) = h /\ Numbers(Held)' = {}
      /\ Numbers(InHand)' = Numbers(InHand)
  BY <1>0, <1>1, HeldNumbers, NumbersOfNone DEF Held, InHand, Latest
<1>4. wp.id = 0 => h = {}
  OBVIOUS
<1>5. wp.id # 0 => h = {wp.id}
  OBVIOUS
<1> HIDE DEF h
<1>6. Parts(Len(received), Numbers(sent), h, Numbers(queue.q), Numbers(InHand), Lost)
  BY <1>0, <1>3, FlowParts
<1>7. InTransit' = InTransit \ h
  <2>1. InTransit = h \cup Numbers(queue.q) \cup Numbers(InHand)
    BY <1>3 DEF InTransit
  <2>2. InTransit' = Numbers(queue.q) \cup Numbers(InHand)
    BY <1>1, <1>3 DEF InTransit
  <2>3. ASSUME wp.id # 0
        PROVE  wp.id \notin Numbers(queue.q) \cup Numbers(InHand)
    <3>1. \A m \in Numbers(queue.q) \cup Numbers(InHand) : wp.id < m
      BY <1>5, <1>6, <2>3 DEF Parts, Before
    <3>2. ~(wp.id < wp.id)
      BY <1>2
    <3> QED
      BY <3>1, <3>2
  <2> QED
    BY <1>4, <1>5, <2>1, <2>2, <2>3
<1>8. CASE sent' = sent /\ \E why \in {"stop", "filter"} : Drop(wp, why)
  <2>1. Lost' = Lost \cup h
    BY <1>8, LostGrows DEF h
  <2>2. Parts(Len(received), Numbers(sent), {}, Numbers(queue.q), Numbers(InHand),
              Lost \cup h)
    BY <1>6 DEF Parts, Before
  <2>3. Flow'
    BY <1>0, <1>1, <1>3, <1>8, <2>1, <2>2, FlowParts
  <2>4. CASE wp.id = 0
    BY <1>1, <1>4, <1>7, <1>8, <2>1, <2>3, <2>4 DEF ChannelStep, Contract!channelVars
  <2>5. CASE wp.id # 0
    <3>1. wp.id \in InTransit
      BY <1>3, <1>5, <2>5 DEF InTransit
    <3> QED
      BY <1>1, <1>5, <1>7, <1>8, <2>1, <2>3, <2>5, <3>1, LossIsAChannelStep
  <2> QED
    BY <2>4, <2>5
<1>9. CASE sent' = Append(sent, wp) /\ UNCHANGED dropped
  <2>1. Lost' = Lost
    BY <1>9 DEF Lost
  <2>2. Numbers(sent') = Numbers(sent) \cup h /\ Ascending(sent')
    <3>1. Before(Numbers(sent), h) /\ Ascending(sent)
      BY <1>0, <1>6, FlowParts DEF Parts, Before
    <3> QED
      BY <1>2, <1>9, <3>1, NumbersOfAppend DEF h
  <2>3. Parts(Len(received), Numbers(sent) \cup h, {}, Numbers(queue.q),
              Numbers(InHand), Lost)
    BY <1>6 DEF Parts, Before
  <2>4. Flow'
    BY <1>0, <1>1, <1>3, <2>1, <2>2, <2>3, FlowParts
  <2>5. CASE wp.id = 0
    <3>1. Numbers(sent)' = Numbers(sent) /\ InTransit' = InTransit
      BY <1>4, <1>7, <2>2, <2>5
    <3> QED
      BY <1>1, <2>1, <2>4, <3>1 DEF ChannelStep, Contract!channelVars
  <2>6. CASE wp.id # 0
    <3>1. wp.id \in InTransit /\ \A m \in InTransit : wp.id <= m
      <4>1. InTransit = {wp.id} \cup Numbers(queue.q) \cup Numbers(InHand)
        BY <1>3, <1>5, <2>6 DEF InTransit
      <4>2. \A m \in Numbers(queue.q) \cup Numbers(InHand) : wp.id < m
        BY <1>5, <1>6, <2>6 DEF Parts, Before
      <4>3. InTransit \subseteq Nat
        <5>1. InTransit \subseteq 1..Len(received)
          BY <1>0 DEF Flow
        <5> QED
          BY <5>1
      <4> QED
        BY <1>2, <4>1, <4>2, <4>3
    <3>2. Numbers(sent)' = Numbers(sent) \cup {wp.id} /\ InTransit' = InTransit \ {wp.id}
      BY <1>5, <1>7, <2>2, <2>6
    <3> QED
      BY <1>1, <2>1, <2>4, <3>1, <3>2, DeliveryIsAChannelStep
  <2> QED
    BY <2>5, <2>6
<1> QED
  BY <1>1, <1>8, <1>9

\* The other steps move no packet of the channel: at most a null pointer or an
\* injected packet enters the queue.
LEMMA OtherFlows ==
  ASSUME IInv, TypeOK',
         \/ ReaderLoop \/ ReaderNothing \/ WriterLoop \/ Inject \/ Stop
         \/ \E complete \in BOOLEAN : WriterWait(complete)
         \/ UNCHANGED vars
  PROVE  Flow' /\ ChannelStep
<1>0. TypeOK /\ Marked /\ Flow
  BY DEF IInv
<1>1. UNCHANGED <<received, sent, dropped>>
  BY DEF ReaderLoop, ReaderNothing, WriterLoop, Inject, Stop, SetReaderFlag,
         SetWriterFlag, WakeWriter, StopStep, WriterWait, vars
<1>2. Numbers(InHand)' = Numbers(InHand)
  <2>1. CASE ReaderLoop \/ ReaderNothing
    <3>1. rpc \in {"loop", "receive"} /\ rpc' \in {"loop", "receive", "done"}
      BY <2>1 DEF ReaderLoop, ReaderNothing, ReaderGoto, ReaderDone
    <3> QED
      BY <3>1 DEF InHand
  <2>2. CASE ~(ReaderLoop \/ ReaderNothing)
    <3>1. UNCHANGED rpc
      BY <2>2 DEF WriterLoop, Inject, Stop, SetReaderFlag,
         SetWriterFlag, WakeWriter, StopStep, WriterWait, vars, readerVars
    <3> QED
      BY <1>1, <3>1 DEF InHand, Latest
  <2> QED
    BY <2>1, <2>2
<1>3. Numbers(Held)' = Numbers(Held)
  <2>1. CASE WriterLoop \/ \E complete \in BOOLEAN : WriterWait(complete)
    <3>1. wpc # "filter" /\ wpc' # "filter"
      <4>1. wpc \in {"loop", "wait"} /\ wpc' \in {"loop", "wait", "dequeue", "done"}
        BY <2>1 DEF WriterLoop, WriterWait, WriterGoto, WriterDone
      <4> QED
        BY <4>1
    <3> QED
      BY <3>1 DEF Held
  <2>2. CASE ~(WriterLoop \/ \E complete \in BOOLEAN : WriterWait(complete))
    <3>1. UNCHANGED <<wpc, wp>>
      BY <2>2 DEF ReaderLoop, ReaderNothing, Inject, Stop, SetReaderFlag,
         SetWriterFlag, WakeWriter, StopStep, vars, writerVars
    <3> QED
      BY <3>1 DEF Held
  <2> QED
    BY <2>1, <2>2
<1>4. Numbers(queue'.q) = Numbers(queue.q) /\ Ascending(queue'.q)
  <2>1. queue.q \in Seq(Packet) /\ Ascending(queue.q) /\ queue \in BoundedQueues(Packet)
    BY <1>0, TypeFacts, FlowParts
  <2>2. queue' \in {queue, Enqueue(queue, NullPacket), EnqueuePriority(queue, InjectedPacket)}
    BY DEF ReaderLoop, ReaderNothing, WriterLoop, Inject, Stop, SetReaderFlag,
         SetWriterFlag, WakeWriter, StopStep, WriterWait, vars
  <2>3. queue'.q \in {queue.q, Append(queue.q, NullPacket)}
    BY <2>1, <2>2, EnqueueLanes
  <2>4. /\ Numbers(Append(queue.q, NullPacket)) = Numbers(queue.q)
        /\ Ascending(Append(queue.q, NullPacket))
    <3>1. {NullPacket.id} \ {0} = {}
      BY DEF NullPacket
    <3>2. Before(Numbers(queue.q), {NullPacket.id} \ {0})
      BY <3>1 DEF Before
    <3> QED
      BY <2>1, <3>1, <3>2, ConstantPackets, NumbersOfAppend
  <2> QED
    BY <2>1, <2>3, <2>4
<1> QED
  BY <1>0, <1>1, <1>2, <1>3, <1>4, NothingMoves

LEMMA FlowKept ==
  ASSUME IInv, TypeOK', Marked', [Next]_vars
  PROVE  Flow' /\ ChannelStep
<1>1. \/ \E kind \in {"zlp", "data"} : ReaderPacket(kind)
      \/ ReaderTest \/ ReaderPush
      \/ WriterDequeue \/ \E drop \in {FALSE, FilterDrops} : WriterSend(drop)
      \/ ReaderLoop \/ ReaderNothing \/ WriterLoop \/ Inject \/ Stop
      \/ \E complete \in BOOLEAN : WriterWait(complete)
      \/ UNCHANGED vars
  BY DEF Next, ReaderReceive, ReaderOther, Writer
<1> QED
  BY <1>1, ArrivalFlows, TestFlows, PushFlows, DequeueFlows, SendFlows, OtherFlows
------------------------------------------------------------------------------
(* Marked.                                                                  *)

\* Every step changes the normal lane in one of these ways.
LaneStep == \/ queue'.q = queue.q
            \/ queue.q # <<>> /\ queue'.q = Tail(queue.q)
            \/ queue'.q = Append(queue.q, NullPacket)

PushStep == /\ rpc = "push" /\ rpc' = "loop"
            /\ queue'.q = Append(queue.q, Latest)
            /\ queue'.qPriority = queue.qPriority
            /\ UNCHANGED <<received, dropped>>
            /\ zlpCount' = IF Latest.kind = "zlp" THEN zlpCount + 1 ELSE 0

LEMMA QueueSteps ==
  ASSUME TypeOK, [Next]_vars
  PROVE  /\ LaneStep \/ PushStep
         /\ queue'.qPriority \in {queue.qPriority, Append(queue.qPriority, InjectedPacket)}
              \/ (queue.qPriority # <<>> /\ queue'.qPriority = Tail(queue.qPriority))
<1>1. queue \in BoundedQueues(Packet)
  BY TypeFacts
<1>2. CASE ReaderPush
  <2>1. /\ rpc = "push" /\ rpc' = "loop" /\ queue' = Enqueue(queue, Latest)
        /\ queue' # queue => UNCHANGED <<received, dropped>>
        /\ zlpCount' = IF Latest.kind = "zlp" THEN zlpCount + 1 ELSE 0
    BY <1>2 DEF ReaderPush, ReaderGoto
  <2> QED
    BY <1>1, <2>1, EnqueueLanes DEF LaneStep, PushStep
<1>3. CASE WriterDequeue
  <2>1. ~IsEmpty(queue) /\ queue' = Rest(queue)
    BY <1>3 DEF WriterDequeue
  <2> QED
    BY <1>1, <2>1, DequeueLanes DEF LaneStep
<1>4. CASE ~ReaderPush /\ ~WriterDequeue
  <2>1. queue' \in {queue, Enqueue(queue, NullPacket), EnqueuePriority(queue, InjectedPacket)}
    BY <1>4 DEF Next, ReaderReceive, ReaderOther, Writer, ReaderPacket, ReaderTest,
         ReaderLoop, ReaderNothing, WriterLoop, WriterSend, Inject, Stop, SetReaderFlag,
         SetWriterFlag, WakeWriter, StopStep, WriterWait, vars
  <2> QED
    BY <1>1, <2>1, EnqueueLanes DEF LaneStep
<1> QED
  BY <1>2, <1>3, <1>4

\* The history only grows.
LEMMA HistorySteps ==
  ASSUME TypeOK, [Next]_vars
  PROVE  /\ dropped \subseteq dropped'
         /\ received' = received \/ \E kind \in {"zlp", "data"} : received' = Append(received, kind)
         /\ Len(received') \in Nat /\ Len(received) <= Len(received')
         /\ \A n \in 1..Len(received) : received'[n] = received[n]
<1>1. \/ UNCHANGED received
      \/ \E kind \in {"zlp", "data"} : received' = Append(received, kind)
  BY DEF Next, ReaderReceive, ReaderOther, Writer, ReaderPacket, ReaderTest, ReaderPush,
         ReaderLoop, ReaderNothing, WriterLoop, WriterDequeue, WriterSend, Inject, Stop,
         SetReaderFlag, SetWriterFlag, WakeWriter, StopStep, WriterWait, vars
<1>2. dropped \subseteq dropped'
  <2>1. dropped' = dropped \/ \E p, why : Drop(p, why)
    BY DEF Next, ReaderReceive, ReaderOther, Writer, ReaderPacket, ReaderTest, ReaderPush,
         ReaderLoop, ReaderNothing, WriterLoop, WriterDequeue, WriterSend, Inject, Stop,
         SetReaderFlag, SetWriterFlag, WakeWriter, StopStep, WriterWait, vars
  <2> QED
    BY <2>1 DEF Drop
<1>3. received \in Seq({"zlp", "data"}) /\ Len(received) \in Nat
  BY TypeFacts DEF TypeOK
<1>4. ASSUME NEW kind \in {"zlp", "data"}, received' = Append(received, kind)
      PROVE  /\ Len(received') = Len(received) + 1
             /\ \A n \in 1..Len(received) : received'[n] = received[n]
  BY <1>3, <1>4, AppendProperties
<1> QED
  BY <1>1, <1>2, <1>3, <1>4

LEMMA EntriesOfAppend ==
  ASSUME NEW S, NEW s \in Seq(S), NEW x \in S
  PROVE  /\ Len(Append(s, x)) = Len(s) + 1 /\ Append(s, x) # <<>>
         /\ \A i \in 1..Len(Append(s, x)) :
               \/ i \in 1..Len(s) /\ Append(s, x)[i] = s[i]
               \/ i = Len(s) + 1 /\ Append(s, x)[i] = x
<1>1. Len(s) \in Nat
  BY LenProperties
<1> QED
  BY <1>1, AppendProperties

LEMMA EntriesOfTail ==
  ASSUME NEW S, NEW s \in Seq(S), s # <<>>
  PROVE  /\ Len(Tail(s)) = Len(s) - 1 /\ Len(s) \in Nat
         /\ \A i \in 1..Len(Tail(s)) : (i + 1) \in 1..Len(s) /\ Tail(s)[i] = s[i + 1]
<1>1. Len(s) \in Nat
  BY LenProperties
<1> QED
  BY <1>1, HeadTailProperties

\* A packet stays faithful while the history grows.
LEMMA FaithfulLater ==
  ASSUME TypeOK, [Next]_vars, NEW p \in Packet, Faithful(p, received)
  PROVE  Faithful(p, received')
<1>1. CASE p.id = 0
  BY <1>1 DEF Faithful
<1>2. CASE p.id # 0
  <2>1. p.id \in 1..Len(received) /\ p.kind = received[p.id]
    BY <1>2, PacketFields, TypeFacts DEF Faithful
  <2>2. p.id <= Len(received') /\ received'[p.id] = received[p.id]
    <3>1. Len(received) \in Nat /\ p.id \in Nat
      BY TypeFacts, PacketFields
    <3> QED
      BY <2>1, <3>1, HistorySteps
  <2> QED
    BY <1>2, <2>1, <2>2 DEF Faithful
<1> QED
  BY <1>1, <1>2

LEMMA MarkedKept ==
  ASSUME TypeOK, Marked, [Next]_vars
  PROVE  Marked'
<1>1. \A i \in 1..Len(queue'.q) : Faithful(queue'.q[i], received')
  <2>1. queue.q \in Seq(Packet) /\ NullPacket \in Packet
    BY TypeFacts, ConstantPackets
  <2>2. \A i \in 1..Len(queue.q) : Faithful(queue.q[i], received')
    <3> SUFFICES ASSUME NEW i \in 1..Len(queue.q)
                 PROVE  Faithful(queue.q[i], received')
      OBVIOUS
    <3>1. queue.q[i] \in Packet /\ Faithful(queue.q[i], received)
      BY <2>1, ElementOfSeq DEF Marked
    <3> QED
      BY <3>1, FaithfulLater
  <2>3. CASE queue'.q = queue.q
    BY <2>2, <2>3
  <2>4. CASE queue.q # <<>> /\ queue'.q = Tail(queue.q)
    BY <2>1, <2>2, <2>4, EntriesOfTail
  <2>5. CASE queue'.q = Append(queue.q, NullPacket)
    <3>1. Faithful(NullPacket, received')
      BY DEF Faithful, NullPacket
    <3> QED
      BY <2>1, <2>2, <2>5, <3>1, EntriesOfAppend
  <2>6. CASE PushStep
    <3>1. Latest \in Packet /\ Faithful(Latest, received')
      <4>1. Len(received) > 0
        BY <2>6 DEF PushStep, Marked
      <4>2. Latest \in Packet /\ Latest.id = Len(received) /\ Latest.kind = received[Latest.id]
        BY <4>1, LatestFacts
      <4>3. Len(received) \in Nat
        BY TypeFacts
      <4>4. Faithful(Latest, received)
        BY <4>1, <4>2, <4>3 DEF Faithful
      <4> QED
        BY <4>2, <4>4, FaithfulLater
    <3>2. queue'.q = Append(queue.q, Latest)
      BY <2>6 DEF PushStep
    <3> QED
      BY <2>1, <2>2, <3>1, <3>2, EntriesOfAppend
  <2> QED
    BY <2>3, <2>4, <2>5, <2>6, QueueSteps DEF LaneStep
<1>2. \A i \in 1..Len(queue'.qPriority) : queue'.qPriority[i].id = 0
  <2>1. queue.qPriority \in Seq(Packet) /\ InjectedPacket \in Packet /\ InjectedPacket.id = 0
    BY TypeFacts, ConstantPackets DEF InjectedPacket
  <2>2. \A i \in 1..Len(queue.qPriority) : queue.qPriority[i].id = 0
    BY DEF Marked
  <2>3. CASE queue'.qPriority = queue.qPriority
    BY <2>2, <2>3
  <2>4. CASE queue'.qPriority = Append(queue.qPriority, InjectedPacket)
    BY <2>1, <2>2, <2>4, EntriesOfAppend
  <2>5. CASE queue.qPriority # <<>> /\ queue'.qPriority = Tail(queue.qPriority)
    BY <2>1, <2>2, <2>5, EntriesOfTail
  <2> QED
    BY <2>3, <2>4, <2>5, QueueSteps
<1>3. /\ rpc' \in {"test", "push"} => Len(received') > 0
      /\ rpc' = "test" => Latest'.kind = "zlp"
  <2>1. ASSUME NEW kind \in {"zlp", "data"}, ReaderPacket(kind)
        PROVE  Len(received') > 0 /\ (rpc' = "test" => Latest'.kind = "zlp")
    <3>1. received' = Append(received, kind) /\ received \in Seq({"zlp", "data"})
      BY <2>1 DEF ReaderPacket, TypeOK
    <3>2. Len(received') = Len(received) + 1 /\ received'[Len(received')] = kind
      BY <3>1, AppendProperties
    <3>3. Len(received) \in Nat
      BY TypeFacts
    <3>4. rpc' = "test" => kind = "zlp"
      BY <2>1 DEF ReaderPacket, ReaderDone, ReaderGoto
    <3> QED
      BY <3>2, <3>3, <3>4 DEF Latest
  <2>2. CASE ReaderTest
    <3>1. rpc = "test" /\ UNCHANGED received /\ rpc' # "test"
      BY <2>2 DEF ReaderTest, ReaderGoto
    <3> QED
      BY <3>1 DEF Marked
  <2>3. CASE ReaderPush \/ ReaderLoop \/ ReaderNothing
    <3>1. rpc' \in {"loop", "receive", "done"}
      BY <2>3 DEF ReaderPush, ReaderLoop, ReaderNothing, ReaderGoto, ReaderDone
    <3> QED
      BY <3>1
  <2>4. CASE UNCHANGED <<rpc, received>>
    BY <2>4 DEF Marked, Latest
  <2>5. Writer \/ Inject \/ Stop \/ UNCHANGED vars => UNCHANGED <<rpc, received>>
    BY DEF Writer, WriterLoop, WriterDequeue, WriterSend, Inject, Stop,
         SetReaderFlag, SetWriterFlag, WakeWriter, StopStep, WriterWait, vars, readerVars
  <2> QED
    BY <2>1, <2>2, <2>3, <2>4, <2>5 DEF Next, ReaderReceive, ReaderOther
<1> QED
  BY <1>1, <1>2, <1>3 DEF Marked
------------------------------------------------------------------------------
(* Counted, NoZlpFlood and TransferEndPassed.                               *)

\* Steps other than a push bring no zero-length packet into the queue.
LEMMA NoNewZlp ==
  ASSUME TypeOK, LaneStep
  PROVE  /\ LastIsZlp' => LastIsZlp
         /\ \A i \in 1..(Len(queue'.q) - 1) :
               queue'.q[i].kind = "zlp" /\ queue'.q[i + 1].kind = "zlp" =>
                  \E j \in 1..(Len(queue.q) - 1) :
                     queue'.q[i] = queue.q[j] /\ queue'.q[i + 1] = queue.q[j + 1]
<1>1. queue.q \in Seq(Packet) /\ NullPacket \in Packet /\ Len(queue.q) \in Nat
  BY TypeFacts, ConstantPackets
<1>2. CASE queue'.q = queue.q
  BY <1>2 DEF LastIsZlp
<1>3. CASE queue.q # <<>> /\ queue'.q = Tail(queue.q)
  <2> DEFINE t == Tail(queue.q)
  <2>1. /\ Len(t) = Len(queue.q) - 1
        /\ \A i \in 1..Len(t) : (i + 1) \in 1..Len(queue.q) /\ t[i] = queue.q[i + 1]
    BY <1>1, <1>3, EntriesOfTail
  <2>2. t \in Seq(Packet)
    BY <1>1, <1>3, HeadTailProperties
  <2> HIDE DEF t
  <2>3. t # <<>> => t[Len(t)] = queue.q[Len(queue.q)]
    <3> SUFFICES ASSUME t # <<>> PROVE t[Len(t)] = queue.q[Len(queue.q)]
      OBVIOUS
    <3>1. Len(t) \in Nat \ {0}
      BY <2>2, EmptySeq
    <3>2. Len(t) \in 1..Len(t) /\ Len(t) + 1 = Len(queue.q)
      BY <1>1, <2>1, <3>1
    <3> QED
      BY <2>1, <3>2
  <2>4. LastIsZlp' => LastIsZlp
    BY <1>3, <2>3 DEF LastIsZlp, t
  <2>5. ASSUME NEW i \in 1..(Len(t) - 1)
        PROVE  \E j \in 1..(Len(queue.q) - 1) : t[i] = queue.q[j] /\ t[i + 1] = queue.q[j + 1]
    <3>1. i \in 1..Len(t) /\ (i + 1) \in 1..Len(t) /\ (i + 1) \in 1..(Len(queue.q) - 1)
      BY <1>1, <2>1
    <3>2. t[i] = queue.q[i + 1] /\ t[i + 1] = queue.q[(i + 1) + 1]
      BY <2>1, <3>1
    <3> QED
      BY <3>1, <3>2
  <2> QED
    BY <1>3, <2>4, <2>5 DEF t
<1>4. CASE queue'.q = Append(queue.q, NullPacket)
  <2> DEFINE a == Append(queue.q, NullPacket)
  <2>1. /\ Len(a) = Len(queue.q) + 1
        /\ \A i \in 1..Len(queue.q) : a[i] = queue.q[i]
        /\ a[Len(queue.q) + 1] = NullPacket
    BY <1>1, AppendProperties
  <2>2. NullPacket.kind # "zlp"
    BY DEF NullPacket
  <2> HIDE DEF a
  <2>3. ~LastIsZlp'
    BY <1>4, <2>1, <2>2 DEF LastIsZlp, a
  <2>4. ASSUME NEW i \in 1..(Len(a) - 1), a[i + 1].kind = "zlp"
        PROVE  \E j \in 1..(Len(queue.q) - 1) : a[i] = queue.q[j] /\ a[i + 1] = queue.q[j + 1]
    <3>1. i \in 1..Len(queue.q) /\ i # Len(queue.q)
      BY <1>1, <2>1, <2>2, <2>4
    <3>2. i \in 1..(Len(queue.q) - 1) /\ (i + 1) \in 1..Len(queue.q)
      BY <1>1, <3>1
    <3> QED
      BY <2>1, <3>1, <3>2
  <2> QED
    BY <1>4, <2>3, <2>4 DEF a
<1> QED
  BY <1>2, <1>3, <1>4 DEF LaneStep

\* Counted is kept by a step that leaves the reader as it is, or moves it
\* between loop and receive.
LEMMA CountedKeptByOthers ==
  ASSUME TypeOK, Counted, [Next]_vars, LaneStep, UNCHANGED <<zlpCount, received>>,
         UNCHANGED rpc \/ (rpc \in {"loop", "receive"} /\ rpc' \in {"loop", "receive", "done"})
  PROVE  Counted'
<1> SUFFICES ASSUME rpc' # "done" PROVE Counted'
  BY DEF Counted
<1>1. rpc # "done" /\ (rpc' = "push" => rpc = "push")
  OBVIOUS
<1>2. Passed' = Passed /\ Latest' = Latest
  BY DEF Passed, Latest
<1>3. /\ zlpCount <= Passed
      /\ zlpCount # 0 => Passed > 0 /\ received[Passed] = "zlp"
      /\ zlpCount = 0 /\ Passed > 0 =>
           /\ received[Passed] = "data"
           /\ LastIsZlp => [id |-> Passed, why |-> "full"] \in dropped
      /\ rpc = "push" /\ zlpCount # 0 /\ Latest.kind = "zlp" => ~LastIsZlp
  BY <1>1 DEF Counted
<1>4. (LastIsZlp' => LastIsZlp) /\ dropped \subseteq dropped'
  BY NoNewZlp, HistorySteps
<1> HIDE DEF Passed, Latest, LastIsZlp
<1> QED
  BY <1>1, <1>2, <1>3, <1>4 DEF Counted

LEMMA CountedKeptByArrival ==
  ASSUME TypeOK, Marked, Counted, [Next]_vars, NEW kind \in {"zlp", "data"}, ReaderPacket(kind)
  PROVE  Counted'
<1> DEFINE n == Len(received)
<1>1. /\ rpc = "receive" /\ UNCHANGED <<queue, zlpCount>>
      /\ received' = Append(received, kind)
      /\ rpc' = "done" \/ rpc' = IF kind = "zlp" THEN "test" ELSE "push"
  BY DEF ReaderPacket, ReaderDone, ReaderGoto
<1>2. n \in Nat /\ received \in Seq({"zlp", "data"})
  BY TypeFacts DEF TypeOK
<1>3. /\ Len(received') = n + 1 /\ received'[n + 1] = kind
      /\ \A m \in 1..n : received'[m] = received[m]
  BY <1>1, <1>2, AppendProperties
<1>4. CASE rpc' = "done"
  BY <1>4 DEF Counted
<1>5. CASE rpc' \in {"test", "push"}
  <2>1. Passed = n /\ Passed' = n
    BY <1>1, <1>2, <1>3, <1>5 DEF Passed
  <2>2. Latest'.kind = kind
    BY <1>3 DEF Latest
  <2>3. rpc' = "push" => kind # "zlp"
    BY <1>1
  <2>4. (LastIsZlp' <=> LastIsZlp) /\ dropped \subseteq dropped'
    BY <1>1, HistorySteps DEF LastIsZlp
  <2>5. /\ zlpCount <= n
        /\ zlpCount # 0 => n > 0 /\ received[n] = "zlp"
        /\ zlpCount = 0 /\ n > 0 =>
             /\ received[n] = "data"
             /\ LastIsZlp => [id |-> n, why |-> "full"] \in dropped
    BY <1>1, <2>1 DEF Counted
  <2>6. n > 0 => received'[n] = received[n]
    BY <1>2, <1>3
  <2> HIDE DEF n
  <2> QED
    BY <1>1, <2>1, <2>2, <2>3, <2>4, <2>5, <2>6 DEF Counted
<1> QED
  BY <1>1, <1>4, <1>5

LEMMA CountedKeptByTest ==
  ASSUME TypeOK, Marked, Counted, [Next]_vars, ReaderTest
  PROVE  Counted'
<1> DEFINE n == Len(received)
<1>1. /\ rpc = "test" /\ UNCHANGED <<queue, received>>
      /\ \/ /\ rpc' = "push" /\ UNCHANGED <<zlpCount, dropped>>
            /\ zlpCount = 0 \/ queue.q = <<>>
         \/ rpc' = "loop" /\ zlpCount' = zlpCount + 1
  BY DEF ReaderTest, ReaderGoto
<1>2. n \in Nat /\ n > 0 /\ received[n] = "zlp" /\ zlpCount \in Nat /\ zlpCount <= n - 1
  <2>1. n \in Nat /\ n > 0 /\ zlpCount \in Nat
    BY <1>1, TypeFacts DEF Marked
  <2>2. zlpCount <= n - 1
    BY <1>1 DEF Counted, Passed
  <2>3. received[n] = "zlp"
    BY <1>1, <2>1, LatestFacts DEF Marked
  <2> QED
    BY <2>1, <2>2, <2>3
<1>3. CASE rpc' = "loop" /\ zlpCount' = zlpCount + 1
  <2>1. Passed' = n
    BY <1>1, <1>3 DEF Passed
  <2>2. zlpCount' <= n /\ zlpCount' # 0
    BY <1>2, <1>3
  <2> QED
    BY <1>1, <1>2, <1>3, <2>1, <2>2 DEF Counted
<1>4. CASE /\ rpc' = "push" /\ UNCHANGED <<zlpCount, dropped>>
           /\ zlpCount = 0 \/ queue.q = <<>>
  <2>1. Passed' = Passed /\ Latest' = Latest
    BY <1>1, <1>4 DEF Passed, Latest
  <2>2. LastIsZlp' <=> LastIsZlp
    BY <1>1 DEF LastIsZlp
  <2>3. queue.q = <<>> => ~LastIsZlp
    BY DEF LastIsZlp
  <2>4. /\ zlpCount <= Passed
        /\ zlpCount # 0 => Passed > 0 /\ received[Passed] = "zlp"
        /\ zlpCount = 0 /\ Passed > 0 =>
             /\ received[Passed] = "data"
             /\ LastIsZlp => [id |-> Passed, why |-> "full"] \in dropped
    BY <1>1 DEF Counted
  <2> QED
    BY <1>1, <1>4, <2>1, <2>2, <2>3, <2>4 DEF Counted
<1> QED
  BY <1>1, <1>3, <1>4

LEMMA CountedKeptByPush ==
  ASSUME TypeOK, Marked, Counted, [Next]_vars, ReaderPush
  PROVE  Counted'
<1> DEFINE n == Len(received)
<1>1. /\ rpc = "push" /\ rpc' = "loop" /\ UNCHANGED received
      /\ queue' = Enqueue(queue, Latest)
      /\ queue' = queue => Drop(Latest, "full")
      /\ zlpCount' = IF Latest.kind = "zlp" THEN zlpCount + 1 ELSE 0
  BY DEF ReaderPush, ReaderGoto
<1>2. n \in Nat /\ n > 0 /\ zlpCount \in Nat /\ zlpCount <= n - 1
  <2>1. n \in Nat /\ n > 0 /\ zlpCount \in Nat
    BY <1>1, TypeFacts DEF Marked
  <2>2. zlpCount <= n - 1
    BY <1>1 DEF Counted, Passed
  <2> QED
    BY <2>1, <2>2
<1>3. /\ Latest \in Packet /\ Latest.id = n
      /\ Latest.kind = received[n] /\ Latest.kind \in {"zlp", "data"}
  BY <1>2, LatestFacts
<1>4. Passed' = n
  BY <1>1 DEF Passed
<1>5. CASE Latest.kind = "zlp"
  <2>1. zlpCount' <= n /\ zlpCount' # 0
    BY <1>1, <1>2, <1>5
  <2> QED
    BY <1>1, <1>2, <1>3, <1>4, <1>5, <2>1 DEF Counted
<1>6. CASE Latest.kind = "data"
  <2>1. LastIsZlp' => [id |-> n, why |-> "full"] \in dropped'
    <3>1. CASE queue' = queue
      BY <1>1, <1>3, <3>1 DEF Drop
    <3>2. CASE queue' # queue
      <4>1. queue'.q = Append(queue.q, Latest) /\ queue.q \in Seq(Packet)
        BY <1>1, <3>2, TypeFacts, EnqueueLanes
      <4>2. queue'.q[Len(queue'.q)] = Latest
        BY <1>3, <4>1, AppendProperties
      <4> QED
        BY <1>6, <4>2 DEF LastIsZlp
    <3> QED
      BY <3>1, <3>2
  <2>2. zlpCount' = 0 /\ zlpCount' <= n
    BY <1>1, <1>2, <1>6
  <2> QED
    BY <1>1, <1>2, <1>3, <1>4, <1>6, <2>1, <2>2 DEF Counted
<1> QED
  BY <1>3, <1>5, <1>6

LEMMA CountedKept ==
  ASSUME TypeOK, Marked, Counted, [Next]_vars
  PROVE  Counted'
<1>1. ASSUME \/ ReaderLoop \/ ReaderNothing \/ Writer \/ Inject \/ Stop \/ UNCHANGED vars
      PROVE  Counted'
  <2>1. /\ UNCHANGED <<zlpCount, received>>
        /\ UNCHANGED rpc \/ (rpc \in {"loop", "receive"} /\ rpc' \in {"loop", "receive", "done"})
    BY <1>1 DEF ReaderLoop, ReaderNothing, ReaderGoto, ReaderDone, Writer, WriterLoop,
         WriterDequeue, WriterSend, Inject, Stop, SetReaderFlag, SetWriterFlag,
         WakeWriter, StopStep, WriterWait, vars, readerVars
  <2>2. LaneStep
    <3>1. ~PushStep
      <4>1. PushStep => rpc = "push" /\ rpc' = "loop"
        BY DEF PushStep
      <4> QED
        BY <2>1, <4>1
    <3> QED
      BY <3>1, QueueSteps
  <2> QED
    BY <2>1, <2>2, CountedKeptByOthers
<1> QED
  BY <1>1, CountedKeptByArrival, CountedKeptByTest, CountedKeptByPush
  DEF Next, ReaderReceive, ReaderOther

\* Two ZLPs side by side in the queue are apart in the history, now and later.
LEMMA NoZlpFloodKept ==
  ASSUME IInv, [Next]_vars
  PROVE  NoZlpFlood'
<1>0. TypeOK /\ Marked /\ Counted /\ NoZlpFlood
  BY DEF IInv
<1>1. queue.q \in Seq(Packet) /\ Len(queue.q) \in Nat /\ Len(received) \in Nat
  BY <1>0, TypeFacts
<1> DEFINE Apart(a, b) == \E n \in (a.id + 1)..(b.id - 1) :
                              received[n] = "data" /\ [id |-> n, why |-> "full"] \in dropped
           ApartNext(a, b) == \E n \in (a.id + 1)..(b.id - 1) :
                              received'[n] = "data" /\ [id |-> n, why |-> "full"] \in dropped'
<1>2. ASSUME NEW a \in Packet, NEW b \in Packet, b.id <= Len(received), Apart(a, b)
      PROVE  ApartNext(a, b)
  <2>1. PICK n \in (a.id + 1)..(b.id - 1) :
                received[n] = "data" /\ [id |-> n, why |-> "full"] \in dropped
    BY <1>2
  <2>2. n \in 1..Len(received)
    BY <1>1, <1>2, PacketFields
  <2> QED
    BY <1>0, <2>1, <2>2, HistorySteps
<1>3. ASSUME NEW j \in 1..(Len(queue.q) - 1),
             queue.q[j].kind = "zlp", queue.q[j + 1].kind = "zlp"
      PROVE  ApartNext(queue.q[j], queue.q[j + 1])
  <2>1. Apart(queue.q[j], queue.q[j + 1])
    BY <1>0, <1>3 DEF NoZlpFlood
  <2>2. j \in 1..Len(queue.q) /\ (j + 1) \in 1..Len(queue.q)
    BY <1>1
  <2>3. queue.q[j] \in Packet /\ queue.q[j + 1] \in Packet
    BY <1>1, <2>2, ElementOfSeq
  <2>4. queue.q[j + 1].id <= Len(received)
    <3>1. Faithful(queue.q[j + 1], received)
      BY <1>0, <2>2 DEF Marked
    <3>2. queue.q[j + 1].id # 0
      BY <1>3, <3>1 DEF Faithful
    <3> QED
      BY <3>1, <3>2 DEF Faithful
  <2> HIDE DEF Apart, ApartNext
  <2> QED
    BY <1>2, <2>1, <2>3, <2>4
<1> SUFFICES ASSUME NEW i \in 1..(Len(queue'.q) - 1),
                    queue'.q[i].kind = "zlp", queue'.q[i + 1].kind = "zlp"
             PROVE  ApartNext(queue'.q[i], queue'.q[i + 1])
  BY DEF NoZlpFlood
<1>4. CASE LaneStep
  <2>1. PICK j \in 1..(Len(queue.q) - 1) :
                queue'.q[i] = queue.q[j] /\ queue'.q[i + 1] = queue.q[j + 1]
    BY <1>0, <1>4, NoNewZlp
  <2> HIDE DEF ApartNext
  <2> QED
    BY <1>3, <2>1
<1>5. CASE PushStep
  <2> DEFINE m == Len(queue.q)
             n == Len(received)
  <2>1. /\ rpc = "push" /\ queue'.q = Append(queue.q, Latest)
        /\ UNCHANGED <<received, dropped>>
    BY <1>5 DEF PushStep
  <2>2. /\ n > 0 /\ Latest \in Packet /\ Latest.id = n
        /\ Latest.kind = received[n]
    BY <1>0, <2>1, LatestFacts DEF Marked
  <2>3. /\ Len(queue'.q) = m + 1 /\ queue'.q[m + 1] = Latest
        /\ \A j \in 1..m : queue'.q[j] = queue.q[j]
    BY <1>1, <2>1, <2>2, AppendProperties
  <2>4. CASE i # m
    <3>1. i \in 1..(m - 1) /\ i \in 1..m /\ (i + 1) \in 1..m
      BY <1>1, <2>3, <2>4
    <3>2. queue'.q[i] = queue.q[i] /\ queue'.q[i + 1] = queue.q[i + 1]
      BY <2>3, <3>1
    <3> HIDE DEF ApartNext, m, n
    <3> QED
      BY <1>3, <3>1, <3>2 DEF m
  <2>5. CASE i = m
    <3> DEFINE a == queue.q[m]
    <3>1. m \in 1..m /\ queue'.q[i] = a /\ queue'.q[i + 1] = Latest /\ a \in Packet
      BY <1>1, <2>3, <2>5, ElementOfSeq
    <3>2. LastIsZlp /\ a.kind = "zlp" /\ Latest.kind = "zlp"
      <4>1. queue.q # <<>>
        BY <1>1, <3>1
      <4> QED
        BY <3>1, <4>1 DEF LastIsZlp
    <3>3. zlpCount = 0
      BY <1>0, <2>1, <3>2 DEF Counted
    <3>4. a.id \in 1..n /\ received[a.id] = "zlp"
      <4>1. Faithful(a, received)
        BY <1>0, <3>1 DEF Marked
      <4>2. a.id # 0 /\ a.id \in Nat
        BY <3>1, <3>2, <4>1, PacketFields DEF Faithful
      <4>3. a.id <= n /\ received[a.id] = "zlp"
        BY <3>2, <4>1, <4>2 DEF Faithful
      <4> QED
        BY <1>1, <4>2, <4>3
    <3>5. a.id < n
      \* The packet the reader pushes is not in the queue yet.
      <4>1. Before(Numbers(queue.q), Numbers(InHand)) /\ Numbers(InHand) = {n}
        BY <1>0, <2>1, InHandNumbers DEF IInv, Flow
      <4>2. a.id \in Numbers(queue.q)
        BY <1>1, <3>1, <3>4, NumbersMembers
      <4> QED
        BY <4>1, <4>2 DEF Before
    <3>6. Passed = n - 1 /\ n - 1 > 0
      BY <1>1, <2>1, <3>4, <3>5 DEF Passed
    <3>7. received[n - 1] = "data" /\ [id |-> n - 1, why |-> "full"] \in dropped
      BY <1>0, <2>1, <3>2, <3>3, <3>6 DEF Counted
    <3>8. (n - 1) \in (a.id + 1)..(Latest.id - 1)
      <4>1. a.id # n - 1
        BY <3>4, <3>7
      <4> QED
        BY <1>1, <2>2, <3>4, <3>5, <4>1
    <3> QED
      BY <2>1, <3>1, <3>7, <3>8
  <2> QED
    BY <2>4, <2>5
<1> QED
  BY <1>0, <1>4, <1>5, QueueSteps

\* What the reader takes for superfluous follows a ZLP, now and later.
LEMMA TransferEndPassedKept ==
  ASSUME IInv, [Next]_vars
  PROVE  TransferEndPassed'
<1>0. TypeOK /\ Marked /\ Counted /\ Flow /\ TransferEndPassed
  BY DEF IInv
<1>1. Len(received) \in Nat
  BY <1>0, TypeFacts
<1>2. ASSUME NEW d \in dropped, d.why = "zlp"
      PROVE  d.id > 1 /\ received'[d.id - 1] = "zlp"
  <2>1. d.id > 1 /\ received[d.id - 1] = "zlp"
    BY <1>0, <1>2 DEF TransferEndPassed
  <2>2. d.id \in Lost /\ d.id \in Nat
    <3>1. d \in [id : 0..MaxReceived, why : {"stop", "zlp", "full", "filter"}]
      BY <1>0 DEF TypeOK
    <3>2. d.id \in Nat
      BY <3>1, BoundsAssumption
    <3>3. d.id # 0
      BY <2>1, <3>2
    <3> QED
      BY <3>2, <3>3 DEF Lost
  <2>3. d.id \in 1..Len(received)
    BY <1>0, <2>2 DEF Flow
  <2>4. d.id - 1 \in 1..Len(received)
    BY <1>1, <2>1, <2>2, <2>3
  <2> QED
    BY <1>0, <2>1, <2>4, HistorySteps
<1>3. CASE ReaderTest
  <2> DEFINE n == Len(received)
  <2>1. /\ rpc = "test" /\ UNCHANGED received
        /\ \/ UNCHANGED dropped
           \/ zlpCount # 0 /\ dropped' = dropped \cup {[id |-> Latest.id, why |-> "zlp"]}
    BY <1>3 DEF ReaderTest, Drop
  <2>2. Latest.id = n
    BY DEF Latest
  <2>3. zlpCount # 0 => n - 1 > 0 /\ received[n - 1] = "zlp"
    BY <1>0, <2>1 DEF Counted, Passed
  <2>4. ASSUME NEW d \in dropped', d.why = "zlp"
        PROVE  d.id > 1 /\ received'[d.id - 1] = "zlp"
    <3>1. CASE d \in dropped
      BY <1>2, <2>4, <3>1
    <3>2. CASE zlpCount # 0 /\ d = [id |-> n, why |-> "zlp"]
      <4>1. d.id = n
        BY <3>2
      <4>2. n - 1 > 0 /\ received[n - 1] = "zlp" /\ n > 1
        BY <1>1, <2>3, <3>2
      <4> QED
        BY <2>1, <4>1, <4>2
    <3> QED
      BY <2>1, <2>2, <2>4, <3>1, <3>2
  <2> QED
    BY <2>4 DEF TransferEndPassed
<1>4. CASE ~ReaderTest
  <2>1. \/ UNCHANGED dropped
        \/ \E p, why : why \in {"stop", "full", "filter"} /\ Drop(p, why)
    <3>1. ASSUME NEW kind \in {"zlp", "data"}, ReaderPacket(kind)
          PROVE  UNCHANGED dropped \/ Drop([id |-> Len(received) + 1], "stop")
      BY <3>1 DEF ReaderPacket
    <3>2. ReaderPush => UNCHANGED dropped \/ Drop(Latest, "full")
      BY DEF ReaderPush
    <3>3. WriterDequeue => UNCHANGED dropped \/ Drop(First(queue), "stop")
      BY DEF WriterDequeue
    <3>4. ASSUME NEW drop, WriterSend(drop)
          PROVE  UNCHANGED dropped \/ Drop(wp, "stop") \/ Drop(wp, "filter")
      BY <3>4 DEF WriterSend
    <3>5. ASSUME \/ ReaderLoop \/ ReaderNothing \/ WriterLoop \/ Inject \/ Stop
                 \/ \E complete \in BOOLEAN : WriterWait(complete)
                 \/ UNCHANGED vars
          PROVE  UNCHANGED dropped
      BY <3>5 DEF ReaderLoop, ReaderNothing, WriterLoop, Inject, Stop, SetReaderFlag,
         SetWriterFlag, WakeWriter, StopStep, WriterWait, vars
    <3>6. \/ UNCHANGED dropped \/ Drop([id |-> Len(received) + 1], "stop")
          \/ Drop(Latest, "full") \/ Drop(First(queue), "stop")
          \/ Drop(wp, "stop") \/ Drop(wp, "filter")
      <4>1. \/ \E kind \in {"zlp", "data"} : ReaderPacket(kind)
            \/ ReaderPush \/ WriterDequeue
            \/ \E drop \in {FALSE, FilterDrops} : WriterSend(drop)
            \/ \/ ReaderLoop \/ ReaderNothing \/ WriterLoop \/ Inject \/ Stop
               \/ \E complete \in BOOLEAN : WriterWait(complete)
               \/ UNCHANGED vars
        BY <1>4 DEF Next, ReaderReceive, ReaderOther, Writer
      <4>2. CASE \E kind \in {"zlp", "data"} : ReaderPacket(kind)
        BY <3>1, <4>2
      <4>3. CASE \E drop \in {FALSE, FilterDrops} : WriterSend(drop)
        BY <3>4, <4>3
      <4>4. CASE ReaderPush
        BY <3>2, <4>4
      <4>5. CASE WriterDequeue
        BY <3>3, <4>5
      <4> QED
        BY <3>5, <4>1, <4>2, <4>3, <4>4, <4>5
    <3> QED
      BY <3>6
  <2>2. ASSUME NEW d \in dropped', d.why = "zlp"
        PROVE  d \in dropped
    <3>1. CASE UNCHANGED dropped
      BY <2>2, <3>1
    <3>2. ASSUME NEW p, NEW why \in {"stop", "full", "filter"}, Drop(p, why)
          PROVE  d \in dropped
      <4>1. d \in dropped \/ d = [id |-> p.id, why |-> why]
        BY <2>2, <3>2 DEF Drop
      <4> QED
        BY <2>2, <3>2, <4>1
    <3> QED
      BY <2>1, <3>1, <3>2
  <2> QED
    BY <1>2, <2>2 DEF TransferEndPassed
<1> QED
  BY <1>3, <1>4
------------------------------------------------------------------------------
(* The theorems.                                                            *)

LEMMA IInvInitially == Init => IInv
<1> SUFFICES ASSUME Init PROVE IInv
  OBVIOUS
<1>1. TypeOK
  BY TypeInitially
<1>2. /\ queue.q = <<>> /\ queue.qPriority = <<>> /\ received = <<>> /\ sent = <<>>
      /\ dropped = {} /\ rpc = "loop" /\ wpc = "loop" /\ zlpCount = 0
  BY DEF Init, EmptyQueue
<1>3. Marked
  BY <1>2 DEF Marked
<1>4. Flow
  <2>1. Numbers(Held) = {} /\ Numbers(InHand) = {} /\ Lost = {}
    BY <1>2, NumbersOfNone DEF Held, InHand, Lost
  <2>2. 1..Len(received) = {}
    BY <1>2
  <2>3. Parts(Len(received), {}, {}, {}, {}, {})
    BY <2>2 DEF Parts, Before
  <2> QED
    BY <1>2, <2>1, <2>3, NumbersOfNone, FlowParts
<1>5. Counted
  BY <1>2 DEF Counted, Passed
<1>6. NoZlpFlood /\ TransferEndPassed
  <2>1. 1..(Len(queue.q) - 1) = {}
    BY <1>2
  <2> QED
    BY <1>2, <2>1 DEF NoZlpFlood, TransferEndPassed
<1> QED
  BY <1>1, <1>3, <1>4, <1>5, <1>6 DEF IInv

LEMMA IInvKept == IInv /\ [Next]_vars => IInv' /\ ChannelStep
<1> SUFFICES ASSUME IInv, [Next]_vars PROVE IInv' /\ ChannelStep
  OBVIOUS
<1>0. TypeOK /\ Marked /\ Counted
  BY DEF IInv
<1>1. TypeOK'
  <2>1. CASE UNCHANGED vars
    BY <1>0, <2>1 DEF TypeOK, vars, readerVars, writerVars
  <2> QED
    BY <1>0, <2>1, ReaderKeepsTypes, WriterKeepsTypes, OthersKeepTypes DEF Next
<1>2. Marked' /\ Counted'
  BY <1>0, MarkedKept, CountedKept
<1>3. Flow' /\ ChannelStep
  BY <1>1, <1>2, FlowKept
<1>4. NoZlpFlood' /\ TransferEndPassed'
  BY NoZlpFloodKept, TransferEndPassedKept
<1> QED
  BY <1>1, <1>2, <1>3, <1>4 DEF IInv

THEOREM Invariance == Spec => []IInv
BY IInvInitially, IInvKept, PTL DEF Spec

\* The variables stay in their types, and the lanes within QUEUE_MAX.
THEOREM TypeCorrect == Spec => []TypeOK
<1>1. IInv => TypeOK
  BY DEF IInv
<1> QED
  BY <1>1, Invariance, PTL

\* The whole pipeline ascends and holds the numbers of its parts.
LEMMA PipelineFacts ==
  ASSUME IInv
  PROVE  Ascending(Pipeline) /\ Numbers(Pipeline) = Numbers(sent) \cup InTransit
<1>0. TypeOK /\ Marked /\ Flow
  BY DEF IInv
<1>1. /\ sent \in Seq(Packet) /\ queue.q \in Seq(Packet)
      /\ Held \in Seq(Packet) /\ InHand \in Seq(Packet)
      /\ Ascending(Held) /\ Ascending(InHand)
  <2>1. sent \in Seq(Packet) /\ queue.q \in Seq(Packet) /\ wp \in Packet
    BY <1>0, TypeFacts DEF TypeOK
  <2>2. /\ <<>> \in Seq(Packet) /\ Ascending(<<>>)
        /\ \A p \in Packet : <<p>> \in Seq(Packet) /\ Ascending(<<p>>)
    BY NumbersOfOne, NumbersOfNone
  <2>3. Held \in Seq(Packet) /\ Ascending(Held)
    <3>1. Held = <<wp>> \/ Held = <<>>
      BY DEF Held
    <3> QED
      BY <2>1, <2>2, <3>1, Zenon
  <2>4. InHand \in Seq(Packet) /\ Ascending(InHand)
    <3>1. InHand = <<>> \/ (InHand = <<Latest>> /\ Latest \in Packet)
      BY <1>0, LatestFacts DEF InHand, Marked
    <3> QED
      BY <2>2, <3>1, Zenon
  <2> QED
    BY <2>1, <2>3, <2>4
<1> DEFINE a == sent \o Held
           b == a \o queue.q
<1>2. /\ Parts(Len(received), Numbers(sent), Numbers(Held), Numbers(queue.q),
               Numbers(InHand), Lost)
      /\ Ascending(sent) /\ Ascending(queue.q)
  BY <1>0, FlowParts
<1>3. /\ a \in Seq(Packet) /\ Ascending(a)
      /\ Numbers(a) = Numbers(sent) \cup Numbers(Held)
  <2>1. Before(Numbers(sent), Numbers(Held))
    BY <1>2 DEF Parts, Before
  <2> QED
    BY <1>1, <1>2, <2>1, NumbersOfConcat, ConcatProperties
<1> HIDE DEF a
<1>4. /\ b \in Seq(Packet) /\ Ascending(b)
      /\ Numbers(b) = Numbers(a) \cup Numbers(queue.q)
  <2>1. Before(Numbers(a), Numbers(queue.q))
    BY <1>2, <1>3 DEF Parts, Before
  <2> QED
    BY <1>1, <1>2, <1>3, <2>1, NumbersOfConcat, ConcatProperties
<1> HIDE DEF b
<1>5. /\ Ascending(b \o InHand)
      /\ Numbers(b \o InHand) = Numbers(b) \cup Numbers(InHand)
  <2>1. Before(Numbers(b), Numbers(InHand))
    BY <1>2, <1>3, <1>4 DEF Parts, Before
  <2> QED
    BY <1>1, <1>4, <2>1, NumbersOfConcat
<1>6. Pipeline = b \o InHand
  BY DEF Pipeline, a, b
<1> QED
  BY <1>3, <1>4, <1>5, <1>6 DEF InTransit

\* relay_read, the queue and relay_write send what was received in the order
\* received and nothing twice, whatever is dropped and injected in between.
THEOREM KeepsOrder == Spec => []OrderPreserved
<1>1. IInv => OrderPreserved
  BY PipelineFacts DEF OrderPreserved
<1> QED
  BY <1>1, Invariance, PTL

\* Every packet received is sent, on its way, or dropped for a named reason.
THEOREM AccountsForAll == Spec => []NothingVanishes
<1>1. IInv => NothingVanishes
  <2>1. IInv => 1..Len(received) = Numbers(sent) \cup InTransit \cup Lost
    BY DEF IInv, Flow
  <2> QED
    BY <2>1, PipelineFacts DEF NothingVanishes
<1> QED
  BY <1>1, Invariance, PTL

\* The ZLPs of an idle device do not fill the queue (comment of relay_read).
THEOREM IdleDeviceIsNoFlood == Spec => []NoZlpFlood
<1>1. IInv => NoZlpFlood
  BY DEF IInv
<1> QED
  BY <1>1, Invariance, PTL

\* relay_read never takes the ZLP that ends a transfer for a superfluous one.
THEOREM PassesTransferEnds == Spec => []TransferEndPassed
<1>1. IInv => TransferEndPassed
  BY DEF IInv
<1> QED
  BY <1>1, Invariance, PTL

\* The relay implements RelayContract: its behaviours, mapped, start as the
\* channel does and take only steps of the channel.
THEOREM ImplementsChannel == Spec => ContractSpec
<1>1. Init => Contract!Init
  <2> SUFFICES ASSUME Init PROVE Contract!Init
    OBVIOUS
  <2>1. /\ queue.q = <<>> /\ received = <<>> /\ sent = <<>> /\ dropped = {}
        /\ rpc = "loop" /\ wpc = "loop"
    BY DEF Init, EmptyQueue
  <2>2. Numbers(Held) = {} /\ Numbers(InHand) = {} /\ Lost = {}
    BY <2>1, NumbersOfNone DEF Held, InHand, Lost
  <2> QED
    BY <2>1, <2>2, NumbersOfNone DEF Contract!Init, InTransit
<1>2. IInv /\ [Next]_vars => [Contract!Next]_(Contract!channelVars)
  BY IInvKept DEF ChannelStep
<1> QED
  BY <1>1, <1>2, Invariance, PTL DEF Spec, ContractSpec, Contract!Spec
==============================================================================
