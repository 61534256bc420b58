------------------------- MODULE ControlRelayProofs -------------------------
(***************************************************************************)
(* The safety of endpoint 0 for any configurations, any number of requests  *)
(* and lanes of any size.                                                   *)
(*                                                                          *)
(* Without plugins there is never more than one request in the relay: it is *)
(* with the reader, in one of the queues or with the writer, and it is the  *)
(* one the host waits on.  With plugins it is still true that the reader    *)
(* takes replies only while the host waits.                                 *)
(***************************************************************************)
EXTENDS ControlRelay, PacketQueueProofs

\* There is at most one setup packet in a lane.
Alone(lane) == \A i, j \in Setups(lane) : i = j

\* The writer has a request in its hands.
Handling == wpc \in {"filter", "transfer", "config", "reply"}

\* The reader asks for a reply only while the host waits, and for a request only
\* while it does not.
Waits ==
    /\ rpc \in {"enqueue", "dequeue", "answer"} => waiting # 0
    /\ rpc = "loop" /\ ~direction_out /\ rp.kind = "null" => waiting # 0
    /\ rpc \in {"request", "wait"} => waiting = 0
    /\ rpc = "loop" /\ (direction_out \/ rp.kind # "null") => waiting = 0
    /\ rpc = "request" => direction_out
    /\ rpc = "dequeue" => ~direction_out /\ rp.kind = "null"
    /\ rpc \in {"enqueue", "answer", "wait"} => rp.kind = "setup"
    /\ rp.kind \in {"null", "setup"}

\* Nobody but an injector pushes into the priority lanes.
NoPriority == readersend.qPriority = <<>> /\ writersend.qPriority = <<>>

\* At most one request in the relay, and none when the host waits on nothing.
Lone ==
    /\ Alone(readersend.q) /\ Alone(writersend.q)
    /\ Requested(readersend.q) = {} \/ Requested(writersend.q) = {}
    /\ Handling => Requested(readersend.q) = {} /\ Requested(writersend.q) = {}
    /\ rpc \in {"enqueue", "answer"} \/ waiting = 0 =>
          ~Handling /\ Requested(readersend.q) = {} /\ Requested(writersend.q) = {}

\* The request the host waits on, and one the writer is done with.
Token(p)   == p.kind = "setup" /\ p.id = waiting /\ (p.op = "in" <=> lastControl = "in")
Replied(p) == /\ p.wLength # 0 => p.op = "in"
              /\ p.op = "config" /\ p.transmit_in => config = p.value

\* Whatever request is in the relay is that one.
Own ==
    /\ rpc \in {"enqueue", "answer"} => Token(rp)
    /\ rpc = "answer" => Replied(rp)
    /\ \A p \in Requested(readersend.q) : Token(p)
    /\ \A p \in Requested(writersend.q) : Token(p) /\ Replied(p)
    /\ Handling => Token(wp)
    /\ wpc = "config" => wp.wLength = 0
    /\ wpc = "reply" => Replied(wp)

Unplugged == ~plugged => NoPriority /\ Lone /\ Own

IInv == TypeOK /\ Waits /\ ReplyMatchesRequest /\ Unplugged
------------------------------------------------------------------------------
\* The packets the code makes are packets.
LEMMA PacketTypes ==
  ASSUME NEW k \in 0..MaxRequests, NEW r \in Request
  PROVE  /\ SetupPacket(k, r) \in Packet
         /\ SetupPacket(k, r).kind = "setup" /\ SetupPacket(k, r).id = k
         /\ SetupPacket(k, r).op = r.op
         /\ NullPacket \in Packet /\ NullPacket.kind = "null"
         /\ DataPacket \in Packet /\ DataPacket.kind = "data"
<1>1. r.op \in {"in", "out", "config"} /\ r.value \in Configs \cup {0}
  BY DEF Request
<1>2. 0 \in 0..MaxRequests
  BY BoundsAssumption
<1> QED
  BY <1>1, <1>2 DEF SetupPacket, NullPacket, DataPacket, Packet

LEMMA ConstantTypes ==
  /\ NullPacket \in Packet /\ NullPacket.kind = "null"
  /\ DataPacket \in Packet /\ DataPacket.kind = "data"
  /\ 0 \in 0..MaxRequests
<1>1. [op |-> "in", value |-> 0] \in Request /\ 0 \in 0..MaxRequests
  BY BoundsAssumption DEF Request
<1> QED
  BY <1>1, PacketTypes

\* A push of something that is no setup packet adds no request; one of a setup
\* packet adds at most that.
LEMMA PushRequested ==
  ASSUME NEW S, NEW lane \in Seq(S), NEW x \in S
  PROVE  /\ x.kind # "setup" =>
               /\ Requested(Push(lane, x)) = Requested(lane)
               /\ Alone(lane) => Alone(Push(lane, x))
         /\ x.kind = "setup" /\ Requested(lane) = {} =>
               /\ Requested(Push(lane, x)) \subseteq {x}
               /\ Alone(Push(lane, x))
<1>1. CASE Len(lane) >= QUEUE_MAX
  BY <1>1 DEF Push, Requested, Alone
<1>2. CASE ~(Len(lane) >= QUEUE_MAX)
  <2> DEFINE more == Append(lane, x)
  <2>1. Push(lane, x) = more
    BY <1>2 DEF Push
  <2>2. /\ Len(lane) \in Nat /\ Len(more) = Len(lane) + 1
        /\ \A i \in 1..Len(lane) : more[i] = lane[i]
        /\ more[Len(lane) + 1] = x
    BY AppendProperties, LenProperties
  <2> HIDE DEF more
  <2>3. ASSUME x.kind # "setup"
        PROVE  Setups(more) = Setups(lane)
    BY <2>2, <2>3 DEF Setups
  <2>4. ASSUME x.kind # "setup"
        PROVE  Requested(more) = Requested(lane)
    <3>1. \A i \in Setups(lane) : more[i] = lane[i]
      BY <2>2 DEF Setups
    <3> QED
      BY <2>3, <2>4, <3>1 DEF Requested
  <2>5. ASSUME Requested(lane) = {}
        PROVE  Requested(more) \subseteq {x} /\ Alone(more)
    <3>1. Setups(lane) = {}
      BY <2>5 DEF Requested
    <3>2. Setups(more) \subseteq {Len(lane) + 1}
      BY <2>2, <3>1 DEF Setups
    <3> QED
      BY <2>2, <3>2 DEF Requested, Alone
  <2> QED
    BY <2>1, <2>3, <2>4, <2>5 DEF Alone
<1> QED
  BY <1>1, <1>2

\* A lone request that leaves a lane leaves none behind.
LEMMA TailRequested ==
  ASSUME NEW S, NEW lane \in Seq(S), lane # <<>>
  PROVE  /\ Requested(Tail(lane)) \subseteq Requested(lane)
         /\ Alone(lane) => Alone(Tail(lane))
         /\ Head(lane).kind = "setup" =>
               /\ Head(lane) \in Requested(lane)
               /\ Alone(lane) => Requested(Tail(lane)) = {}
<1> DEFINE rest == Tail(lane)
<1>1. /\ Len(lane) \in Nat /\ Len(lane) >= 1
      /\ Len(rest) = Len(lane) - 1
      /\ \A i \in 1..Len(rest) : rest[i] = lane[i + 1]
      /\ Head(lane) = lane[1]
  BY HeadTailProperties, LenProperties, EmptySeq
<1> HIDE DEF rest
<1>2. \A i \in Setups(rest) : i \in Nat /\ i # 0 /\ i + 1 \in Setups(lane) /\ rest[i] = lane[i + 1]
  BY <1>1 DEF Setups
<1>3. Requested(rest) \subseteq Requested(lane)
  BY <1>2 DEF Requested
<1>4. Alone(lane) => Alone(rest)
  BY <1>2 DEF Alone, Setups
<1>5. ASSUME Head(lane).kind = "setup"
      PROVE  /\ Head(lane) \in Requested(lane)
             /\ Alone(lane) => Requested(rest) = {}
  <2>1. 1 \in Setups(lane)
    BY <1>1, <1>5 DEF Setups
  <2>2. Alone(lane) => Setups(rest) = {}
    BY <1>2, <2>1 DEF Alone
  <2> QED
    BY <1>1, <2>1, <2>2 DEF Requested
<1> QED
  BY <1>3, <1>4, <1>5 DEF rest

\* The same for queues whose priority lane is not used.
LEMMA EnqueueRequested ==
  ASSUME NEW S, NEW queue \in BoundedQueues(S), NEW x \in S
  PROVE  /\ Enqueue(queue, x) \in BoundedQueues(S)
         /\ Enqueue(queue, x).qPriority = queue.qPriority
         /\ x.kind # "setup" =>
               /\ Requested(Enqueue(queue, x).q) = Requested(queue.q)
               /\ Alone(queue.q) => Alone(Enqueue(queue, x).q)
         /\ x.kind = "setup" /\ Requested(queue.q) = {} =>
               /\ Requested(Enqueue(queue, x).q) \subseteq {x}
               /\ Alone(Enqueue(queue, x).q)
<1>1. Enqueue(queue, x).q = Push(queue.q, x) /\ Enqueue(queue, x).qPriority = queue.qPriority
  BY LanesOfQueue DEF Enqueue
<1>2. queue.q \in Seq(S)
  BY LanesOfQueue
<1> QED
  BY <1>1, <1>2, EnqueueProperties, PushRequested

LEMMA DequeueRequested ==
  ASSUME NEW S, NEW queue \in BoundedQueues(S), ~IsEmpty(queue), queue.qPriority = <<>>
  PROVE  /\ Rest(queue).qPriority = <<>>
         /\ Requested(Rest(queue).q) \subseteq Requested(queue.q)
         /\ Alone(queue.q) => Alone(Rest(queue).q)
         /\ First(queue).kind = "setup" =>
               /\ First(queue) \in Requested(queue.q)
               /\ Alone(queue.q) => Requested(Rest(queue).q) = {}
<1>1. queue.q \in Seq(S) /\ queue.q # <<>> /\ queue = [q |-> queue.q, qPriority |-> queue.qPriority]
  BY LanesOfQueue DEF IsEmpty
<1>2. Rest(queue) = [q |-> Tail(queue.q), qPriority |-> <<>>] /\ First(queue) = Head(queue.q)
  BY <1>1 DEF Rest, First
<1> QED
  BY <1>1, <1>2, TailRequested

\* Nothing has happened yet.
LEMMA InitInductive == Init => IInv
<1> SUFFICES ASSUME Init PROVE IInv
  OBVIOUS
<1>1. EmptyQueue \in BoundedQueues(Packet)
  <2>1. <<>> \in Seq(Packet) /\ Len(<<>>) = 0 /\ 0 <= QUEUE_MAX
    BY EmptySeq, QueueMaxAssumption
  <2> QED
    BY <2>1, QueueOfLanes DEF EmptyQueue
<1>2. TypeOK
  <2>1. 0 \in 0..MaxRequests /\ 0 \in 0..MaxInjected /\ 0 \in 0..4
    BY BoundsAssumption
  <2>2. rp \in Packet /\ wp \in Packet /\ readersend = EmptyQueue /\ writersend = EmptyQueue
    BY ConstantTypes DEF Init
  <2> QED
    BY <1>1, <2>1, <2>2 DEF Init, TypeOK
<1>3. Waits /\ ReplyMatchesRequest
  BY ConstantTypes DEF Init, Waits, ReplyMatchesRequest
<1>4. EmptyQueue.q = <<>> /\ EmptyQueue.qPriority = <<>> /\ Setups(<<>>) = {}
  BY EmptySeq DEF EmptyQueue, Setups
<1>5. Unplugged
  BY <1>4 DEF Init, Unplugged, NoPriority, Lone, Own, Alone, Requested, Handling
<1> QED
  BY <1>2, <1>3, <1>5 DEF IInv

\* What moves through the queues is packets.
LEMMA QueueTypes ==
  ASSUME NEW queue \in BoundedQueues(Packet), NEW p \in Packet
  PROVE  /\ Enqueue(queue, p) \in BoundedQueues(Packet)
         /\ EnqueuePriority(queue, p) \in BoundedQueues(Packet)
         /\ ~IsEmpty(queue) => First(queue) \in Packet /\ Rest(queue) \in BoundedQueues(Packet)
BY EnqueueProperties, DequeueProperties

\* Every step of the reader keeps the types.
LEMMA ReaderTypes ==
  ASSUME TypeOK, Reader
  PROVE  TypeOK'
<1> USE DEF TypeOK, hostVars, queueVars, readerVars, writerVars, ReaderAt, ReaderGoto, ReaderDone
<1>1. CASE ReaderLoop
  BY <1>1, ConstantTypes DEF ReaderLoop
<1>2. ASSUME NEW r \in Requests, ReaderSetup(r)
      PROVE  TypeOK'
  <2>1. r \in Request
    BY DEF Requests
  <2>2. requests + 1 \in 0..MaxRequests
    BY <1>2, BoundsAssumption DEF ReaderSetup
  <2>3. SetupPacket(requests + 1, r) \in Packet
    BY <2>1, <2>2, PacketTypes
  <2> QED
    BY <1>2, <2>2, <2>3, ConstantTypes DEF ReaderSetup
<1>3. ASSUME NEW event \in Events, ReaderNoSetup(event)
      PROVE  TypeOK'
  BY <1>3, ConstantTypes DEF ReaderNoSetup
<1>4. CASE ReaderEnqueue
  BY <1>4, ConstantTypes, QueueTypes DEF ReaderEnqueue
<1>5. CASE ReaderDequeue
  <2>1. First(writersend) \in Packet /\ Rest(writersend) \in BoundedQueues(Packet)
    BY <1>5, QueueTypes DEF ReaderDequeue
  <2> QED
    BY <1>5, <2>1, ConstantTypes DEF ReaderDequeue
<1>6. CASE ReaderAnswer
  <2>1. /\ rp.id \in 0..MaxRequests /\ (~rp.transmit_in) \in BOOLEAN
        /\ Stalls(AnswerIO(Answer(rp))) \in BOOLEAN
    BY DEF Packet, Stalls
  <2> DEFINE answer == [request |-> waiting, reply |-> rp.id, refused |-> ~rp.transmit_in,
                        stalled |-> Stalls(AnswerIO(Answer(rp)))]
             Answers == [request : 0..MaxRequests, reply : 0..MaxRequests,
                         refused : BOOLEAN, stalled : BOOLEAN]
  <2>2. answer \in Answers
    BY <2>1
  <2>3. answers' = answers \cup {answer} /\ answers \subseteq Answers
    BY <1>6 DEF ReaderAnswer
  <2> HIDE DEF answer, Answers
  <2>4. answers' \subseteq Answers
    BY <2>2, <2>3
  <2>5. TypeOK' <=> answers' \subseteq Answers
    BY <1>6, ConstantTypes DEF ReaderAnswer, Answers
  <2> QED
    BY <2>4, <2>5
<1>7. ASSUME NEW complete \in BOOLEAN, ReaderWait(complete)
      PROVE  TypeOK'
  BY <1>7, ConstantTypes DEF ReaderWait
<1> QED
  BY <1>1, <1>2, <1>3, <1>4, <1>5, <1>6, <1>7 DEF Reader

\* So does every step of the writer,
LEMMA WriterTypes ==
  ASSUME TypeOK, Writer
  PROVE  TypeOK'
<1> USE DEF TypeOK, hostVars, queueVars, readerVars, writerVars, WriterAt, WriterGoto, WriterDone
<1>1. CASE WriterLoop
  BY <1>1, ConstantTypes DEF WriterLoop
<1>2. CASE WriterDequeue
  <2>1. First(readersend) \in Packet /\ Rest(readersend) \in BoundedQueues(Packet)
    BY <1>2, QueueTypes DEF WriterDequeue
  <2> QED
    BY <1>2, <2>1, ConstantTypes DEF WriterDequeue
<1>3. ASSUME NEW drop \in {FALSE, plugged}, WriterFilter(drop)
      PROVE  TypeOK'
  BY <1>3, ConstantTypes DEF WriterFilter
<1>4. ASSUME NEW rc \in {"error", "empty", "some"}, NEW before \in {0, 1},
             WriterTransfer(ControlTransfer(rc, before))
      PROVE  TypeOK'
  <2>1. /\ ControlTransfer(rc, before).ok \in BOOLEAN
        /\ ControlTransfer(rc, before).length \in {0, 1}
    BY DEF ControlTransfer
  <2>2. wp' \in Packet
    BY <1>4, <2>1 DEF WriterTransfer, Packet
  <2> QED
    BY <1>4, <2>2 DEF WriterTransfer
<1>5. CASE WriterSetConfig
  <2>1. wp.value \in Configs \cup {0}
    BY DEF Packet
  <2>2. config' \in Configs \cup {0} /\ halted' \in BOOLEAN
    BY <1>5, <2>1 DEF WriterSetConfig
  <2> QED
    BY <1>5, <2>2 DEF WriterSetConfig
<1>6. CASE WriterReply
  BY <1>6, ConstantTypes, QueueTypes DEF WriterReply
<1> QED
  BY <1>1, <1>2, <1>3, <1>4, <1>5, <1>6 DEF Writer

\* and every step of the others.
LEMMA OtherTypes ==
  ASSUME TypeOK, Inject \/ Stop \/ UNCHANGED vars
  PROVE  TypeOK'
<1> USE DEF TypeOK, hostVars, queueVars, readerVars, writerVars
<1>1. ASSUME NEW p \in Packet, InjectOut(p) \/ InjectIn(p)
      PROVE  TypeOK'
  BY <1>1, QueueTypes, BoundsAssumption DEF InjectOut, InjectIn, Injected
<1>2. CASE Inject
  <2>1. \A r \in Requests, out \in BOOLEAN :
           [SetupPacket(0, r) EXCEPT !.transmit_out = out] \in Packet
    BY PacketTypes, ConstantTypes DEF Requests, Packet
  <2> QED
    BY <1>1, <1>2, <2>1, ConstantTypes DEF Inject
<1>3. CASE SetReaderFlag(0) \/ SetWriterFlag(2)
  <2>1. /\ stopping' \in 0..4
        /\ rstop' = TRUE \/ rstop' = rstop
        /\ wstop' = TRUE \/ wstop' = wstop
    BY <1>3 DEF SetReaderFlag, SetWriterFlag, StopStep
  <2>2. UNCHANGED <<readersend, writersend>>
    BY <1>3 DEF SetReaderFlag, SetWriterFlag
  <2>3. UNCHANGED <<plugged, rpc, direction_out, rp, lastControl, wpc, wp, requests, waiting, answers,
                    config, halted, injected>>
    BY <1>3 DEF SetReaderFlag, SetWriterFlag, StopStep
  <2>4. rstop' \in BOOLEAN /\ wstop' \in BOOLEAN
    BY <2>1, Zenon
  <2> QED
    BY <2>1, <2>2, <2>3, <2>4
<1>4. CASE WakeReader(1) \/ WakeWriter(3)
  <2>1. stopping' \in 0..4 /\ UNCHANGED <<rstop, wstop>>
    BY <1>4 DEF WakeReader, WakeWriter, StopStep
  <2>2. readersend' \in BoundedQueues(Packet) /\ writersend' \in BoundedQueues(Packet)
    BY <1>4, ConstantTypes, QueueTypes DEF WakeReader, WakeWriter
  <2>3. UNCHANGED <<plugged, rpc, direction_out, rp, lastControl, wpc, wp, hostVars,
                    config, halted, injected>>
    BY <1>4 DEF WakeReader, WakeWriter, StopStep
  <2> QED
    BY <2>1, <2>2, <2>3
<1>5. CASE UNCHANGED vars
  BY <1>5 DEF vars
<1> QED
  BY <1>2, <1>3, <1>4, <1>5 DEF Stop

LEMMA TypesInductive ==
  ASSUME TypeOK, [Next]_vars
  PROVE  TypeOK'
BY ReaderTypes, WriterTypes, OtherTypes DEF Next

\* What the properties speak of beside the queues and the writer belongs to the
\* reader; plugged belongs to nobody.
LEMMA ReadersOwn ==
  ASSUME Writer \/ Inject \/ Stop \/ UNCHANGED vars
  PROVE  UNCHANGED <<plugged, rpc, direction_out, rp, lastControl, waiting, answers>>
<1> USE DEF hostVars, readerVars
<1>1. CASE Writer
  BY <1>1 DEF Writer, WriterLoop, WriterDequeue, WriterFilter, WriterTransfer, WriterSetConfig, WriterReply
<1>2. CASE Inject
  BY <1>2 DEF Inject, InjectIn, InjectOut, Injected
<1>3. CASE Stop
  BY <1>3 DEF Stop, SetReaderFlag, WakeReader, SetWriterFlag, WakeWriter, StopStep
<1> QED
  BY <1>1, <1>2, <1>3 DEF vars

\* The reader's place and what the host waits on stay in step.
LEMMA WaitsInductive ==
  ASSUME TypeOK, Waits, [Next]_vars
  PROVE  Waits'
<1> USE DEF ReaderAt, ReaderGoto, ReaderDone
<1>0. NullPacket.kind = "null"
  BY ConstantTypes
<1>1. CASE ReaderLoop
  <2>1. rpc = "loop" /\ UNCHANGED <<direction_out, waiting>>
    BY <1>1 DEF ReaderLoop, hostVars
  <2>2. \/ rpc' = "done" /\ rp' = NullPacket
        \/ rpc' = "request" /\ direction_out /\ rp' = rp
        \/ rpc' = "dequeue" /\ ~direction_out /\ rp.kind = "null" /\ rp' = rp
        \/ rpc' = "wait" /\ ~direction_out /\ rp.kind # "null" /\ rp' = rp
    BY <1>1 DEF ReaderLoop
  <2> QED
    BY <1>0, <2>1, <2>2 DEF Waits
<1>2. ASSUME NEW r \in Requests, ReaderSetup(r)
      PROVE  Waits'
  <2>1. waiting' # 0
    BY <1>2 DEF ReaderSetup, TypeOK
  <2>2. SetupPacket(requests + 1, r).kind = "setup"
    BY DEF SetupPacket
  <2> QED
    BY <1>0, <1>2, <2>1, <2>2 DEF ReaderSetup, Waits
<1>3. ASSUME NEW event \in Events, ReaderNoSetup(event)
      PROVE  Waits'
  <2>1. rpc = "request" /\ UNCHANGED <<direction_out, waiting>>
    BY <1>3 DEF ReaderNoSetup, hostVars
  <2>2. rpc' \in {"done", "request", "loop"} /\ (rp' = NullPacket \/ rp' = rp)
    BY <1>3 DEF ReaderNoSetup
  <2> QED
    BY <1>0, <2>1, <2>2 DEF Waits
<1>4. CASE ReaderEnqueue
  BY <1>0, <1>4 DEF ReaderEnqueue, Waits, hostVars
<1>5. CASE ReaderDequeue
  BY <1>0, <1>5 DEF ReaderDequeue, Waits, hostVars
<1>6. CASE ReaderAnswer
  BY <1>6 DEF ReaderAnswer, Waits
<1>7. ASSUME NEW complete \in BOOLEAN, ReaderWait(complete)
      PROVE  Waits'
  BY <1>7, <1>0 DEF ReaderWait, Waits, hostVars
<1>8. CASE Writer \/ Inject \/ Stop \/ UNCHANGED vars
  BY <1>8, ReadersOwn DEF Waits
<1> QED
  BY <1>1, <1>2, <1>3, <1>4, <1>5, <1>6, <1>7, <1>8 DEF Next, Reader

\* Whatever the reader does with the reply to the host's own request is a stall
\* if and only if the device refused the request.
LEMMA StallsAsRefused ==
  ASSUME TypeOK, Own, rpc = "answer"
  PROVE  Stalls(AnswerIO(Answer(rp))) <=> ~rp.transmit_in
<1>1. (rp.op = "in" <=> lastControl = "in") /\ (rp.wLength # 0 => rp.op = "in")
  BY DEF Own, Token, Replied
<1>2. lastControl \in {"in", "out"} /\ rp.transmit_in \in BOOLEAN
  BY DEF TypeOK, Packet
<1>3. CASE ~rp.transmit_in
  BY <1>2, <1>3 DEF Stalls, AnswerIO, Answer
<1>4. CASE rp.transmit_in /\ rp.wLength # 0
  BY <1>1, <1>4 DEF Stalls, AnswerIO, Answer
<1>5. CASE rp.transmit_in /\ rp.wLength = 0
  BY <1>2, <1>5 DEF Stalls, AnswerIO, Answer
<1> QED
  BY <1>3, <1>4, <1>5

\* The reader answers when the host waits; without plugins with the host's own
\* reply, and so that lastControl turns it into what the device said.
LEMMA AnswersInductive ==
  ASSUME TypeOK, Waits, Unplugged, ReplyMatchesRequest, [Next]_vars
  PROVE  ReplyMatchesRequest'
<1>1. CASE ReaderAnswer
  <2> DEFINE answer == [request |-> waiting, reply |-> rp.id, refused |-> ~rp.transmit_in,
                        stalled |-> Stalls(AnswerIO(Answer(rp)))]
  <2>1. answer.request # 0
    BY <1>1 DEF ReaderAnswer, ReaderAt, Waits
  <2>2. ASSUME ~plugged
        PROVE  answer.request = answer.reply /\ (answer.stalled <=> answer.refused)
    <3>1. rp.id = waiting /\ Own /\ rpc = "answer"
      BY <1>1, <2>2 DEF ReaderAnswer, ReaderAt, Unplugged, Own, Token
    <3>2. Stalls(AnswerIO(Answer(rp))) <=> ~rp.transmit_in
      BY <3>1, StallsAsRefused
    <3> QED
      BY <3>1, <3>2
  <2>3. answers' = answers \cup {answer} /\ plugged' = plugged
    BY <1>1 DEF ReaderAnswer
  <2> HIDE DEF answer
  <2> QED
    BY <2>1, <2>2, <2>3 DEF ReplyMatchesRequest
<1>2. CASE UNCHANGED <<answers, plugged>>
  BY <1>2 DEF ReplyMatchesRequest
<1>3. ASSUME Reader, ~ReaderAnswer
      PROVE  UNCHANGED <<answers, plugged>>
  BY <1>3 DEF Reader, ReaderLoop, ReaderSetup, ReaderNoSetup, ReaderEnqueue, ReaderDequeue, ReaderWait, hostVars
<1> QED
  BY <1>1, <1>2, <1>3, ReadersOwn DEF Next

\* The request is handed on, never copied: the reader's steps,
LEMMA ReaderHandsOn ==
  ASSUME TypeOK, Waits, NoPriority, Lone, Own, Reader
  PROVE  (NoPriority /\ Lone /\ Own)'
<1> USE DEF ReaderAt, ReaderGoto, ReaderDone, writerVars, hostVars, queueVars
<1>0. readersend \in BoundedQueues(Packet) /\ writersend \in BoundedQueues(Packet)
  BY DEF TypeOK
<1>1. CASE ReaderLoop
  BY <1>1 DEF ReaderLoop, NoPriority, Lone, Own, Handling, Token, Replied
<1>2. ASSUME NEW r \in Requests, ReaderSetup(r)
      PROVE  (NoPriority /\ Lone /\ Own)'
  <2>1. /\ Requested(readersend.q) = {} /\ Requested(writersend.q) = {} /\ ~Handling
        /\ UNCHANGED <<readersend, writersend, wpc, wp>>
    BY <1>2 DEF ReaderSetup, Waits, Lone
  <2>2. NoPriority' /\ Lone' /\ ~Handling'
    BY <1>2, <2>1 DEF NoPriority, Lone, Handling
  <2>3. rpc' \in {"enqueue", "done"} /\ (rpc' = "enqueue" => rp' = SetupPacket(requests + 1, r))
    BY <1>2 DEF ReaderSetup
  <2>4. waiting' = requests + 1 /\ (r.op = "in" <=> lastControl' = "in")
    BY <1>2 DEF ReaderSetup
  <2>5. rpc' = "enqueue" => Token(rp)'
    BY <2>3, <2>4 DEF Token, SetupPacket
  <2> QED
    BY <2>1, <2>2, <2>3, <2>5 DEF Own, Handling
<1>3. ASSUME NEW event \in Events, ReaderNoSetup(event)
      PROVE  (NoPriority /\ Lone /\ Own)'
  BY <1>3 DEF ReaderNoSetup, NoPriority, Lone, Own, Handling, Token, Replied
<1>4. CASE ReaderEnqueue
  <2>1. /\ Requested(readersend.q) = {} /\ Requested(writersend.q) = {} /\ ~Handling
        /\ Token(rp) /\ rp.kind = "setup" /\ rp \in Packet /\ waiting # 0
    BY <1>4 DEF ReaderEnqueue, Lone, Own, Token, TypeOK, Waits
  <2>2. /\ readersend'.qPriority = readersend.qPriority
        /\ Requested(readersend'.q) \subseteq {rp} /\ Alone(readersend'.q)
    <3>1. readersend' = Enqueue(readersend, rp)
      BY <1>4 DEF ReaderEnqueue
    <3>2. /\ Enqueue(readersend, rp).qPriority = readersend.qPriority
          /\ Requested(Enqueue(readersend, rp).q) \subseteq {rp}
          /\ Alone(Enqueue(readersend, rp).q)
      BY <1>0, <2>1, EnqueueRequested
    <3> QED
      BY <3>1, <3>2
  <2>3. UNCHANGED <<writersend, wpc, wp, waiting, lastControl, config>> /\ rpc' = "loop"
    BY <1>4 DEF ReaderEnqueue
  <2>4. NoPriority' /\ Lone'
    BY <2>1, <2>2, <2>3 DEF NoPriority, Lone, Handling
  <2> QED
    BY <2>1, <2>2, <2>3, <2>4 DEF Own, Token, Handling
<1>5. CASE ReaderDequeue
  <2>1. /\ writersend'.qPriority = writersend.qPriority
        /\ Requested(writersend'.q) \subseteq Requested(writersend.q) /\ Alone(writersend'.q)
        /\ First(writersend).kind = "setup" =>
              First(writersend) \in Requested(writersend.q) /\ Requested(writersend'.q) = {}
    BY <1>0, <1>5, DequeueRequested DEF ReaderDequeue, NoPriority, Lone
  <2>2. UNCHANGED <<readersend, wpc, wp, waiting, lastControl, config>> /\ waiting # 0
    BY <1>5 DEF ReaderDequeue, Waits
  <2>3. /\ rpc' \in {"loop", "answer", "done"}
        /\ rpc' = "answer" => rp' = First(writersend) /\ First(writersend).kind = "setup"
    BY <1>5 DEF ReaderDequeue
  <2>4. NoPriority' /\ Lone'
    BY <2>1, <2>2, <2>3 DEF NoPriority, Lone, Handling
  <2> QED
    BY <2>1, <2>2, <2>3, <2>4 DEF Own, Token, Replied, Handling
<1>6. CASE ReaderAnswer
  BY <1>6 DEF ReaderAnswer, NoPriority, Lone, Own, Handling
<1>7. ASSUME NEW complete \in BOOLEAN, ReaderWait(complete)
      PROVE  (NoPriority /\ Lone /\ Own)'
  BY <1>7 DEF ReaderWait, NoPriority, Lone, Own, Handling, Token, Replied
<1> QED
  BY <1>1, <1>2, <1>3, <1>4, <1>5, <1>6, <1>7 DEF Reader

\* the writer's steps,
LEMMA WriterHandsOn ==
  ASSUME TypeOK, NoPriority, Lone, Own, Writer
  PROVE  (NoPriority /\ Lone /\ Own)'
<1> USE DEF WriterAt, WriterGoto, WriterDone, readerVars, hostVars, queueVars
<1>0. readersend \in BoundedQueues(Packet) /\ writersend \in BoundedQueues(Packet)
  BY DEF TypeOK
<1>1. CASE WriterLoop
  BY <1>1 DEF WriterLoop, NoPriority, Lone, Own, Handling, Token, Replied
<1>2. CASE WriterDequeue
  <2>1. /\ readersend'.qPriority = readersend.qPriority
        /\ Requested(readersend'.q) \subseteq Requested(readersend.q) /\ Alone(readersend'.q)
        /\ First(readersend).kind = "setup" =>
              First(readersend) \in Requested(readersend.q) /\ Requested(readersend'.q) = {}
    BY <1>0, <1>2, DequeueRequested DEF WriterDequeue, NoPriority, Lone
  <2>2. UNCHANGED <<writersend, rpc, rp, waiting, lastControl, config>>
    BY <1>2 DEF WriterDequeue
  <2>3. /\ wpc' \in {"loop", "filter", "done"}
        /\ wpc' = "filter" => wp' = First(readersend) /\ First(readersend).kind = "setup"
    BY <1>2 DEF WriterDequeue
  <2>4. NoPriority' /\ Lone'
    BY <2>1, <2>2, <2>3 DEF NoPriority, Lone, Handling
  <2> QED
    BY <2>1, <2>2, <2>3, <2>4 DEF Own, Token, Replied, Handling
<1>3. ASSUME NEW drop \in {FALSE, plugged}, WriterFilter(drop)
      PROVE  (NoPriority /\ Lone /\ Own)'
  BY <1>3 DEF WriterFilter, NoPriority, Lone, Own, Handling, Token, Replied
<1>4. ASSUME NEW rc \in {"error", "empty", "some"}, NEW before \in {0, 1},
             WriterTransfer(ControlTransfer(rc, before))
      PROVE  (NoPriority /\ Lone /\ Own)'
  <2>1. /\ wp'.kind = wp.kind /\ wp'.id = wp.id /\ wp'.op = wp.op
        /\ wp'.wLength # 0 => wp.op = "in"
    BY <1>4 DEF WriterTransfer, TypeOK, Packet
  <2>2. /\ Handling /\ wpc' \in {"config", "reply"}
        /\ wpc' = IF wp.op = "config" THEN "config" ELSE "reply"
        /\ UNCHANGED <<readersend, writersend, rpc, rp, waiting, lastControl, config>>
    BY <1>4 DEF WriterTransfer, Handling
  <2>3. NoPriority' /\ Lone'
    BY <2>2 DEF NoPriority, Lone, Handling
  <2> QED
    BY <2>1, <2>2, <2>3 DEF Own, Token, Replied, Handling
<1>5. CASE WriterSetConfig
  <2>1. /\ Handling /\ UNCHANGED <<readersend, writersend, rpc, rp, waiting, lastControl, wp>>
        /\ \/ wpc' = wpc /\ config' = config
           \/ wpc' = "reply" /\ config' = wp.value
    BY <1>5 DEF WriterSetConfig, Handling
  <2>2. NoPriority' /\ Lone'
    BY <2>1 DEF NoPriority, Lone, Handling
  <2>3. rpc \notin {"enqueue", "answer"} /\ Requested(writersend.q) = {}
    BY <2>1 DEF Lone
  <2>4. wp.wLength = 0
    BY <1>5 DEF WriterSetConfig, Own
  <2> QED
    BY <2>1, <2>2, <2>3, <2>4 DEF Own, Token, Replied, Handling
<1>6. CASE WriterReply
  <2>1. /\ Requested(readersend.q) = {} /\ Requested(writersend.q) = {}
        /\ rpc \notin {"enqueue", "answer"} /\ waiting # 0
        /\ Token(wp) /\ Replied(wp) /\ wp.kind = "setup" /\ wp \in Packet
    BY <1>6 DEF WriterReply, Handling, Lone, Own, Token, TypeOK
  <2>2. /\ writersend'.qPriority = writersend.qPriority
        /\ Requested(writersend'.q) \subseteq {wp} /\ Alone(writersend'.q)
    <3>1. writersend' = Enqueue(writersend, wp)
      BY <1>6 DEF WriterReply
    <3>2. /\ Enqueue(writersend, wp).qPriority = writersend.qPriority
          /\ Requested(Enqueue(writersend, wp).q) \subseteq {wp}
          /\ Alone(Enqueue(writersend, wp).q)
      BY <1>0, <2>1, EnqueueRequested
    <3> QED
      BY <3>1, <3>2
  <2>3. UNCHANGED <<readersend, rpc, rp, waiting, lastControl, config>> /\ wpc' = "loop"
    BY <1>6 DEF WriterReply
  <2>4. NoPriority' /\ Lone'
    BY <2>1, <2>2, <2>3 DEF NoPriority, Lone, Handling
  <2> QED
    BY <2>1, <2>2, <2>3, <2>4 DEF Own, Token, Replied, Handling
<1> QED
  BY <1>1, <1>2, <1>3, <1>4, <1>5, <1>6 DEF Writer

\* and the two null packets of please_stop.
LEMMA StopHandsOn ==
  ASSUME TypeOK, NoPriority, Lone, Own, Stop \/ UNCHANGED vars
  PROVE  (NoPriority /\ Lone /\ Own)'
<1> USE DEF StopStep, hostVars, queueVars
<1>0. /\ readersend \in BoundedQueues(Packet) /\ writersend \in BoundedQueues(Packet)
      /\ NullPacket \in Packet /\ NullPacket.kind # "setup"
  BY ConstantTypes DEF TypeOK
<1>1. CASE SetReaderFlag(0) \/ SetWriterFlag(2) \/ UNCHANGED vars
  BY <1>1 DEF SetReaderFlag, SetWriterFlag, vars, readerVars, writerVars,
              NoPriority, Lone, Own, Handling, Token, Replied
<1>2. ASSUME WakeReader(1) \/ WakeWriter(3)
      PROVE  /\ readersend'.qPriority = readersend.qPriority
             /\ writersend'.qPriority = writersend.qPriority
             /\ Requested(readersend'.q) = Requested(readersend.q)
             /\ Requested(writersend'.q) = Requested(writersend.q)
             /\ Alone(readersend.q) => Alone(readersend'.q)
             /\ Alone(writersend.q) => Alone(writersend'.q)
             /\ UNCHANGED <<rpc, rp, lastControl, wpc, wp, waiting, config>>
  BY <1>0, <1>2, EnqueueRequested DEF WakeReader, WakeWriter
<1>3. CASE WakeReader(1) \/ WakeWriter(3)
  BY <1>2, <1>3 DEF NoPriority, Lone, Own, Handling, Token, Replied
<1> QED
  BY <1>1, <1>3 DEF Stop

LEMMA PluggedStays ==
  ASSUME [Next]_vars
  PROVE  plugged' = plugged
<1>1. Reader => plugged' = plugged
  BY DEF Reader, ReaderLoop, ReaderSetup, ReaderNoSetup, ReaderEnqueue, ReaderDequeue,
         ReaderAnswer, ReaderWait
<1> QED
  BY <1>1, ReadersOwn DEF Next

LEMMA UnpluggedInductive ==
  ASSUME TypeOK, Waits, Unplugged, [Next]_vars
  PROVE  Unplugged'
<1>1. plugged' = plugged
  BY PluggedStays
<1> SUFFICES ASSUME ~plugged PROVE (NoPriority /\ Lone /\ Own)'
  BY <1>1 DEF Unplugged
<1>2. NoPriority /\ Lone /\ Own
  BY DEF Unplugged
<1>3. ~Inject
  BY DEF Inject, InjectIn, InjectOut, Injected
<1> QED
  BY <1>2, <1>3, ReaderHandsOn, WriterHandsOn, StopHandsOn DEF Next

LEMMA Invariant == Spec => []IInv
<1>1. IInv /\ [Next]_vars => IInv'
  BY TypesInductive, WaitsInductive, AnswersInductive, UnpluggedInductive DEF IInv
<1> QED
  BY <1>1, InitInductive, PTL DEF Spec
------------------------------------------------------------------------------
\* Without plugins the request in the relay is one, on one side of the device.
LEMMA OneRequest ==
  ASSUME Lone
  PROVE  /\ Executed = {} \/ Unexecuted = {}
         /\ \A p, q \in Executed : p = q
         /\ \A p, q \in Unexecuted : p = q
<1>1. ASSUME NEW lane, Alone(lane)
      PROVE  \A p, q \in Requested(lane) : p = q
  BY <1>1 DEF Alone, Requested
<1>2. /\ \A p, q \in Requested(readersend.q) : p = q
      /\ \A p, q \in Requested(writersend.q) : p = q
  BY <1>1 DEF Lone
<1>3. CASE rpc \in {"enqueue", "answer"}
  BY <1>3 DEF Lone, Handling, Executed, Unexecuted
<1>4. CASE rpc \notin {"enqueue", "answer"} /\ Handling
  BY <1>4 DEF Lone, Handling, Executed, Unexecuted
<1>5. CASE rpc \notin {"enqueue", "answer"} /\ ~Handling
  <2>1. Executed = Requested(writersend.q) /\ Unexecuted = Requested(readersend.q)
    BY <1>5 DEF Handling, Executed, Unexecuted
  <2> QED
    BY <1>2, <2>1 DEF Lone
<1> QED
  BY <1>3, <1>4, <1>5

\* What the contract does not see, or sees as a loss: requests that move on or
\* disappear.
Shrinks == /\ Executed' \subseteq Executed /\ Unexecuted' \subseteq Unexecuted
           /\ UNCHANGED <<plugged, requests, waiting, config, answers>>

ContractStep == [Contract!Next]_(Contract!contractVars)

LEMMA ShrinkingLoses ==
  ASSUME Lone, ~plugged, Shrinks
  PROVE  ContractStep
<1>1. Progress' = Progress \/ (Progress # "none" /\ Progress' = "none")
  <2>1. CASE Executed' # {}
    <3>1. Executed' = Executed /\ Executed # {}
      BY <2>1, OneRequest DEF Shrinks
    <3> QED
      BY <3>1 DEF Shrinks, Progress
  <2>2. CASE Executed' = {} /\ Unexecuted' # {}
    <3>1. Unexecuted # {} /\ Executed = {}
      BY <2>2, OneRequest DEF Shrinks
    <3> QED
      BY <2>2, <3>1 DEF Shrinks, Progress
  <2>3. CASE Executed' = {} /\ Unexecuted' = {}
    BY <2>3 DEF Shrinks, Progress
  <2> QED
    BY <2>1, <2>2, <2>3
<1>2. Told' = Told
  BY DEF Shrinks, Told
<1> QED
  BY <1>1, <1>2 DEF Shrinks, ContractStep, Contract!Next, Contract!Lose, Contract!contractVars

\* What an answer tells the host.
LEMMA AnswerTells ==
  ASSUME ReaderAnswer
  PROVE  Told' = Told \cup {[request |-> waiting, stalled |-> Stalls(AnswerIO(Answer(rp)))]}
<1> DEFINE answer == [request |-> waiting, reply |-> rp.id, refused |-> ~rp.transmit_in,
                      stalled |-> Stalls(AnswerIO(Answer(rp)))]
           Telling(a) == [request |-> a.request, stalled |-> a.stalled]
<1>1. answers' = answers \cup {answer}
  BY DEF ReaderAnswer
<1>2. Telling(answer) = [request |-> waiting, stalled |-> Stalls(AnswerIO(Answer(rp)))]
  OBVIOUS
<1>3. Told = {Telling(a) : a \in answers} /\ Told' = {Telling(a) : a \in answers'}
  BY DEF Told
<1> HIDE DEF answer, Telling
<1>4. Told' = Told \cup {Telling(answer)}
  BY <1>1, <1>3
<1> QED
  BY <1>2, <1>4

\* The reader's steps, seen by the contract.
LEMMA ReaderContract ==
  ASSUME TypeOK, Waits, NoPriority, Lone, Own, ~plugged, Reader
  PROVE  ContractStep
<1> USE DEF ReaderAt, ReaderGoto, ReaderDone, writerVars, hostVars, queueVars
<1>0. readersend \in BoundedQueues(Packet) /\ writersend \in BoundedQueues(Packet)
  BY DEF TypeOK
<1>1. CASE ReaderLoop
  <2>1. Shrinks
    BY <1>1 DEF ReaderLoop, Shrinks, Executed, Unexecuted
  <2> QED
    BY <2>1, ShrinkingLoses
<1>2. ASSUME NEW r \in Requests, ReaderSetup(r)
      PROVE  ContractStep
  <2>1. /\ waiting = 0 /\ waiting' = requests + 1 /\ requests' = requests + 1
        /\ Requested(writersend.q) = {} /\ ~Handling
        /\ UNCHANGED <<plugged, config, answers, writersend, wpc, wp>>
        /\ rpc' \in {"enqueue", "done"}
    BY <1>2 DEF ReaderSetup, Waits, Lone
  <2>2. Executed' = {}
    BY <2>1 DEF Executed, Handling
  <2>3. Progress' \in {"none", "asked"} /\ Told' = Told
    BY <2>1, <2>2 DEF Progress, Told
  <2>4. Contract!Ask
    BY <2>1, <2>3 DEF Contract!Ask
  <2> QED
    BY <2>4 DEF ContractStep, Contract!Next
<1>3. ASSUME NEW event \in Events, ReaderNoSetup(event)
      PROVE  ContractStep
  <2>1. Shrinks
    BY <1>3 DEF ReaderNoSetup, Shrinks, Executed, Unexecuted
  <2> QED
    BY <2>1, ShrinkingLoses
<1>4. CASE ReaderEnqueue
  <2>1. rp.kind = "setup" /\ rp \in Packet /\ Requested(readersend.q) = {}
    BY <1>4 DEF ReaderEnqueue, Waits, TypeOK, Lone
  <2>2. Requested(Enqueue(readersend, rp).q) \subseteq {rp}
    BY <1>0, <2>1, EnqueueRequested
  <2>3. Requested(readersend'.q) \subseteq {rp}
    BY <1>4, <2>2 DEF ReaderEnqueue
  <2>4. Shrinks
    BY <1>4, <2>3 DEF ReaderEnqueue, Shrinks, Executed, Unexecuted
  <2> QED
    BY <2>4, ShrinkingLoses
<1>5. CASE ReaderDequeue
  <2>1. /\ Requested(writersend'.q) \subseteq Requested(writersend.q)
        /\ First(writersend).kind = "setup" => First(writersend) \in Requested(writersend.q)
    BY <1>0, <1>5, DequeueRequested DEF ReaderDequeue, NoPriority
  <2>2. /\ rpc = "dequeue" /\ rpc' \in {"loop", "answer", "done"}
        /\ rpc' = "answer" => rp' = First(writersend) /\ First(writersend).kind = "setup"
        /\ UNCHANGED <<plugged, readersend, wpc, wp, requests, waiting, config, answers>>
    BY <1>5 DEF ReaderDequeue
  <2>3. Shrinks
    BY <2>1, <2>2 DEF Shrinks, Executed, Unexecuted
  <2> QED
    BY <2>3, ShrinkingLoses
<1>6. CASE ReaderAnswer
  <2> DEFINE stalled == Stalls(AnswerIO(Answer(rp)))
  <2>1. /\ waiting # 0 /\ waiting' = 0 /\ rpc = "answer" /\ rpc' = "wait"
        /\ Requested(writersend.q) = {} /\ Requested(readersend.q) = {} /\ ~Handling
        /\ UNCHANGED <<plugged, readersend, writersend, wpc, wp, rp, requests, config>>
    BY <1>6 DEF ReaderAnswer, Waits, Lone
  <2>2. Executed = {rp} /\ Executed' = {} /\ Unexecuted' = {}
    BY <2>1 DEF Executed, Unexecuted, Handling
  <2>3. stalled <=> ~rp.transmit_in
    BY <2>1, StallsAsRefused
  <2>4. stalled \in BOOLEAN
    BY DEF Stalls
  <2>5. /\ Progress = (IF stalled THEN "refused" ELSE "accepted")
        /\ Progress' = "none"
    BY <2>1, <2>2, <2>3 DEF Progress
  <2>6. Told' = Told \cup {[request |-> waiting, stalled |-> stalled]}
    BY <1>6, AnswerTells
  <2> HIDE DEF stalled
  <2>7. Contract!Answer(stalled)
    BY <2>1, <2>5, <2>6 DEF Contract!Answer
  <2> QED
    BY <2>4, <2>7 DEF ContractStep, Contract!Next
<1>7. ASSUME NEW complete \in BOOLEAN, ReaderWait(complete)
      PROVE  ContractStep
  <2>1. Shrinks
    BY <1>7 DEF ReaderWait, Shrinks, Executed, Unexecuted
  <2> QED
    BY <2>1, ShrinkingLoses
<1> QED
  BY <1>1, <1>2, <1>3, <1>4, <1>5, <1>6, <1>7 DEF Reader

\* The writer's steps,
LEMMA WriterContract ==
  ASSUME TypeOK, NoPriority, Lone, Own, ~plugged, Writer
  PROVE  ContractStep
<1> USE DEF WriterAt, WriterGoto, WriterDone, readerVars, hostVars, queueVars
<1>0. readersend \in BoundedQueues(Packet) /\ writersend \in BoundedQueues(Packet)
  BY DEF TypeOK
<1>1. CASE WriterLoop
  <2>1. Shrinks
    BY <1>1 DEF WriterLoop, Shrinks, Executed, Unexecuted
  <2> QED
    BY <2>1, ShrinkingLoses
<1>2. CASE WriterDequeue
  <2>1. /\ Requested(readersend'.q) \subseteq Requested(readersend.q)
        /\ First(readersend).kind = "setup" => First(readersend) \in Requested(readersend.q)
    BY <1>0, <1>2, DequeueRequested DEF WriterDequeue, NoPriority
  <2>2. /\ wpc = "dequeue" /\ wpc' \in {"loop", "filter", "done"}
        /\ wpc' = "filter" => wp' = First(readersend) /\ First(readersend).kind = "setup"
        /\ UNCHANGED <<plugged, writersend, rpc, rp, requests, waiting, config, answers>>
    BY <1>2 DEF WriterDequeue
  <2>3. Shrinks
    BY <2>1, <2>2 DEF Shrinks, Executed, Unexecuted
  <2> QED
    BY <2>3, ShrinkingLoses
<1>3. ASSUME NEW drop \in {FALSE, plugged}, WriterFilter(drop)
      PROVE  ContractStep
  <2>1. Shrinks
    BY <1>3 DEF WriterFilter, Shrinks, Executed, Unexecuted
  <2> QED
    BY <2>1, ShrinkingLoses
<1>4. ASSUME NEW rc \in {"error", "empty", "some"}, NEW before \in {0, 1},
             WriterTransfer(ControlTransfer(rc, before))
      PROVE  ContractStep
  <2>1. /\ wpc = "transfer" /\ wpc' \in {"config", "reply"} /\ Handling
        /\ UNCHANGED <<plugged, readersend, writersend, rpc, rp, requests, waiting, config, answers>>
    BY <1>4 DEF WriterTransfer, Handling
  <2>2. /\ Executed = {} /\ wp \in Unexecuted
        /\ Executed' # {}
    BY <2>1 DEF Lone, Executed, Unexecuted
  <2>3. Progress = "asked" /\ Progress' \in {"accepted", "refused"} /\ Told' = Told
    BY <2>1, <2>2 DEF Progress, Told
  <2>4. Contract!Execute
    BY <2>1, <2>3 DEF Contract!Execute, Contract!Executed
  <2> QED
    BY <2>4 DEF ContractStep, Contract!Next
<1>5. CASE WriterSetConfig
  <2>1. /\ wpc = "config" /\ wpc' \in {"config", "reply"}
        /\ UNCHANGED <<plugged, readersend, writersend, rpc, rp, wp, requests, waiting, answers>>
    BY <1>5 DEF WriterSetConfig
  <2>2. Executed' = Executed /\ Unexecuted' = Unexecuted /\ wp \in Executed
    BY <2>1 DEF Executed, Unexecuted
  <2>3. Progress' = Progress /\ Progress \in {"accepted", "refused"} /\ Told' = Told
    BY <2>1, <2>2 DEF Progress, Told
  <2>4. CASE config' = config
    BY <2>1, <2>3, <2>4 DEF ContractStep, Contract!contractVars
  <2>5. CASE config' # config
    <3>1. Contract!Configure
      BY <2>1, <2>3, <2>5 DEF Contract!Configure, Contract!Executed
    <3> QED
      BY <3>1 DEF ContractStep, Contract!Next
  <2> QED
    BY <2>4, <2>5
<1>6. CASE WriterReply
  <2>1. /\ Requested(writersend.q) = {} /\ wp.kind = "setup" /\ wp \in Packet
        /\ wpc = "reply" /\ wpc' = "loop"
        /\ UNCHANGED <<plugged, readersend, rpc, rp, requests, waiting, config, answers>>
    BY <1>6 DEF WriterReply, Handling, Lone, Own, Token, TypeOK
  <2>2. Requested(Enqueue(writersend, wp).q) \subseteq {wp}
    BY <1>0, <2>1, EnqueueRequested
  <2>3. Requested(writersend'.q) \subseteq {wp}
    BY <1>6, <2>2 DEF WriterReply
  <2>4. Shrinks
    BY <2>1, <2>3 DEF Shrinks, Executed, Unexecuted
  <2> QED
    BY <2>4, ShrinkingLoses
<1> QED
  BY <1>1, <1>2, <1>3, <1>4, <1>5, <1>6 DEF Writer

\* please_stop,
LEMMA StopContract ==
  ASSUME TypeOK, Lone, ~plugged, Stop \/ UNCHANGED vars
  PROVE  ContractStep
<1> USE DEF StopStep, hostVars, queueVars
<1>0. /\ readersend \in BoundedQueues(Packet) /\ writersend \in BoundedQueues(Packet)
      /\ NullPacket \in Packet /\ NullPacket.kind # "setup"
  BY ConstantTypes DEF TypeOK
<1>1. CASE SetReaderFlag(0) \/ SetWriterFlag(2) \/ UNCHANGED vars
  BY <1>1, ShrinkingLoses DEF SetReaderFlag, SetWriterFlag, vars, readerVars, writerVars,
                             Shrinks, Executed, Unexecuted
<1>2. ASSUME WakeReader(1) \/ WakeWriter(3)
      PROVE  /\ Requested(readersend'.q) = Requested(readersend.q)
             /\ Requested(writersend'.q) = Requested(writersend.q)
             /\ UNCHANGED <<plugged, rpc, rp, wpc, wp, requests, waiting, config, answers>>
  BY <1>0, <1>2, EnqueueRequested DEF WakeReader, WakeWriter
<1>3. CASE WakeReader(1) \/ WakeWriter(3)
  BY <1>2, <1>3, ShrinkingLoses DEF Shrinks, Executed, Unexecuted
<1> QED
  BY <1>1, <1>3 DEF Stop

\* and what the host sees when plugins serve the endpoint.
LEMMA PluggedContract ==
  ASSUME TypeOK, Waits, plugged, plugged', [Next]_vars
  PROVE  ContractStep
<1>0. Progress = "none" /\ Progress' = "none"
  BY DEF Progress
<1>1. ASSUME UNCHANGED <<plugged, requests, waiting, config, answers>>
      PROVE  ContractStep
  BY <1>0, <1>1 DEF ContractStep, Contract!contractVars, Told
<1>2. ASSUME NEW r \in Requests, ReaderSetup(r)
      PROVE  ContractStep
  <2>1. Contract!Ask
    BY <1>0, <1>2 DEF ReaderSetup, ReaderAt, Waits, Contract!Ask, Told
  <2> QED
    BY <2>1 DEF ContractStep, Contract!Next
<1>3. CASE ReaderAnswer
  <2> DEFINE stalled == Stalls(AnswerIO(Answer(rp)))
  <2>1. waiting # 0 /\ waiting' = 0 /\ UNCHANGED <<requests, config>>
    BY <1>3 DEF ReaderAnswer, ReaderAt, Waits
  <2>2. stalled \in BOOLEAN
    BY DEF Stalls
  <2>3. Told' = Told \cup {[request |-> waiting, stalled |-> stalled]}
    BY <1>3, AnswerTells
  <2> HIDE DEF stalled
  <2>4. Contract!Answer(stalled)
    BY <1>0, <2>1, <2>3 DEF Contract!Answer
  <2> QED
    BY <2>2, <2>4 DEF ContractStep, Contract!Next
<1>4. CASE WriterSetConfig
  <2>1. UNCHANGED <<requests, waiting, answers>>
    BY <1>4 DEF WriterSetConfig, hostVars
  <2>2. CASE config' # config
    <3>1. Contract!Configure
      BY <1>0, <2>1, <2>2 DEF Contract!Configure, Told
    <3> QED
      BY <3>1 DEF ContractStep, Contract!Next
  <2> QED
    BY <1>1, <2>1, <2>2
<1>5. CASE ReaderLoop \/ ReaderEnqueue \/ ReaderDequeue
  BY <1>1, <1>5 DEF ReaderLoop, ReaderEnqueue, ReaderDequeue, hostVars
<1>6. CASE \E event \in Events : ReaderNoSetup(event)
  BY <1>1, <1>6 DEF ReaderNoSetup, hostVars
<1>7. CASE \E complete \in BOOLEAN : ReaderWait(complete)
  BY <1>1, <1>7 DEF ReaderWait, hostVars
<1>8. CASE WriterLoop \/ WriterDequeue \/ WriterReply
  BY <1>1, <1>8 DEF WriterLoop, WriterDequeue, WriterReply, hostVars
<1>9. CASE \E drop \in {FALSE, plugged} : WriterFilter(drop)
  BY <1>1, <1>9 DEF WriterFilter, hostVars
<1>10. ASSUME NEW t, WriterTransfer(t)
       PROVE  ContractStep
  BY <1>1, <1>10 DEF WriterTransfer, hostVars
<1>11. CASE Inject
  BY <1>1, <1>11 DEF Inject, InjectIn, InjectOut, Injected, hostVars
<1>12. CASE Stop
  BY <1>1, <1>12 DEF Stop, SetReaderFlag, WakeReader, SetWriterFlag, WakeWriter, StopStep, hostVars
<1>13. CASE UNCHANGED vars
  BY <1>1, <1>13 DEF vars, hostVars
<1>14. Writer => ContractStep
  BY <1>4, <1>8, <1>9, <1>10 DEF Writer
<1>15. Reader => ContractStep
  BY <1>2, <1>3, <1>5, <1>6, <1>7 DEF Reader
<1> QED
  BY <1>11, <1>12, <1>13, <1>14, <1>15 DEF Next

LEMMA ContractSteps ==
  ASSUME IInv, [Next]_vars
  PROVE  ContractStep
<1>1. plugged' = plugged /\ plugged \in BOOLEAN
  BY PluggedStays DEF IInv, TypeOK
<1>2. CASE plugged
  BY <1>1, <1>2, PluggedContract DEF IInv
<1>3. CASE ~plugged
  <2>1. ~Inject /\ NoPriority /\ Lone /\ Own
    BY <1>3 DEF Inject, InjectIn, InjectOut, Injected, IInv, Unplugged
  <2> QED
    BY <1>3, <2>1, ReaderContract, WriterContract, StopContract DEF IInv, Next
<1> QED
  BY <1>1, <1>2, <1>3
------------------------------------------------------------------------------
\* What every variable of endpoint 0's relay may hold; no lane outgrows QUEUE_MAX.
THEOREM TypeCorrect == Spec => []TypeOK
<1>1. IInv => TypeOK
  BY DEF IInv
<1> QED
  BY <1>1, Invariant, PTL

\* The host is answered when it waits, once; without plugins each answer is the
\* device's reply to the host's own request, and a stall only if it refused.
THEOREM RepliesMatch == Spec => []ReplyMatchesRequest
<1>1. IInv => ReplyMatchesRequest
  BY DEF IInv
<1> QED
  BY <1>1, Invariant, PTL

\* When the host is told that its configuration is set, it is.
THEOREM ConfigIsSet == Spec => []ConfigSetBeforeStatus
<1>1. IInv => ConfigSetBeforeStatus
  BY DEF IInv, Unplugged, Own, Replied, ConfigSetBeforeStatus
<1> QED
  BY <1>1, Invariant, PTL

\* The relay of endpoint 0 implements ControlContract: its behaviours, mapped,
\* start as the contract does and take only steps of the contract.
THEOREM ImplementsContract == Spec => ContractSpec
<1>1. Init => Contract!Init
  <2> SUFFICES ASSUME Init PROVE Contract!Init
    OBVIOUS
  <2>1. /\ rpc = "loop" /\ wpc = "loop" /\ answers = {}
        /\ readersend.q = <<>> /\ writersend.q = <<>>
    BY DEF Init, EmptyQueue
  <2>2. Setups(<<>>) = {}
    BY EmptySeq DEF Setups
  <2>3. Requested(<<>>) = {}
    BY <2>2 DEF Requested
  <2>4. Executed = {} /\ Unexecuted = {}
    BY <2>1, <2>3 DEF Executed, Unexecuted
  <2>5. plugged \in BOOLEAN /\ Progress = "none" /\ Told = {}
    BY <2>1, <2>4 DEF Init, Progress, Told
  <2> QED
    BY <2>5 DEF Init, Contract!Init
<1>2. IInv /\ [Next]_vars => [Contract!Next]_(Contract!contractVars)
  BY ContractSteps DEF ContractStep
<1> QED
  BY <1>1, <1>2, Invariant, PTL DEF Spec, ContractSpec, Contract!Spec
==============================================================================
