------------------------------ MODULE DataRelay ------------------------------
(***************************************************************************)
(* One data endpoint (1..15, either direction): the reader thread           *)
(* (RelayReader::relay_read), the writer thread (RelayWriter::relay_write), *)
(* the packet queue between them, injectors that may push into it, and      *)
(* please_stop.  For an IN endpoint the reader's proxy is the device and    *)
(* the writer's the host; for an OUT endpoint it is the other way round.    *)
(*                                                                          *)
(* The n-th packet the reader's proxy delivers has the number n; packets of *)
(* an injector and null pointers have 0.                                    *)
(***************************************************************************)
EXTENDS PacketQueue

CONSTANTS Injecting,    \* TRUE: an injector serves this endpoint
          FilterDrops,  \* TRUE: a loaded filter may clear transmit
          MaxReceived,  \* bound: packets the reader's proxy delivers
          MaxInjected   \* bound: packets injectors push

\* zlpCount is a 32-bit unsigned; the bound keeps it from wrapping to zero.
ASSUME BoundsAssumption == /\ MaxReceived \in Nat /\ MaxReceived < 2147483647
                           /\ MaxInjected \in Nat
ASSUME PluginsAssumption == Injecting \in BOOLEAN /\ FilterDrops \in BOOLEAN

VARIABLES queue,      \* the PacketQueue of the endpoint
          rpc,        \* where the reader is
          zlpCount,   \* the reader's local: zero-length packets since the last other
          rstop,      \* RelayReader::_please_stop
          wpc,        \* where the writer is
          wp,         \* the writer's packet, while it may still be dropped
          writing,    \* the writer's local: a transfer awaits completion
          wstop,      \* RelayWriter::_please_stop
          stopping,   \* how far stopEps is with its please_stop calls
          received,   \* history: kinds of the packets received
          sent,       \* history: packets given to send_data, in order
          dropped,    \* history: packets that went no further, and why
          injected    \* history: packets pushed by injectors

readerVars == <<rpc, zlpCount, rstop>>
writerVars == <<wpc, wp, writing, wstop>>
vars == <<queue, readerVars, writerVars, stopping, received, sent, dropped, injected>>

\* A zero-length packet (ZLP), a longer one, one from an injector, no packet.
Packet == [kind : {"zlp", "data", "injected", "null"}, id : 0..MaxReceived]
InjectedPacket == [kind |-> "injected", id |-> 0]
NullPacket     == [kind |-> "null", id |-> 0]

\* The packet the reader holds is the latest one received.
Latest == [kind |-> received[Len(received)], id |-> Len(received)]

Drop(p, why) == dropped' = dropped \cup {[id |-> p.id, why |-> why]}

Init == /\ queue = EmptyQueue
        /\ rpc = "loop" /\ zlpCount = 0 /\ rstop = FALSE
        /\ wpc = "loop" /\ wp = NullPacket /\ writing = FALSE /\ wstop = FALSE
        /\ stopping = 0
        /\ received = <<>> /\ sent = <<>> /\ dropped = {} /\ injected = 0
------------------------------------------------------------------------------
(* The reader.                                                              *)

ReaderDone == rpc' = "done" /\ rstop' = FALSE

ReaderGoto(p) == rpc' = p /\ UNCHANGED rstop

ReaderLoop ==
    /\ rpc = "loop"
    /\ IF rstop THEN ReaderDone ELSE ReaderGoto("receive")
    /\ UNCHANGED <<queue, zlpCount, writerVars, stopping, received, sent, dropped, injected>>

\* proxy->receive_data returns without a packet.
ReaderNothing ==
    /\ rpc = "receive"
    /\ IF rstop THEN ReaderDone ELSE ReaderGoto("loop")
    /\ UNCHANGED <<queue, zlpCount, writerVars, stopping, received, sent, dropped, injected>>

\* proxy->receive_data returns a packet; when please_stop came first it is freed.
ReaderPacket(kind) ==
    /\ rpc = "receive"
    /\ Len(received) < MaxReceived
    /\ received' = Append(received, kind)
    /\ IF rstop
       THEN ReaderDone /\ Drop([id |-> Len(received) + 1], "stop")
       ELSE ReaderGoto(IF kind = "zlp" THEN "test" ELSE "push") /\ UNCHANGED dropped
    /\ UNCHANGED <<queue, zlpCount, writerVars, stopping, sent, injected>>

\* Mutant: every ZLP is passed on.
ReaderTestAlways ==
    /\ rpc = "test"
    /\ ReaderGoto("push")
    /\ UNCHANGED <<queue, zlpCount, dropped, writerVars, stopping, received, sent, injected>>

\* A ZLP is passed on if it is the first of a row or the queue looks empty.
\* _sendQueue->empty() reads both lanes without the mutex: it may miss the
\* writer's latest pop or an injector's latest push, but not the reader's own
\* pushes, so TRUE means at least that the normal lane is empty.
ReaderTest ==
    /\ rpc = "test"
    /\ \E looksEmpty \in BOOLEAN :
         /\ looksEmpty => queue.q = <<>>
         /\ IF zlpCount = 0 \/ looksEmpty
            THEN ReaderGoto("push") /\ UNCHANGED <<zlpCount, dropped>>
            ELSE /\ ReaderGoto("loop")
                 /\ zlpCount' = zlpCount + 1
                 /\ Drop(Latest, "zlp")
    /\ UNCHANGED <<queue, writerVars, stopping, received, sent, injected>>

\* Mutant: a longer packet does not reset the count of ZLPs.
ReaderPushNoReset ==
    /\ rpc = "push"
    /\ queue' = Enqueue(queue, Latest)
    /\ IF queue' = queue THEN Drop(Latest, "full") ELSE UNCHANGED dropped
    /\ zlpCount' = IF Latest.kind = "zlp" THEN zlpCount + 1 ELSE zlpCount
    /\ ReaderGoto("loop")
    /\ UNCHANGED <<writerVars, stopping, received, sent, injected>>

\* Mutant: a ZLP overtakes the packets that wait.
ReaderPushPriority ==
    /\ rpc = "push"
    /\ queue' = IF Latest.kind = "zlp" THEN EnqueuePriority(queue, Latest)
                                       ELSE Enqueue(queue, Latest)
    /\ IF queue' = queue THEN Drop(Latest, "full") ELSE UNCHANGED dropped
    /\ zlpCount' = IF Latest.kind = "zlp" THEN zlpCount + 1 ELSE 0
    /\ ReaderGoto("loop")
    /\ UNCHANGED <<writerVars, stopping, received, sent, injected>>

\* A full queue drops the packet without telling the reader.
ReaderPush ==
    /\ rpc = "push"
    /\ queue' = Enqueue(queue, Latest)
    /\ IF queue' = queue THEN Drop(Latest, "full") ELSE UNCHANGED dropped
    /\ zlpCount' = IF Latest.kind = "zlp" THEN zlpCount + 1 ELSE 0
    /\ ReaderGoto("loop")
    /\ UNCHANGED <<writerVars, stopping, received, sent, injected>>

ReaderReceive == ReaderNothing \/ \E kind \in {"zlp", "data"} : ReaderPacket(kind)

ReaderOther == ReaderLoop \/ ReaderTest \/ ReaderPush
------------------------------------------------------------------------------
(* The writer.                                                              *)

WriterDone == wpc' = "done" /\ wp' = NullPacket /\ wstop' = FALSE

WriterGoto(p) == wpc' = p /\ UNCHANGED wstop

WriterLoop ==
    /\ wpc = "loop"
    /\ IF wstop THEN WriterDone
                ELSE WriterGoto(IF writing THEN "wait" ELSE "dequeue") /\ UNCHANGED wp
    /\ UNCHANGED <<queue, readerVars, writing, stopping, received, sent, dropped, injected>>

WriterDequeue ==
    /\ wpc = "dequeue"
    /\ ~IsEmpty(queue)
    /\ queue' = Rest(queue)
    /\ IF wstop
       THEN WriterDone /\ Drop(First(queue), "stop")
       ELSE /\ UNCHANGED dropped
            /\ IF First(queue).kind = "null"
               THEN WriterGoto("loop") /\ UNCHANGED wp
               ELSE WriterGoto("filter") /\ wp' = First(queue)
    /\ UNCHANGED <<readerVars, writing, stopping, received, sent, injected>>

\* Mutant: a packet a filter holds back is looked at again.
WriterSendLater(drop) ==
    /\ wpc = "filter"
    /\ IF wstop
       THEN WriterDone /\ Drop(wp, "stop") /\ UNCHANGED <<sent, writing>>
       ELSE IF drop
            THEN WriterGoto("filter") /\ Drop(wp, "filter") /\ UNCHANGED <<wp, sent, writing>>
            ELSE /\ WriterGoto("loop") /\ wp' = NullPacket
                 /\ sent' = Append(sent, wp) /\ writing' = TRUE /\ UNCHANGED dropped
    /\ UNCHANGED <<queue, readerVars, stopping, received, injected>>

\* The filters see the packet (one may clear transmit), then comes the second
\* stop check, then send_data.
WriterSend(drop) ==
    /\ wpc = "filter"
    /\ IF wstop
       THEN WriterDone /\ Drop(wp, "stop") /\ UNCHANGED <<sent, writing>>
       ELSE /\ WriterGoto("loop")
            /\ wp' = NullPacket
            /\ IF drop THEN Drop(wp, "filter") /\ UNCHANGED <<sent, writing>>
               ELSE sent' = Append(sent, wp) /\ writing' = TRUE /\ UNCHANGED dropped
    /\ UNCHANGED <<queue, readerVars, stopping, received, injected>>

\* proxy->send_wait_complete may report for ever that the transfer is not
\* complete, as it does for an endpoint that is no longer open.
WriterWait(complete) ==
    /\ wpc = "wait"
    /\ writing' = ~complete
    /\ WriterGoto("loop")
    /\ UNCHANGED <<queue, readerVars, wp, stopping, received, sent, dropped, injected>>

Writer == \/ WriterLoop
          \/ WriterDequeue
          \/ \E drop \in {FALSE, FilterDrops} : WriterSend(drop)
          \/ \E complete \in BOOLEAN : WriterWait(complete)
------------------------------------------------------------------------------
\* Injector::listen pushes to the priority lane of the endpoint's queue.
Inject == /\ Injecting
          /\ injected < MaxInjected
          /\ injected' = injected + 1
          /\ queue' = EnqueuePriority(queue, InjectedPacket)
          /\ UNCHANGED <<readerVars, writerVars, stopping, received, sent, dropped>>

\* Manager::stopEps: please_stop on the reader, whose queue pointer is null for
\* a data endpoint, then on the writer: its flag, then a null pointer to wake it.
StopStep(n) == /\ stopping = n /\ stopping' = n + 1
               /\ UNCHANGED <<rpc, zlpCount, wpc, wp, writing, received, sent,
                              dropped, injected>>

SetReaderFlag(n) == StopStep(n) /\ rstop' = TRUE /\ UNCHANGED <<queue, wstop>>

SetWriterFlag(n) == StopStep(n) /\ wstop' = TRUE /\ UNCHANGED <<queue, rstop>>

WakeWriter(n) == /\ StopStep(n)
                 /\ queue' = Enqueue(queue, NullPacket)
                 /\ UNCHANGED <<rstop, wstop>>

\* Mutant: the writer is woken before its flag is set.
StopSwapped == SetReaderFlag(0) \/ WakeWriter(1) \/ SetWriterFlag(2)

Stop == SetReaderFlag(0) \/ SetWriterFlag(1) \/ WakeWriter(2)

Next == ReaderReceive \/ ReaderOther \/ Writer \/ Inject \/ Stop

\* The threads run, and stopEps finishes what it began.  receive_data is left
\* out: DeviceProxy_LibUSB reads with an infinite timeout.
Fairness == /\ WF_vars(ReaderOther)
            /\ WF_vars(Writer)
            /\ WF_vars(stopping > 0 /\ Stop)

Spec == Init /\ [][Next]_vars /\ Fairness
------------------------------------------------------------------------------
TypeOK ==
    /\ queue \in Queues(Packet)
    /\ Len(queue.q) <= QUEUE_MAX /\ Len(queue.qPriority) <= QUEUE_MAX
    /\ rpc \in {"loop", "receive", "test", "push", "done"}
    /\ zlpCount \in 0..MaxReceived /\ rstop \in BOOLEAN
    /\ wpc \in {"loop", "dequeue", "filter", "wait", "done"}
    /\ wp \in Packet /\ writing \in BOOLEAN /\ wstop \in BOOLEAN
    /\ stopping \in 0..3
    /\ received \in Seq({"zlp", "data"}) /\ Len(received) <= MaxReceived
    /\ sent \in Seq(Packet)
    /\ dropped \subseteq [id : 0..MaxReceived, why : {"stop", "zlp", "full", "filter"}]
    /\ injected \in 0..MaxInjected

\* The packets that have been sent or are on their way, oldest first.
Held == IF wpc = "filter" THEN <<wp>> ELSE <<>>
InHand == IF rpc \in {"test", "push"} THEN <<Latest>> ELSE <<>>
Pipeline == sent \o Held \o queue.q \o InHand

\* The numbers of the received packets among the packets of s, and that they
\* ascend; packets of injectors and null pointers may stand between them.
Numbers(s) == { s[i].id : i \in 1..Len(s) } \ {0}
Ascending(s) == \A i, j \in 1..Len(s) :
                   i < j /\ s[i].id # 0 /\ s[j].id # 0 => s[i].id < s[j].id

InTransit == Numbers(Held) \cup Numbers(queue.q) \cup Numbers(InHand)
Lost == { d.id : d \in dropped } \ {0}

\* The writer sends what the reader received in the order received and no
\* packet twice, whatever is dropped on the way and injected in between.
OrderPreserved == Ascending(Pipeline)

\* A received packet is sent or on its way, or was dropped for one of the
\* reasons the code has: none disappears.
NothingVanishes == 1..Len(received) = Numbers(Pipeline) \cup Lost

\* A device that answers every poll with a ZLP never fills the queue with them
\* (comment of relay_read): of two ZLPs side by side in the queue the second
\* followed a longer packet, which a full queue dropped.
NoZlpFlood ==
    \A i \in 1..(Len(queue.q) - 1) :
        queue.q[i].kind = "zlp" /\ queue.q[i + 1].kind = "zlp" =>
            \E n \in (queue.q[i].id + 1)..(queue.q[i + 1].id - 1) :
                received[n] = "data" /\ [id |-> n, why |-> "full"] \in dropped

\* The ZLP that ends a transfer (it follows a longer packet) is never taken for
\* a superfluous one.  It can still be lost in a full queue.
TransferEndPassed == \A d \in dropped : d.why = "zlp" =>
                       d.id > 1 /\ received[d.id - 1] = "zlp"

\* The relay implements the channel of RelayContract: packets are numbered as
\* they arrive, the oldest in transit is delivered first, and one that was
\* delivered or lost never comes again.
Contract == INSTANCE RelayContract WITH
              arrived <- Len(received),
              transit <- InTransit,
              delivered <- Numbers(sent),
              lost <- Lost
ContractSpec == Contract!Spec

\* please_stop ends the writer wherever it is, also in a wait for a transfer
\* that never completes, and the reader unless it sits in receive_data.
StopEndsThreads == stopping = 3 ~> (wpc = "done" /\ rpc \in {"done", "receive"})
==============================================================================
