---------------------------- MODULE ControlRelay ----------------------------
(***************************************************************************)
(* Endpoint 0: the setup reader thread (RelayReader::relay_read_setup), the *)
(* setup writer thread (RelayWriter::relay_write_setup), the two queues     *)
(* that join them (Manager::_readersend, Manager::_writersend), the         *)
(* injector threads that may push into them, Manager::setConfig, which the  *)
(* writer calls, and please_stop, which the manager calls on both.          *)
(*                                                                          *)
(*   host -> reader -> readersend -> writer -> device                       *)
(*   host <- reader <- writersend <- writer <- device                       *)
(*                                                                          *)
(* The n-th control request the host makes carries the number n, which its  *)
(* packet keeps all the way; packets made by an injector carry 0.  A step   *)
(* ends where a thread may block or where another thread's store can slip   *)
(* in.  The blocking calls into the two proxies return any result their     *)
(* interfaces allow.                                                        *)
(***************************************************************************)
EXTENDS PacketQueue

CONSTANTS Configs,        \* configuration numbers SET_CONFIGURATION may name
          MaxRequests,    \* bound: control requests the host makes
          PluggedConfigs, \* bounds with plugins: the numbers,
          MaxPlugged,     \* the requests,
          MaxInjected     \* and the packets the injectors push

ASSUME ConfigsAssumption == Configs \subseteq Nat /\ PluggedConfigs \subseteq Configs
ASSUME BoundsAssumption == /\ MaxRequests \in Nat /\ MaxInjected \in Nat
                           /\ MaxPlugged \in 0..MaxRequests

VARIABLES plugged,       \* plugins serve endpoint 0: injectors push packets, and a
                         \* filter may clear transmit_out; chosen at the start
          readersend, writersend,  \* the two packet queues
          rpc,           \* where the setup reader is
          direction_out, \* the reader's local: TRUE = wait for the host
          rp,            \* the reader's local p
          rstop,         \* RelayReader::_please_stop
          lastControl,   \* HostProxy_GadgetFS::lastControl: "in" (device to host) or "out"
          wpc, wp,       \* where the setup writer is, and its local p
          wstop,         \* RelayWriter::_please_stop
          config,        \* Manager::configurationNumber
          stopping,      \* how far stopEps is with the two please_stop calls
          halted,        \* stopEps has called exit(-1)
          requests,      \* history: number of requests the host made
          waiting,       \* history: the request the host still waits on, or 0
          answers,       \* history: what was transmitted for which request
          injected       \* history: number of packets the injectors pushed

queueVars  == <<readersend, writersend>>
readerVars == <<rpc, direction_out, rp, rstop, lastControl>>
writerVars == <<wpc, wp, wstop>>
hostVars   == <<requests, waiting, answers>>
vars == <<plugged, queueVars, readerVars, writerVars, hostVars,
          config, stopping, halted, injected>>
------------------------------------------------------------------------------
\* A control request: device to host, host to device, or SET_CONFIGURATION.
Request == [op : {"in", "out"}, value : {0}] \cup [op : {"config"}, value : Configs]

\* A SetupPacket as its constructor leaves it.  wLength is 0 or not 0.
SetupPacket(n, r) ==
    [kind |-> "setup", id |-> n, op |-> r.op, value |-> r.value,
     transmit_out |-> TRUE, transmit_in |-> TRUE, wLength |-> 0]

\* A Packet that is no SetupPacket, and the null pointer please_stop enqueues.
DataPacket == [SetupPacket(0, [op |-> "in", value |-> 0]) EXCEPT !.kind = "data"]
NullPacket == [SetupPacket(0, [op |-> "in", value |-> 0]) EXCEPT !.kind = "null"]

Packet == [kind : {"setup", "data", "null"}, id : 0..MaxRequests,
           op : {"in", "out", "config"}, value : Configs \cup {0},
           transmit_out : BOOLEAN, transmit_in : BOOLEAN, wLength : {0, 1}]

Init == /\ plugged \in BOOLEAN
        /\ readersend = EmptyQueue /\ writersend = EmptyQueue
        /\ rpc = "loop" /\ direction_out = TRUE /\ rp = NullPacket /\ rstop = FALSE
        /\ lastControl = "out"
        /\ wpc = "loop" /\ wp = NullPacket /\ wstop = FALSE
        /\ config = 0 /\ stopping = 0 /\ halted = FALSE
        /\ requests = 0 /\ waiting = 0 /\ answers = {} /\ injected = 0
------------------------------------------------------------------------------
(* The setup reader.                                                        *)

\* The loop is left: p dies with the frame, _please_stop is cleared.
ReaderDone == rpc' = "done" /\ rp' = NullPacket /\ rstop' = FALSE

ReaderAt(p) == ~halted /\ rpc = p
ReaderGoto(p) == rpc' = p /\ UNCHANGED rstop

ReaderLoop ==
    /\ ReaderAt("loop")
    /\ IF rstop
       THEN ReaderDone
       ELSE /\ ReaderGoto(IF direction_out THEN "request"
                          ELSE IF rp.kind = "null" THEN "dequeue" ELSE "wait")
            /\ UNCHANGED rp
    /\ UNCHANGED <<plugged, queueVars, direction_out, lastControl, writerVars, hostVars,
                   config, stopping, halted, injected>>

\* HostProxy_GadgetFS::control_request returns CONTROL_REQUEST_SETUP.  A request
\* that arrives together with please_stop is read from the host and thrown away.
ReaderSetup(r) ==
    /\ ReaderAt("request")
    /\ requests < IF plugged THEN MaxPlugged ELSE MaxRequests
    /\ requests' = requests + 1
    /\ waiting' = requests + 1
    /\ lastControl' = IF r.op = "in" THEN "in" ELSE "out"
    /\ IF rstop THEN ReaderDone
                ELSE ReaderGoto("enqueue") /\ rp' = SetupPacket(requests + 1, r)
    /\ UNCHANGED <<plugged, queueVars, direction_out, writerVars, answers,
                   config, stopping, halted, injected>>

\* What control_request makes of the next event of the gadget's file, if one
\* comes in time and can be read.
Events == {"timeout", "error", "nop", "suspend", "connect", "disconnect"}
ControlRequest(event) == CASE event = "connect"    -> "CONNECT"
                           [] event = "disconnect" -> "DISCONNECT"
                           [] OTHER                -> "NONE"

\* No request; for CONNECT, Manager::hostConnectNotification does nothing; for
\* DISCONNECT, hostDisconnectNotification calls stopEps on this thread, which
\* ends the process.
ReaderNoSetup(event) ==
    /\ ReaderAt("request")
    /\ IF rstop THEN ReaderDone /\ UNCHANGED halted
       ELSE IF ControlRequest(event) = "DISCONNECT"
       THEN halted' = TRUE /\ UNCHANGED <<rpc, rp, rstop>>
       ELSE ReaderGoto("loop") /\ UNCHANGED <<rp, halted>>
    /\ UNCHANGED <<plugged, queueVars, direction_out, lastControl, writerVars, hostVars,
                   config, stopping, injected>>

ReaderEnqueue ==
    /\ ReaderAt("enqueue")
    /\ readersend' = Enqueue(readersend, rp)
    /\ direction_out' = FALSE
    /\ rp' = NullPacket
    /\ ReaderGoto("loop")
    /\ UNCHANGED <<plugged, writersend, lastControl, writerVars, hostVars,
                   config, stopping, halted, injected>>

\* Mutant: the reader gives up on a reply that takes long.
ReaderDequeueTimeout ==
    /\ ReaderAt("dequeue")
    /\ IF IsEmpty(writersend)
       THEN /\ direction_out' = TRUE
            /\ ReaderGoto("loop")
            /\ UNCHANGED <<writersend, rp>>
       ELSE /\ writersend' = Rest(writersend)
            /\ rp' = First(writersend)
            /\ ReaderGoto(IF First(writersend).kind = "setup" THEN "answer" ELSE "loop")
            /\ UNCHANGED direction_out
    /\ UNCHANGED <<plugged, readersend, lastControl, writerVars, hostVars,
                   config, stopping, halted, injected>>

\* _recvQueue->dequeue(): null pointers and plain packets are thrown away.
ReaderDequeue ==
    /\ ReaderAt("dequeue")
    /\ ~IsEmpty(writersend)
    /\ writersend' = Rest(writersend)
    /\ IF rstop
       THEN ReaderDone
       ELSE IF First(writersend).kind = "setup"
            THEN rp' = First(writersend) /\ ReaderGoto("answer")
            ELSE rp' = NullPacket /\ ReaderGoto("loop")
    /\ UNCHANGED <<plugged, readersend, direction_out, lastControl, writerVars, hostVars,
                   config, stopping, halted, injected>>

\* What the reader does with a reply: send_data, control_ack or stall_ep.
Answer(p) == IF ~p.transmit_in THEN "stall"
             ELSE IF p.wLength # 0 THEN "data" ELSE "ack"

\* How HostProxy_GadgetFS does it on the file of endpoint 0: with data or without,
\* it writes or reads.  It goes by the host's last request, not by the reply.
AnswerIO(answer) ==
    CASE answer = "data"  -> "write"
      [] answer = "ack"   -> IF lastControl = "in" THEN "write" ELSE "read"
      [] answer = "stall" -> IF lastControl = "in" THEN "read" ELSE "write"

\* gadgetfs: writing where the host is to be read, or the reverse, is a stall.
Stalls(io) == (io = "write") # (lastControl = "in")

ReaderAnswer ==
    /\ ReaderAt("answer")
    /\ answers' = answers \cup {[request |-> waiting, reply |-> rp.id, refused |-> ~rp.transmit_in,
                                 stalled |-> Stalls(AnswerIO(Answer(rp)))]}
    /\ waiting' = 0
    /\ ReaderGoto("wait")
    /\ UNCHANGED <<plugged, queueVars, direction_out, rp, lastControl, writerVars, requests,
                   config, stopping, halted, injected>>

\* The stop check and hostProxy->send_wait_complete, which may time out.
ReaderWait(complete) ==
    /\ ReaderAt("wait")
    /\ IF rstop
       THEN ReaderDone /\ UNCHANGED direction_out
       ELSE /\ direction_out' = complete
            /\ rp' = IF complete THEN NullPacket ELSE rp
            /\ ReaderGoto("loop")
    /\ UNCHANGED <<plugged, queueVars, lastControl, writerVars, hostVars,
                   config, stopping, halted, injected>>

Requests == {r \in Request : plugged /\ r.op = "config" => r.value \in PluggedConfigs}

Reader == \/ ReaderLoop
          \/ \E r \in Requests : ReaderSetup(r)
          \/ \E event \in Events : ReaderNoSetup(event)
          \/ ReaderEnqueue
          \/ ReaderDequeue
          \/ ReaderAnswer
          \/ \E complete \in BOOLEAN : ReaderWait(complete)
------------------------------------------------------------------------------
(* The setup writer.                                                        *)

WriterDone == wpc' = "done" /\ wp' = NullPacket /\ wstop' = FALSE

WriterAt(p) == ~halted /\ wpc = p
WriterGoto(p) == wpc' = p /\ UNCHANGED wstop

WriterLoop ==
    /\ WriterAt("loop")
    /\ IF wstop THEN WriterDone ELSE WriterGoto("dequeue") /\ UNCHANGED wp
    /\ UNCHANGED <<plugged, queueVars, readerVars, hostVars, config, stopping, halted, injected>>

WriterDequeue ==
    /\ WriterAt("dequeue")
    /\ ~IsEmpty(readersend)
    /\ readersend' = Rest(readersend)
    /\ IF wstop
       THEN WriterDone
       ELSE IF First(readersend).kind = "setup"
            THEN wp' = First(readersend) /\ WriterGoto("filter")
            ELSE wp' = NullPacket /\ WriterGoto("loop")
    /\ UNCHANGED <<plugged, writersend, readerVars, hostVars, config, stopping, halted, injected>>

\* Mutant: the manager takes up a configuration before the device is asked.
WriterFilterConfigures(drop) ==
    /\ WriterAt("filter")
    /\ IF drop \/ ~wp.transmit_out
       THEN WriterGoto("loop") /\ wp' = NullPacket /\ UNCHANGED config
       ELSE /\ WriterGoto("transfer") /\ UNCHANGED wp
            /\ config' = IF wp.op = "config" /\ config = 0 THEN wp.value ELSE config
    /\ UNCHANGED <<plugged, queueVars, readerVars, hostVars, stopping, halted, injected>>

\* The outgoing filters.  A packet that may not be transmitted is dropped, and
\* no reply is ever queued for it.
WriterFilter(drop) ==
    /\ WriterAt("filter")
    /\ IF drop \/ ~wp.transmit_out
       THEN WriterGoto("loop") /\ wp' = NullPacket
       ELSE WriterGoto("transfer") /\ UNCHANGED wp
    /\ UNCHANGED <<plugged, queueVars, readerVars, hostVars, config, stopping, halted, injected>>

\* DeviceProxy_LibUSB::control_request, for the number of bytes libusb moved
\* (none or some) or an error: whether it returns none, and the writer's "length".  After
\* an error that is what it was before, or what is in memory: before.
ControlTransfer(rc, before) ==
    [ok |-> rc # "error", length |-> IF rc = "error" THEN before ELSE IF rc = "empty" THEN 0 ELSE 1]

\* Mutant: a request the device refuses is forgotten.
WriterTransferForgets(t) ==
    /\ WriterAt("transfer")
    /\ wp' = [wp EXCEPT !.transmit_in = t.ok,
                        !.wLength = IF wp.op = "in" THEN t.length ELSE 0]
    /\ WriterGoto(IF ~t.ok THEN "loop" ELSE IF wp.op = "config" THEN "config" ELSE "reply")
    /\ UNCHANGED <<plugged, queueVars, readerVars, hostVars, config, stopping, halted, injected>>

\* deviceProxy->control_request has returned.  The reply of a host-to-device
\* request has no data stage.
WriterTransfer(t) ==
    /\ WriterAt("transfer")
    /\ wp' = [wp EXCEPT !.transmit_in = t.ok,
                        !.wLength = IF wp.op = "in" THEN t.length ELSE 0]
    /\ WriterGoto(IF wp.op = "config" THEN "config" ELSE "reply")
    /\ UNCHANGED <<plugged, queueVars, readerVars, hostVars, config, stopping, halted, injected>>

\* Mutant: configurationNumber is not assigned.
WriterSetConfigForgets ==
    /\ WriterAt("config")
    /\ IF config # 0 /\ config # wp.value
       THEN halted' = TRUE /\ UNCHANGED <<wpc, wstop>>
       ELSE WriterGoto("reply") /\ UNCHANGED halted
    /\ UNCHANGED <<plugged, queueVars, readerVars, wp, hostVars, config, stopping, injected>>

\* Manager::setConfig, called whether or not the device accepted the request.
\* Leaving a configuration that is in use goes through stopEps and ends the
\* process; entering one starts the data relays (start_data_relaying).
WriterSetConfig ==
    /\ WriterAt("config")
    /\ IF config # 0 /\ config # wp.value
       THEN halted' = TRUE /\ UNCHANGED <<config, wpc, wstop>>
       ELSE config' = wp.value /\ WriterGoto("reply") /\ UNCHANGED halted
    /\ UNCHANGED <<plugged, queueVars, readerVars, wp, hostVars, stopping, injected>>

\* The incoming filters, and the reply on its way back.
WriterReply ==
    /\ WriterAt("reply")
    /\ writersend' = Enqueue(writersend, wp)
    /\ wp' = NullPacket
    /\ WriterGoto("loop")
    /\ UNCHANGED <<plugged, readersend, readerVars, hostVars, config, stopping, halted, injected>>

Writer == \/ WriterLoop
          \/ WriterDequeue
          \/ \E drop \in {FALSE, plugged} : WriterFilter(drop)
          \/ \E rc \in {"error", "empty", "some"}, before \in {0, 1} : WriterTransfer(ControlTransfer(rc, before))
          \/ WriterSetConfig
          \/ WriterReply
------------------------------------------------------------------------------
(* Injectors: Injector::listen pushes setup packets to outQueues[0] and      *)
(* plain packets for endpoint 0 to outQueues[0] or inQueues[0], always into  *)
(* the priority lane.  UDP injectors may clear transmit_out themselves.      *)

Injected == /\ ~halted /\ plugged
            /\ injected < MaxInjected
            /\ injected' = injected + 1
            /\ UNCHANGED <<plugged, readerVars, writerVars, hostVars, config, stopping, halted>>

InjectOut(p) == /\ Injected
                /\ readersend' = EnqueuePriority(readersend, p)
                /\ UNCHANGED writersend

InjectIn(p) == /\ Injected
               /\ writersend' = EnqueuePriority(writersend, p)
               /\ UNCHANGED readersend

Inject == \/ InjectIn(DataPacket)
          \/ InjectOut(DataPacket)
          \/ \E r \in Requests, out \in BOOLEAN :
                InjectOut([SetupPacket(0, r) EXCEPT !.transmit_out = out])
------------------------------------------------------------------------------
(* Manager::stopEps calls please_stop on the reader and then on the writer:  *)
(* each sets the thread's flag and then pushes a null pointer into the queue *)
(* the thread takes from, to wake it.                                        *)

StopStep(n) == /\ ~halted
               /\ stopping = n /\ stopping' = n + 1
               /\ UNCHANGED <<plugged, rpc, direction_out, rp, lastControl, wpc, wp, hostVars,
                              config, halted, injected>>

SetReaderFlag(n) == StopStep(n) /\ rstop' = TRUE /\ UNCHANGED <<queueVars, wstop>>

WakeReader(n) == /\ StopStep(n)
                 /\ writersend' = Enqueue(writersend, NullPacket)
                 /\ UNCHANGED <<readersend, rstop, wstop>>

SetWriterFlag(n) == StopStep(n) /\ wstop' = TRUE /\ UNCHANGED <<queueVars, rstop>>

WakeWriter(n) == /\ StopStep(n)
                 /\ readersend' = Enqueue(readersend, NullPacket)
                 /\ UNCHANGED <<writersend, rstop, wstop>>

\* Mutant: the reader is woken before its flag is set.
StopSwapped == WakeReader(0) \/ SetReaderFlag(1) \/ SetWriterFlag(2) \/ WakeWriter(3)

Stop == SetReaderFlag(0) \/ WakeReader(1) \/ SetWriterFlag(2) \/ WakeWriter(3)

Next == Reader \/ Writer \/ Stop \/ Inject

\* Both threads run until they end; every proxy call has a timeout and
\* returns; stopEps, once begun, goes through both calls.  The host, the
\* injectors and the decision to stop are free.
Fairness == /\ WF_vars(Reader)
            /\ WF_vars(Writer)
            /\ WF_vars(stopping > 0 /\ Stop)

Spec == Init /\ [][Next]_vars /\ Fairness
------------------------------------------------------------------------------
TypeOK ==
    /\ plugged \in BOOLEAN
    /\ {readersend, writersend} \subseteq BoundedQueues(Packet)
    /\ rpc \in {"loop", "request", "enqueue", "dequeue", "answer", "wait", "done"}
    /\ direction_out \in BOOLEAN /\ rp \in Packet /\ rstop \in BOOLEAN
    /\ lastControl \in {"in", "out"}
    /\ wpc \in {"loop", "dequeue", "filter", "transfer", "config", "reply", "done"}
    /\ wp \in Packet /\ wstop \in BOOLEAN
    /\ config \in Configs \cup {0} /\ stopping \in 0..4 /\ halted \in BOOLEAN
    /\ requests \in 0..MaxRequests /\ waiting \in 0..MaxRequests
    /\ answers \subseteq [request : 0..MaxRequests, reply : 0..MaxRequests,
                          refused : BOOLEAN, stalled : BOOLEAN]
    /\ injected \in 0..MaxInjected

\* The host gets an answer only while it waits on one: none is sent unasked and
\* no request is answered twice, whatever injectors and filters do.  Without them
\* every answer on endpoint 0 is the device's reply to the very request the host
\* is waiting on, and is a stall if and only if the device refused that request.
\* Nothing in the code checks it: the reader takes whatever setup packet comes out
\* of _writersend, the length of a reply may be left over from another transfer,
\* and lastControl decides which way the answer goes.
ReplyMatchesRequest ==
    \A a \in answers : /\ a.request # 0
                        /\ (plugged \/ (a.request = a.reply /\ (a.stalled <=> a.refused)))

\* When the host is told that its SET_CONFIGURATION succeeded, the manager works
\* in that configuration (the data relays were started before the reply was
\* queued) and nothing has changed it since; no injector sends a SET_CONFIGURATION
\* of its own here.
ConfigSetBeforeStatus ==
    ~plugged /\ rpc = "answer" /\ rp.op = "config" /\ rp.transmit_in => config = rp.value

\* The setup packets in a lane, by place, and themselves.
Setups(lane) == {i \in 1..Len(lane) : lane[i].kind = "setup"}
Requested(lane) == {lane[i] : i \in Setups(lane)}

\* The requests in the relay that the device has not executed, and those it has.
Unexecuted == {p \in {rp} : rpc = "enqueue"} \cup {p \in {wp} : wpc \in {"filter", "transfer"}}
                \cup Requested(readersend.q)
Executed == {p \in {rp} : rpc = "answer"} \cup {p \in {wp} : wpc \in {"config", "reply"}}
              \cup Requested(writersend.q)

\* How far the request in the relay is; no promise is made of it with plugins.
Progress == CASE plugged -> "none"
              [] ~plugged /\ Executed # {} ->
                   IF \A p \in Executed : p.transmit_in THEN "accepted" ELSE "refused"
              [] ~plugged /\ Executed = {} -> IF Unexecuted # {} THEN "asked" ELSE "none"

\* What the host was told.
Told == {[request |-> a.request, stalled |-> a.stalled] : a \in answers}

\* The relay implements ControlContract: a request passes through the device at
\* most once and in its turn, the manager's configuration changes only after that
\* and before the host is answered.
Contract == INSTANCE ControlContract WITH asked <- requests, device <- Progress, answers <- Told
ContractSpec == Contract!Spec

\* Without plugins a request that was taken from the host is answered, unless
\* relaying is being stopped or the process ended.
RequestAnswered == ~plugged /\ waiting # 0 ~> (waiting = 0 \/ stopping > 0 \/ halted)

\* please_stop ends both threads wherever they are: blocked in dequeue, in a
\* proxy call, or in a wait for a write that never completes.
StopEndsThreads == stopping = 4 ~> (halted \/ (rpc = "done" /\ wpc = "done"))
==============================================================================
