------------------------------ MODULE TcpTunnel ------------------------------
(***************************************************************************)
(* Two usb-mitm processes joined by TCP.  The one near the host ("host"     *)
(* side) runs DeviceProxy_TCP, which listens; the one near the device       *)
(* ("device" side) runs HostProxy_TCP, which connects.  Every endpoint has  *)
(* a port of its own, port 0 carries the control requests:                  *)
(*                                                                          *)
(*   writer -> DeviceProxy_TCP -> toDevice -> HostProxy_TCP -> the device   *)
(*   writer <- DeviceProxy_TCP <- toHost   <- HostProxy_TCP <- the device   *)
(*                                                                          *)
(* On both sides one thing happens at a time: the host side's writer makes  *)
(* a request after the other (before it, the Device constructor does), and  *)
(* the device side's reader takes no request before the last one has its    *)
(* answer.  A stream has no boundaries: receive_data returns what has       *)
(* arrived, which may be several messages, of which the proxies use the     *)
(* first and drop the others; an answer longer than TCP_BUFFER_SIZE takes   *)
(* two reads, of which the second looks like an answer of its own.          *)
(***************************************************************************)
EXTENDS Integers, Sequences

CONSTANTS Endpoints,   \* endpoints of configuration 1
          MaxRequests  \* bound: control requests the host side makes

ASSUME EndpointsAssumption == 0 \notin Endpoints
ASSUME RequestsAssumption == MaxRequests \in Nat

VARIABLES hpc, dpc,     \* where the host side and the device side are
          listener,     \* ports the host side listens on (ep_listener)
          accepted,     \* ports it has accepted a connection of (ep_connect)
          backlog,      \* ports with a connection that is not yet accepted
          sock,         \* the device side's socket of a port (ep_socket, ep_connect)
          toDevice, toHost, \* the two streams of port 0
          n, op,        \* the host side's request: its number, what it is
          dreq,         \* the request the device side works on
          hconfig, dconfig, \* Manager::configurationNumber of both sides
          answer,       \* history: whose answer request i got, 0 = it timed out
          dropped,      \* history: the device side lost a request
          long          \* history: an answer was longer than one read

hostVars == <<hpc, listener, accepted, n, op, hconfig, answer>>
devVars  == <<dpc, dreq, dconfig, dropped, long>>
vars == <<hostVars, devVars, backlog, sock, toDevice, toHost>>
------------------------------------------------------------------------------
Ports == Endpoints \cup {0}
Ops == {"read", "set0", "set1"}  \* any request; SET_CONFIGURATION 0 and 1
Config(o) == IF o = "set1" THEN 1 ELSE 0

Init == /\ hpc = "connect" /\ dpc = "connect"
        /\ listener = {} /\ accepted = {} /\ backlog = {}
        /\ sock = [p \in Ports |-> "none"]
        /\ toDevice = <<>> /\ toHost = <<>>
        /\ n = 0 /\ op = "read" /\ dreq = [id |-> 0, op |-> "read"]
        /\ hconfig = 0 /\ dconfig = 0
        /\ answer = [i \in 1..MaxRequests |-> 0] /\ dropped = FALSE /\ long = FALSE
------------------------------------------------------------------------------
(* TCP itself.  A connection request reaches a port with a listener, where   *)
(* it waits to be accepted, or is refused.                                  *)

Handshake(p) ==
    /\ sock[p] = "syn"
    /\ IF p \in listener
       THEN sock' = [sock EXCEPT ![p] = "up"] /\ backlog' = backlog \cup {p}
       ELSE sock' = [sock EXCEPT ![p] = "refused"] /\ UNCHANGED backlog
    /\ UNCHANGED <<hostVars, devVars, toDevice, toHost>>
------------------------------------------------------------------------------
(* TCP_Helper on the host side (the server).                                *)

\* poll() finds connections on ports of ps: all of them are accepted.
Accept(ps) == LET ready == backlog \cap ps IN
    /\ accepted' = accepted \cup ready
    /\ backlog' = backlog \ ready

\* connect: server_listen, then server_connect, which may time out; the
\* manager calls it again.
HostConnect ==
    /\ hpc = "connect"
    /\ listener' = listener \cup {0}
    /\ Accept({0})
    /\ hpc' = IF 0 \in accepted' THEN "idle" ELSE "connect"
    /\ UNCHANGED <<n, op, hconfig, answer, devVars, sock, toDevice, toHost>>

\* server_open_endpoints, first half: listen for the endpoints not yet connected.
HostListen ==
    /\ hpc = "listen"
    /\ listener' = listener \cup (Endpoints \ accepted)
    /\ hpc' = "accept"
    /\ UNCHANGED <<accepted, n, op, hconfig, answer, devVars, backlog, sock, toDevice, toHost>>

\* Second half: accept what has come.  When nothing has, and so also when there
\* is nothing to wait for, poll times out and setConfig calls again.
HostAccept ==
    /\ hpc = "accept"
    /\ Accept(Endpoints \ accepted)
    /\ hpc' = IF backlog \cap Endpoints # {} /\ Endpoints \subseteq accepted'
              THEN "idle" ELSE "listen"
    /\ UNCHANGED <<listener, n, op, hconfig, answer, devVars, sock, toDevice, toHost>>
------------------------------------------------------------------------------
(* TCP_Helper on the device side (the client).                              *)

\* client_connect creates a socket: the connection is on its way, or, when both
\* sides are on one machine, its fate is known at once.
NewSocket(p) == {"syn"} \cup (IF p \in listener THEN {"open"} ELSE {"none"})

\* Mutant: a socket in error polls as writable too.
PolledAnyOut(p) ==
    CASE sock[p] = "none"    -> NewSocket(p)
      [] sock[p] = "up"      -> {"open"}
      [] sock[p] = "refused" -> {"open"}
      [] OTHER               -> {sock[p]}

\* Mutant: a refused socket is kept.
PolledKeepsRefused(p) ==
    CASE sock[p] = "none" -> NewSocket(p)
      [] sock[p] = "up"   -> {"open"}
      [] OTHER            -> {sock[p]}

\* What a round of client_connect makes of a port: POLLOUT alone is a
\* connection, POLLHUP a refused one, whose socket is closed to try again.
Polled(p) ==
    CASE sock[p] = "none"    -> NewSocket(p)
      [] sock[p] = "up"      -> {"open"}
      [] sock[p] = "refused" -> {"none"}
      [] OTHER               -> {sock[p]}

Round(ps) ==
    \E s \in [ps -> {"none", "syn", "up", "refused", "open"}] :
        /\ \A p \in ps : s[p] \in Polled(p)
        /\ sock' = [p \in Ports |-> IF p \in ps THEN s[p] ELSE sock[p]]
        /\ backlog' = backlog \cup {p \in ps : sock[p] = "none" /\ s[p] = "open"}

\* connect.  A refusal at once is no timeout: the manager gives up.
DeviceConnect ==
    /\ dpc = "connect"
    /\ Round({0})
    /\ dpc' = IF sock'[0] = "open" THEN "read"
              ELSE IF sock[0] = "none" /\ sock'[0] = "none" THEN "exit" ELSE "connect"
    /\ UNCHANGED <<hostVars, dreq, dconfig, dropped, long, toDevice, toHost>>

\* client_open_endpoints, which setConfig calls until all are connected.
DeviceOpen ==
    /\ dpc = "open"
    /\ Round(Endpoints)
    /\ dpc' = IF \A p \in Endpoints : sock'[p] = "open" THEN "answer" ELSE "open"
    /\ UNCHANGED <<hostVars, dreq, dconfig, dropped, long, toDevice, toHost>>
------------------------------------------------------------------------------
(* DeviceProxy_TCP::control_request and Manager::setConfig on the host side.  *)

HostRequest(o) ==
    /\ hpc = "idle"
    /\ n < MaxRequests
    /\ n' = n + 1 /\ op' = o
    /\ toDevice' = Append(toDevice, [id |-> n + 1, op |-> o])
    /\ hpc' = "await"
    /\ UNCHANGED <<listener, accepted, hconfig, answer, devVars, backlog, sock, toHost>>

\* Manager::setConfig before the proxies': leaving a configuration ends the
\* process, entering configuration 1 opens the endpoints.
Enter(config, o, go, open) ==
    IF o = "read" \/ config = Config(o) THEN go
    ELSE IF config # 0 THEN "exit" ELSE open

HostAnswered == /\ hpc' = Enter(hconfig, op, "idle", "listen")
                /\ hconfig' = IF op = "read" THEN hconfig ELSE Config(op)
                /\ UNCHANGED <<listener, accepted, n, op, devVars, backlog, sock, toDevice>>

\* Mutant: what was read stays in the stream.
HostReplyPeeks(k) ==
    /\ hpc = "await"
    /\ UNCHANGED toHost
    /\ answer' = [answer EXCEPT ![n] = Head(toHost)]
    /\ HostAnswered

\* receive_data: the first of the k messages that have arrived is taken for the
\* answer, the others are dropped with it.
HostReply(k) ==
    /\ hpc = "await"
    /\ toHost' = SubSeq(toHost, k + 1, Len(toHost))
    /\ answer' = [answer EXCEPT ![n] = Head(toHost)]
    /\ HostAnswered

\* Nothing has arrived in time: -1, and setConfig runs nevertheless.
HostTimeout == hpc = "await" /\ HostAnswered /\ UNCHANGED <<toHost, answer>>
------------------------------------------------------------------------------
(* HostProxy_TCP::control_request and its answers; between the two the       *)
(* device side's writer puts the request to the device.                      *)

DeviceRead(k) ==
    /\ dpc = "read"
    /\ toDevice' = SubSeq(toDevice, k + 1, Len(toDevice))
    /\ dreq' = Head(toDevice)
    /\ dropped' = (dropped \/ k > 1)
    /\ dpc' = "transfer"
    /\ UNCHANGED <<hostVars, dconfig, long, backlog, sock, toHost>>

\* Mutant: the answer is queued before setConfig runs.
DeviceTransferAnswersFirst ==
    /\ dpc = "transfer"
    /\ dpc' = "answer"
    /\ dconfig' = IF dreq.op = "read" THEN dconfig ELSE Config(dreq.op)
    /\ UNCHANGED <<hostVars, dreq, dropped, long, backlog, sock, toDevice, toHost>>

\* The device gets the request; SET_CONFIGURATION runs setConfig before the
\* answer is queued.
DeviceTransfer ==
    /\ dpc = "transfer"
    /\ dpc' = Enter(dconfig, dreq.op, "answer", "open")
    /\ dconfig' = IF dreq.op = "read" THEN dconfig ELSE Config(dreq.op)
    /\ UNCHANGED <<hostVars, dreq, dropped, long, backlog, sock, toDevice, toHost>>

\* Mutant: an acknowledgement follows the data.
DeviceAnswerTwice(more) ==
    /\ dpc = "answer"
    /\ toHost' = toHost \o <<dreq.id, dreq.id>>
    /\ dpc' = "read"
    /\ UNCHANGED <<hostVars, dreq, dconfig, dropped, long, backlog, sock, toDevice>>

\* send_data, control_ack or stall_ep; more: the data exceeds one read.
DeviceAnswer(more) ==
    /\ dpc = "answer"
    /\ more => dreq.op = "read"
    /\ toHost' = toHost \o (IF more THEN <<dreq.id, dreq.id>> ELSE <<dreq.id>>)
    /\ long' = (long \/ more)
    /\ dpc' = "read"
    /\ UNCHANGED <<hostVars, dreq, dconfig, dropped, backlog, sock, toDevice>>
------------------------------------------------------------------------------
\* A run is followed until one of the two processes ends.
Running == "exit" \notin {hpc, dpc}

Host == /\ Running
        /\ \/ HostConnect \/ HostListen \/ HostAccept
           \/ \E k \in 1..Len(toHost) : HostReply(k)
           \/ HostTimeout

Device == /\ Running
          /\ \/ DeviceConnect \/ DeviceOpen \/ DeviceTransfer
             \/ \E k \in 1..Len(toDevice) : DeviceRead(k)
             \/ \E more \in BOOLEAN : DeviceAnswer(more)

Next == \/ Host \/ Device
        \/ \E o \in Ops : Running /\ HostRequest(o)
        \/ \E p \in Ports : Running /\ Handshake(p)

\* Both sides' threads run, every poll() ends, and TCP settles every connection
\* request.  What the USB host asks, and when, is free.
Fairness == /\ WF_vars(Host)
            /\ WF_vars(Device)
            /\ \A p \in Ports : WF_vars(Running /\ Handshake(p))

Spec == Init /\ [][Next]_vars /\ Fairness
------------------------------------------------------------------------------
\* Requests carry no number.  All the same a request gets its own answer as long
\* as none has timed out and none was answered with more than one read takes.
AnswersOwnRequest ==
    (\A i \in 1..(n - 1) : answer[i] # 0) /\ ~long => \A i \in 1..n : answer[i] \in {0, i}

\* Timeouts only shift the answers: none comes before its request, and they come
\* in the order of the requests, each once (a long one may be met again).
AnsweredInOrder ==
    \A i \in 1..n : answer[i] # 0 =>
        /\ answer[i] <= i
        /\ \A j \in 1..(i - 1) : answer[j] < answer[i] \/ (long /\ answer[j] = answer[i])

\* The device side answers the SET_CONFIGURATION that opens endpoints only after
\* the host side has given up on the answer: one waits for connections to ports
\* the other listens on when its control_request has returned.  So the host is
\* never told by the right answer that a configuration is set.
ConfigAnswerIsLate ==
    hpc = "await" /\ op = "set1" /\ hconfig = 0 /\ Endpoints # {}
        => \A i \in 1..Len(toHost) : toHost[i] # n

\* What the device side takes for a connection is one: the host side has
\* accepted it or will, and the host side never accepts a dead one.
EndsMatch ==
    /\ \A p \in Ports : sock[p] \in {"up", "open"} <=> p \in backlog \cup accepted
    /\ backlog \cap accepted = {} /\ accepted \subseteq listener

\* Both sides leave setConfig, although either may begin first and is refused or
\* times out over and over, unless the device side never got the request, which
\* had arrived together with another one.
SetConfigReturns ==
    /\ (hpc = "listen" /\ Endpoints # {}) ~> (hpc = "idle" \/ dropped \/ dpc = "exit")
    /\ (dpc = "open") ~> (dpc = "answer" \/ hpc = "exit")
==============================================================================
