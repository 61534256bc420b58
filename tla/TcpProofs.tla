------------------------------ MODULE TcpProofs ------------------------------
(***************************************************************************)
(* The safety of TcpTunnel for any endpoints and any number of requests.    *)
(*                                                                          *)
(* Both streams carry the requests' numbers in order, the device side's     *)
(* request lies between them, and the answers the host side has got lie     *)
(* behind the stream they came from.  Connections exist only where the host *)
(* side listens, and for an endpoint it does so only after it has worked on *)
(* the answer of a SET_CONFIGURATION.                                       *)
(***************************************************************************)
EXTENDS TcpTunnel, TLAPS, SequenceTheorems

Requests == [id : Nat, op : Ops]
States == {"none", "syn", "up", "refused", "open"}

TypeOK ==
    /\ hpc \in {"connect", "listen", "accept", "idle", "await", "exit"}
    /\ dpc \in {"connect", "read", "transfer", "open", "answer", "exit"}
    /\ listener \subseteq Ports /\ accepted \subseteq Ports /\ backlog \subseteq Ports
    /\ sock \in [Ports -> States]
    /\ toDevice \in Seq(Requests) /\ toHost \in Seq(Nat)
    /\ n \in Nat /\ op \in Ops /\ dreq \in Requests
    /\ hconfig \in {0, 1} /\ dconfig \in {0, 1}
    /\ answer \in [1..MaxRequests -> Nat]
    /\ dropped \in BOOLEAN /\ long \in BOOLEAN

\* The device side has a request that it has not yet answered.
Busy == dpc \in {"transfer", "open", "answer"}

\* The numbers on their way to the device: increasing, after its request.
RequestsAhead ==
    /\ dreq.id <= n
    /\ \A i \in 1..Len(toDevice) : dreq.id < toDevice[i].id /\ toDevice[i].id <= n
    /\ \A i, j \in 1..Len(toDevice) : i < j => toDevice[i].id < toDevice[j].id

\* The numbers on their way back: increasing, up to its request.
AnswersBehind ==
    /\ \A i \in 1..Len(toHost) : toHost[i] <= dreq.id /\ (Busy => toHost[i] < dreq.id)
    /\ \A i, j \in 1..Len(toHost) : i < j => toHost[i] < toHost[j] \/ (long /\ toHost[i] = toHost[j])

\* The numbers that have arrived: of requests already made, before all others.
AnswersGot ==
    /\ hpc = "await" => n \in 1..MaxRequests
    /\ \A i \in 1..MaxRequests :
          /\ answer[i] <= dreq.id /\ (Busy => answer[i] < dreq.id)
          /\ (i > n \/ (i = n /\ hpc = "await")) => answer[i] = 0
          /\ \A k \in 1..Len(toHost) : answer[i] < toHost[k] \/ (long /\ answer[i] = toHost[k])

\* Connections that wait lie at ports the host side listens on.
BacklogListened == backlog \subseteq listener

\* As long as the host side has not left a SET_CONFIGURATION behind, nobody
\* listens for endpoints, and the only request that may set one is the present.
NotYetSet ==
    Endpoints # {} /\ hconfig = 0 /\ hpc # "exit" =>
        /\ hpc \in {"connect", "idle", "await"}
        /\ listener \subseteq {0}
        /\ \A i \in 1..Len(toDevice) :
              toDevice[i].op = "set1" => hpc = "await" /\ op = "set1" /\ toDevice[i].id = n
        /\ dreq.op = "set1" =>
              hpc = "await" /\ op = "set1" /\ dreq.id = n /\ dpc \in {"transfer", "open"}
        /\ dconfig = 1 => dreq.op = "set1" /\ dpc = "open"

\* The request under way is the same on both sides.
SameRequest ==
    hpc = "await" => /\ \A i \in 1..Len(toDevice) : toDevice[i].id = n => toDevice[i].op = op
                     /\ dreq.id = n => dreq.op = op

Order == RequestsAhead /\ AnswersBehind /\ AnswersGot /\ AnsweredInOrder /\ AnswersOwnRequest
Ends  == EndsMatch /\ BacklogListened
Late  == NotYetSet /\ SameRequest

IInv == TypeOK /\ Order /\ Ends /\ Late
------------------------------------------------------------------------------
\* What is left of a stream when its first k messages have been read.
LEMMA RestProperties ==
  ASSUME NEW S, NEW s \in Seq(S), NEW k \in 1..Len(s)
  PROVE  /\ SubSeq(s, k + 1, Len(s)) \in Seq(S)
         /\ Len(SubSeq(s, k + 1, Len(s))) = Len(s) - k
         /\ \A i \in 1..Len(SubSeq(s, k + 1, Len(s))) :
               i + k \in 1..Len(s) /\ SubSeq(s, k + 1, Len(s))[i] = s[i + k]
         /\ Head(s) = s[1] /\ 1 \in 1..Len(s) /\ Head(s) \in S
<1>1. Len(s) \in Nat /\ k \in Nat /\ k >= 1 /\ k <= Len(s)
  BY LenProperties
<1>2. \A i \in (k + 1)..Len(s) : s[i] \in S
  BY <1>1, ElementOfSeq
<1>3. /\ SubSeq(s, k + 1, Len(s)) \in Seq(S)
      /\ Len(SubSeq(s, k + 1, Len(s))) = IF k + 1 <= Len(s) THEN Len(s) - (k + 1) + 1 ELSE 0
      /\ \A i \in 1..(Len(s) - (k + 1) + 1) : SubSeq(s, k + 1, Len(s))[i] = s[k + 1 + i - 1]
  BY <1>1, <1>2, SubSeqProperties
<1>4. Len(SubSeq(s, k + 1, Len(s))) = Len(s) - k
  BY <1>1, <1>3
<1>5. \A i \in 1..(Len(s) - k) : i + k \in 1..Len(s) /\ k + 1 + i - 1 = i + k
  BY <1>1
<1>6. \A i \in 1..(Len(s) - k) : SubSeq(s, k + 1, Len(s))[i] = s[i + k]
  BY <1>1, <1>3, <1>5
<1>7. s # <<>>
  BY <1>1
<1> QED
  BY <1>1, <1>3, <1>4, <1>5, <1>6, <1>7

\* Nothing has happened yet.
LEMMA InitInductive == Init => IInv
<1> SUFFICES ASSUME Init PROVE IInv
  OBVIOUS
<1>1. TypeOK
  <2>1. dreq \in Requests /\ toDevice \in Seq(Requests) /\ toHost \in Seq(Nat)
    BY DEF Init, Requests, Ops
  <2>2. answer \in [1..MaxRequests -> Nat] /\ sock \in [Ports -> States]
    BY DEF Init, States
  <2> QED
    BY <2>1, <2>2 DEF Init, TypeOK, Ops
<1>2. Order
  BY RequestsAssumption
     DEF Init, Order, RequestsAhead, AnswersBehind, AnswersGot, AnsweredInOrder, AnswersOwnRequest, Busy
<1>3. Ends /\ Late
  BY DEF Init, Ends, Late, EndsMatch, BacklogListened, NotYetSet, SameRequest, Ports
<1> QED
  BY <1>1, <1>2, <1>3 DEF IInv

\* A round of client_connect leaves sockets sockets.
LEMMA RoundTypes ==
  ASSUME TypeOK, NEW ps \in SUBSET Ports, Round(ps)
  PROVE  sock' \in [Ports -> States] /\ backlog' \subseteq Ports
BY DEF Round, TypeOK, States

\* Every step keeps the types.
LEMMA TypesInductive ==
  ASSUME TypeOK, [Next]_vars
  PROVE  TypeOK'
<1> USE DEF TypeOK, hostVars, devVars
<1>1. ASSUME NEW o \in Ops, HostRequest(o)
      PROVE  TypeOK'
  <2>1. toDevice' \in Seq(Requests)
    BY <1>1, AppendProperties DEF HostRequest, Requests
  <2> QED
    BY <1>1, <2>1 DEF HostRequest
<1>2. CASE HostConnect \/ HostListen \/ HostAccept
  BY <1>2 DEF HostConnect, HostListen, HostAccept, Accept, Ports
<1>3. ASSUME NEW k \in 1..Len(toHost), HostReply(k)
      PROVE  TypeOK'
  <2>1. toHost' \in Seq(Nat) /\ Head(toHost) \in Nat
    BY <1>3, RestProperties DEF HostReply
  <2>2. answer' \in [1..MaxRequests -> Nat]
    BY <1>3, <2>1 DEF HostReply
  <2> QED
    BY <1>3, <2>1, <2>2 DEF HostReply, HostAnswered, Enter, Config
<1>4. CASE HostTimeout
  BY <1>4 DEF HostTimeout, HostAnswered, Enter, Config
<1>5. CASE DeviceConnect \/ DeviceOpen
  <2>1. {0} \subseteq Ports /\ Endpoints \subseteq Ports
    BY DEF Ports
  <2>2. sock' \in [Ports -> States] /\ backlog' \subseteq Ports
    BY <1>5, <2>1, RoundTypes DEF DeviceConnect, DeviceOpen
  <2> QED
    BY <1>5, <2>2 DEF DeviceConnect, DeviceOpen
<1>6. ASSUME NEW k \in 1..Len(toDevice), DeviceRead(k)
      PROVE  TypeOK'
  <2>1. toDevice' \in Seq(Requests) /\ dreq' \in Requests
    BY <1>6, RestProperties DEF DeviceRead
  <2> QED
    BY <1>6, <2>1 DEF DeviceRead
<1>7. CASE DeviceTransfer
  BY <1>7 DEF DeviceTransfer, Enter, Config
<1>8. ASSUME NEW more \in BOOLEAN, DeviceAnswer(more)
      PROVE  TypeOK'
  <2>1. dreq.id \in Nat
    BY DEF Requests
  <2>2. <<dreq.id>> \in Seq(Nat) /\ <<dreq.id, dreq.id>> \in Seq(Nat)
    BY <2>1
  <2>3. toHost' \in Seq(Nat)
    BY <1>8, <2>2, ConcatProperties DEF DeviceAnswer
  <2> QED
    BY <1>8, <2>3 DEF DeviceAnswer
<1>9. ASSUME NEW p \in Ports, Handshake(p)
      PROVE  TypeOK'
  BY <1>9 DEF Handshake, States
<1>10. CASE UNCHANGED vars
  BY <1>10 DEF vars
<1> QED
  BY <1>1, <1>2, <1>3, <1>4, <1>5, <1>6, <1>7, <1>8, <1>9, <1>10 DEF Next, Host, Device
------------------------------------------------------------------------------
\* The two ends of every connection agree, whatever a step does to it.
LEMMA EndsInductive ==
  ASSUME TypeOK, Ends, [Next]_vars
  PROVE  Ends'
<1> USE DEF TypeOK, Ends, EndsMatch, BacklogListened, hostVars, devVars
<1>1. ASSUME NEW ps \in SUBSET Ports, Round(ps), UNCHANGED hostVars
      PROVE  Ends'
  <2>1. PICK s \in [ps -> States] :
           /\ \A p \in ps : s[p] \in Polled(p)
           /\ sock' = [p \in Ports |-> IF p \in ps THEN s[p] ELSE sock[p]]
           /\ backlog' = backlog \cup {p \in ps : sock[p] = "none" /\ s[p] = "open"}
    BY <1>1 DEF Round, States
  <2>2. \A p \in ps : /\ sock[p] = "none" /\ s[p] = "open" => p \in listener
                      /\ sock[p] = "none" => s[p] \in {"none", "syn", "open"}
                      /\ sock[p] \in {"up", "open"} => s[p] = "open"
                      /\ sock[p] \in {"syn", "refused"} => s[p] \in {"syn", "none"}
    BY <2>1 DEF Polled, NewSocket, States
  <2>3. ASSUME NEW p \in Ports
        PROVE  (sock[p] \in {"up", "open"} <=> p \in backlog \cup accepted)'
    BY <1>1, <2>1, <2>2 DEF States
  <2> QED
    BY <1>1, <2>1, <2>2, <2>3
<1>2. CASE HostConnect \/ HostListen \/ HostAccept
  BY <1>2 DEF HostConnect, HostListen, HostAccept, Accept
<1>3. CASE DeviceConnect \/ DeviceOpen
  BY <1>1, <1>3 DEF DeviceConnect, DeviceOpen, Ports
<1>4. ASSUME NEW p \in Ports, Handshake(p)
      PROVE  Ends'
  BY <1>4 DEF Handshake, States
<1>5. CASE UNCHANGED <<listener, accepted, backlog, sock>>
  BY <1>5
<1>6. ASSUME NEW k \in 1..Len(toHost), HostReply(k)
      PROVE  UNCHANGED <<listener, accepted, backlog, sock>>
  BY <1>6 DEF HostReply, HostAnswered
<1>7. ASSUME NEW k \in 1..Len(toDevice), DeviceRead(k)
      PROVE  UNCHANGED <<listener, accepted, backlog, sock>>
  BY <1>7 DEF DeviceRead
<1>8. HostTimeout \/ DeviceTransfer \/ (\E o \in Ops : HostRequest(o))
      \/ (\E more \in BOOLEAN : DeviceAnswer(more)) \/ UNCHANGED vars
      => UNCHANGED <<listener, accepted, backlog, sock>>
  BY DEF HostTimeout, HostAnswered, DeviceTransfer, HostRequest, DeviceAnswer, vars
<1> QED
  BY <1>2, <1>3, <1>4, <1>5, <1>6, <1>7, <1>8 DEF Next, Host, Device
------------------------------------------------------------------------------
\* The numbers in all places are natural numbers.
LEMMA Numbers ==
  ASSUME TypeOK
  PROVE  /\ n \in Nat /\ dreq.id \in Nat /\ long \in BOOLEAN
         /\ Len(toDevice) \in Nat /\ \A i \in 1..Len(toDevice) : toDevice[i].id \in Nat
         /\ Len(toHost) \in Nat /\ \A i \in 1..Len(toHost) : toHost[i] \in Nat
         /\ \A i \in 1..MaxRequests : answer[i] \in Nat
<1>1. \A i \in 1..Len(toDevice) : toDevice[i] \in Requests
  BY ElementOfSeq DEF TypeOK
<1>2. \A i \in 1..Len(toHost) : toHost[i] \in Nat
  BY ElementOfSeq DEF TypeOK
<1> QED
  BY <1>1, <1>2, LenProperties DEF TypeOK, Requests

\* The order of the requests and of their answers, whatever a step does to it.
LEMMA OrderInductive ==
  ASSUME TypeOK, Order, [Next]_vars
  PROVE  Order'
<1> USE DEF hostVars, devVars
<1> USE RequestsAssumption, Numbers
<1> DEFINE Kept == UNCHANGED <<toDevice, toHost, n, dreq, answer, long>>
<1>0. ASSUME Kept, (hpc' = "await") => hpc = "await", Busy' => Busy
      PROVE  Order'
  BY <1>0 DEF Order, RequestsAhead, AnswersBehind, AnswersGot, AnsweredInOrder, AnswersOwnRequest
<1>1. ASSUME NEW o \in Ops, HostRequest(o)
      PROVE  Order'
  <2>1. /\ n' = n + 1 /\ n < MaxRequests /\ hpc # "await"
        /\ toDevice' = Append(toDevice, [id |-> n + 1, op |-> o])
        /\ UNCHANGED <<toHost, dreq, answer, long, dpc>>
    BY <1>1 DEF HostRequest
  <2>2. /\ Len(toDevice') = Len(toDevice) + 1
        /\ \A i \in 1..Len(toDevice) : toDevice'[i].id = toDevice[i].id
        /\ toDevice'[Len(toDevice) + 1].id = n + 1
    BY <2>1, AppendProperties DEF TypeOK, Requests
  <2>3. RequestsAhead'
    BY <2>1, <2>2 DEF Order, RequestsAhead
  <2>4. AnswersBehind'
    BY <2>1 DEF Order, AnswersBehind, Busy
  <2>5. AnswersGot'
    BY <2>1 DEF Order, AnswersGot, Busy
  <2>6. answer[n + 1] = 0
    BY <2>1 DEF Order, AnswersGot
  <2>7. AnsweredInOrder' /\ AnswersOwnRequest'
    BY <2>1, <2>6 DEF Order, AnsweredInOrder, AnswersOwnRequest
  <2> QED
    BY <2>3, <2>4, <2>5, <2>7 DEF Order
<1>2. CASE HostConnect \/ HostListen \/ HostAccept
  BY <1>0, <1>2 DEF HostConnect, HostListen, HostAccept, Busy
<1>3. ASSUME NEW k \in 1..Len(toHost), HostReply(k)
      PROVE  Order'
  <2>1. /\ answer' = [answer EXCEPT ![n] = toHost[1]]
        /\ hpc = "await" /\ hpc' # "await" /\ n \in 1..MaxRequests
        /\ UNCHANGED <<toDevice, n, dreq, long, dpc>>
    BY <1>3, RestProperties DEF HostReply, HostAnswered, Enter, Order, AnswersGot, TypeOK
  <2>2. /\ Len(toHost') = Len(toHost) - k
        /\ \A i \in 1..Len(toHost') : i + k \in 1..Len(toHost) /\ toHost'[i] = toHost[i + k]
        /\ 1 \in 1..Len(toHost)
    BY <1>3, RestProperties DEF HostReply, TypeOK
  <2>3. k \in Nat /\ k >= 1 /\ toHost[1] \in Nat
    BY <2>2
  <2>4. RequestsAhead'
    BY <2>1 DEF Order, RequestsAhead
  <2>5. AnswersBehind'
    <3>1. \A i \in 1..Len(toHost') : toHost'[i] <= dreq'.id /\ (Busy' => toHost'[i] < dreq'.id)
      BY <2>1, <2>2 DEF Order, AnswersBehind, Busy
    <3>2. ASSUME NEW i \in 1..Len(toHost'), NEW j \in 1..Len(toHost'), i < j
          PROVE  toHost'[i] < toHost'[j] \/ (long' /\ toHost'[i] = toHost'[j])
      <4>1. i + k \in 1..Len(toHost) /\ j + k \in 1..Len(toHost) /\ i + k < j + k
        BY <2>2, <2>3, <3>2
      <4> QED
        BY <2>1, <2>2, <4>1 DEF Order, AnswersBehind
    <3> QED
      BY <3>1, <3>2 DEF AnswersBehind
  <2>6. /\ answer'[n] = toHost[1]
        /\ \A i \in 1..MaxRequests : i # n => answer'[i] = answer[i]
    BY <2>1 DEF TypeOK
  <2>7. AnswersGot'
    <3>1. hpc' # "await"
      BY <2>1
    <3>2. ASSUME NEW i \in 1..MaxRequests
          PROVE  /\ answer'[i] <= dreq'.id /\ (Busy' => answer'[i] < dreq'.id)
                 /\ i > n' => answer'[i] = 0
      <4>1. CASE i = n
        BY <2>1, <2>2, <2>6, <4>1 DEF Order, AnswersBehind, Busy
      <4>2. CASE i # n
        BY <2>1, <2>6, <4>2 DEF Order, AnswersGot, Busy
      <4> QED
        BY <4>1, <4>2
    <3>3. ASSUME NEW i \in 1..MaxRequests, NEW j \in 1..Len(toHost')
          PROVE  answer'[i] < toHost'[j] \/ (long' /\ answer'[i] = toHost'[j])
      <4>1. j + k \in 1..Len(toHost) /\ 1 < j + k /\ toHost'[j] = toHost[j + k]
        BY <2>2, <2>3
      <4>2. CASE i = n
        BY <2>1, <2>2, <2>6, <4>1, <4>2 DEF Order, AnswersBehind
      <4>3. CASE i # n
        BY <2>1, <2>6, <4>1, <4>3 DEF Order, AnswersGot
      <4> QED
        BY <4>2, <4>3
    <3> QED
      BY <3>1, <3>2, <3>3 DEF AnswersGot
  <2>8. toHost[1] <= n
    BY <2>1, <2>2 DEF Order, AnswersBehind, RequestsAhead
  <2>9. \A i \in 1..MaxRequests : answer[i] < toHost[1] \/ (long /\ answer[i] = toHost[1])
    BY <2>2 DEF Order, AnswersGot
  <2>10. AnsweredInOrder'
    BY <2>1, <2>6, <2>8, <2>9 DEF Order, AnsweredInOrder
  <2>11. ASSUME \A i \in 1..(n - 1) : answer[i] # 0, ~long
         PROVE  toHost[1] \in {0, n}
    <3>1. CASE n = 1
      BY <2>2, <2>8, <3>1
    <3>2. CASE n # 1
      <4>1. n - 1 \in 1..n /\ n - 1 \in 1..(n - 1) /\ n - 1 \in 1..MaxRequests
        BY <2>1, <3>2
      <4>2. answer[n - 1] = n - 1
        BY <2>11, <4>1 DEF Order, AnswersOwnRequest
      <4> QED
        BY <2>1, <2>2, <2>8, <2>9, <2>11, <4>1, <4>2
    <3> QED
      BY <3>1, <3>2
  <2>12. AnswersOwnRequest'
    BY <2>1, <2>6, <2>11 DEF Order, AnswersOwnRequest
  <2> QED
    BY <2>4, <2>5, <2>7, <2>10, <2>12 DEF Order
<1>4. CASE HostTimeout
  BY <1>0, <1>4 DEF HostTimeout, HostAnswered, Enter, Busy
<1>5. CASE DeviceConnect \/ DeviceOpen
  BY <1>0, <1>5 DEF DeviceConnect, DeviceOpen, Busy
<1>6. ASSUME NEW k \in 1..Len(toDevice), DeviceRead(k)
      PROVE  Order'
  <2>1. /\ dreq' = toDevice[1] /\ dpc = "read"
        /\ UNCHANGED <<toHost, n, hpc, answer, long>>
    BY <1>6, RestProperties DEF DeviceRead
  <2>2. /\ Len(toDevice') = Len(toDevice) - k
        /\ \A i \in 1..Len(toDevice') : /\ i + k \in 1..Len(toDevice)
                                        /\ toDevice'[i] = toDevice[i + k]
        /\ 1 \in 1..Len(toDevice)
    BY <1>6, RestProperties DEF DeviceRead, TypeOK
  <2>3. k \in Nat /\ k >= 1
    BY Numbers
  <2>4. RequestsAhead'
    <3>1. dreq'.id <= n'
      BY <2>1, <2>2 DEF Order, RequestsAhead
    <3>2. ASSUME NEW i \in 1..Len(toDevice')
          PROVE  dreq'.id < toDevice'[i].id /\ toDevice'[i].id <= n'
      <4>1. i + k \in 1..Len(toDevice) /\ 1 < i + k
        BY <2>2, <2>3
      <4> QED
        BY <2>1, <2>2, <4>1 DEF Order, RequestsAhead
    <3>3. ASSUME NEW i \in 1..Len(toDevice'), NEW j \in 1..Len(toDevice'), i < j
          PROVE  toDevice'[i].id < toDevice'[j].id
      <4>1. i + k \in 1..Len(toDevice) /\ j + k \in 1..Len(toDevice) /\ i + k < j + k
        BY <2>2, <2>3, <3>3
      <4> QED
        BY <2>2, <4>1 DEF Order, RequestsAhead
    <3> QED
      BY <3>1, <3>2, <3>3 DEF RequestsAhead
  <2>5. dreq.id < dreq'.id /\ dreq'.id \in Nat
    BY <2>1, <2>2 DEF Order, RequestsAhead
  <2>6. AnswersBehind'
    BY <2>1, <2>5 DEF Order, AnswersBehind
  <2>7. AnswersGot'
    BY <2>1, <2>5 DEF Order, AnswersGot
  <2>8. AnsweredInOrder' /\ AnswersOwnRequest'
    BY <2>1 DEF Order, AnsweredInOrder, AnswersOwnRequest
  <2> QED
    BY <2>4, <2>6, <2>7, <2>8 DEF Order
<1>7. CASE DeviceTransfer
  BY <1>0, <1>7 DEF DeviceTransfer, Enter, Busy
<1>8. ASSUME NEW more \in BOOLEAN, DeviceAnswer(more)
      PROVE  Order'
  <2>1. /\ dpc = "answer" /\ dpc' = "read" /\ long' = (long \/ more)
        /\ UNCHANGED <<toDevice, n, hpc, dreq, answer>>
    BY <1>8 DEF DeviceAnswer
  <2>2. /\ Len(toHost') = Len(toHost) + IF more THEN 2 ELSE 1
        /\ \A i \in 1..Len(toHost) : toHost'[i] = toHost[i]
        /\ \A i \in 1..Len(toHost') : i > Len(toHost) => toHost'[i] = dreq.id
    <3>1. CASE more
      <4>1. /\ <<dreq.id, dreq.id>> \in Seq(Nat) /\ Len(<<dreq.id, dreq.id>>) = 2
            /\ \A i \in 1..2 : <<dreq.id, dreq.id>>[i] = dreq.id
        OBVIOUS
      <4>2. toHost' = toHost \o <<dreq.id, dreq.id>>
        BY <1>8, <3>1 DEF DeviceAnswer
      <4>3. /\ Len(toHost') = Len(toHost) + 2
            /\ \A i \in 1..(Len(toHost) + 2) :
                  toHost'[i] = IF i <= Len(toHost) THEN toHost[i] ELSE <<dreq.id, dreq.id>>[i - Len(toHost)]
        BY <4>1, <4>2, ConcatProperties DEF TypeOK
      <4>4. \A i \in 1..(Len(toHost) + 2) : i > Len(toHost) => i - Len(toHost) \in 1..2
        OBVIOUS
      <4>5. \A i \in 1..(Len(toHost) + 2) : i > Len(toHost) => toHost'[i] = dreq.id
        BY <4>1, <4>3, <4>4
      <4>6. \A i \in 1..Len(toHost) : toHost'[i] = toHost[i]
        BY <4>3
      <4> QED
        BY <3>1, <4>3, <4>5, <4>6
    <3>2. CASE ~more
      <4>1. <<dreq.id>> \in Seq(Nat) /\ Len(<<dreq.id>>) = 1 /\ <<dreq.id>>[1] = dreq.id
        OBVIOUS
      <4>2. toHost' = toHost \o <<dreq.id>>
        BY <1>8, <3>2 DEF DeviceAnswer
      <4>3. /\ Len(toHost') = Len(toHost) + 1
            /\ \A i \in 1..(Len(toHost) + 1) :
                  toHost'[i] = IF i <= Len(toHost) THEN toHost[i] ELSE <<dreq.id>>[i - Len(toHost)]
        BY <4>1, <4>2, ConcatProperties DEF TypeOK
      <4>4. \A i \in 1..(Len(toHost) + 1) : i > Len(toHost) => i - Len(toHost) = 1
        OBVIOUS
      <4> QED
        BY <3>2, <4>1, <4>3, <4>4
    <3> QED
      BY <3>1, <3>2
  <2>3. /\ \A i \in 1..Len(toHost) : toHost[i] \in Nat /\ toHost[i] < dreq.id
        /\ \A i \in 1..MaxRequests : answer[i] \in Nat /\ answer[i] < dreq.id
    BY <2>1 DEF Order, AnswersBehind, AnswersGot, Busy
  <2>4. AnswersBehind'
    <3>1. ASSUME NEW i \in 1..Len(toHost')
          PROVE  toHost'[i] <= dreq'.id /\ ~Busy'
      <4>1. i \in Nat /\ (i > Len(toHost) \/ i \in 1..Len(toHost))
        BY <2>2
      <4> QED
        BY <2>1, <2>2, <2>3, <4>1 DEF Busy
    <3>2. ASSUME NEW i \in 1..Len(toHost'), NEW j \in 1..Len(toHost'), i < j
          PROVE  toHost'[i] < toHost'[j] \/ (long' /\ toHost'[i] = toHost'[j])
      <4>1. CASE j <= Len(toHost)
        BY <2>1, <2>2, <2>3, <3>2, <4>1 DEF Order, AnswersBehind
      <4>2. CASE j > Len(toHost) /\ i <= Len(toHost)
        BY <2>1, <2>2, <2>3, <4>2
      <4>3. CASE i > Len(toHost)
        <5>1. more
          BY <2>2, <3>2, <4>3
        <5>2. j > Len(toHost)
          BY <2>2, <3>2, <4>3
        <5>3. long'
          BY <2>1, <5>1
        <5> QED
          BY <2>2, <4>3, <5>2, <5>3
      <4> QED
        BY <2>2, <4>1, <4>2, <4>3
    <3> QED
      BY <3>1, <3>2 DEF AnswersBehind
  <2>5. AnswersGot'
    BY <2>1, <2>2, <2>3 DEF Order, AnswersGot, Busy
  <2>6. RequestsAhead'
    BY <2>1 DEF Order, RequestsAhead
  <2>7. AnsweredInOrder' /\ AnswersOwnRequest'
    BY <2>1 DEF Order, AnsweredInOrder, AnswersOwnRequest
  <2> QED
    BY <2>4, <2>5, <2>6, <2>7 DEF Order
<1>9. ASSUME NEW p \in Ports, Handshake(p)
      PROVE  Order'
  BY <1>0, <1>9 DEF Handshake, Busy
<1>10. CASE UNCHANGED vars
  BY <1>0, <1>10 DEF vars, Busy
<1> QED
  BY <1>1, <1>2, <1>3, <1>4, <1>5, <1>6, <1>7, <1>8, <1>9, <1>10 DEF Next, Host, Device
------------------------------------------------------------------------------
\* The device side cannot open endpoints for which nobody listens.
LEMMA NotOpened ==
  ASSUME TypeOK, Ends, NotYetSet, Endpoints # {}, hconfig = 0, hpc # "exit",
         DeviceOpen
  PROVE  dpc' = "open"
<1>1. Ends'
  <2>1. DeviceOpen => [Next]_vars
    <3>1. DeviceOpen => Running
      BY DEF DeviceOpen, Running
    <3> QED
      BY <3>1 DEF Next, Device
  <2> QED
    BY <2>1, EndsInductive
<1>2. PICK p \in Endpoints : TRUE
  OBVIOUS
<1>3. p \in Ports /\ p # 0
  BY EndpointsAssumption DEF Ports
<1>4. listener' \subseteq {0}
  BY DEF DeviceOpen, hostVars, NotYetSet
<1>5. sock'[p] # "open"
  BY <1>1, <1>3, <1>4 DEF Ends, EndsMatch, BacklogListened
<1> QED
  BY <1>2, <1>5 DEF DeviceOpen

\* Until the host side has set a configuration, no step brings its answer.
LEMMA LateInductive ==
  ASSUME TypeOK, Order, Ends, Late, [Next]_vars
  PROVE  Late'
<1> USE DEF Late, NotYetSet, SameRequest, hostVars, devVars
<1> USE Numbers
<1>1. ASSUME NEW o \in Ops, HostRequest(o)
      PROVE  Late'
  <2>1. /\ n' = n + 1 /\ op' = o /\ hpc = "idle" /\ hpc' = "await"
        /\ toDevice' = Append(toDevice, [id |-> n + 1, op |-> o])
        /\ UNCHANGED <<listener, hconfig, dpc, dreq, dconfig>>
    BY <1>1 DEF HostRequest
  <2>2. /\ Len(toDevice') = Len(toDevice) + 1
        /\ \A i \in 1..Len(toDevice) : toDevice'[i] = toDevice[i]
        /\ toDevice'[Len(toDevice) + 1] = [id |-> n + 1, op |-> o]
    BY <2>1, AppendProperties DEF TypeOK, Requests
  <2>3. \A i \in 1..Len(toDevice') : i \in 1..Len(toDevice) \/ i = Len(toDevice) + 1
    BY <2>2
  <2>4. \A i \in 1..Len(toDevice) : toDevice[i].id < n + 1
    BY DEF Order, RequestsAhead
  <2>5. dreq.id < n + 1
    BY DEF Order, RequestsAhead
  <2>6. SameRequest'
    BY <2>1, <2>2, <2>3, <2>4, <2>5
  <2>7. NotYetSet'
    BY <2>1, <2>2, <2>3
  <2> QED
    BY <2>6, <2>7
<1>2. CASE HostConnect \/ HostListen \/ HostAccept
  BY <1>2 DEF HostConnect, HostListen, HostAccept
<1>3. ASSUME HostAnswered, UNCHANGED devVars, hpc = "await"
      PROVE  Late'
  <2>1. hpc' # "await" /\ UNCHANGED <<listener, n, op, toDevice, devVars>>
    BY <1>3 DEF HostAnswered, Enter
  <2>2. ASSUME hconfig' = 0, hpc' # "exit"
        PROVE  hconfig = 0 /\ op # "set1" /\ hpc' = "idle"
    BY <1>3, <2>2 DEF HostAnswered, Enter, Config, TypeOK, Ops
  <2> QED
    BY <1>3, <2>1, <2>2
<1>4. CASE HostTimeout
  BY <1>3, <1>4 DEF HostTimeout, HostAnswered
<1>5. ASSUME NEW k \in 1..Len(toHost), HostReply(k)
      PROVE  Late'
  BY <1>3, <1>5 DEF HostReply, HostAnswered
<1>6. CASE DeviceConnect
  BY <1>6 DEF DeviceConnect
<1>7. CASE DeviceOpen
  BY <1>7, NotOpened DEF DeviceOpen
<1>8. ASSUME NEW k \in 1..Len(toDevice), DeviceRead(k)
      PROVE  Late'
  <2>1. /\ dreq' = toDevice[1] /\ dpc = "read" /\ dpc' = "transfer" /\ 1 \in 1..Len(toDevice)
        /\ UNCHANGED <<hpc, op, n, listener, hconfig, dconfig>>
    BY <1>8, RestProperties DEF DeviceRead, TypeOK
  <2>2. \A i \in 1..Len(toDevice') : /\ i + k \in 1..Len(toDevice)
                                     /\ toDevice'[i] = toDevice[i + k]
    BY <1>8, RestProperties DEF DeviceRead, TypeOK
  <2> QED
    BY <2>1, <2>2
<1>9. CASE DeviceTransfer
  BY <1>9 DEF DeviceTransfer, Enter, Config, TypeOK, Ops, Requests
<1>10. ASSUME NEW more \in BOOLEAN, DeviceAnswer(more)
       PROVE  Late'
  BY <1>10 DEF DeviceAnswer
<1>11. ASSUME NEW p \in Ports, Handshake(p)
       PROVE  Late'
  BY <1>11 DEF Handshake
<1>12. CASE UNCHANGED vars
  BY <1>12 DEF vars
<1> QED
  BY <1>1, <1>2, <1>4, <1>5, <1>6, <1>7, <1>8, <1>9, <1>10, <1>11, <1>12 DEF Next, Host, Device
------------------------------------------------------------------------------
\* All of it holds in every reachable state.
LEMMA Invariant == Spec => []IInv
<1>1. IInv /\ [Next]_vars => IInv'
  BY TypesInductive, OrderInductive, EndsInductive, LateInductive DEF IInv
<1> QED
  BY <1>1, InitInductive, PTL DEF Spec

\* What every variable of the tunnel may hold.
THEOREM TypeCorrect == Spec => []TypeOK
<1>1. IInv => TypeOK
  BY DEF IInv
<1> QED
  BY <1>1, Invariant, PTL

\* A request gets its own answer as long as none has timed out and none was too
\* long for one read.
THEOREM AnswersAreOwn == Spec => []AnswersOwnRequest
<1>1. IInv => AnswersOwnRequest
  BY DEF IInv, Order
<1> QED
  BY <1>1, Invariant, PTL

\* Answers come after their requests and in their order.
THEOREM AnswersKeepOrder == Spec => []AnsweredInOrder
<1>1. IInv => AnsweredInOrder
  BY DEF IInv, Order
<1> QED
  BY <1>1, Invariant, PTL

\* The answer to the SET_CONFIGURATION that opens endpoints never comes in time:
\* when the host side still waits for it, the device side's request is this one
\* and not answered, or an earlier one.
THEOREM ConfigAnswersAreLate == Spec => []ConfigAnswerIsLate
<1>1. IInv => ConfigAnswerIsLate
  <2> SUFFICES ASSUME IInv, hpc = "await", op = "set1", hconfig = 0, Endpoints # {},
                      NEW i \in 1..Len(toHost), toHost[i] = n
               PROVE  FALSE
    BY DEF ConfigAnswerIsLate
  <2>1. TypeOK /\ Order /\ NotYetSet /\ SameRequest
    BY DEF IInv, Late
  <2>2. dreq.id = n /\ ~Busy
    BY <2>1, Numbers DEF Order, AnswersBehind, RequestsAhead
  <2>3. dreq.op = "set1"
    BY <2>1, <2>2 DEF SameRequest
  <2> QED
    BY <2>1, <2>2, <2>3 DEF NotYetSet, Busy
<1> QED
  BY <1>1, Invariant, PTL

\* Both sides agree on which connections there are.
THEOREM ConnectionsMatch == Spec => []EndsMatch
<1>1. IInv => EndsMatch
  BY DEF IInv, Ends
<1> QED
  BY <1>1, Invariant, PTL
==============================================================================
