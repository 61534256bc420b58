--------------------------- MODULE GadgetFSProofs ----------------------------
(***************************************************************************)
(* The safety of GadgetFSEndpoint for any number of packets.                *)
(*                                                                          *)
(* The mutex makes a direction be closed once.  What the reader passes on   *)
(* is right although it uses the aiocb without the mutex, because only two  *)
(* threads close it: the reader itself, when it is not using it, and        *)
(* stopEps, after please_stop, which the reader tests before it passes on.  *)
(***************************************************************************)
EXTENDS GadgetFSEndpoint, TLAPS

Inside == {"cancel", "unlink", "delete"}

\* The threads inside closeEP hold the mutex.
MutexHeld == \A t \in Threads : m = t <=> cpc[t] \in Inside

\* A closed direction has lost its pointer or is about to, by the holder's hand.
ClosedState ==
    /\ \A d \in Directions :
          /\ closes[d] <= 1
          /\ closes[d] = 1 => \/ slot[d] = "null"
                              \/ \E t \in Threads : Target(t) = d /\ cpc[t] \in {"cancel", "unlink"}
    /\ \A t \in Threads : cpc[t] = "delete" => slot[Target(t)] = "null"

\* The OUT aiocb has its buffer as long as it lives.
OutBuffer == block["out"] = "live" => buf["out"] \in 0..MaxArrived

\* stopEps closes nothing before please_stop.
StopComesFirst == spc # "relaying" \/ cpc["stopper"] # "no" => stop

\* The reader closes its endpoint after ESHUTDOWN, between two uses of it.
ReaderCloses == cpc["reader"] # "no" => rpc = "loop" /\ (stop \/ op["out"] = "ESHUTDOWN")

\* Until please_stop the reader finds a live aiocb wherever it uses one.
ReaderSafe ==
    ~stop => /\ rpc \in {"poll", "resubmit"} => block["out"] = "live"
             /\ slot["out"] = "aio" /\ rpc # "forget" => block["out"] = "live"

\* Until please_stop the packet in the buffer and the one in the reader's hand
\* are the ones that follow those passed on.
InHand ==
    ~stop => /\ op["out"] = "pending" => block["out"] = "live"
             /\ op["out"] = "done" => buf["out"] = arrived /\ block["out"] = "live"
             /\ rpc \in {"resubmit", "forget"} => op["out"] = "idle"
             /\ rpc \in {"resubmit", "forget", "pass"} => copied = Len(delivered) + 1

IInv == /\ TypeOK /\ MutexHeld /\ ClosedState /\ OutBuffer /\ StopComesFirst
        /\ ReaderCloses /\ ReaderSafe /\ InHand
        /\ NothingLostWhileRelaying /\ DeliveredAsArrived

\* setConfig leaves no closeEP under way and nothing received.
LEMMA InitInductive == Init => IInv
<1> SUFFICES ASSUME Init PROVE IInv
  OBVIOUS
<1> USE BoundsAssumption
    DEF Init, Directions, Threads, Results, Inside, NoBuffer, Garbage
<1>1. PICK submitted \in BOOLEAN :
        /\ slot  = [d \in Directions |-> IF d = "in" \/ submitted THEN "aio" ELSE "null"]
        /\ block = [d \in Directions |-> IF d = "in" \/ submitted THEN "live" ELSE "deleted"]
        /\ op    = [d \in Directions |-> IF d = "in" \/ ~submitted THEN "idle" ELSE "pending"]
  OBVIOUS
<1>2. TypeOK
  <2>1. /\ slot \in [Directions -> {"aio", "null"}]
        /\ block \in [Directions -> {"live", "deleted"}]
        /\ op \in [Directions -> Results \cup {"idle", "pending"}]
        /\ buf \in [Directions -> {NoBuffer} \cup Nat]
    BY <1>1
  <2>2. /\ cpc \in [Threads -> {"no", "lock", "cancel", "unlink", "delete"}]
        /\ closes \in [Directions -> Nat]
    OBVIOUS
  <2>3. delivered \in Seq(0..MaxArrived)
    OBVIOUS
  <2>4. copied \in 0..MaxArrived /\ taken \in 0..MaxTaken /\ arrived \in 0..MaxArrived
    OBVIOUS
  <2>5. /\ active \in BOOLEAN /\ stop \in BOOLEAN /\ m \in Threads \cup {"free"}
        /\ wpc = "idle" /\ rpc = "loop" /\ spc = "relaying"
    OBVIOUS
  <2> HIDE DEF Init, Directions, Threads, Results, NoBuffer, Garbage
  <2> QED
    BY <2>1, <2>2, <2>3, <2>4, <2>5 DEF TypeOK
<1>3. MutexHeld /\ ClosedState /\ StopComesFirst
  BY DEF MutexHeld, ClosedState, StopComesFirst
<1>4. OutBuffer /\ ReaderCloses /\ ReaderSafe /\ InHand
  BY <1>1 DEF OutBuffer, ReaderCloses, ReaderSafe, InHand
<1>5. NothingLostWhileRelaying /\ DeliveredAsArrived
  BY <1>1 DEF NothingLostWhileRelaying, DeliveredAsArrived
<1> QED
  BY <1>2, <1>3, <1>4, <1>5 DEF IInv

\* A change of a member of an aiocb concerns that direction only.
LEMMA SetProperties ==
  ASSUME TypeOK, NEW S, NEW f \in [Directions -> S], NEW d \in Directions, NEW v \in S
  PROVE  /\ Set(f, d, v) \in [Directions -> S]
         /\ \A e \in Directions \ {d} : Set(f, d, v)[e] = f[e]
         /\ Set(f, d, v)[d] = IF block[d] = "live" THEN v ELSE f[d]
BY DEF Set, TypeOK

\* Every thread closes one of the directions.
LEMMA TargetType == \A t \in Threads : Target(t) \in Directions
BY DEF Target, Threads, Directions

\* The steps of closeEP keep the invariant, whoever takes them.
LEMMA CloseInductive ==
  ASSUME IInv, NEW t \in Threads, Close(t)
  PROVE  IInv'
<1> DEFINE d == Target(t)
<1> USE DEF IInv
<1>1. /\ d \in Directions
      /\ Target(t)' = d
      /\ \A u \in Threads : Target(u)' = Target(u)
      /\ UNCHANGED <<wpc, rpc, copied, spc, stop, taken, arrived, delivered>>
  BY TargetType DEF Close, CloseLock, CloseCancel, CloseUnlink, CloseDelete, Closing,
                    CloseVarsUnchanged, Target
<1>2. CASE CloseLock(t)
  <2>1. UNCHANGED <<slot, active, block, op, buf>> /\ m = "free" /\ cpc[t] = "lock"
    BY <1>2 DEF CloseLock, aioVars, Closing
  <2>2. CASE slot[d] = "null"
    <3>1. cpc' = [cpc EXCEPT ![t] = "no"] /\ UNCHANGED <<m, closes>>
      BY <1>2, <2>2 DEF CloseLock, Closing
    <3>2. TypeOK' /\ MutexHeld'
      BY <1>1, <2>1, <3>1 DEF TypeOK, MutexHeld, Inside, Threads
    <3>3. ClosedState'
      BY <1>1, <2>1, <3>1 DEF TypeOK, ClosedState, Threads
    <3> QED
      BY <3>1, <3>2, <3>3, <1>1, <2>1
      DEF TypeOK, OutBuffer, StopComesFirst, ReaderCloses, ReaderSafe, InHand, Threads,
          NothingLostWhileRelaying, DeliveredAsArrived
  <2>3. CASE slot[d] # "null"
    <3>1. /\ cpc' = [cpc EXCEPT ![t] = "cancel"] /\ m' = t
          /\ closes' = [closes EXCEPT ![d] = @ + 1]
      BY <1>2, <2>3 DEF CloseLock, Closing
    <3>2. TypeOK'
      BY <1>1, <2>1, <3>1 DEF TypeOK, Threads
    <3>3. MutexHeld'
      BY <1>1, <2>1, <3>1 DEF TypeOK, MutexHeld, Inside, Threads
    <3>4. closes[d] = 0
      <4>1. \A u \in Threads : cpc[u] \notin Inside
        BY <2>1 DEF MutexHeld, Threads
      <4> QED
        BY <4>1, <1>1, <2>3 DEF ClosedState, TypeOK, Inside
    <3>5. ClosedState'
      <4>1. \A e \in Directions :
              /\ closes'[e] <= 1
              /\ closes'[e] = 1 => \/ slot'[e] = "null"
                                   \/ \E u \in Threads : Target(u)' = e /\ cpc'[u] \in {"cancel", "unlink"}
        <5> SUFFICES ASSUME NEW e \in Directions
                     PROVE  /\ closes'[e] <= 1
                            /\ closes'[e] = 1 => \/ slot'[e] = "null"
                                   \/ \E u \in Threads : Target(u)' = e /\ cpc'[u] \in {"cancel", "unlink"}
          OBVIOUS
        <5>1. CASE e = d
          BY <5>1, <1>1, <3>1, <3>4 DEF TypeOK
        <5>2. CASE e # d
          BY <5>2, <1>1, <2>1, <3>1 DEF TypeOK, ClosedState
        <5> QED
          BY <5>1, <5>2
      <4>2. \A u \in Threads : cpc'[u] = "delete" => slot'[Target(u)'] = "null"
        BY <1>1, <2>1, <3>1 DEF TypeOK, ClosedState
      <4> QED
        BY <4>1, <4>2 DEF ClosedState
    <3> QED
      BY <3>1, <3>2, <3>3, <3>5, <1>1, <2>1
      DEF TypeOK, OutBuffer, StopComesFirst, ReaderCloses, ReaderSafe, InHand, Threads,
          NothingLostWhileRelaying, DeliveredAsArrived
  <2> QED
    BY <2>2, <2>3
<1>3. CASE CloseCancel(t)
  <2>1. /\ op' \in [Directions -> Results \cup {"idle", "pending"}]
        /\ op'["out"] # op["out"] => d = "out" /\ op["out"] = "pending" /\ op'["out"] = "error"
    BY <1>1, <1>3 DEF CloseCancel, Set, TypeOK, Results, Directions
  <2>2. TypeOK' /\ MutexHeld'
    BY <1>1, <1>3, <2>1 DEF CloseCancel, Closing, TypeOK, MutexHeld, Inside, Threads
  <2>3. ClosedState' /\ OutBuffer' /\ StopComesFirst'
    BY <1>1, <1>3 DEF CloseCancel, Closing, TypeOK, ClosedState, OutBuffer, StopComesFirst, Threads
  <2>4. ~stop => op'["out"] = op["out"]
    BY <1>1, <1>3, <2>1 DEF CloseCancel, Closing, StopComesFirst, ReaderCloses, Target, Threads
  <2>5. ReaderCloses' /\ ReaderSafe' /\ InHand' /\ NothingLostWhileRelaying'
    BY <1>1, <1>3, <2>4 DEF CloseCancel, Closing, TypeOK, ReaderCloses, ReaderSafe, InHand,
                            NothingLostWhileRelaying, Threads
  <2> QED
    BY <2>2, <2>3, <2>5, <1>1 DEF DeliveredAsArrived
<1>4. CASE CloseUnlink(t)
  <2>1. TypeOK' /\ MutexHeld'
    BY <1>1, <1>4 DEF CloseUnlink, Closing, TypeOK, MutexHeld, Inside, Threads
  <2>2. ClosedState'
    BY <1>1, <1>4 DEF CloseUnlink, Closing, TypeOK, ClosedState, Threads
  <2>3. OutBuffer' /\ StopComesFirst' /\ ReaderCloses' /\ ReaderSafe' /\ InHand'
    BY <1>1, <1>4 DEF CloseUnlink, Closing, TypeOK, OutBuffer, StopComesFirst,
                      ReaderCloses, ReaderSafe, InHand, Threads, Directions
  <2> QED
    BY <2>1, <2>2, <2>3, <1>1, <1>4
    DEF CloseUnlink, NothingLostWhileRelaying, DeliveredAsArrived
<1>5. CASE CloseDelete(t)
  <2>1. /\ buf' \in [Directions -> {NoBuffer} \cup Nat]
        /\ \A e \in Directions \ {d} : buf'[e] = buf[e]
    BY <1>1, <1>5 DEF CloseDelete, Set, TypeOK
  <2>2. TypeOK'
    BY <1>1, <1>5, <2>1 DEF CloseDelete, Closing, TypeOK, Threads
  <2>8. MutexHeld'
    BY <1>1, <1>5 DEF CloseDelete, Closing, TypeOK, MutexHeld, Inside, Threads
  <2>3. ClosedState' /\ StopComesFirst'
    BY <1>1, <1>5 DEF CloseDelete, Closing, TypeOK, ClosedState, StopComesFirst, Threads
  <2>4. OutBuffer'
    BY <1>1, <1>5, <2>1 DEF CloseDelete, TypeOK, OutBuffer, Directions
  <2>5. ~stop /\ d = "out" => op["out"] = "ESHUTDOWN" /\ rpc = "loop" /\ slot["out"] = "null"
    BY <1>1, <1>5 DEF CloseDelete, Closing, StopComesFirst, ReaderCloses, ClosedState, Target, Threads
  <2>6. ReaderCloses' /\ ReaderSafe'
    BY <1>1, <1>5, <2>5 DEF CloseDelete, Closing, TypeOK, ReaderCloses, ReaderSafe, Threads, Directions
  <2>7. InHand' /\ NothingLostWhileRelaying'
    BY <1>1, <1>5, <2>1, <2>5 DEF CloseDelete, Closing, TypeOK, InHand, NothingLostWhileRelaying, Directions
  <2> QED
    BY <2>2, <2>8, <2>3, <2>4, <2>6, <2>7, <1>1 DEF DeliveredAsArrived
<1> QED
  BY <1>2, <1>3, <1>4, <1>5 DEF Close

\* The steps of the writer concern the IN endpoint and keep the invariant.
LEMMA WriterInductive ==
  ASSUME IInv, WriterStep \/ WriterTake
  PROVE  IInv'
<1> USE DEF IInv
<1>1. /\ cpc["writer"] = "no"
      /\ UNCHANGED <<slot, block, m, rpc, copied, spc, stop, arrived, delivered, closes>>
      /\ wpc' \in {"idle", "send", "submit", "activate", "writing", "wait", "poll", "settle", "done"}
      /\ cpc' = cpc \/ cpc' = [cpc EXCEPT !["writer"] = "lock"]
  BY DEF WriterStep, WriterTake, WriterLoop, WriterSend, WriterSubmit, WriterActivate, WriterWait,
      WriterPoll, WriterSettle, Writer, aioVars, StartClosing, TypeOK
<1>2. /\ op' \in [Directions -> Results \cup {"idle", "pending"}] /\ op'["out"] = op["out"]
      /\ buf' \in [Directions -> {NoBuffer} \cup Nat] /\ buf'["out"] = buf["out"]
  BY BoundsAssumption
  DEF WriterStep, WriterTake, WriterLoop, WriterSend, WriterSubmit, WriterActivate, WriterWait,
      WriterPoll, WriterSettle, aioVars, Set, TypeOK, Directions, Results
<1>7. active' \in BOOLEAN
  BY DEF WriterStep, WriterTake, WriterLoop, WriterSend, WriterSubmit, WriterActivate, WriterWait,
         WriterPoll, WriterSettle, aioVars, TypeOK
<1>8. taken' \in 0..MaxTaken
  BY BoundsAssumption
  DEF WriterStep, WriterTake, WriterLoop, WriterSend, WriterSubmit, WriterActivate, WriterWait,
      WriterPoll, WriterSettle, TypeOK
<1>3. TypeOK'
  BY <1>1, <1>2, <1>7, <1>8 DEF TypeOK, Threads
<1>4. MutexHeld' /\ StopComesFirst'
  BY <1>1 DEF TypeOK, MutexHeld, StopComesFirst, Inside, Threads
<1>5. ClosedState'
  BY <1>1 DEF TypeOK, ClosedState, Target, Threads
<1>6. OutBuffer' /\ ReaderCloses' /\ ReaderSafe' /\ InHand'
  BY <1>1, <1>2 DEF TypeOK, OutBuffer, ReaderCloses, ReaderSafe, InHand, Threads
<1> QED
  BY <1>1, <1>2, <1>3, <1>4, <1>5, <1>6 DEF NothingLostWhileRelaying, DeliveredAsArrived

\* The steps of stopEps touch neither aiocb; please_stop is the first of them.
LEMMA StopEpsInductive ==
  ASSUME IInv, StopEps
  PROVE  IInv'
<1> USE DEF IInv
<1>1. /\ cpc["stopper"] = "no"
      /\ UNCHANGED <<slot, active, block, op, buf, m, wpc, rpc, copied, taken, arrived, delivered, closes>>
      /\ spc' \in {"testIn", "testOut", "exit", "exited"} /\ stop'
      /\ cpc' = cpc \/ cpc' = [cpc EXCEPT !["stopper"] = "lock"]
  BY DEF StopEps, Stopper, DisconnectEp, StartClosing, StopComesFirst, aioVars, historyVars
<1>2. stop' \in BOOLEAN
  BY DEF StopEps, Stopper, DisconnectEp, TypeOK
<1>3. TypeOK'
  BY <1>1, <1>2 DEF TypeOK, Threads
<1>4. MutexHeld' /\ StopComesFirst'
  BY <1>1 DEF TypeOK, MutexHeld, StopComesFirst, Inside, Threads
<1>5. ClosedState'
  BY <1>1 DEF TypeOK, ClosedState, Target, Threads
<1>6. OutBuffer' /\ ReaderCloses' /\ ReaderSafe' /\ InHand'
  BY <1>1 DEF TypeOK, OutBuffer, ReaderCloses, ReaderSafe, InHand, Threads
<1> QED
  BY <1>1, <1>3, <1>4, <1>5, <1>6 DEF NothingLostWhileRelaying, DeliveredAsArrived

\* The kernel completes or fails a request of a live aiocb, until please_stop.
LEMMA KernelInductive ==
  ASSUME IInv, NEW d \in Directions, Complete(d) \/ Fail(d)
  PROVE  IInv'
<1> USE DEF IInv
<1>1. /\ UNCHANGED <<slot, active, block, m, cpc, wpc, rpc, copied, spc, stop, taken, delivered, closes>>
      /\ op[d] = "pending"
      /\ \E rc \in Results : op' = [op EXCEPT ![d] = rc]
  BY DEF Complete, Fail, Kernel, Results
<1>2. TypeOK' /\ OutBuffer'
  <2>1. arrived' \in 0..MaxArrived
    BY BoundsAssumption DEF Complete, Fail, TypeOK
  <2>2. buf' \in [Directions -> {NoBuffer} \cup Nat] /\ OutBuffer'
    BY <1>1, <2>1 DEF Complete, Fail, TypeOK, OutBuffer, Directions
  <2>3. op' \in [Directions -> Results \cup {"idle", "pending"}]
    BY <1>1 DEF TypeOK
  <2> QED
    BY <1>1, <2>1, <2>2, <2>3 DEF TypeOK
<1>3. MutexHeld' /\ StopComesFirst' /\ ReaderSafe'
  BY <1>1 DEF MutexHeld, StopComesFirst, ReaderSafe
<1>7. DeliveredAsArrived'
  BY <1>1 DEF DeliveredAsArrived
<1>6. ClosedState'
  <2>1. \A t \in Threads : Target(t)' = Target(t)
    BY <1>1 DEF Target
  <2> QED
    BY <1>1, <2>1 DEF ClosedState
<1>4. ReaderCloses'
  BY <1>1 DEF ReaderCloses, TypeOK
<1>5. InHand' /\ NothingLostWhileRelaying'
  <2>1. CASE d = "in"
    BY <1>1, <2>1 DEF Complete, Fail, InHand, NothingLostWhileRelaying, TypeOK, Directions
  <2>2. CASE d = "out" /\ Complete(d)
    <3>1. CASE stop
      BY <1>1, <3>1 DEF InHand, NothingLostWhileRelaying
    <3>2. CASE ~stop
      <4>1. /\ op["out"] = "pending" /\ block["out"] = "live"
            /\ op'["out"] = "done" /\ arrived' = arrived + 1 /\ buf'["out"] = arrived'
        BY <1>1, <2>2, <3>2 DEF Complete, InHand, TypeOK, Directions
      <4>2. rpc \notin {"resubmit", "forget"}
        BY <3>2, <4>1 DEF InHand
      <4>3. InHand'
        BY <1>1, <3>2, <4>1, <4>2 DEF InHand
      <4>4. NothingLostWhileRelaying'
        BY <1>1, <3>2, <4>1 DEF NothingLostWhileRelaying, TypeOK
      <4> QED
        BY <4>3, <4>4
    <3> QED
      BY <3>1, <3>2
  <2>3. CASE d = "out" /\ Fail(d)
    BY <1>1, <2>3 DEF Fail, InHand, NothingLostWhileRelaying, TypeOK, Directions
  <2> QED
    BY <2>1, <2>2, <2>3 DEF Directions
<1> QED
  BY <1>2, <1>3, <1>4, <1>5, <1>6, <1>7

\* The steps of the reader concern the OUT endpoint and keep the invariant.
LEMMA ReaderInductive ==
  ASSUME IInv, ReaderStep
  PROVE  IInv'
<1> USE DEF IInv
<1>1. /\ cpc["reader"] = "no"
      /\ UNCHANGED <<active, m, wpc, spc, stop, taken, arrived, closes>>
      /\ cpc' = cpc \/ cpc' = [cpc EXCEPT !["reader"] = "lock"]
      /\ slot' = slot \/ slot' = [slot EXCEPT !["out"] = "null"]
      /\ block' = block \/ block' = [block EXCEPT !["out"] = "deleted"]
      /\ rpc' \in {"loop", "receive", "poll", "resubmit", "forget", "pass", "done"}
      /\ buf' = buf
  BY DEF ReaderStep, ReaderLoop, ReaderReceive, ReaderPoll, ReaderResubmit, ReaderForget,
         ReaderPass, Reader, StartClosing
<1>2. op' \in [Directions -> Results \cup {"idle", "pending"}]
  BY DEF ReaderStep, ReaderLoop, ReaderReceive, ReaderPoll, ReaderResubmit, ReaderForget,
         ReaderPass, Set, TypeOK
<1>3. copied' \in 0..MaxArrived
  BY BoundsAssumption
  DEF ReaderStep, ReaderLoop, ReaderReceive, ReaderPoll, ReaderResubmit, ReaderForget,
      ReaderPass, TypeOK, OutBuffer, Garbage
<1>4. delivered' \in Seq(0..MaxArrived)
  <2>1. delivered' = delivered \/ delivered' = Append(delivered, copied)
    BY DEF ReaderStep, ReaderLoop, ReaderReceive, ReaderPoll, ReaderResubmit, ReaderForget,
           ReaderPass
  <2>2. delivered \in Seq(0..MaxArrived) /\ copied \in 0..MaxArrived
    BY DEF TypeOK
  <2>3. Append(delivered, copied) \in Seq(0..MaxArrived)
    BY <2>2
  <2> QED
    BY <2>1, <2>2, <2>3
<1>5. TypeOK'
  <2>1. /\ slot' \in [Directions -> {"aio", "null"}]
        /\ block' \in [Directions -> {"live", "deleted"}]
        /\ cpc' \in [Threads -> {"no", "lock", "cancel", "unlink", "delete"}]
    BY <1>1 DEF TypeOK
  <2> QED
    BY <1>1, <1>2, <1>3, <1>4, <2>1 DEF TypeOK
<1>6. MutexHeld' /\ StopComesFirst'
  BY <1>1 DEF TypeOK, MutexHeld, StopComesFirst, Inside, Threads
<1>7. ClosedState'
  <2>1. \A t \in Threads : Target(t)' = Target(t)
    BY <1>1 DEF Target
  <2>2. \A d \in Directions : slot[d] = "null" => slot'[d] = "null"
    BY <1>1 DEF TypeOK
  <2>3. \A t \in Threads : cpc[t] \in Inside \/ cpc'[t] \in Inside => cpc'[t] = cpc[t]
    BY <1>1 DEF TypeOK, Threads, Inside
  <2> QED
    BY <1>1, <2>1, <2>2, <2>3, TargetType DEF ClosedState, Inside
<1>8. OutBuffer'
  BY <1>1 DEF TypeOK, OutBuffer
<1>9. ReaderCloses' /\ ReaderSafe' /\ InHand' /\ NothingLostWhileRelaying' /\ DeliveredAsArrived'
  <2> USE DEF TypeOK, ReaderCloses, ReaderSafe, InHand, NothingLostWhileRelaying, Reader, Directions
  <2>1. CASE stop
    <3>1. delivered' = delivered
      BY <2>1 DEF ReaderStep, ReaderLoop, ReaderReceive, ReaderPoll, ReaderResubmit, ReaderForget,
                  ReaderPass
    <3>2. ReaderCloses'
      BY <1>1, <2>1 DEF ReaderStep, ReaderLoop, ReaderReceive, ReaderPoll, ReaderResubmit,
                        ReaderForget, ReaderPass, StartClosing
    <3> QED
      BY <1>1, <2>1, <3>1, <3>2 DEF DeliveredAsArrived
  <2>2. CASE ~stop /\ (ReaderLoop \/ ReaderReceive)
    BY <1>1, <2>2 DEF ReaderLoop, ReaderReceive, DeliveredAsArrived
  <2>3. CASE ~stop /\ ReaderPoll
    <3>1. block["out"] = "live" /\ rpc = "poll" /\ Reported("out") = {op["out"]}
      BY <2>3 DEF ReaderPoll, Reported
    <3>2. CASE op["out"] = "done" /\ rpc' = "resubmit"
      <4>1. copied' = buf["out"] /\ op'["out"] = "idle" /\ UNCHANGED <<slot, block, cpc, delivered>>
        BY <2>3, <3>1, <3>2 DEF ReaderPoll, Set
      <4>2. copied' = Len(delivered) + 1
        BY <2>3, <3>1, <3>2, <4>1
      <4> QED
        BY <1>1, <2>3, <3>1, <3>2, <4>1, <4>2 DEF DeliveredAsArrived
    <3>3. CASE op["out"] # "done" /\ rpc' = "loop"
      <4>1. /\ UNCHANGED <<op, copied, slot, block, delivered>>
            /\ cpc'["reader"] # "no" => op["out"] = "ESHUTDOWN"
        BY <1>1, <2>3, <3>1, <3>3 DEF ReaderPoll
      <4> QED
        BY <1>1, <2>3, <3>1, <3>3, <4>1 DEF DeliveredAsArrived
    <3> QED
      BY <2>3, <3>1, <3>2, <3>3 DEF ReaderPoll
  <2>4. CASE ~stop /\ ReaderResubmit
    <3>1. block["out"] = "live" /\ rpc = "resubmit" /\ UNCHANGED <<slot, cpc, copied, delivered>>
      BY <2>4 DEF ReaderResubmit
    <3>2. \/ rpc' = "pass" /\ op'["out"] = "pending" /\ UNCHANGED block
          \/ rpc' = "forget" /\ UNCHANGED op
      BY <2>4, <3>1 DEF ReaderResubmit, Set
    <3> QED
      BY <1>1, <2>4, <3>1, <3>2 DEF DeliveredAsArrived
  <2>5. CASE ~stop /\ ReaderForget
    BY <1>1, <2>5 DEF ReaderForget, DeliveredAsArrived
  <2>6. CASE ~stop /\ ReaderPass
    <3>1. /\ rpc = "pass" /\ rpc' = "loop" /\ UNCHANGED <<slot, block, op, cpc, copied>>
          /\ delivered' = Append(delivered, Len(delivered) + 1)
      BY <2>6 DEF ReaderPass
    <3>2. /\ Len(delivered') = Len(delivered) + 1
          /\ \A n \in 1..Len(delivered) : delivered'[n] = delivered[n]
          /\ delivered'[Len(delivered) + 1] = Len(delivered) + 1
      BY <3>1
    <3>4. DeliveredAsArrived'
      BY <3>2 DEF DeliveredAsArrived
    <3> QED
      BY <1>1, <2>6, <3>1, <3>2, <3>4
  <2> QED
    BY <2>1, <2>2, <2>3, <2>4, <2>5, <2>6 DEF ReaderStep
<1> QED
  BY <1>5, <1>6, <1>7, <1>8, <1>9

\* The invariant holds in every reachable state.
LEMMA Invariance == Spec => []IInv
<1>1. IInv /\ [Next]_vars => IInv'
  <2> SUFFICES ASSUME IInv, [Next]_vars PROVE IInv'
    OBVIOUS
  <2>1. CASE Next
    BY <2>1, CloseInductive, WriterInductive, ReaderInductive, StopEpsInductive, KernelInductive
    DEF Next, Threading
  <2>2. CASE UNCHANGED vars
    <3>1. TypeOK' /\ MutexHeld' /\ OutBuffer' /\ StopComesFirst' /\ ReaderCloses'
      BY <2>2 DEF vars, aioVars, historyVars, IInv, TypeOK, MutexHeld, OutBuffer,
                  StopComesFirst, ReaderCloses
    <3>2. ClosedState'
      <4>1. \A t \in Threads : Target(t)' = Target(t)
        BY <2>2 DEF vars, Target
      <4> QED
        BY <2>2, <4>1 DEF vars, aioVars, historyVars, IInv, ClosedState
    <3>3. ReaderSafe' /\ InHand' /\ NothingLostWhileRelaying' /\ DeliveredAsArrived'
      BY <2>2 DEF vars, aioVars, historyVars, IInv, ReaderSafe, InHand,
                  NothingLostWhileRelaying, DeliveredAsArrived
    <3> QED
      BY <3>1, <3>2, <3>3 DEF IInv
  <2> QED
    BY <2>1, <2>2
<1> QED
  BY InitInductive, <1>1, PTL DEF Spec

\* The variables of the endpoints keep their types.
THEOREM TypeCorrect == Spec => []TypeOK
<1>1. IInv => TypeOK
  BY DEF IInv
<1> QED
  BY Invariance, <1>1, PTL

\* closeEP closes a direction at most once, whichever threads race for it.
THEOREM EndpointsAreClosedOnce == Spec => []ClosedOnce
<1>1. IInv => ClosedOnce
  BY TargetType DEF IInv, ClosedState, ClosedOnce, MutexHeld, Inside, Threads
<1> QED
  BY Invariance, <1>1, PTL

\* The reader passes on what the host sent, in order: although receive_data reads
\* the aiocb without the mutex, nothing of a deleted one gets past please_stop.
THEOREM DeliversAsArrived == Spec => []DeliveredAsArrived
<1>1. IInv => DeliveredAsArrived
  BY DEF IInv
<1> QED
  BY Invariance, <1>1, PTL

\* Until please_stop every packet the host sent is passed on, in the buffer, or
\* in the reader's hand, also when its next read cannot be submitted.
THEOREM LosesNothing == Spec => []NothingLostWhileRelaying
<1>1. IInv => NothingLostWhileRelaying
  BY DEF IInv
<1> QED
  BY Invariance, <1>1, PTL

\* The buffer of a write that is in progress holds the writer's latest packet.  Until
\* please_stop such a write keeps the writer from taking the next one: it is about
\* to be marked active, or is so marked while the writer asks for its end.
InRequest ==
    block["in"] = "live" /\ op["in"] = "pending" =>
        /\ buf["in"] = taken
        /\ ~stop => /\ cpc["writer"] = "no"
                    /\ wpc = "activate" \/ (active /\ wpc \in {"writing", "wait", "poll"})

\* Closing deletes the aiocb; only the writer, with no write in progress, or stopEps,
\* after please_stop, closes the IN endpoint.
LEMMA CloseKeepsRequest ==
  ASSUME IInv, InRequest, NEW t \in Threads, Close(t)
  PROVE  InRequest'
<1> USE DEF IInv, TypeOK, Directions, Threads
<1>1. /\ cpc[t] # "no" /\ UNCHANGED <<wpc, stop, taken>>
      /\ \A u \in Threads \ {t} : cpc'[u] = cpc[u]
  BY DEF Close, CloseLock, CloseCancel, CloseUnlink, CloseDelete, Closing, CloseVarsUnchanged
<1>2. block'["in"] = "live" => block["in"] = "live" /\ buf'["in"] = buf["in"]
  BY TargetType DEF Close, CloseLock, CloseCancel, CloseUnlink, CloseDelete, Closing, Set, aioVars
<1>3. op'["in"] = "pending" => op["in"] = "pending"
  BY TargetType DEF Close, CloseLock, CloseCancel, CloseUnlink, CloseDelete, Set, aioVars
<1>4. active' = active \/ (active' = FALSE /\ Target(t) = "in")
  BY TargetType DEF Close, CloseLock, CloseCancel, CloseUnlink, CloseDelete, aioVars
<1>5. ~stop => t # "stopper" /\ (Target(t) = "in" => t = "writer")
  BY <1>1 DEF StopComesFirst, Target
<1> QED
  BY <1>1, <1>2, <1>3, <1>4, <1>5 DEF InRequest

\* The writer takes a packet only with no write in progress, or after please_stop
\* not at all.
LEMMA WriterKeepsRequest ==
  ASSUME IInv, InRequest, WriterStep \/ WriterTake
  PROVE  InRequest'
<1> USE DEF IInv, TypeOK, Directions, Threads, InRequest, Writer
<1>1. CASE WriterLoop
  BY <1>1 DEF WriterLoop, aioVars
<1>2. CASE WriterTake
  BY <1>2 DEF WriterTake, aioVars
<1>3. CASE WriterSend
  BY <1>3 DEF WriterSend, aioVars
<1>4. CASE WriterSubmit
  BY <1>4 DEF WriterSubmit, Set, StartClosing
<1>5. CASE WriterActivate
  BY <1>5 DEF WriterActivate
<1>6. CASE WriterWait
  BY <1>6 DEF WriterWait, aioVars
<1>7. CASE WriterPoll
  BY <1>7 DEF WriterPoll, Set, Reported, StartClosing
<1>8. CASE WriterSettle
  BY <1>8 DEF WriterSettle
<1> QED
  BY <1>1, <1>2, <1>3, <1>4, <1>5, <1>6, <1>7, <1>8 DEF WriterStep

\* The reader and the kernel leave the IN endpoint's buffer alone; stopEps begins
\* with please_stop.
LEMMA OthersKeepRequest ==
  ASSUME IInv, InRequest,
         ReaderStep \/ StopEps \/ \E d \in Directions : Complete(d) \/ Fail(d)
  PROVE  InRequest'
<1> USE DEF IInv, TypeOK, Directions, Threads
<1>1. CASE ReaderStep
  <2>1. /\ UNCHANGED <<active, wpc, stop, taken, buf>> /\ cpc'["writer"] = cpc["writer"]
        /\ block'["in"] = block["in"] /\ op'["in"] = op["in"]
    BY <1>1 DEF ReaderStep, ReaderLoop, ReaderReceive, ReaderPoll, ReaderResubmit, ReaderForget,
                ReaderPass, Reader, StartClosing, Set
  <2> QED
    BY <2>1 DEF InRequest
<1>2. CASE StopEps
  <2>1. stop' /\ UNCHANGED <<block, op, buf, taken>>
    BY <1>2 DEF StopEps, Stopper, DisconnectEp, StopComesFirst, aioVars, historyVars
  <2> QED
    BY <2>1 DEF InRequest
<1>3. ASSUME NEW d \in Directions, Complete(d) \/ Fail(d)
      PROVE  InRequest'
  <2>1. /\ UNCHANGED <<active, block, wpc, cpc, stop, taken>>
        /\ op'["in"] = "pending" => op["in"] = "pending" /\ buf'["in"] = buf["in"]
    BY <1>3 DEF Complete, Fail, Kernel, Results
  <2> QED
    BY <2>1 DEF InRequest
<1> QED
  BY <1>1, <1>2, <1>3

\* As long as its aiocb lives a request in progress keeps its buffer, whichever
\* thread cancels it, waits for it, or gives up waiting.
THEOREM TransfersKeepBuffers == Spec => []TransferHasItsBuffer
<1>1. Init => InRequest
  BY DEF Init, InRequest, Directions
<1>2. IInv /\ InRequest /\ [Next]_vars => InRequest'
  <2>1. ASSUME UNCHANGED vars, InRequest
        PROVE  InRequest'
    BY <2>1 DEF vars, aioVars, historyVars, InRequest
  <2> QED
    BY <2>1, CloseKeepsRequest, WriterKeepsRequest, OthersKeepRequest DEF Next, Threading
<1>3. IInv /\ InRequest => TransferHasItsBuffer
  <2>1. \A d \in Directions : d = "in" \/ d = "out"
    BY DEF Directions
  <2> QED
    BY <2>1, BoundsAssumption DEF IInv, InRequest, OutBuffer, TransferHasItsBuffer, NoBuffer
<1> QED
  BY Invariance, <1>1, <1>2, <1>3, PTL DEF Spec
==============================================================================
