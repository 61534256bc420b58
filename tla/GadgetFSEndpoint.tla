--------------------------- MODULE GadgetFSEndpoint ---------------------------
(***************************************************************************)
(* The asynchronous I/O of HostProxy_GadgetFS on one endpoint number: the   *)
(* aiocb of its IN endpoint, driven by the writer thread through send_data  *)
(* and send_wait_complete, the aiocb of its OUT endpoint, driven by the     *)
(* reader thread through receive_data, and disconnectEps, called by         *)
(* Manager::stopEps on a third thread, which closes both.  closeEP is also  *)
(* called by the two threads themselves when the gadget is shut down.       *)
(*                                                                          *)
(* Packets are numbered: the n-th packet the writer takes from its queue,   *)
(* and the n-th packet the USB host sends, have the number n.               *)
(***************************************************************************)
EXTENDS Integers, Sequences

CONSTANTS MaxTaken,   \* bound: packets the writer takes from its queue
          MaxArrived  \* bound: packets the USB host sends

ASSUME BoundsAssumption == MaxTaken \in Nat /\ MaxArrived \in Nat

Directions == {"in", "out"}
Threads    == {"writer", "reader", "stopper"}
Results    == {"done", "ESHUTDOWN", "error"}  \* aio_error: 0, ESHUTDOWN, others
NoBuffer   == -1
Garbage    == 0                               \* what freed memory may hold

VARIABLES slot,       \* p_epin_async[n], p_epout_async[n]: "aio" or "null"
          active,     \* p_epin_active[n]
          block,      \* the aiocb of a direction: "live" or "deleted"
          op,         \* its request: "idle", "pending" or one of Results
          buf,        \* the number of the packet in its aio_buf, or NoBuffer
          m,          \* the thread that holds HostProxy_GadgetFS::m, or "free"
          cpc,        \* where a thread is in closeEP
          wpc,        \* where the writer is
          rpc,        \* where the reader is
          copied,     \* receive_data: the packet copied for the caller
          spc,        \* where stopEps is
          stop,       \* the threads' please_stop flags
          taken,      \* history: packets the writer has taken
          arrived,    \* history: packets the USB host has sent
          delivered,  \* history: packets the reader has passed on
          closes      \* history: how often closeEP has closed a direction

aioVars     == <<slot, active, block, op, buf>>
historyVars == <<taken, arrived, delivered, closes>>
vars == <<aioVars, m, cpc, wpc, rpc, copied, spc, stop, historyVars>>

\* What aio_error may report to a thread: of a deleted aiocb, whatever the
\* memory holds now.
Reported(d) == IF block[d] = "live" THEN {op[d]} ELSE Results \cup {"pending"}

\* A change of a member of the aiocb, lost when the aiocb is gone.
Set(f, d, v) == IF block[d] = "live" THEN [f EXCEPT ![d] = v] ELSE f

StartClosing(t) == cpc' = [cpc EXCEPT ![t] = "lock"]

\* The state setConfig leaves: both endpoint files open, a read submitted for
\* OUT unless that failed.
Init == /\ \E submitted \in BOOLEAN :
             /\ slot  = [d \in Directions |-> IF d = "in" \/ submitted THEN "aio" ELSE "null"]
             /\ block = [d \in Directions |-> IF d = "in" \/ submitted THEN "live" ELSE "deleted"]
             /\ op    = [d \in Directions |-> IF d = "in" \/ ~submitted THEN "idle" ELSE "pending"]
        /\ buf = [d \in Directions |-> IF d = "in" THEN NoBuffer ELSE Garbage]
        /\ active = FALSE /\ m = "free" /\ cpc = [t \in Threads |-> "no"]
        /\ wpc = "idle" /\ rpc = "loop" /\ copied = Garbage
        /\ spc = "relaying" /\ stop = FALSE
        /\ taken = 0 /\ arrived = 0 /\ delivered = <<>>
        /\ closes = [d \in Directions |-> 0]
------------------------------------------------------------------------------
(* closeEP, for the direction the calling thread is about.                  *)

Target(t) == CASE t = "writer"  -> "in"
               [] t = "reader"  -> "out"
               [] t = "stopper" -> IF spc = "testOut" THEN "in" ELSE "out"

CloseVarsUnchanged == UNCHANGED <<wpc, rpc, copied, spc, stop, taken, arrived, delivered>>

Closing(t, from, to) == cpc[t] = from /\ cpc' = [cpc EXCEPT ![t] = to] /\ CloseVarsUnchanged

\* Mutant: the pointer is not tested again once the mutex is held.
CloseLockUntested(t) ==
    /\ m = "free"
    /\ Closing(t, "lock", "cancel")
    /\ m' = t /\ closes' = [closes EXCEPT ![Target(t)] = @ + 1]
    /\ UNCHANGED aioVars

\* Mutant: the early return leaves the mutex locked.
CloseLockLeak(t) ==
    /\ m = "free" /\ m' = t
    /\ IF slot[Target(t)] = "null"
       THEN Closing(t, "lock", "no") /\ UNCHANGED closes
       ELSE /\ Closing(t, "lock", "cancel")
            /\ closes' = [closes EXCEPT ![Target(t)] = @ + 1]
    /\ UNCHANGED aioVars

\* The lock guard, the pointer, and the early return when another thread was first.
CloseLock(t) ==
    /\ m = "free"
    /\ IF slot[Target(t)] = "null"
       THEN Closing(t, "lock", "no") /\ UNCHANGED <<m, closes>>
       ELSE /\ Closing(t, "lock", "cancel")
            /\ m' = t /\ closes' = [closes EXCEPT ![Target(t)] = @ + 1]
    /\ UNCHANGED aioVars

\* cancelAio: aio_cancel cancels a request in progress or fails to (its result
\* is not looked at), and wakes an aio_suspend.
CloseCancel(t) ==
    LET d == Target(t) IN
    /\ Closing(t, "cancel", "unlink")
    /\ active' = (active /\ d = "out")
    /\ \/ UNCHANGED op
       \/ op[d] = "pending" /\ op' = Set(op, d, "error")
    /\ UNCHANGED <<slot, block, buf, m, closes>>

CloseUnlink(t) ==
    /\ Closing(t, "unlink", "delete")
    /\ slot' = [slot EXCEPT ![Target(t)] = "null"]
    /\ UNCHANGED <<active, block, op, buf, m, closes>>

\* Closing the file, freeing the buffer, deleting the aiocb, and the unlock.
CloseDelete(t) ==
    LET d == Target(t) IN
    /\ Closing(t, "delete", "no")
    /\ block' = [block EXCEPT ![d] = "deleted"] /\ buf' = Set(buf, d, NoBuffer)
    /\ m' = "free"
    /\ UNCHANGED <<slot, active, op, closes>>

Close(t) == CloseLock(t) \/ CloseCancel(t) \/ CloseUnlink(t) \/ CloseDelete(t)
------------------------------------------------------------------------------
(* The writer thread: RelayWriter::relay_write around send_data and         *)
(* send_wait_complete.                                                      *)

Writer(from, to) == /\ cpc["writer"] = "no" /\ wpc = from /\ wpc' = to
                    /\ UNCHANGED <<m, rpc, copied, spc, stop, arrived, delivered, closes>>

WriterLoop ==
    /\ \/ stop  /\ (Writer("idle", "done") \/ Writer("writing", "done"))
       \/ ~stop /\ Writer("writing", "wait")
    /\ UNCHANGED <<aioVars, cpc, taken>>

\* The writer gets a packet from its queue that no filter holds back.
WriterTake ==
    /\ ~stop /\ taken < MaxTaken
    /\ Writer("idle", "send")
    /\ taken' = taken + 1
    /\ UNCHANGED <<aioVars, cpc>>

\* send_data: the test for an open endpoint, without the mutex.
WriterSend ==
    /\ IF slot["in"] = "null" THEN Writer("send", "writing") ELSE Writer("send", "submit")
    /\ UNCHANGED <<aioVars, cpc, taken>>

\* send_data: the packet is copied to a new buffer and aio_write called.
WriterSubmit ==
    /\ buf' = Set(buf, "in", taken)
    /\ \/ Writer("submit", "activate") /\ op' = Set(op, "in", "pending") /\ UNCHANGED cpc
       \/ Writer("submit", "writing") /\ UNCHANGED <<op, cpc>>
       \/ Writer("submit", "writing") /\ StartClosing("writer") /\ UNCHANGED op
    /\ UNCHANGED <<slot, active, block, taken>>

WriterActivate ==
    /\ Writer("activate", "writing")
    /\ active' = TRUE
    /\ UNCHANGED <<slot, block, op, buf, cpc, taken>>

\* send_wait_complete, up to the look at the aiocb.  On a closed endpoint it
\* answers "not complete", and the writer asks again until it is stopped.
WriterWait ==
    /\ \/ slot["in"] = "null" /\ Writer("wait", "writing")
       \/ slot["in"] = "aio" /\ ~active /\ Writer("wait", "idle")
       \/ slot["in"] = "aio" /\ active /\ Writer("wait", "poll")
    /\ UNCHANGED <<aioVars, cpc, taken>>

\* Mutant: a write that is not finished in time counts as complete.
WriterPollGivesUp ==
    /\ \E rc \in Reported("in") :
         /\ Writer("poll", "settle")
         /\ buf' = Set(buf, "in", NoBuffer) /\ UNCHANGED op
         /\ IF rc = "ESHUTDOWN" THEN StartClosing("writer") ELSE UNCHANGED cpc
    /\ UNCHANGED <<slot, active, block, taken>>

\* The rest: aio_error after up to READ_TIMEOUT_MS in aio_suspend.  A block
\* deleted between these calls is like one deleted before them; what is left in
\* a deleted one may also make aio_return fail.
WriterPoll ==
    /\ \E rc \in Reported("in") :
         \/ rc = "pending" /\ Writer("poll", "writing") /\ UNCHANGED <<op, buf, cpc>>
         \/ /\ rc # "pending"
            /\ \/ Writer("poll", "settle")
               \/ block["in"] = "deleted" /\ rc = "done" /\ Writer("poll", "writing")
            /\ buf' = Set(buf, "in", NoBuffer) /\ op' = Set(op, "in", "idle")
            /\ IF rc = "ESHUTDOWN" THEN StartClosing("writer") ELSE UNCHANGED cpc
    /\ UNCHANGED <<slot, active, block, taken>>

WriterSettle ==
    /\ Writer("settle", "idle")
    /\ active' = FALSE
    /\ UNCHANGED <<slot, block, op, buf, cpc, taken>>

WriterStep == \/ WriterLoop \/ WriterSend \/ WriterSubmit \/ WriterActivate
              \/ WriterWait \/ WriterPoll \/ WriterSettle
------------------------------------------------------------------------------
(* The reader thread: RelayReader::relay_read around receive_data.          *)

Reader(from, to) == /\ cpc["reader"] = "no" /\ rpc = from /\ rpc' = to
                    /\ UNCHANGED <<active, m, wpc, spc, stop, taken, arrived, closes>>

ReaderLoop ==
    /\ IF stop THEN Reader("loop", "done") ELSE Reader("loop", "receive")
    /\ UNCHANGED <<slot, block, op, buf, cpc, copied, delivered>>

\* Mutant: the test looks at the IN endpoint of the same number.
ReaderReceiveWrongSlot ==
    /\ IF slot["in"] = "null" THEN Reader("receive", "loop") ELSE Reader("receive", "poll")
    /\ UNCHANGED <<slot, block, op, buf, cpc, copied, delivered>>

\* receive_data: the test for an open endpoint, without the mutex.
ReaderReceive ==
    /\ IF slot["out"] = "null" THEN Reader("receive", "loop") ELSE Reader("receive", "poll")
    /\ UNCHANGED <<slot, block, op, buf, cpc, copied, delivered>>

\* aio_error after up to READ_TIMEOUT_MS in aio_suspend, aio_return and the copy.
\* An error other than ESHUTDOWN stays in the aiocb: every later call meets it.
ReaderPoll ==
    /\ \E rc \in Reported("out") :
         \/ /\ rc = "done" /\ Reader("poll", "resubmit")
            /\ copied' = IF block["out"] = "live" THEN buf["out"] ELSE Garbage
            /\ op' = Set(op, "out", "idle") /\ UNCHANGED cpc
         \/ /\ rc # "done" \/ block["out"] = "deleted"
            /\ Reader("poll", "loop")
            /\ IF rc = "ESHUTDOWN" THEN StartClosing("reader") ELSE UNCHANGED cpc
            /\ UNCHANGED <<op, copied>>
    /\ UNCHANGED <<slot, block, buf, delivered>>

\* Mutant: the packet is given up with the endpoint when aio_read fails.
ReaderResubmitGivesUp ==
    /\ \/ /\ Reader("resubmit", "pass")
          /\ op' = Set(op, "out", "pending") /\ UNCHANGED <<slot, block>>
       \/ /\ Reader("resubmit", "loop")
          /\ block' = [block EXCEPT !["out"] = "deleted"]
          /\ slot' = [slot EXCEPT !["out"] = "null"] /\ UNCHANGED op
    /\ UNCHANGED <<buf, cpc, copied, delivered>>

\* The next aio_read; when it fails the aiocb is deleted, without the mutex and
\* without closing its file.
ReaderResubmit ==
    /\ \/ /\ Reader("resubmit", "pass")
          /\ op' = Set(op, "out", "pending") /\ UNCHANGED block
       \/ /\ Reader("resubmit", "forget")
          /\ block' = [block EXCEPT !["out"] = "deleted"] /\ UNCHANGED op
    /\ UNCHANGED <<slot, buf, cpc, copied, delivered>>

ReaderForget ==
    /\ Reader("forget", "pass")
    /\ slot' = [slot EXCEPT !["out"] = "null"]
    /\ UNCHANGED <<block, op, buf, cpc, copied, delivered>>

\* relay_read: a packet that comes after please_stop is freed.
ReaderPass ==
    /\ IF stop THEN Reader("pass", "done") /\ UNCHANGED delivered
               ELSE Reader("pass", "loop") /\ delivered' = Append(delivered, copied)
    /\ UNCHANGED <<slot, block, op, buf, cpc, copied>>

ReaderStep == \/ ReaderLoop \/ ReaderReceive \/ ReaderPoll
              \/ ReaderResubmit \/ ReaderForget \/ ReaderPass
------------------------------------------------------------------------------
(* Manager::stopEps: please_stop on the threads, disconnectEps, exit.       *)

Stopper(from, to) == /\ cpc["stopper"] = "no" /\ spc = from /\ spc' = to
                     /\ UNCHANGED <<aioVars, m, wpc, rpc, copied, historyVars>>

\* disconnectEps tests the pointer without the mutex, then calls closeEP.
DisconnectEp(d, from, to) ==
    /\ Stopper(from, to)
    /\ IF slot[d] = "aio" THEN StartClosing("stopper") ELSE UNCHANGED cpc
    /\ UNCHANGED stop

\* Mutant: the endpoints are disconnected before please_stop.
StopEpsLate == \/ DisconnectEp("in", "relaying", "testOut")
               \/ DisconnectEp("out", "testOut", "exit")
               \/ Stopper("exit", "exited") /\ stop' = TRUE /\ UNCHANGED cpc

StopEps == \/ Stopper("relaying", "testIn") /\ stop' = TRUE /\ UNCHANGED cpc
           \/ DisconnectEp("in", "testIn", "testOut")
           \/ DisconnectEp("out", "testOut", "exit")
           \/ Stopper("exit", "exited") /\ UNCHANGED <<stop, cpc>>
------------------------------------------------------------------------------
(* The kernel and the USB host.                                             *)

Kernel == UNCHANGED <<slot, active, block, m, cpc, wpc, rpc, copied, spc, stop,
                      taken, delivered, closes>>

\* A request in progress ends; one whose aiocb is gone ends in freed memory.
Complete(d) ==
    /\ op[d] = "pending"
    /\ IF d = "out" /\ block[d] = "live"
       THEN arrived < MaxArrived /\ arrived' = arrived + 1 /\ buf' = [buf EXCEPT ![d] = arrived']
       ELSE UNCHANGED <<arrived, buf>>
    /\ op' = [op EXCEPT ![d] = "done"]
    /\ Kernel

\* A request fails: the gadget is shut down (ESHUTDOWN), or something else.
Fail(d) ==
    /\ op[d] = "pending"
    /\ \E rc \in {"ESHUTDOWN", "error"} : op' = [op EXCEPT ![d] = rc]
    /\ Kernel /\ UNCHANGED <<arrived, buf>>

Threading == \/ WriterStep \/ WriterTake \/ ReaderStep \/ StopEps
             \/ \E t \in Threads : Close(t)

\* exit ends all threads.
Next == /\ spc # "exited"
        /\ Threading \/ \E d \in Directions : Complete(d) \/ Fail(d)

\* Every call of the threads returns: aio_suspend has a timeout, aio_cancel does
\* not wait.  stopEps finishes once it has begun.
Fairness == /\ WF_vars(spc # "exited" /\ WriterStep)
            /\ WF_vars(spc # "exited" /\ ReaderStep)
            /\ \A t \in Threads : WF_vars(spc # "exited" /\ Close(t))
            /\ WF_vars(spc \notin {"relaying", "exited"} /\ StopEps)

Spec == Init /\ [][Next]_vars /\ Fairness
------------------------------------------------------------------------------
TypeOK ==
    /\ slot \in [Directions -> {"aio", "null"}] /\ active \in BOOLEAN
    /\ block \in [Directions -> {"live", "deleted"}]
    /\ op \in [Directions -> Results \cup {"idle", "pending"}]
    /\ buf \in [Directions -> {NoBuffer} \cup Nat]
    /\ m \in Threads \cup {"free"}
    /\ cpc \in [Threads -> {"no", "lock", "cancel", "unlink", "delete"}]
    /\ wpc \in {"idle", "send", "submit", "activate", "writing", "wait", "poll", "settle", "done"}
    /\ rpc \in {"loop", "receive", "poll", "resubmit", "forget", "pass", "done"}
    /\ copied \in 0..MaxArrived
    /\ spc \in {"relaying", "testIn", "testOut", "exit", "exited"} /\ stop \in BOOLEAN
    /\ taken \in 0..MaxTaken /\ arrived \in 0..MaxArrived
    /\ delivered \in Seq(0..MaxArrived)
    /\ closes \in [Directions -> Nat]

\* An endpoint is closed at most once, although its own thread (after ESHUTDOWN)
\* and disconnectEps may both be on their way to do it, and its pointer is
\* cleared by then.
ClosedOnce ==
    \A d \in Directions : /\ closes[d] <= 1
                          /\ closes[d] = 1 /\ m = "free" => slot[d] = "null"

\* As long as its aiocb lives, a request in progress keeps its buffer: nobody
\* frees it or puts another packet into it, whatever times out or is cancelled.
TransferHasItsBuffer ==
    \A d \in Directions : block[d] = "live" /\ op[d] = "pending" =>
        IF d = "in" THEN buf[d] = taken ELSE buf[d] # NoBuffer

\* What the reader passes on is what the host sent, in that order, nothing twice;
\* in particular nothing read from a closed endpoint gets past please_stop.
DeliveredAsArrived == \A n \in 1..Len(delivered) : delivered[n] = n

\* Until the threads are told to stop, no packet that arrived is lost, also when
\* the next read cannot be submitted.
NothingLostWhileRelaying ==
    ~stop => arrived = Len(delivered)
                         + (IF op["out"] = "done" THEN 1 ELSE 0)
                         + (IF rpc \in {"resubmit", "forget", "pass"} THEN 1 ELSE 0)

\* A packet that arrived is passed on, unless the threads are told to stop.
ArrivalsAreDelivered ==
    \A n \in 1..MaxArrived : arrived >= n ~> (Len(delivered) >= n \/ stop)

\* stopEps gets through: no thread keeps the mutex from it.
StopCompletes == stop ~> spc = "exited"

\* The comment of disconnectEps: after please_stop it "will create an ECANCELED
\* notification for all pending aio requests allowing the threads to detect
\* please_stop".  For that the aiocb a thread waits on must still be there.
NotificationIsSeen == /\ wpc = "poll" => block["in"] = "live"
                      /\ rpc = "poll" => block["out"] = "live"
==============================================================================
