----------------------------- MODULE LibUSBDevice -----------------------------
(***************************************************************************)
(* DeviceProxy_LibUSB and the threads that share it: main, which connects   *)
(* it and claims the interfaces; the setup writer, whose                    *)
(* Manager::start_data_relaying tells it which interface an endpoint        *)
(* belongs to and claims the interfaces again; a reader thread for each IN  *)
(* endpoint (relay_read around receive_data) and a writer thread for each   *)
(* OUT endpoint (relay_write around send_data); the libusb event thread;    *)
(* and Manager::stopEps, on whatever thread, up to its please_stop calls:   *)
(* it then releases the interfaces and ends the process at once, which only *)
(* keeps threads from transfers they would have begun.                      *)
(*                                                                          *)
(* epInterfaces has one entry for an endpoint number, shared by its two     *)
(* directions, and rxAttempt is one counter for all readers.                *)
(***************************************************************************)
EXTENDS Integers

CONSTANTS InNumbers, OutNumbers,  \* numbers of the device's endpoints
          NumInterfaces,          \* bNumInterfaces; they are numbered from 0
          MAX_ATTEMPTS,           \* 5 in the source
          Nice                    \* TRUE: DeviceProxy::nice is not 0

ASSUME EndpointsAssumption == InNumbers \subseteq 1..15 /\ OutNumbers \subseteq 1..15
ASSUME InterfacesAssumption == NumInterfaces \in Nat \ {0}
ASSUME AttemptsAssumption == MAX_ATTEMPTS \in Nat \ {0} /\ Nice \in BOOLEAN

VARIABLES layout,       \* the descriptors: interface and type of each endpoint
          handle,       \* dev_handle: "null", "open", or "closed" and not cleared
          held,         \* libusb's record of the interfaces that are claimed
          epInterfaces, \* [n]: interface, defined and claimed
          mpc, at,      \* where the setup is, and its loop index
          stopping,     \* stopEps was called: the process may end at any time
          stop,         \* the please_stop flags of the relays
          please_stop,  \* of the proxy: the event thread saw the device leave
          tpc,          \* where the thread of an endpoint is
          attempt,      \* send_data's local: failed attempts so far
          rxAttempt,    \* rxAttempt # 0
          slept         \* history: the reader has slept since its last good read

setupVars  == <<layout, handle, held, epInterfaces, mpc, at>>
stopVars   == <<stopping, stop, please_stop>>
threadVars == <<tpc, attempt, rxAttempt, slept>>
vars == <<setupVars, stopVars, threadVars>>

In  == [dir : {"in"},  number : InNumbers]
Out == [dir : {"out"}, number : OutNumbers]
Endpoints  == In \cup Out
Numbers    == InNumbers \cup OutNumbers
Interfaces == 0..(NumInterfaces - 1)
Entry == [interface : Interfaces, defined : BOOLEAN, claimed : BOOLEAN]

Bulk(e) == layout[e].type = "bulk"

Init == /\ layout \in [Endpoints -> [interface : Interfaces, type : {"bulk", "int"}]]
        /\ handle = "null" /\ held = {}
        /\ epInterfaces = [n \in Numbers |->
                             [interface |-> 0, defined |-> FALSE, claimed |-> FALSE]]
        /\ mpc = "connect" /\ at = 0
        /\ stopping = FALSE /\ stop = FALSE /\ please_stop = FALSE
        /\ tpc = [e \in Endpoints |-> "none"]
        /\ attempt = [e \in Endpoints |-> 0]
        /\ rxAttempt = FALSE
        /\ slept = [e \in Endpoints |-> FALSE]
------------------------------------------------------------------------------
(* Connecting, and Manager::start_control_relaying around it.               *)

\* How connect ends, and the dev_handle it leaves: no device found (ENODEV),
\* libusb_open failed, a later call failed and the handle was closed, success.
Outcomes == {"absent", "null", "closed", "open"}
HandleAfter(outcome) == IF outcome = "absent" THEN "null" ELSE outcome

\* Mutant: the manager tries again whatever the error.
ConnectTriesAgain ==
    /\ mpc = "connect"
    /\ \E outcome \in Outcomes :
         IF handle # "null" THEN mpc' = "claimEarly" /\ UNCHANGED handle
         ELSE /\ handle' = HandleAfter(outcome)
              /\ mpc' = IF outcome = "open" THEN "claimEarly" ELSE "connect"
    /\ UNCHANGED <<layout, held, epInterfaces, at, stopVars, threadVars>>

\* With a handle, connect answers "already connected".  The manager tries again
\* only after ENODEV, and only while its status is SETUP; libusb's errors, which
\* are negative, make it give up.
Connect ==
    /\ mpc = "connect"
    /\ \E outcome \in Outcomes :
         IF handle # "null" THEN mpc' = "claimEarly" /\ UNCHANGED handle
         ELSE /\ handle' = HandleAfter(outcome)
              /\ \/ outcome = "open" /\ mpc' = "claimEarly"
                 \/ outcome = "absent" /\ mpc' \in {"connect", "failed"}
                 \/ outcome \in {"null", "closed"} /\ mpc' = "failed"
    /\ UNCHANGED <<layout, held, epInterfaces, at, stopVars, threadVars>>

\* The event thread, which connect starts: hotplug_callback, disconnect_notifier.
DeviceLeft ==
    /\ handle = "open" /\ ~please_stop
    /\ please_stop' = TRUE
    /\ UNCHANGED <<setupVars, stopping, stop, threadVars>>
------------------------------------------------------------------------------
(* Claiming the interfaces.                                                 *)

\* claim_interface marks the endpoint numbers defined for the interface.
Marked(i) == [n \in Numbers |-> IF epInterfaces[n].defined /\ epInterfaces[n].interface = i
                                THEN [epInterfaces[n] EXCEPT !.claimed = TRUE]
                                ELSE epInterfaces[n]]

\* One turn of a loop over the interfaces, and what follows the last.
Turn(next) == IF at + 1 < NumInterfaces THEN at' = at + 1 /\ UNCHANGED mpc
                                        ELSE at' = 0 /\ mpc' = next

\* Mutant: the entries are marked although the claim failed.
ClaimAlwaysMarks(i) ==
    /\ epInterfaces' = Marked(i)
    /\ held' \in {held, held \cup {i}}

\* claim_interface(i).  A claim this handle already has is granted again.
ClaimInterface(i) ==
    \/ held' = held \cup {i} /\ epInterfaces' = Marked(i)
    \/ i \notin held /\ UNCHANGED <<held, epInterfaces>>

\* start_control_relaying claims, before any endpoint is defined.
ClaimEarly ==
    /\ mpc = "claimEarly"
    /\ ClaimInterface(at) /\ Turn("define")
    /\ UNCHANGED <<layout, handle, stopVars, threadVars>>

\* start_data_relaying: set_endpoint_interface for the endpoints of an interface.
\* A number met before is overwritten.
Define ==
    /\ mpc = "define"
    /\ epInterfaces' = [n \in Numbers |->
            IF \E e \in Endpoints : e.number = n /\ layout[e].interface = at
            THEN [epInterfaces[n] EXCEPT !.defined = TRUE, !.interface = at]
            ELSE epInterfaces[n]]
    /\ Turn("claim")
    /\ UNCHANGED <<layout, handle, held, stopVars, threadVars>>

\* start_data_relaying: the claims, and then the threads.
Claim ==
    /\ mpc = "claim"
    /\ ClaimInterface(at) /\ Turn("relay")
    /\ tpc' = IF mpc' = "relay" THEN [e \in Endpoints |-> "loop"] ELSE tpc
    /\ UNCHANGED <<layout, handle, stopVars, attempt, rxAttempt, slept>>

\* stopEps: please_stop, for the threads that are there.
StopEps ==
    /\ mpc \in {"define", "claim", "relay"}
    /\ ~stopping /\ stopping' = TRUE
    /\ stop' = (mpc = "relay")
    /\ UNCHANGED <<setupVars, please_stop, threadVars>>
------------------------------------------------------------------------------
(* The threads of the endpoints.                                            *)

Thread(e, from, to) == /\ tpc[e] = from /\ tpc' = [tpc EXCEPT ![e] = to]
                       /\ UNCHANGED <<setupVars, stopVars>>

Loop(e) ==
    /\ IF stop THEN Thread(e, "loop", "done") ELSE Thread(e, "loop", "test")
    /\ UNCHANGED <<attempt, rxAttempt, slept>>

\* endpoint_interface_claimed, and receive_data's throttle for bulk endpoints.
Test(e) ==
    /\ IF ~epInterfaces[e.number].claimed THEN Thread(e, "test", "loop")
       ELSE IF e \in In /\ Bulk(e) /\ Nice /\ ~rxAttempt THEN Thread(e, "test", "nap")
       ELSE Thread(e, "test", "transfer")
    /\ UNCHANGED <<attempt, rxAttempt, slept>>

\* Mutant: the nap is not counted.
NapUncounted(e) ==
    /\ Thread(e, "nap", "loop")
    /\ slept' = [slept EXCEPT ![e] = TRUE]
    /\ UNCHANGED <<attempt, rxAttempt>>

\* receive_data sleeps for "nice" milliseconds and returns without a packet.
Nap(e) ==
    /\ Thread(e, "nap", "loop")
    /\ rxAttempt' = TRUE
    /\ slept' = [slept EXCEPT ![e] = TRUE]
    /\ UNCHANGED attempt

\* The transfer returns; only a bulk endpoint counts the attempt.  An increment
\* of rxAttempt stores 1 or more also when it races with another thread's store.
Read(e) ==
    /\ e \in In
    /\ Thread(e, "transfer", "good") \/ Thread(e, "transfer", "bad")
    /\ rxAttempt' = (rxAttempt \/ Bulk(e))
    /\ UNCHANGED <<attempt, slept>>

\* Mutant: a good read leaves rxAttempt alone.
SettleNoReset(e) ==
    /\ \/ Thread(e, "good", "loop") /\ slept' = [slept EXCEPT ![e] = FALSE]
       \/ Thread(e, "bad", "loop") /\ UNCHANGED slept
    /\ UNCHANGED <<attempt, rxAttempt>>

\* The end of receive_data: a good read clears rxAttempt; a bad one does when it
\* exceeds MAX_ATTEMPTS, to which attempts of other threads may have added.
Settle(e) ==
    /\ \/ /\ Thread(e, "good", "loop")
          /\ rxAttempt' = FALSE
          /\ slept' = [slept EXCEPT ![e] = FALSE]
       \/ /\ Thread(e, "bad", "loop")
          /\ rxAttempt' \in {rxAttempt, FALSE}
          /\ UNCHANGED slept
    /\ UNCHANGED attempt

\* A transfer of send_data returns.  "again": the error is PIPE or TIMEOUT, or
\* transferred, which some errors leave uninitialized, differs from length.  The
\* packet is sent from its first byte again.
Write(e, again) ==
    /\ e \in Out
    /\ IF Bulk(e) /\ again /\ attempt[e] + 1 < MAX_ATTEMPTS /\ ~please_stop
       THEN Thread(e, "transfer", "transfer") /\ attempt' = [attempt EXCEPT ![e] = @ + 1]
       ELSE Thread(e, "transfer", "loop") /\ attempt' = [attempt EXCEPT ![e] = 0]
    /\ UNCHANGED <<rxAttempt, slept>>

\* The steps that do not wait for the device, which may take for ever to answer.
OwnStep(e) == Loop(e) \/ Test(e) \/ Nap(e) \/ Settle(e)

Next == \/ Connect \/ DeviceLeft \/ ClaimEarly \/ Define \/ Claim \/ StopEps
        \/ \E e \in Endpoints : \/ OwnStep(e) \/ Read(e)
                                \/ \E again \in BOOLEAN : Write(e, again)

\* Threads run until the process ends.  Nothing makes a transfer return: its
\* timeout is infinite.
Fairness == \A e \in Endpoints : WF_vars(~stopping /\ OwnStep(e))

Spec == Init /\ [][Next]_vars /\ Fairness
------------------------------------------------------------------------------
TypeOK ==
    /\ layout \in [Endpoints -> [interface : Interfaces, type : {"bulk", "int"}]]
    /\ handle \in {"null", "open", "closed"}
    /\ held \subseteq Interfaces
    /\ epInterfaces \in [Numbers -> Entry]
    /\ mpc \in {"connect", "failed", "claimEarly", "define", "claim", "relay"}
    /\ at \in Interfaces
    /\ stopping \in BOOLEAN /\ stop \in BOOLEAN /\ please_stop \in BOOLEAN
    /\ tpc \in [Endpoints -> {"none", "loop", "test", "nap", "transfer", "good", "bad", "done"}]
    /\ attempt \in [Endpoints -> 0..(MAX_ATTEMPTS - 1)]
    /\ rxAttempt \in BOOLEAN /\ slept \in [Endpoints -> BOOLEAN]

\* Whoever gets past connect has an open handle, although connect leaves a
\* closed one behind when it fails late, and takes any handle for a connection.
UsesOpenHandle == mpc \notin {"connect", "failed"} => handle = "open"

\* "do not try to send if interface wasn't claimed successfully" (send_data; the
\* same in receive_data): no transfer runs on an interface that is not claimed.
ClaimedBeforeTransfer ==
    \A e \in Endpoints :
        tpc[e] = "transfer" /\ ~stopping => layout[e].interface \in held

\* It holds of an endpoint number whose directions are in one interface, whichever
\* claims fail, the first time or the second.
Together(e) == \A f \in Endpoints : f.number = e.number =>
                   layout[f].interface = layout[e].interface

TransferNeedsClaim ==
    \A e \in Endpoints :
        Together(e) /\ tpc[e] = "transfer" /\ ~stopping => layout[e].interface \in held

\* "we throttle the polling for DeviceProxy::nice ms between reads": a lone bulk
\* reader sleeps between two good reads, also when other endpoints clear
\* rxAttempt in between.  (Two bulk readers take each other's sleep for theirs.)
Throttled ==
    \A e \in In : Nice /\ tpc[e] = "transfer" /\ {f \in In : Bulk(f)} = {e} => slept[e]

\* The throttle does not keep a lone reader from reading for ever.
OnlyReader(e) == \A f \in In : epInterfaces[f.number].claimed <=> f = e

ReadsAgain == \A e \in In :
                 tpc[e] = "loop" /\ OnlyReader(e) ~> (tpc[e] = "transfer" \/ stopping)
==============================================================================
