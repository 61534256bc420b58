----------------------------- MODULE LibUSBProofs -----------------------------
(***************************************************************************)
(* Theorems about LibUSBDevice: for any endpoints, interfaces and number of *)
(* attempts, connect hands over an open handle, transfers run on claimed    *)
(* interfaces only (except across a shared endpoint number), and a lone     *)
(* bulk reader is throttled.                                                *)
(***************************************************************************)
EXTENDS LibUSBDevice, TLAPS

\* The manager never calls connect again once it has left a handle.
ConnectsAfresh == mpc = "connect" => handle = "null"

\* Nothing is claimed for an endpoint before start_data_relaying claims, and
\* the threads come last.
SetupOrder ==
    /\ mpc \notin {"define", "claim", "relay"} =>
            \A n \in Numbers : ~epInterfaces[n].defined
    /\ mpc \notin {"claim", "relay"} => \A n \in Numbers : ~epInterfaces[n].claimed
    /\ mpc # "relay" => \A e \in Endpoints : tpc[e] = "none"

\* An entry is marked only for an interface that libusb granted.
ClaimsGranted ==
    \A n \in Numbers : epInterfaces[n].claimed => epInterfaces[n].interface \in held

\* Once the loop has passed an endpoint's interface, its entry names that
\* interface, unless the other direction is elsewhere.
Passed(e) == \/ mpc \in {"claim", "relay"}
             \/ mpc = "define" /\ layout[e].interface < at

DefinedAsLaidOut ==
    \A e \in Endpoints : Together(e) /\ Passed(e) =>
        epInterfaces[e.number].interface = layout[e].interface

\* A thread in a transfer has found its entry marked.
TransferMarked ==
    \A e \in Endpoints : tpc[e] = "transfer" => epInterfaces[e.number].claimed

\* Only bulk readers nap.
NapsInBulk == \A e \in Endpoints : tpc[e] = "nap" => e \in In /\ Bulk(e)

\* rxAttempt is not 0 only if the lone bulk reader has slept.
Lone(e) == Nice /\ {f \in In : Bulk(f)} = {e}

NapCounted ==
    \A e \in In : Lone(e) /\ (rxAttempt \/ tpc[e] = "transfer") => slept[e]

IInv == /\ TypeOK /\ UsesOpenHandle /\ ConnectsAfresh
        /\ SetupOrder /\ ClaimsGranted /\ DefinedAsLaidOut /\ TransferMarked
        /\ NapsInBulk /\ NapCounted

\* A proxy that is not connected, and no threads.
LEMMA InitInductive == Init => IInv
<1> SUFFICES ASSUME Init PROVE IInv
  OBVIOUS
<1> USE DEF Init
<1>1. TypeOK
  <2>1. 0 \in Interfaces /\ 0 \in 0..(MAX_ATTEMPTS - 1)
    BY InterfacesAssumption, AttemptsAssumption DEF Interfaces
  <2>2. epInterfaces \in [Numbers -> Entry]
    BY <2>1 DEF Entry
  <2>3. /\ tpc \in [Endpoints -> {"none", "loop", "test", "nap", "transfer", "good", "bad", "done"}]
        /\ attempt \in [Endpoints -> 0..(MAX_ATTEMPTS - 1)]
        /\ slept \in [Endpoints -> BOOLEAN]
    BY <2>1
  <2> QED
    BY <2>1, <2>2, <2>3 DEF TypeOK
<1>2. UsesOpenHandle /\ ConnectsAfresh /\ SetupOrder /\ ClaimsGranted /\ TransferMarked /\ NapsInBulk
  BY DEF UsesOpenHandle, ConnectsAfresh, SetupOrder, ClaimsGranted, TransferMarked, NapsInBulk, Endpoints, In, Out, Numbers
<1>3. DefinedAsLaidOut
  BY DEF DefinedAsLaidOut, Passed
<1>4. NapCounted
  BY DEF NapCounted, Endpoints
<1> QED
  BY <1>1, <1>2, <1>3, <1>4 DEF IInv

\* Which endpoints share an interface or a type is written in the descriptors.
LEMMA LayoutFixed ==
  ASSUME layout' = layout
  PROVE  /\ \A e : Together(e)' <=> Together(e)
         /\ \A e : Lone(e)' <=> Lone(e)
         /\ \A e : Bulk(e)' <=> Bulk(e)
BY DEF Together, Lone, Bulk

\* connect: the handle is open if the setup goes on, and the rest stays.
LEMMA ConnectInductive == IInv /\ Connect => IInv'
<1> SUFFICES ASSUME IInv, Connect PROVE IInv'
  OBVIOUS
<1> USE DEF Connect, IInv, stopVars, threadVars
<1>1. TypeOK' /\ UsesOpenHandle' /\ ConnectsAfresh'
  <2>1. PICK outcome \in Outcomes :
          IF handle # "null" THEN mpc' = "claimEarly" /\ UNCHANGED handle
          ELSE /\ handle' = HandleAfter(outcome)
               /\ \/ outcome = "open" /\ mpc' = "claimEarly"
                  \/ outcome = "absent" /\ mpc' \in {"connect", "failed"}
                  \/ outcome \in {"null", "closed"} /\ mpc' = "failed"
    OBVIOUS
  <2>2. handle' \in {"null", "open", "closed"}
    BY <2>1 DEF TypeOK, Outcomes, HandleAfter
  <2>3. mpc' \in {"connect", "failed", "claimEarly"}
    BY <2>1
  <2>4. TypeOK'
    BY <2>2, <2>3 DEF TypeOK
  <2>5. handle = "null"
    BY DEF ConnectsAfresh
  <2> QED
    BY <2>1, <2>4, <2>5 DEF UsesOpenHandle, ConnectsAfresh, HandleAfter
<1>2. SetupOrder' /\ ClaimsGranted' /\ TransferMarked' /\ NapsInBulk'
  BY DEF SetupOrder, ClaimsGranted, TransferMarked, NapsInBulk, Bulk
<1>3. DefinedAsLaidOut'
  BY DEF DefinedAsLaidOut, Passed
<1>4. NapCounted'
  BY LayoutFixed DEF NapCounted
<1> QED
  BY <1>1, <1>2, <1>3, <1>4 DEF IInv

\* The event thread and stopEps store flags only.
LEMMA FlagsInductive == IInv /\ (DeviceLeft \/ StopEps) => IInv'
<1> SUFFICES ASSUME IInv, DeviceLeft \/ StopEps PROVE IInv'
  OBVIOUS
<1>1. UNCHANGED <<setupVars, threadVars>> /\ stopping' \in BOOLEAN
      /\ stop' \in BOOLEAN /\ please_stop' \in BOOLEAN
  BY DEF DeviceLeft, StopEps, IInv, TypeOK
<1> USE DEF IInv, setupVars, threadVars
<1>2. TypeOK'
  BY <1>1 DEF TypeOK
<1>3. UsesOpenHandle' /\ ConnectsAfresh' /\ SetupOrder' /\ ClaimsGranted' /\ TransferMarked' /\ NapsInBulk'
  BY <1>1 DEF UsesOpenHandle, ConnectsAfresh, SetupOrder, ClaimsGranted, TransferMarked, NapsInBulk, Bulk
<1>4. DefinedAsLaidOut' /\ NapCounted'
  BY <1>1, LayoutFixed DEF DefinedAsLaidOut, Passed, NapCounted
<1> QED
  BY <1>2, <1>3, <1>4 DEF IInv
------------------------------------------------------------------------------
(* The claims.                                                              *)

\* The index stays an index, and a loop that is left has passed every interface.
LEMMA TurnStays ==
  ASSUME NEW next, at \in Interfaces, Turn(next)
  PROVE  /\ at' \in Interfaces /\ mpc' \in {mpc, next}
         /\ mpc' = mpc => at' = at + 1 \/ mpc = next
         /\ \A i \in Interfaces : mpc' # mpc => i <= at
BY InterfacesAssumption DEF Turn, Interfaces

\* claim_interface(i) keeps what the entries name, and marks only what is granted.
LEMMA ClaimMarks ==
  ASSUME NEW i \in Interfaces, TypeOK, ClaimsGranted, ClaimInterface(i)
  PROVE  /\ held' \subseteq Interfaces
         /\ epInterfaces' \in [Numbers -> Entry]
         /\ ClaimsGranted'
         /\ \A n \in Numbers :
               /\ epInterfaces'[n].interface = epInterfaces[n].interface
               /\ epInterfaces'[n].defined = epInterfaces[n].defined
               /\ epInterfaces[n].claimed => epInterfaces'[n].claimed
               /\ ~epInterfaces[n].defined =>
                     epInterfaces'[n].claimed = epInterfaces[n].claimed
<1>1. CASE held' = held \cup {i} /\ epInterfaces' = Marked(i)
  BY <1>1 DEF TypeOK, ClaimsGranted, Marked, Entry
<1>2. CASE UNCHANGED <<held, epInterfaces>>
  BY <1>2 DEF TypeOK, ClaimsGranted
<1> QED
  BY <1>1, <1>2 DEF ClaimInterface

LEMMA ClaimEarlyInductive == IInv /\ ClaimEarly => IInv'
<1> SUFFICES ASSUME IInv, ClaimEarly PROVE IInv'
  OBVIOUS
<1>1. /\ mpc = "claimEarly" /\ mpc' \in {"claimEarly", "define"}
      /\ at \in Interfaces /\ at' \in Interfaces
      /\ mpc' = "define" => at' = 0
  BY TurnStays DEF ClaimEarly, IInv, TypeOK, Turn
<1>2. /\ held' \subseteq Interfaces /\ epInterfaces' \in [Numbers -> Entry]
      /\ ClaimsGranted'
      /\ \A n \in Numbers : /\ ~epInterfaces'[n].defined
                            /\ ~epInterfaces'[n].claimed
  BY <1>1, ClaimMarks DEF ClaimEarly, IInv, SetupOrder
<1>3. UNCHANGED <<layout, handle, stopVars, threadVars>>
  BY DEF ClaimEarly
<1> USE DEF stopVars, threadVars
<1>4. TypeOK' /\ UsesOpenHandle' /\ ConnectsAfresh'
  BY <1>1, <1>2, <1>3 DEF IInv, TypeOK, UsesOpenHandle, ConnectsAfresh
<1>5. SetupOrder' /\ TransferMarked' /\ NapsInBulk'
  BY <1>1, <1>2, <1>3 DEF IInv, SetupOrder, TransferMarked, NapsInBulk, Bulk
<1>6. DefinedAsLaidOut'
  <2>1. \A e \in Endpoints : layout[e].interface \in Interfaces
    BY DEF IInv, TypeOK
  <2>2. \A e \in Endpoints : ~Passed(e)'
    BY <1>1, <1>3, <2>1 DEF Passed, Interfaces
  <2> QED
    BY <2>2 DEF DefinedAsLaidOut
<1>7. NapCounted'
  BY <1>3, LayoutFixed DEF IInv, NapCounted
<1> QED
  BY <1>2, <1>4, <1>5, <1>6, <1>7 DEF IInv

\* set_endpoint_interface for the endpoints of interface at.
LEMMA DefineInductive == IInv /\ Define => IInv'
<1> SUFFICES ASSUME IInv, Define PROVE IInv'
  OBVIOUS
<1>1. /\ mpc = "define" /\ mpc' \in {"define", "claim"}
      /\ at \in Interfaces /\ at' \in Interfaces
      /\ mpc' = "define" => at' = at + 1
      /\ mpc' = "claim" => \A i \in Interfaces : i <= at
  <2>1. mpc = "define" /\ at \in Interfaces /\ Turn("claim")
    BY DEF Define, IInv, TypeOK
  <2> QED
    BY <2>1, TurnStays
<1>2. UNCHANGED <<layout, handle, held, stopVars, threadVars>>
  BY DEF Define
<1> USE DEF stopVars, threadVars
<1>3. /\ epInterfaces' \in [Numbers -> Entry]
      /\ \A n \in Numbers : ~epInterfaces'[n].claimed
  <2>1. epInterfaces \in [Numbers -> Entry] /\ \A n \in Numbers : ~epInterfaces[n].claimed
    BY <1>1 DEF IInv, TypeOK, SetupOrder
  <2>2. \A n \in Numbers :
           /\ [epInterfaces[n] EXCEPT !.defined = TRUE, !.interface = at] \in Entry
           /\ ~[epInterfaces[n] EXCEPT !.defined = TRUE, !.interface = at].claimed
    BY <1>1, <2>1 DEF Entry
  <2> QED
    BY <2>1, <2>2 DEF Define
<1>4. TypeOK' /\ UsesOpenHandle' /\ ConnectsAfresh' /\ ClaimsGranted'
  BY <1>1, <1>2, <1>3 DEF IInv, TypeOK, UsesOpenHandle, ConnectsAfresh, ClaimsGranted
<1>5. SetupOrder' /\ TransferMarked' /\ NapsInBulk'
  BY <1>1, <1>2, <1>3 DEF IInv, SetupOrder, TransferMarked, NapsInBulk, Bulk
<1>6. DefinedAsLaidOut'
  <2> SUFFICES ASSUME NEW e \in Endpoints, Together(e), Passed(e)'
               PROVE  epInterfaces'[e.number].interface = layout[e].interface
    BY <1>2, LayoutFixed DEF DefinedAsLaidOut
  <2>1. e.number \in Numbers /\ layout[e].interface \in Interfaces
    BY DEF Endpoints, In, Out, Numbers, IInv, TypeOK
  <2>2. epInterfaces[e.number] \in Entry
    BY <2>1 DEF IInv, TypeOK
  <2>3. CASE layout[e].interface = at
    BY <2>1, <2>2, <2>3 DEF Define, Entry
  <2>4. CASE layout[e].interface # at
    <3>1. layout[e].interface < at
      BY <1>1, <1>2, <2>1, <2>4 DEF Passed, Interfaces
    <3>2. epInterfaces[e.number].interface = layout[e].interface
      BY <1>1, <3>1 DEF IInv, DefinedAsLaidOut, Passed
    <3>3. ~ \E f \in Endpoints : f.number = e.number /\ layout[f].interface = at
      BY <2>4 DEF Together
    <3> QED
      BY <2>1, <3>2, <3>3 DEF Define
  <2> QED
    BY <2>3, <2>4
<1>7. NapCounted'
  BY <1>2, LayoutFixed DEF IInv, NapCounted
<1> QED
  BY <1>4, <1>5, <1>6, <1>7 DEF IInv

\* The claims that follow, and the start of the threads.
LEMMA ClaimInductive == IInv /\ Claim => IInv'
<1> SUFFICES ASSUME IInv, Claim PROVE IInv'
  OBVIOUS
<1>1. /\ mpc = "claim" /\ mpc' \in {"claim", "relay"}
      /\ at \in Interfaces /\ at' \in Interfaces
  BY TurnStays DEF Claim, IInv, TypeOK
<1>2. /\ held' \subseteq Interfaces /\ epInterfaces' \in [Numbers -> Entry]
      /\ ClaimsGranted'
      /\ \A n \in Numbers : epInterfaces'[n].interface = epInterfaces[n].interface
  BY <1>1, ClaimMarks DEF Claim, IInv
<1>3. UNCHANGED <<layout, handle, stopping, stop, please_stop, attempt, rxAttempt, slept>>
  BY DEF Claim, stopVars
<1>4. /\ tpc' = IF mpc' = "relay" THEN [e \in Endpoints |-> "loop"] ELSE tpc
      /\ \A e \in Endpoints : tpc[e] = "none"
  BY <1>1 DEF Claim, IInv, SetupOrder
<1>5. \A e \in Endpoints : tpc'[e] \in {"none", "loop"}
  BY <1>4
<1>6. TypeOK' /\ UsesOpenHandle' /\ ConnectsAfresh'
  BY <1>1, <1>2, <1>3, <1>4 DEF IInv, TypeOK, UsesOpenHandle, ConnectsAfresh
<1>7. SetupOrder' /\ TransferMarked' /\ NapsInBulk'
  BY <1>1, <1>4, <1>5 DEF SetupOrder, TransferMarked, NapsInBulk
<1>8. DefinedAsLaidOut'
  <2>1. \A e \in Endpoints : e.number \in Numbers
    BY DEF Endpoints, In, Out, Numbers
  <2>2. \A e \in Endpoints : Passed(e)
    BY <1>1 DEF Passed
  <2> QED
    BY <1>2, <1>3, <2>1, <2>2, LayoutFixed DEF IInv, DefinedAsLaidOut
<1>9. NapCounted'
  BY <1>3, <1>5, LayoutFixed DEF IInv, NapCounted, Endpoints
<1> QED
  BY <1>2, <1>6, <1>7, <1>8, <1>9 DEF IInv
------------------------------------------------------------------------------
(* The threads.                                                             *)

\* A step of one thread leaves the setup alone: what is left to show of it is
\* where the thread goes, and what becomes of rxAttempt and its history.
LEMMA ThreadStepKeeps ==
  ASSUME NEW e \in Endpoints, IInv, mpc = "relay",
         NEW from, NEW to \in {"loop", "test", "nap", "transfer", "good", "bad", "done"},
         Thread(e, from, to),
         attempt' \in [Endpoints -> 0..(MAX_ATTEMPTS - 1)],
         rxAttempt' \in BOOLEAN, slept' \in [Endpoints -> BOOLEAN],
         to = "transfer" => epInterfaces[e.number].claimed,
         to = "nap" => e \in In /\ Bulk(e),
         NapCounted'
  PROVE  IInv'
<1>1. UNCHANGED <<layout, handle, held, epInterfaces, mpc, at, stopping, stop, please_stop>>
      /\ tpc' = [tpc EXCEPT ![e] = to]
  BY DEF Thread, setupVars, stopVars
<1>2. TypeOK' /\ UsesOpenHandle' /\ ConnectsAfresh'
  BY <1>1 DEF IInv, TypeOK, UsesOpenHandle, ConnectsAfresh
<1>3. SetupOrder' /\ ClaimsGranted'
  BY <1>1 DEF IInv, SetupOrder, ClaimsGranted
<1>4. TransferMarked' /\ NapsInBulk'
  BY <1>1 DEF IInv, TypeOK, TransferMarked, NapsInBulk, Bulk
<1>5. DefinedAsLaidOut'
  BY <1>1, LayoutFixed DEF IInv, DefinedAsLaidOut, Passed
<1> QED
  BY <1>2, <1>3, <1>4, <1>5 DEF IInv

\* A thread that takes a step has been started.
LEMMA ThreadRuns ==
  ASSUME NEW e \in Endpoints, IInv, NEW from, NEW to, from # "none", Thread(e, from, to)
  PROVE  mpc = "relay"
BY DEF IInv, SetupOrder, Thread

LEMMA LoopInductive == ASSUME NEW e \in Endpoints PROVE IInv /\ Loop(e) => IInv'
<1> SUFFICES ASSUME IInv, Loop(e) PROVE IInv'
  OBVIOUS
<1>1. PICK to \in {"test", "done"} : Thread(e, "loop", to)
  BY DEF Loop
<1>2. UNCHANGED <<attempt, rxAttempt, slept>>
  BY DEF Loop
<1>3. NapCounted'
  BY <1>1, <1>2, LayoutFixed DEF IInv, NapCounted, Thread, setupVars, TypeOK
<1> QED
  BY <1>1, <1>2, <1>3, ThreadRuns, ThreadStepKeeps DEF IInv, TypeOK

\* Past the test the entry is marked, and a lone bulk reader has slept.
LEMMA TestInductive == ASSUME NEW e \in Endpoints PROVE IInv /\ Test(e) => IInv'
<1> SUFFICES ASSUME IInv, Test(e) PROVE IInv'
  OBVIOUS
<1>1. PICK to \in {"loop", "nap", "transfer"} :
        /\ Thread(e, "test", to)
        /\ to = "nap" => e \in In /\ Bulk(e)
        /\ to = "transfer" => /\ epInterfaces[e.number].claimed
                              /\ ~(e \in In /\ Bulk(e) /\ Nice /\ ~rxAttempt)
  BY DEF Test
<1>2. UNCHANGED <<attempt, rxAttempt, slept>>
  BY DEF Test
<1>3. NapCounted'
  <2> SUFFICES ASSUME NEW f \in In, Lone(f), rxAttempt \/ tpc'[f] = "transfer"
               PROVE  slept[f]
    BY <1>1, <1>2, LayoutFixed DEF NapCounted, Thread, setupVars
  <2>1. CASE rxAttempt \/ tpc[f] = "transfer"
    BY <2>1 DEF IInv, NapCounted
  <2>2. CASE ~rxAttempt /\ tpc[f] # "transfer"
    <3>1. f = e /\ to = "transfer"
      BY <1>1, <2>2 DEF Thread, IInv, TypeOK
    <3>2. Bulk(f) /\ Nice
      BY DEF Lone
    <3> QED
      BY <1>1, <2>2, <3>1, <3>2
  <2> QED
    BY <2>1, <2>2
<1> QED
  BY <1>1, <1>2, <1>3, ThreadRuns, ThreadStepKeeps DEF IInv, TypeOK

\* Only a bulk reader naps, so it is the lone one if there is a lone one.
LEMMA NapInductive == ASSUME NEW e \in Endpoints PROVE IInv /\ Nap(e) => IInv'
<1> SUFFICES ASSUME IInv, Nap(e) PROVE IInv'
  OBVIOUS
<1>1. Thread(e, "nap", "loop")
  BY DEF Nap
<1>2. attempt' = attempt /\ rxAttempt' = TRUE /\ slept' = [slept EXCEPT ![e] = TRUE]
  BY DEF Nap
<1>3. slept' \in [Endpoints -> BOOLEAN]
  BY <1>2 DEF IInv, TypeOK
<1>4. NapCounted'
  <2> SUFFICES ASSUME NEW f \in In, Lone(f) PROVE slept'[f]
    BY <1>1, LayoutFixed DEF NapCounted, Thread, setupVars
  <2>1. f = e
    BY <1>1 DEF IInv, NapsInBulk, Lone, Thread
  <2> QED
    BY <1>2, <2>1 DEF IInv, TypeOK
<1> QED
  BY <1>1, <1>2, <1>3, <1>4, ThreadRuns, ThreadStepKeeps DEF IInv, TypeOK

\* A bulk reader that counts its attempt is the lone one, which has slept.
LEMMA ReadInductive == ASSUME NEW e \in Endpoints PROVE IInv /\ Read(e) => IInv'
<1> SUFFICES ASSUME IInv, Read(e) PROVE IInv'
  OBVIOUS
<1>1. PICK to \in {"good", "bad"} : Thread(e, "transfer", to)
  BY DEF Read
<1>2. /\ e \in In /\ UNCHANGED <<attempt, slept>>
      /\ rxAttempt' = (rxAttempt \/ Bulk(e))
  BY DEF Read
<1>3. rxAttempt' \in BOOLEAN
  BY <1>2
<1>4. NapCounted'
  <2> SUFFICES ASSUME NEW f \in In, Lone(f), rxAttempt \/ Bulk(e) \/ tpc'[f] = "transfer"
               PROVE  slept[f]
    BY <1>1, <1>2, LayoutFixed DEF NapCounted, Thread, setupVars
  <2>1. CASE rxAttempt \/ tpc[f] = "transfer"
    BY <2>1 DEF IInv, NapCounted
  <2>2. CASE Bulk(e)
    BY <1>1, <1>2, <2>2 DEF Lone, IInv, NapCounted, Thread
  <2>3. CASE tpc'[f] = "transfer" /\ tpc[f] # "transfer"
    BY <1>1, <2>3 DEF Thread, IInv, TypeOK, Endpoints
  <2> QED
    BY <2>1, <2>2, <2>3
<1> QED
  BY <1>1, <1>2, <1>3, <1>4, ThreadRuns, ThreadStepKeeps DEF IInv, TypeOK

\* After a good read rxAttempt is 0, whoever read; a bad one adds nothing.
LEMMA SettleInductive == ASSUME NEW e \in Endpoints PROVE IInv /\ Settle(e) => IInv'
<1> SUFFICES ASSUME IInv, Settle(e) PROVE IInv'
  OBVIOUS
<1>1. PICK from \in {"good", "bad"} : Thread(e, from, "loop")
  BY DEF Settle
<1>2. /\ attempt' = attempt
      /\ \/ rxAttempt' = FALSE /\ slept' = [slept EXCEPT ![e] = FALSE]
         \/ rxAttempt' \in {rxAttempt, FALSE} /\ slept' = slept
  BY Zenon DEF Settle
<1>3. rxAttempt' \in BOOLEAN /\ slept' \in [Endpoints -> BOOLEAN]
  BY <1>2 DEF IInv, TypeOK
<1>4. NapCounted'
  <2> SUFFICES ASSUME NEW f \in In, Lone(f), rxAttempt' \/ tpc'[f] = "transfer"
               PROVE  slept'[f]
    BY <1>1, LayoutFixed DEF NapCounted, Thread, setupVars
  <2>1. f \in Endpoints
    BY DEF Endpoints
  <2>2. rxAttempt \/ tpc[f] = "transfer"
    BY <1>1, <1>2, <2>1 DEF Thread, IInv, TypeOK
  <2>3. slept[f]
    BY <2>2 DEF IInv, NapCounted
  <2>4. slept' # slept => rxAttempt' = FALSE /\ slept' = [slept EXCEPT ![e] = FALSE]
    BY <1>2
  <2>5. CASE slept' = slept
    BY <2>3, <2>5
  <2>6. CASE slept' # slept
    <3>1. tpc'[f] = "transfer"
      BY <2>4, <2>6
    <3>2. f # e
      BY <1>1, <2>1, <3>1 DEF Thread, IInv, TypeOK
    <3> QED
      BY <2>1, <2>3, <2>4, <2>6, <3>2 DEF IInv, TypeOK
  <2> QED
    BY <2>5, <2>6
<1> QED
  BY <1>1, <1>2, <1>3, <1>4, ThreadRuns, ThreadStepKeeps DEF IInv, TypeOK

LEMMA WriteInductive ==
  ASSUME NEW e \in Endpoints, NEW again \in BOOLEAN
  PROVE  IInv /\ Write(e, again) => IInv'
<1> SUFFICES ASSUME IInv, Write(e, again) PROVE IInv'
  OBVIOUS
<1>1. PICK to \in {"loop", "transfer"} :
        /\ Thread(e, "transfer", to)
        /\ \/ attempt' = [attempt EXCEPT ![e] = 0]
           \/ attempt[e] + 1 < MAX_ATTEMPTS /\ attempt' = [attempt EXCEPT ![e] = @ + 1]
  BY DEF Write
<1>2. UNCHANGED <<rxAttempt, slept>>
  BY DEF Write
<1>3. attempt' \in [Endpoints -> 0..(MAX_ATTEMPTS - 1)]
  BY <1>1, AttemptsAssumption DEF IInv, TypeOK
<1>4. epInterfaces[e.number].claimed
  BY <1>1 DEF IInv, TransferMarked, Thread
<1>5. NapCounted'
  <2> SUFFICES ASSUME NEW f \in In, Lone(f), rxAttempt \/ tpc'[f] = "transfer"
               PROVE  slept[f]
    BY <1>1, <1>2, LayoutFixed DEF NapCounted, Thread, setupVars
  <2>1. rxAttempt \/ tpc[f] = "transfer"
    BY <1>1 DEF Thread, IInv, TypeOK, Endpoints
  <2> QED
    BY <2>1 DEF IInv, NapCounted
<1>6. rxAttempt' \in BOOLEAN /\ slept' \in [Endpoints -> BOOLEAN]
  BY <1>2 DEF IInv, TypeOK
<1>7. mpc = "relay"
  BY <1>1, ThreadRuns
<1> QED
  BY <1>1, <1>3, <1>4, <1>5, <1>6, <1>7, ThreadStepKeeps
------------------------------------------------------------------------------
\* Nothing changes in a stuttering step.
LEMMA StutterInductive == IInv /\ UNCHANGED vars => IInv'
<1> SUFFICES ASSUME IInv, UNCHANGED vars PROVE IInv'
  OBVIOUS
<1> USE DEF vars, setupVars, stopVars, threadVars, IInv
<1>1. TypeOK' /\ UsesOpenHandle' /\ ConnectsAfresh' /\ DefinedAsLaidOut'
  BY LayoutFixed DEF TypeOK, UsesOpenHandle, ConnectsAfresh, DefinedAsLaidOut, Passed
<1>2. SetupOrder' /\ ClaimsGranted' /\ TransferMarked' /\ NapsInBulk'
  BY DEF SetupOrder, ClaimsGranted, TransferMarked, NapsInBulk, Bulk
<1>3. NapCounted'
  BY LayoutFixed DEF NapCounted
<1> QED
  BY <1>1, <1>2, <1>3 DEF IInv

\* IInv is an inductive invariant.
THEOREM Inductive == Spec => []IInv
<1>1. IInv /\ [Next]_vars => IInv'
  <2> SUFFICES ASSUME IInv, [Next]_vars PROVE IInv'
    OBVIOUS
  <2>1. CASE Connect
    BY <2>1, ConnectInductive
  <2>2. CASE DeviceLeft \/ StopEps
    BY <2>2, FlagsInductive
  <2>3. CASE ClaimEarly
    BY <2>3, ClaimEarlyInductive
  <2>4. CASE Define
    BY <2>4, DefineInductive
  <2>5. CASE Claim
    BY <2>5, ClaimInductive
  <2>6. ASSUME NEW e \in Endpoints, OwnStep(e) PROVE IInv'
    BY <2>6, LoopInductive, TestInductive, NapInductive, SettleInductive DEF OwnStep
  <2>7. ASSUME NEW e \in Endpoints, Read(e) PROVE IInv'
    BY <2>7, ReadInductive
  <2>8. ASSUME NEW e \in Endpoints, NEW again \in BOOLEAN, Write(e, again) PROVE IInv'
    BY <2>8, WriteInductive
  <2>9. CASE UNCHANGED vars
    BY <2>9, StutterInductive
  <2> QED
    BY <2>1, <2>2, <2>3, <2>4, <2>5, <2>6, <2>7, <2>8, <2>9 DEF Next
<1> QED
  BY <1>1, InitInductive, PTL DEF Spec

\* The variables of LibUSBDevice keep their types; in particular send_data makes
\* at most MAX_ATTEMPTS attempts.
THEOREM TypeCorrect == Spec => []TypeOK
<1>1. IInv => TypeOK
  BY DEF IInv
<1> QED
  BY <1>1, Inductive, PTL

\* Past connect the device handle is open, although connect takes any handle for
\* a connection: the manager's rule about which errors to try again sees to it.
THEOREM HandlesAreOpen == Spec => []UsesOpenHandle
<1>1. IInv => UsesOpenHandle
  BY DEF IInv
<1> QED
  BY <1>1, Inductive, PTL

\* send_data and receive_data transfer on claimed interfaces only, for endpoint
\* numbers that lie in one interface.
THEOREM TransfersAreClaimed == Spec => []TransferNeedsClaim
<1>1. IInv => TransferNeedsClaim
  <2> SUFFICES ASSUME IInv, NEW e \in Endpoints, Together(e), tpc[e] = "transfer"
               PROVE  layout[e].interface \in held
    BY DEF TransferNeedsClaim
  <2>1. e.number \in Numbers
    BY DEF Endpoints, In, Out, Numbers
  <2>2. epInterfaces[e.number].interface \in held
    BY <2>1 DEF IInv, TransferMarked, ClaimsGranted
  <2>3. mpc = "relay"
    BY DEF IInv, SetupOrder
  <2>4. epInterfaces[e.number].interface = layout[e].interface
    BY <2>3 DEF IInv, DefinedAsLaidOut, Passed
  <2> QED
    BY <2>2, <2>4
<1> QED
  BY <1>1, Inductive, PTL

\* A lone bulk reader sleeps between two good reads.
THEOREM ReadsAreThrottled == Spec => []Throttled
<1>1. IInv => Throttled
  BY DEF IInv, NapCounted, Throttled, Lone
<1> QED
  BY <1>1, Inductive, PTL
==============================================================================
