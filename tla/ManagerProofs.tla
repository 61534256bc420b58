---------------------------- MODULE ManagerProofs ----------------------------
(***************************************************************************)
(* The safety of Manager for any set of configurations, with or without     *)
(* injectors; and, further down, that of DeviceSetup, which has the same    *)
(* thread, for any devices, plugins and command lines.                      *)
(*                                                                          *)
(* The properties speak of the places where main stops the relay; the       *)
(* invariant adds, for each place of the setup, what it has established:    *)
(* which threads exist and which values status may have there.              *)
(***************************************************************************)
EXTENDS Manager, DeviceSetup, FiniteSetTheorems, TLAPS

SetupPlaces == {"new", "connect", "callback", "check", "injectors", "host",
                "startReader", "startWriter", "lastCheck", "store"}

\* Only main stores SETUP, at the start; when it leaves the setup the status
\* is another one for good.
SetupBehind == mpc \notin SetupPlaces => status # "SETUP"

\* Only main stores RELAYING, when it leaves the setup.
RelayingAhead == mpc \in SetupPlaces => status # "RELAYING"

Created(k) == thread[k] # "none"

\* What each place of the setup finds already created.
CreatedSoFar ==
    /\ mpc \in {"host", "startReader", "startWriter", "lastCheck", "store"} =>
          (Injectors => Created("injector"))
    /\ mpc \in {"startWriter", "lastCheck", "store"} => Created("reader")
    /\ mpc \in {"lastCheck", "store"} => Created("writer")

StopEpsPlace == "main" \in inStopEps => mpc = "stopEps"

IInv == /\ TypeOK
        /\ SetupBehind
        /\ RelayingAhead
        /\ CreatedSoFar
        /\ RelayingWithAllThreads
        /\ StopEpsPlace
        /\ InjectorsJoinedFirst

\* A process starts with no thread, before the setup.
LEMMA InitInductive == Init => IInv
BY ConfigsAssumption
   DEF Init, IInv, TypeOK, SetupBehind, RelayingAhead, CreatedSoFar,
       RelayingWithAllThreads, StopEpsPlace, InjectorsJoinedFirst, Statuses,
       Kinds, ThreadStates, SetupPlaces, Created, Callers

\* Asking threads to stop creates none and revives none.
LEMMA AskProperties ==
  ASSUME TypeOK, NEW ks, Ask(ks)
  PROVE  /\ thread' \in [Kinds -> ThreadStates]
         /\ \A k \in Kinds : /\ Created(k) => Created(k)'
                             /\ Alive(k)' => Alive(k)
<1>1. \A k \in Kinds : thread'[k] = IF k \in ks /\ thread[k] = "running"
                                    THEN "asked" ELSE thread[k]
  BY DEF Ask
<1>2. thread' \in [Kinds -> ThreadStates]
  BY DEF Ask, TypeOK, ThreadStates
<1> QED
  BY <1>1, <1>2 DEF Created, Alive

\* A thread other than main enters stopEps and asks some threads to stop.
LEMMA EnterStopEpsInductive ==
  ASSUME IInv, NEW t \in Callers \ {"main"}, NEW ks, Ask(ks),
         inStopEps' = inStopEps \cup {t},
         UNCHANGED <<status, mpc, spin, envVars, devVars, config, process>>
  PROVE  IInv'
<1>1. TypeOK'
  BY AskProperties DEF IInv, TypeOK, envVars, devVars
<1>2. SetupBehind' /\ RelayingAhead' /\ StopEpsPlace'
  BY DEF IInv, SetupBehind, RelayingAhead, StopEpsPlace
<1>3. CreatedSoFar' /\ RelayingWithAllThreads'
  BY AskProperties DEF IInv, CreatedSoFar, RelayingWithAllThreads, Created, Kinds
<1>4. InjectorsJoinedFirst'
  BY AskProperties DEF IInv, InjectorsJoinedFirst, Kinds
<1> QED
  BY <1>1, <1>2, <1>3, <1>4 DEF IInv

\* The reader is told of a disconnect of the host.
LEMMA HostDisconnectInductive ==
  ASSUME IInv, HostDisconnect
  PROVE  IInv'
BY EnterStopEpsInductive DEF HostDisconnect, Callers

\* The writer applies a SET_CONFIGURATION.
LEMMA SetConfigInductive ==
  ASSUME IInv, NEW index \in Configs, SetConfig(index)
  PROVE  IInv'
<1>1. CASE config # 0
  BY <1>1, EnterStopEpsInductive DEF SetConfig, Callers
<1>2. CASE config = 0
  <2>1. /\ config' = index /\ StartThread("data")
        /\ UNCHANGED <<inStopEps, status, mpc, spin, envVars, devVars, process>>
    BY <1>2 DEF SetConfig
  <2>2. /\ thread' \in [Kinds -> ThreadStates]
        /\ \A k \in Kinds \ {"data"} : thread'[k] = thread[k]
    BY <2>1 DEF StartThread, IInv, TypeOK, Kinds, ThreadStates
  <2>3. TypeOK'
    BY <2>1, <2>2 DEF IInv, TypeOK, envVars, devVars
  <2>4. SetupBehind' /\ RelayingAhead' /\ StopEpsPlace'
    BY <2>1 DEF IInv, SetupBehind, RelayingAhead, StopEpsPlace
  <2>5. CreatedSoFar' /\ RelayingWithAllThreads'
    BY <2>1, <2>2 DEF IInv, CreatedSoFar, RelayingWithAllThreads, Created, Kinds
  <2>6. InjectorsJoinedFirst'
    BY <2>1, <2>2 DEF IInv, InjectorsJoinedFirst, Alive, Kinds
  <2> QED
    BY <2>3, <2>4, <2>5, <2>6 DEF IInv
<1> QED
  BY <1>1, <1>2

\* Every step of the main thread keeps the invariant.
LEMMA MainInductive ==
  ASSUME IInv, Main
  PROVE  IInv'
<1> USE DEF IInv, TypeOK, SetupBehind, RelayingAhead, CreatedSoFar,
            RelayingWithAllThreads, StopEpsPlace, InjectorsJoinedFirst, envVars,
            devVars, MainAt, Goto, Alive, Created, Statuses, Kinds, ThreadStates,
            SetupPlaces, Callers
<1>1. CASE StartSetup
  BY <1>1 DEF StartSetup
<1>2. CASE DeviceConnected
  BY <1>2 DEF DeviceConnected
<1>3. CASE DeviceAbsent
  BY <1>3 DEF DeviceAbsent
<1>4. CASE DeviceError
  BY <1>4 DEF DeviceError
<1>5. CASE SetCallback
  BY <1>5 DEF SetCallback
<1>6. CASE CheckSetup
  BY <1>6 DEF CheckSetup, Checked
<1>7. CASE StartInjectors
  BY <1>7 DEF StartInjectors, Checked, StartThread
<1>8. CASE HostConnected
  BY <1>8 DEF HostConnected
<1>9. CASE HostAbsent
  BY <1>9 DEF HostAbsent
<1>10. CASE HostError
  BY <1>10 DEF HostError
<1>11. CASE StartReader
  BY <1>11 DEF StartReader, StartThread
<1>12. CASE StartWriter
  BY <1>12 DEF StartWriter, StartThread
<1>13. CASE LastCheck
  BY <1>13 DEF LastCheck, Checked
<1>14. CASE StoreRelaying
  BY <1>14 DEF StoreRelaying
<1>15. CASE Poll
  BY <1>15 DEF Poll
<1>16. CASE StopRelaying
  BY <1>16 DEF StopRelaying, Ask
<1>17. CASE JoinInjectors
  BY <1>17 DEF JoinInjectors, Ask
<1> QED
  BY <1>1, <1>2, <1>3, <1>4, <1>5, <1>6, <1>7, <1>8, <1>9, <1>10, <1>11, <1>12,
     <1>13, <1>14, <1>15, <1>16, <1>17 DEF Main

\* The device leaves: with a callback the status becomes RESET, which is
\* neither SETUP nor RELAYING.
LEMMA DeviceLeftInductive ==
  ASSUME IInv, DeviceLeft
  PROVE  IInv'
<1>1. /\ listener' = "ended"
      /\ UNCHANGED <<mpc, spin, done, plugged, hostReady, callback, thread, config,
                     inStopEps>>
  BY DEF DeviceLeft, envVars
<1>2. \/ status' = "RESET" /\ notified' = TRUE /\ process' = process
      \/ status' = status /\ notified' = notified /\ process' = "killed"
  BY DEF DeviceLeft
<1>3. TypeOK'
  <2>1. /\ status' \in Statuses /\ notified' \in BOOLEAN
        /\ process' \in {"running", "exited", "killed"}
        /\ listener' \in {"none", "running", "ended"}
    BY <1>1, <1>2 DEF IInv, TypeOK, Statuses
  <2> QED
    BY <1>1, <2>1 DEF IInv, TypeOK
<1>4. SetupBehind' /\ RelayingAhead' /\ StopEpsPlace'
  BY <1>1, <1>2 DEF IInv, SetupBehind, RelayingAhead, StopEpsPlace
<1>5. CreatedSoFar' /\ RelayingWithAllThreads' /\ InjectorsJoinedFirst'
  BY <1>1, <1>2 DEF IInv, CreatedSoFar, RelayingWithAllThreads,
                    InjectorsJoinedFirst, Created, Alive
<1> QED
  BY <1>3, <1>4, <1>5 DEF IInv

\* A thread that was asked to stop ends.
LEMMA ThreadEndsInductive ==
  ASSUME IInv, NEW k \in Kinds, ThreadEnds(k)
  PROVE  IInv'
BY DEF ThreadEnds, envVars, devVars, IInv, TypeOK, ThreadStates, Kinds, SetupBehind,
       RelayingAhead, CreatedSoFar, RelayingWithAllThreads, StopEpsPlace,
       InjectorsJoinedFirst, Created, Alive

\* The invariant does not speak of the environment, and of process only as far
\* as its type goes.
LEMMA OutsideInductive ==
  ASSUME IInv,
         UNCHANGED <<status, mpc, spin, devVars, thread, config, inStopEps>>,
         process' \in {"running", "exited", "killed"},
         done' \in BOOLEAN, plugged' \in BOOLEAN, hostReady' \in BOOLEAN
  PROVE  IInv'
BY DEF devVars, IInv, TypeOK, SetupBehind, RelayingAhead, CreatedSoFar,
       RelayingWithAllThreads, StopEpsPlace, InjectorsJoinedFirst, Created, Alive

\* Every step of every thread keeps the invariant.
LEMMA NextInductive == IInv /\ [Next]_vars => IInv'
<1> SUFFICES ASSUME IInv, [Next]_vars PROVE IInv'
  OBVIOUS
<1>0. /\ done \in BOOLEAN /\ plugged \in BOOLEAN /\ hostReady \in BOOLEAN
      /\ process \in {"running", "exited", "killed"}
  BY DEF IInv, TypeOK
<1>1. CASE Main
  BY <1>1, MainInductive
<1>2. CASE DeviceLeft
  BY <1>2, DeviceLeftInductive
<1>3. CASE HostDisconnect
  BY <1>3, HostDisconnectInductive
<1>4. ASSUME NEW index \in Configs, SetConfig(index) PROVE IInv'
  BY <1>4, SetConfigInductive
<1>5. ASSUME NEW k \in Kinds, ThreadEnds(k) PROVE IInv'
  BY <1>5, ThreadEndsInductive
<1>6. ASSUME NEW t \in Callers, Exit(t) PROVE IInv'
  BY <1>0, <1>6, OutsideInductive DEF Exit, envVars
<1>7. CASE Plug \/ PeerUp \/ Sigterm
  BY <1>0, <1>7, OutsideInductive DEF Plug, PeerUp, Sigterm, Environment
<1>8. CASE UNCHANGED vars
  BY <1>0, <1>8, OutsideInductive DEF vars, envVars
<1> QED
  BY <1>1, <1>2, <1>3, <1>4, <1>5, <1>6, <1>7, <1>8 DEF Next

\* The invariant holds in every reachable state.
LEMMA Invariance == Spec => []IInv
<1> QED
  BY InitInductive, NextInductive, PTL DEF Spec

\* Every variable keeps its type.
THEOREM TypeCorrect == Spec => []TypeOK
<1>1. IInv => TypeOK
  BY DEF IInv
<1> QED
  BY <1>1, Invariance, PTL

\* stop_relaying never takes its early return, which would let main delete the
\* proxies under the threads that use them.
THEOREM StopsAfterSetup == Spec => []NeverStoppedInSetup
<1>1. IInv => NeverStoppedInSetup
  BY DEF IInv, SetupBehind, NeverStoppedInSetup, SetupPlaces
<1> QED
  BY <1>1, Invariance, PTL

\* Whatever notifications race with the setup, a manager that relays has
\* created its reader, its writer and its injectors.
THEOREM RelaysWithAllThreads == Spec => []RelayingWithAllThreads
<1>1. IInv => RelayingWithAllThreads
  BY DEF IInv
<1> QED
  BY <1>1, Invariance, PTL

\* No injector outlives the moment main begins to stop the endpoint threads.
THEOREM InjectorsAreJoinedFirst == Spec => []InjectorsJoinedFirst
<1>1. IInv => InjectorsJoinedFirst
  BY DEF IInv
<1> QED
  BY <1>1, Invariance, PTL
------------------------------------------------------------------------------
(***************************************************************************)
(* The setup done by the same thread, module DeviceSetup, for any device,   *)
(* plugins and command lines: what is connected to what.                    *)
(*                                                                          *)
(* While filters and injectors are being connected they are not all where   *)
(* the properties want them, and an injector may push at any time.  The     *)
(* invariant says whom each has been given to already, and for each place   *)
(* of the setup which endpoints can have been reached by then.              *)
(***************************************************************************)
\* The places before the endpoints of a configuration are known, before their
\* filters are applied, and before the injectors get their queues.
Unwired    == {"load", "read", "claim", "control"}
Unlisted   == Unwired \cup {"threads", "host", "gadget", "relay", "open"}
Unfiltered == Unlisted \cup {"join", "apply"}
Uninjected == Unfiltered \cup {"inject"}

\* Each endpoint's filters are those meant for it.
AppliedAsMeant ==
    \A e \in DOMAIN applied : applied[e] = {i \in DOMAIN filters : MeantFor(filters[i], e)}

\* Each injector has the queues of endpoints it is meant for.
GivenAsMeant ==
    \A i \in DOMAIN injectors : \A e \in DOMAIN inject[i] :
        /\ e # ControlIn =>
              e \in DOMAIN writer /\ inject[i][e] = writer[e] /\ MeantFor(injectors[i], e)
        /\ e = ControlIn /\ ControlIn \notin DOMAIN writer =>
              inject[i][e] = WriterSend /\ MeantFor(injectors[i], Control)

Joined == /\ DOMAIN inject = DOMAIN injectors /\ threads \subseteq DOMAIN injectors
          /\ reader = writer
          /\ \A i, j \in threads : injectors[i].source = injectors[j].source => i = j
          /\ \A p \in pushed : p.for # ControlIn => p.for \in DOMAIN writer
          /\ AppliedAsMeant /\ GivenAsMeant /\ InjectedAsMeant /\ FilteredAsMeant

\* Until its time comes nothing is connected but endpoint 0, and nothing at all
\* before that.
InTime ==
    /\ pc \in Unwired => /\ \A i \in DOMAIN injectors : DOMAIN inject[i] = {}
                         /\ DOMAIN applied = {} /\ threads = {}
                         /\ pushed = {} /\ passed = <<>>
    /\ pc \in Uninjected => /\ \A i \in DOMAIN injectors : DOMAIN inject[i] \subseteq {Control, ControlIn}
                            /\ \A p \in pushed : p.for \in {Control, ControlIn}
                            /\ passed # <<>> => passed[1] = Control
    /\ pc \in Unfiltered => DOMAIN applied \subseteq {Control}
    /\ pc \in Unlisted \cup {"join"} => DOMAIN writer \subseteq {Control}
    /\ pc \in {"threads", "host", "gadget", "relay", "open", "join", "apply"} => Control \in DOMAIN applied
    /\ pc = "join" => DOMAIN queue = DOMAIN endpoints
    /\ pc = "apply" => DOMAIN writer \subseteq DOMAIN endpoints \cup {Control}
    /\ pc \in {"apply", "inject"} => DOMAIN endpoints \subseteq DOMAIN writer
    /\ pc \in {"inject", "running"} => DOMAIN writer \subseteq DOMAIN applied

Wiring == Joined /\ InTime

\* Nothing is connected at first.
LEMMA WiringInit == SetupInit => Wiring
<1> SUFFICES ASSUME SetupInit PROVE Wiring
  OBVIOUS
<1>1. DOMAIN injectors = {} /\ DOMAIN inject = {} /\ DOMAIN applied = {} /\ DOMAIN writer = {}
  BY DEF SetupInit, Empty
<1>2. reader = writer /\ threads = {} /\ pushed = {} /\ passed = <<>> /\ pc = "load"
  BY DEF SetupInit
<1>3. Joined
  BY <1>1, <1>2 DEF Joined, AppliedAsMeant, GivenAsMeant, InjectedAsMeant, FilteredAsMeant
<1>4. InTime
  BY <1>1, <1>2 DEF InTime, Unwired, Unlisted, Unfiltered, Uninjected
<1> QED
  BY <1>3, <1>4 DEF Wiring

\* Who is meant for endpoint 0 depends on the device alone, and who for another
\* endpoint on what is known of it.
Known0 == <<dev, filters, injectors>>
KnownMore == <<model, current, endpoints>>
Wires == <<reader, writer, applied, inject, threads, pushed, passed>>

\* Plugins keep what they are meant for while nothing is known anew.
LEMMA MeantStays ==
  ASSUME UNCHANGED Known0, NEW p, NEW e, e = Control \/ UNCHANGED KnownMore
  PROVE  MeantFor(p, e)' <=> MeantFor(p, e)
BY DEF MeantFor, DeviceTest, EndpointTest, ConfigurationTest, InterfaceTest, ActiveConfiguration,
       Known0, KnownMore

\* A step that connects nothing keeps what is connected, even one from which on
\* more is known of the endpoints, if only endpoint 0 is connected.
LEMMA QuietKeepsJoined ==
  ASSUME Joined, UNCHANGED Known0, UNCHANGED Wires,
         \/ UNCHANGED KnownMore
         \/ /\ \A i \in DOMAIN injectors : DOMAIN inject[i] \subseteq {Control, ControlIn}
            /\ \A p \in pushed : p.for \in {Control, ControlIn}
            /\ passed # <<>> => passed[1] = Control
            /\ DOMAIN applied \subseteq {Control}
  PROVE  Joined'
<1> USE DEF Known0, Wires
<1>1. AppliedAsMeant'
  <2>1. ASSUME NEW e \in DOMAIN applied
        PROVE  applied[e] = {i \in DOMAIN filters' : MeantFor(filters[i], e)'}
    <3>1. e = Control \/ UNCHANGED KnownMore
      OBVIOUS
    <3>2. \A i \in DOMAIN filters : MeantFor(filters[i], e)' <=> MeantFor(filters[i], e)
      BY <3>1, MeantStays
    <3> QED
      BY <3>2 DEF Joined, AppliedAsMeant
  <2> QED
    BY <2>1 DEF AppliedAsMeant
<1>2. GivenAsMeant'
  BY MeantStays DEF Joined, GivenAsMeant, WriterSend
<1>3. InjectedAsMeant'
  BY MeantStays DEF Joined, InjectedAsMeant, WriterSend
<1>4. FilteredAsMeant'
  BY MeantStays DEF Joined, FilteredAsMeant, Meant
<1> QED
  BY <1>1, <1>2, <1>3, <1>4 DEF Joined

\* A step that connects nothing, where it starts and where it leads.
QuietFrom(p, ps) == /\ pc = p /\ pc' \in ps
                    /\ UNCHANGED Known0 /\ UNCHANGED Wires
                    /\ p \in Unlisted \/ UNCHANGED KnownMore

\* The actions that are such steps.
LEMMA QuietActions ==
  /\ (\E qualified \in BOOLEAN : Read(qualified)) => QuietFrom("read", {"claim"})
  /\ ReadCrashes \/ ReadFails => QuietFrom("read", {"crash", "exit"})
  /\ ClaimInterfaces => QuietFrom("claim", {"crash", "control"})
  /\ HostConnect => QuietFrom("host", {"gadget", "crash"})
  /\ HostConnectFails => QuietFrom("gadget", {"exit"})
  /\ (\E shown \in Shown : OpenGadget(shown)) => QuietFrom("gadget", {"exit", "relay"})
  /\ (\E v \in Values : HostSetsConfig(v)) => QuietFrom("relay", {"crash", "open"})
  /\ (\E v \in Values : SetAnother(v)) => QuietFrom("running", {"exit"})
  /\ (\E s \in todo : SettingMissing(s) \/ OpenSetting(s)) => QuietFrom("open", {"crash", "open"})
  /\ EnumerateNull => QuietFrom("open", {"crash"})
<1> USE DEF QuietFrom, Known0, KnownMore, Wires, mostVars, world, plugins, modelVars, openVars,
            relayVars, wireVars, At, Go, Unwired, Unlisted, Unfiltered, Uninjected
<1>1. (\E qualified \in BOOLEAN : Read(qualified)) => QuietFrom("read", {"claim"})
  BY DEF Read
<1>2. ReadCrashes \/ ReadFails => QuietFrom("read", {"crash", "exit"})
  BY DEF ReadCrashes, ReadFails
<1>3. ClaimInterfaces => QuietFrom("claim", {"crash", "control"})
  BY DEF ClaimInterfaces
<1>4. HostConnect => QuietFrom("host", {"gadget", "crash"})
  BY DEF HostConnect
<1>5. HostConnectFails => QuietFrom("gadget", {"exit"})
  BY DEF HostConnectFails
<1>6. (\E shown \in Shown : OpenGadget(shown)) => QuietFrom("gadget", {"exit", "relay"})
  BY DEF OpenGadget
<1>7. (\E v \in Values : HostSetsConfig(v)) => QuietFrom("relay", {"crash", "open"})
  BY DEF HostSetsConfig
<1>8. (\E v \in Values : SetAnother(v)) => QuietFrom("running", {"exit"})
  BY DEF SetAnother
<1>9. (\E s \in todo : SettingMissing(s) \/ OpenSetting(s)) => QuietFrom("open", {"crash", "open"})
  BY DEF OpenSetting, SettingMissing, Turn
<1>10. EnumerateNull => QuietFrom("open", {"crash"})
  BY DEF EnumerateNull
<1> QED
  BY <1>1, <1>2, <1>3, <1>4, <1>5, <1>6, <1>7, <1>8, <1>9, <1>10

\* They go forward through the places, or end the process.
LEMMA QuietKeepsWiring ==
  ASSUME Wiring, NEW p, NEW ps, QuietFrom(p, ps),
         \/ p = "read" /\ ps = {"claim"}
         \/ p = "claim" /\ ps = {"crash", "control"}
         \/ p = "host" /\ ps = {"gadget", "crash"}
         \/ p = "gadget" /\ ps = {"exit", "relay"}
         \/ p = "relay" /\ ps = {"crash", "open"}
         \/ p = "open" /\ ps = {"crash", "open"}
         \/ ps \subseteq {"crash", "exit"}
  PROVE  Wiring'
<1>1. Joined'
  <2>1. CASE p \in Unlisted
    BY <2>1, QuietKeepsJoined DEF Wiring, InTime, QuietFrom, Unfiltered, Uninjected
  <2> QED
    BY <2>1, QuietKeepsJoined DEF Wiring, QuietFrom
<1>2. InTime'
  BY DEF Wiring, InTime, QuietFrom, Known0, Wires, Unwired, Unlisted, Unfiltered, Uninjected
<1> QED
  BY <1>1, <1>2 DEF Wiring

\* The endpoints of the configuration become known, each with a queue.
LEMMA EnumerateKeepsWiring == Wiring /\ Enumerate => Wiring'
<1> SUFFICES ASSUME Wiring, Enumerate PROVE Wiring'
  OBVIOUS
<1> USE DEF Known0, Wires, mostVars, world, plugins, modelVars, openVars, wireVars, At, Go
<1>1. /\ pc = "open" /\ pc' = "join" /\ UNCHANGED Known0 /\ UNCHANGED Wires
      /\ DOMAIN queue' = DOMAIN endpoints'
  BY DEF Enumerate
<1>2. Joined'
  BY <1>1, QuietKeepsJoined DEF Wiring, InTime, Unlisted, Unfiltered, Uninjected
<1>3. InTime'
  BY <1>1 DEF Wiring, InTime, Unwired, Unlisted, Unfiltered, Uninjected
<1> QED
  BY <1>2, <1>3 DEF Wiring

\* New plugins are connected to nothing.
LEMMA LoadKeepsWiring == Wiring /\ Load => Wiring'
<1> SUFFICES ASSUME Wiring, Load PROVE Wiring'
  OBVIOUS
<1> USE DEF mostVars, world, plugins, modelVars, openVars, relayVars, At, Go
<1>1. pc = "load" /\ UNCHANGED <<threads, pushed, passed, applied, reader, writer>>
  BY DEF Load
<1>2. pc' \in {"crash", "read", "tunnel"}
  BY DEF Load, Loading
<1>3. /\ DOMAIN inject' = DOMAIN injectors'
      /\ \A i \in DOMAIN injectors' : DOMAIN inject'[i] = {}
  BY DEF Load, Empty
<1>4. DOMAIN applied = {} /\ threads = {} /\ pushed = {} /\ passed = <<>> /\ reader = writer
  BY <1>1 DEF Wiring, InTime, Joined, Unwired
<1>5. Joined'
  <2>1. AppliedAsMeant' /\ InjectedAsMeant' /\ FilteredAsMeant'
    BY <1>1, <1>4 DEF AppliedAsMeant, InjectedAsMeant, FilteredAsMeant
  <2>2. GivenAsMeant'
    BY <1>3 DEF GivenAsMeant
  <2> QED
    BY <1>1, <1>3, <1>4, <2>1, <2>2 DEF Joined
<1>6. InTime'
  BY <1>1, <1>2, <1>3, <1>4 DEF Wiring, InTime, Unwired, Unlisted, Unfiltered, Uninjected
<1> QED
  BY <1>5, <1>6 DEF Wiring

\* The two directions of endpoint 0 are two places for an injector's queues.
LEMMA ControlsDiffer == Control # ControlIn
BY DEF Control, ControlIn

\* Endpoint 0 is connected: its criteria are those of the device.
LEMMA SetupControlKeepsWiring == Wiring /\ SetupControl => Wiring'
<1> SUFFICES ASSUME Wiring, SetupControl PROVE Wiring'
  OBVIOUS
<1> USE DEF mostVars, world, plugins, modelVars, openVars, At, Go
<1>1. /\ pc = "control" /\ pc' = "threads"
      /\ UNCHANGED <<dev, filters, injectors, threads, pushed, passed>>
  BY DEF SetupControl
<1>2. /\ DOMAIN writer' = {Control} /\ writer'[Control] = ReaderSend /\ reader' = writer'
      /\ DOMAIN applied' = {Control} /\ applied'[Control] = ForControl(filters)
  BY DEF SetupControl
<1>3. /\ DOMAIN inject' = DOMAIN injectors
      /\ \A i \in DOMAIN injectors :
            \/ DOMAIN inject'[i] = {}
            \/ /\ i \in ForControl(injectors) /\ DOMAIN inject'[i] = {Control, ControlIn}
               /\ inject'[i][Control] = ReaderSend /\ inject'[i][ControlIn] = WriterSend
  <2> DEFINE both == [e \in {Control, ControlIn} |-> IF e = Control THEN ReaderSend ELSE WriterSend]
  <2>1. /\ DOMAIN both = {Control, ControlIn}
        /\ both[Control] = ReaderSend
        /\ both[ControlIn] = WriterSend
    BY ControlsDiffer
  <2>2. DOMAIN Empty = {}
    BY DEF Empty
  <2>3. inject' = [i \in DOMAIN injectors |-> IF i \in ForControl(injectors) THEN both ELSE Empty]
    BY DEF SetupControl
  <2> QED
    <3> HIDE DEF both
    <3> QED
      BY <2>1, <2>2, <2>3
<1>4. threads = {} /\ pushed = {} /\ passed = <<>>
  BY <1>1 DEF Wiring, InTime, Unwired
<1>5. /\ ForControl(filters) = {i \in DOMAIN filters : MeantFor(filters[i], Control)'}
      /\ ForControl(injectors) = {i \in DOMAIN injectors : MeantFor(injectors[i], Control)'}
  BY <1>1 DEF ForControl, MeantFor, DeviceTest, EndpointTest
<1>6. Joined'
  <2>1. AppliedAsMeant'
    BY <1>1, <1>2, <1>5 DEF AppliedAsMeant
  <2>2. GivenAsMeant'
    <3>1. ASSUME NEW i \in DOMAIN injectors', NEW e \in DOMAIN inject'[i]
          PROVE  /\ i \in ForControl(injectors)
                 /\ \/ e = Control /\ inject'[i][e] = ReaderSend
                    \/ e = ControlIn /\ inject'[i][e] = WriterSend
      BY <1>1, <1>3
    <3>2. \A i \in ForControl(injectors) : MeantFor(injectors[i], Control)'
      BY <1>1, <1>5
    <3>3. WriterSend' = WriterSend /\ ReaderSend' = ReaderSend
      BY DEF WriterSend, ReaderSend
    <3> QED
      BY <1>2, <3>1, <3>2, <3>3, ControlsDiffer DEF GivenAsMeant
  <2>3. InjectedAsMeant' /\ FilteredAsMeant'
    BY <1>1, <1>4 DEF InjectedAsMeant, FilteredAsMeant
  <2> QED
    BY <1>1, <1>2, <1>3, <1>4, <2>1, <2>2, <2>3 DEF Joined
<1>7. InTime'
  BY <1>1, <1>2, <1>3, <1>4 DEF InTime, Unwired, Unlisted, Unfiltered, Uninjected
<1> QED
  BY <1>6, <1>7 DEF Wiring

\* The injectors' threads start, one heard on each port.
LEMMA StartInjectorsKeepsWiring ==
  ASSUME Wiring, NEW heard \in Heard, InjectorsListen(heard)
  PROVE  Wiring'
<1> USE DEF mostVars, world, plugins, modelVars, openVars, relayVars, wireVars, At, Go
<1>1. /\ pc = "threads" /\ pc' = "host" /\ threads' = heard
      /\ UNCHANGED <<dev, filters, injectors, model, current, endpoints,
                     reader, writer, applied, inject, pushed, passed>>
  BY DEF InjectorsListen
<1>2. heard \subseteq DOMAIN injectors /\ \A i \in heard : injectors[i].source # "pipe"
  BY DEF Heard
<1>3. ASSUME NEW i \in heard, NEW j \in heard, injectors[i].source = injectors[j].source
      PROVE  i = j
  <2>1. PICK one \in heard : {k \in heard : injectors[k].source = injectors[i].source} = {one}
    BY <1>2 DEF Heard
  <2> QED
    BY <1>3, <2>1
<1>4. Joined'
  <2>1. AppliedAsMeant'
    BY <1>1, MeantStays DEF Wiring, Joined, AppliedAsMeant, Known0, KnownMore
  <2>2. GivenAsMeant'
    BY <1>1, MeantStays DEF Wiring, Joined, GivenAsMeant, Known0, KnownMore, WriterSend
  <2>3. InjectedAsMeant'
    BY <1>1, MeantStays DEF Wiring, Joined, InjectedAsMeant, Known0, KnownMore, WriterSend
  <2>4. FilteredAsMeant'
    BY <1>1, MeantStays DEF Wiring, Joined, FilteredAsMeant, Meant, Known0, KnownMore
  <2> QED
    BY <1>1, <1>2, <1>3, <2>1, <2>2, <2>3, <2>4 DEF Wiring, Joined
<1>5. InTime'
  BY <1>1 DEF Wiring, InTime, Unwired, Unlisted, Unfiltered, Uninjected
<1> QED
  BY <1>4, <1>5 DEF Wiring

\* What Over leaves alone and what it adds.
LEMMA OverProperties ==
  ASSUME NEW f, NEW g
  PROVE  /\ DOMAIN Over(f, g) = DOMAIN f \cup DOMAIN g
         /\ \A e \in DOMAIN f : Over(f, g)[e] = f[e]
         /\ \A e \in DOMAIN g \ DOMAIN f : Over(f, g)[e] = g[e]
BY DEF Over

\* The endpoints get readers and writers; endpoint 0 keeps its own.
LEMMA JoinEndpointsKeepsWiring == Wiring /\ JoinEndpoints => Wiring'
<1> SUFFICES ASSUME Wiring, JoinEndpoints PROVE Wiring'
  OBVIOUS
<1> USE DEF mostVars, world, plugins, modelVars, openVars, wireVars, At, Go
<1>1. /\ pc = "join" /\ pc' = "apply" /\ reader' = Over(reader, queue) /\ writer' = Over(writer, queue)
      /\ UNCHANGED <<dev, filters, injectors, model, current, endpoints,
                     queue, applied, inject, threads, pushed, passed>>
  BY DEF JoinEndpoints
<1>2. reader = writer
  BY DEF Wiring, Joined
<1>3. /\ DOMAIN writer' = DOMAIN writer \cup DOMAIN queue
      /\ \A e \in DOMAIN writer : writer'[e] = writer[e]
  BY <1>1, OverProperties
<1>4. Joined'
  <2>1. AppliedAsMeant'
    BY <1>1, MeantStays DEF Wiring, Joined, AppliedAsMeant, Known0, KnownMore
  <2>2. GivenAsMeant'
    BY <1>1, <1>3, MeantStays DEF Wiring, Joined, GivenAsMeant, Known0, KnownMore, WriterSend
  <2>3. InjectedAsMeant' /\ \A p \in pushed' : p.for # ControlIn => p.for \in DOMAIN writer'
    BY <1>1, <1>3, MeantStays DEF Wiring, Joined, InjectedAsMeant, Known0, KnownMore, WriterSend
  <2>4. FilteredAsMeant'
    BY <1>1, MeantStays DEF Wiring, Joined, FilteredAsMeant, Meant, Known0, KnownMore
  <2> QED
    BY <1>1, <1>2, <2>1, <2>2, <2>3, <2>4 DEF Wiring, Joined
<1>5. InTime'
  BY <1>1, <1>3 DEF Wiring, InTime, Unwired, Unlisted, Unfiltered, Uninjected
<1> QED
  BY <1>4, <1>5 DEF Wiring

\* The criteria are applied to the endpoints as they are meant.
LEMMA ForEndpointIsMeant ==
  ASSUME NEW ps, NEW e, e # Control
  PROVE  ForEndpoint(ps, ActiveConfiguration, e) = {i \in DOMAIN ps : MeantFor(ps[i], e)}
BY DEF ForEndpoint, MeantFor

\* They get their filters; those of endpoint 0 stay.
LEMMA ApplyFiltersKeepsWiring == Wiring /\ ApplyFilters => Wiring'
<1> SUFFICES ASSUME Wiring, ApplyFilters PROVE Wiring'
  OBVIOUS
<1> USE DEF mostVars, world, plugins, modelVars, openVars, relayVars, At, Go
<1> DEFINE new == [e \in DOMAIN endpoints |-> ForEndpoint(filters, ActiveConfiguration, e)]
<1>1. /\ pc = "apply" /\ pc' = "inject" /\ applied' = Over(applied, new)
      /\ UNCHANGED <<dev, filters, injectors, model, current, endpoints,
                     reader, writer, queue, inject, threads, pushed, passed>>
  BY DEF ApplyFilters
<1>2. /\ DOMAIN applied' = DOMAIN applied \cup DOMAIN endpoints
      /\ \A e \in DOMAIN applied : applied'[e] = applied[e]
      /\ \A e \in DOMAIN endpoints \ DOMAIN applied :
            applied'[e] = ForEndpoint(filters, ActiveConfiguration, e)
  <2>1. DOMAIN new = DOMAIN endpoints
    OBVIOUS
  <2>2. \A e \in DOMAIN endpoints : new[e] = ForEndpoint(filters, ActiveConfiguration, e)
    OBVIOUS
  <2> HIDE DEF new
  <2>3. /\ DOMAIN Over(applied, new) = DOMAIN applied \cup DOMAIN new
        /\ \A e \in DOMAIN applied : Over(applied, new)[e] = applied[e]
        /\ \A e \in DOMAIN new \ DOMAIN applied : Over(applied, new)[e] = new[e]
    BY OverProperties
  <2> QED
    BY <1>1, <2>1, <2>2, <2>3
<1>3. /\ Control \in DOMAIN applied
      /\ DOMAIN writer \subseteq DOMAIN endpoints \cup {Control} /\ DOMAIN endpoints \subseteq DOMAIN writer
  BY <1>1 DEF Wiring, InTime
<1>4. \A p, e : MeantFor(p, e)' <=> MeantFor(p, e)
  BY <1>1, MeantStays DEF Known0, KnownMore
<1>5. AppliedAsMeant'
  <2>1. \A e \in DOMAIN applied' : applied'[e] = {i \in DOMAIN filters : MeantFor(filters[i], e)}
    <3>1. \A e \in DOMAIN applied : applied[e] = {i \in DOMAIN filters : MeantFor(filters[i], e)}
      BY DEF Wiring, Joined, AppliedAsMeant
    <3>2. \A e \in DOMAIN endpoints \ DOMAIN applied :
             ForEndpoint(filters, ActiveConfiguration, e) = {i \in DOMAIN filters : MeantFor(filters[i], e)}
      BY <1>3, ForEndpointIsMeant
    <3> QED
      BY <1>2, <3>1, <3>2
  <2>2. ASSUME NEW e \in DOMAIN applied'
        PROVE  applied'[e] = {i \in DOMAIN filters' : MeantFor(filters[i], e)'}
    BY <1>1, <1>4, <2>1
  <2> QED
    BY <2>2 DEF AppliedAsMeant
<1>6. Joined'
  <2>2. GivenAsMeant'
    BY <1>1, <1>4 DEF Wiring, Joined, GivenAsMeant, WriterSend
  <2>3. InjectedAsMeant'
    BY <1>1, <1>4 DEF Wiring, Joined, InjectedAsMeant, WriterSend
  <2>4. FilteredAsMeant'
    BY <1>1, <1>4 DEF Wiring, Joined, FilteredAsMeant, Meant
  <2> QED
    BY <1>1, <1>5, <2>2, <2>3, <2>4 DEF Wiring, Joined
<1>7. InTime'
  BY <1>1, <1>2, <1>3 DEF Wiring, InTime, Unwired, Unlisted, Unfiltered, Uninjected
<1> QED
  BY <1>6, <1>7 DEF Wiring

\* The injectors get their queues; those of endpoint 0 stay.
LEMMA ApplyInjectorsKeepsWiring == Wiring /\ ApplyInjectors => Wiring'
<1> SUFFICES ASSUME Wiring, ApplyInjectors PROVE Wiring'
  OBVIOUS
<1> USE DEF mostVars, world, plugins, modelVars, openVars, relayVars, At, Go
<1> DEFINE for(i) == {e \in DOMAIN endpoints : i \in ForEndpoint(injectors, ActiveConfiguration, e)}
           given(i) == [e \in for(i) |-> writer[e]]
<1>1. /\ pc = "inject" /\ pc' = "running"
      /\ UNCHANGED <<dev, filters, injectors, model, current, endpoints,
                     reader, writer, queue, applied, threads, pushed, passed>>
  BY DEF ApplyInjectors
<1>2. inject' = [i \in DOMAIN injectors |-> Over(given(i), inject[i])]
  BY DEF ApplyInjectors
<1>3. DOMAIN endpoints \subseteq DOMAIN writer /\ DOMAIN writer \subseteq DOMAIN applied
  BY <1>1 DEF Wiring, InTime
<1>4. \A p, e : MeantFor(p, e)' <=> MeantFor(p, e)
  BY <1>1, MeantStays DEF Known0, KnownMore
<1>5. \A i \in DOMAIN injectors : \A e \in for(i) :
         e \in DOMAIN writer /\ given(i)[e] = writer[e] /\ MeantFor(injectors[i], e)
  BY <1>3 DEF ForEndpoint, MeantFor
<1>6. \A i : DOMAIN given(i) = for(i) /\ for(i) \subseteq DOMAIN endpoints
  OBVIOUS
<1>7. GivenAsMeant'
  <2>1. ASSUME NEW i \in DOMAIN injectors, NEW e \in DOMAIN inject'[i]
        PROVE  \/ e \in for(i) /\ inject'[i][e] = given(i)[e]
               \/ e \in DOMAIN inject[i] /\ inject'[i][e] = inject[i][e]
    <3> HIDE DEF for, given
    <3>1. inject'[i] = Over(given(i), inject[i])
      BY <1>2
    <3>2. /\ DOMAIN Over(given(i), inject[i]) = DOMAIN given(i) \cup DOMAIN inject[i]
          /\ \A f \in DOMAIN given(i) : Over(given(i), inject[i])[f] = given(i)[f]
          /\ \A f \in DOMAIN inject[i] \ DOMAIN given(i) : Over(given(i), inject[i])[f] = inject[i][f]
      BY OverProperties
    <3>3. DOMAIN given(i) = for(i)
      BY <1>6
    <3> QED
      BY <2>1, <3>1, <3>2, <3>3
  <2>2. ASSUME NEW i \in DOMAIN injectors, NEW e \in DOMAIN inject'[i]
        PROVE  /\ e # ControlIn =>
                     e \in DOMAIN writer /\ inject'[i][e] = writer[e] /\ MeantFor(injectors[i], e)
               /\ e = ControlIn /\ ControlIn \notin DOMAIN writer =>
                     inject'[i][e] = WriterSend /\ MeantFor(injectors[i], Control)
    <3>1. CASE e \in for(i) /\ inject'[i][e] = given(i)[e]
      <4> HIDE DEF for, given
      <4> QED
        BY <1>5, <3>1
    <3>2. CASE e \in DOMAIN inject[i] /\ inject'[i][e] = inject[i][e]
      BY <3>2 DEF Wiring, Joined, GivenAsMeant
    <3> QED
      BY <2>1, <3>1, <3>2
  <2> QED
    BY <1>1, <1>4, <2>2 DEF GivenAsMeant, WriterSend
<1>8. Joined'
  <2>1. DOMAIN inject' = DOMAIN injectors'
    BY <1>1, <1>2
  <2>2. AppliedAsMeant'
    BY <1>1, <1>4 DEF Wiring, Joined, AppliedAsMeant
  <2>3. InjectedAsMeant'
    BY <1>1, <1>4 DEF Wiring, Joined, InjectedAsMeant, WriterSend
  <2>4. FilteredAsMeant'
    BY <1>1, <1>4 DEF Wiring, Joined, FilteredAsMeant, Meant
  <2> QED
    BY <1>1, <1>7, <2>1, <2>2, <2>3, <2>4 DEF Wiring, Joined
<1>9. InTime'
  BY <1>1, <1>3 DEF InTime, Unwired, Unlisted, Unfiltered, Uninjected
<1> QED
  BY <1>8, <1>9 DEF Wiring

\* A packet goes where its injector has a queue, hence where it is meant to go.
LEMMA InjectKeepsWiring ==
  ASSUME Wiring, NEW i \in DOMAIN injectors, NEW d \in Datagrams, Inject(i, d)
  PROVE  Wiring'
<1> USE DEF mostVars, world, plugins, modelVars, openVars, relayVars, wireVars
<1> DEFINE to == Destination(d)
           new == [by |-> i, for |-> to, setup |-> d.setup, to |-> inject[i][to], flags |-> d.flags]
<1>1. /\ i \in threads /\ to \in DOMAIN inject[i] /\ pushed' = pushed \cup {new}
      /\ UNCHANGED <<pc, dev, filters, injectors, model, current, endpoints,
                     reader, writer, queue, applied, inject, threads, passed>>
  BY DEF Inject
<1>2. d.setup => to = Control
  <2>1. PICK first, turned : d = Datagram(first, turned)
    BY DEF Datagrams
  <2>2. d.setup <=> first = 0
    BY <2>1 DEF Datagram
  <2>3. d.address = first
    BY <2>1 DEF Datagram
  <2>4. 0 % 16 = 0 /\ ~(0 >= 128)
    OBVIOUS
  <2>5. ASSUME d.address = 0 PROVE Destination(d) = [addr |-> 0, in |-> FALSE]
    <3>1. d.address % 16 = 0 /\ ((d.address >= 128) = FALSE)
      BY <2>4, <2>5
    <3> QED
      BY ONLY <3>1, Zenon DEF Destination
  <2> QED
    BY <2>2, <2>3, <2>5 DEF Control
<1>3. /\ to # ControlIn => /\ to \in DOMAIN writer /\ inject[i][to] = writer[to]
                           /\ MeantFor(injectors[i], to)
      /\ to = ControlIn /\ ControlIn \notin DOMAIN writer =>
            inject[i][to] = WriterSend /\ MeantFor(injectors[i], Control)
  <2> HIDE DEF to
  <2> QED
    BY <1>1 DEF Wiring, Joined, GivenAsMeant
<1>4. /\ pc \in Uninjected => to \in {Control, ControlIn}
      /\ pc \notin Unwired
  BY <1>1 DEF Wiring, InTime
<1>5. new.for = to /\ new.setup = d.setup /\ new.by = i /\ new.to = inject[i][to]
  OBVIOUS
<1> HIDE DEF to, new
<1>6. \A p, e : MeantFor(p, e)' <=> MeantFor(p, e)
  BY <1>1, MeantStays DEF Known0, KnownMore
<1>7. Joined'
  <2>1. AppliedAsMeant'
    BY <1>1, <1>6 DEF Wiring, Joined, AppliedAsMeant
  <2>2. GivenAsMeant'
    BY <1>1, <1>6 DEF Wiring, Joined, GivenAsMeant, WriterSend
  <2>3. InjectedAsMeant'
    BY <1>1, <1>2, <1>3, <1>5, <1>6 DEF Wiring, Joined, InjectedAsMeant, WriterSend
  <2>4. FilteredAsMeant'
    BY <1>1, <1>6 DEF Wiring, Joined, FilteredAsMeant, Meant
  <2> QED
    BY <1>1, <1>3, <1>5, <2>1, <2>2, <2>3, <2>4 DEF Wiring, Joined
<1>8. InTime'
  BY <1>1, <1>4, <1>5 DEF Wiring, InTime, Unwired, Unlisted, Unfiltered, Uninjected
<1> QED
  BY <1>7, <1>8 DEF Wiring

\* Those that may act are meant to.
LEMMA ActingAsMeant ==
  ASSUME Wiring, NEW e \in DOMAIN applied, NEW c
  PROVE  Acting(e, c) = Meant(e, c)
<1>1. applied[e] = {i \in DOMAIN filters : MeantFor(filters[i], e)}
  BY DEF Wiring, Joined, AppliedAsMeant
<1>2. CASE e = Control
  BY <1>1, <1>2 DEF Acting, ActsOnSetup, TestSetupPacket, Meant
<1>3. CASE e # Control
  BY <1>1, <1>3 DEF Acting, ActsOn, TestPacket, Meant
<1> QED
  BY <1>2, <1>3

\* What a packet's flags let act of them.
LEMMA FlagsAsMeant ==
  ASSUME NEW e, NEW flags, NEW c
  PROVE  LET out == ActingOut(e, flags, c)
             back == ActingBack(e, flags, c)
         IN /\ "filter" \notin flags => out \cup back = {}
            /\ "filter" \in flags /\ e # Control => out = Acting(e, c) /\ back = {}
            /\ flags = PacketFlags /\ e = Control =>
                  out = Acting(e, c) /\ back = IF c = "write" THEN {} ELSE Acting(e, c)
            /\ flags = PacketFlags \ {"filter_out"} /\ e = Control => out = {} /\ back = Acting(e, c)
BY DEF ActingOut, ActingBack, PacketFlags

\* A packet passes the filters of its endpoint.
LEMMA PassKeepsWiring ==
  ASSUME Wiring, NEW e \in DOMAIN writer, NEW flags, NEW c, Pass(e, flags, c)
  PROVE  Wiring'
<1> USE DEF mostVars, world, plugins, modelVars, openVars, relayVars, wireVars, Go
<1>1. /\ pc = "running" \/ (pc = "relay" /\ e = Control)
      /\ \/ /\ passed' = <<e, flags, c, ActingOut(e, flags, c), ActingBack(e, flags, c)>>
            /\ UNCHANGED pc
         \/ pc' = "crash" /\ UNCHANGED passed
      /\ UNCHANGED <<dev, filters, injectors, model, current, endpoints,
                     reader, writer, queue, applied, inject, threads, pushed>>
  BY DEF Pass
<1>2. e \in DOMAIN applied
  BY <1>1 DEF Wiring, InTime
<1>3. \A p, f : MeantFor(p, f)' <=> MeantFor(p, f)
  BY <1>1, MeantStays DEF Known0, KnownMore
<1>4. Joined'
  <2>1. AppliedAsMeant'
    BY <1>1, <1>3 DEF Wiring, Joined, AppliedAsMeant
  <2>2. GivenAsMeant'
    BY <1>1, <1>3 DEF Wiring, Joined, GivenAsMeant, WriterSend
  <2>3. InjectedAsMeant'
    BY <1>1, <1>3 DEF Wiring, Joined, InjectedAsMeant, WriterSend
  <2>4. FilteredAsMeant'
    <3>1. CASE UNCHANGED passed
      BY <1>1, <1>3, <3>1 DEF Wiring, Joined, FilteredAsMeant, Meant
    <3>2. CASE passed' = <<e, flags, c, ActingOut(e, flags, c), ActingBack(e, flags, c)>>
      <4>1. /\ passed'[1] = e /\ passed'[2] = flags /\ passed'[3] = c
            /\ passed'[4] = ActingOut(e, flags, c) /\ passed'[5] = ActingBack(e, flags, c)
        BY <3>2
      <4>2. Acting(e, c) = Meant(e, c)
        BY <1>2, ActingAsMeant
      <4>3. Meant(e, c)' = Meant(e, c)
        BY <1>1, <1>3 DEF Meant
      <4>4. /\ "filter" \notin flags => passed'[4] \cup passed'[5] = {}
            /\ "filter" \in flags /\ e # Control => passed'[4] = Meant(e, c) /\ passed'[5] = {}
            /\ flags = PacketFlags /\ e = Control =>
                  passed'[4] = Meant(e, c) /\ passed'[5] = IF c = "write" THEN {} ELSE Meant(e, c)
            /\ flags = PacketFlags \ {"filter_out"} /\ e = Control =>
                  passed'[4] = {} /\ passed'[5] = Meant(e, c)
        BY <4>1, <4>2, FlagsAsMeant
      <4> QED
        BY <4>1, <4>3, <4>4 DEF FilteredAsMeant
    <3> QED
      BY <1>1, <3>1, <3>2
  <2> QED
    BY <1>1, <2>1, <2>2, <2>3, <2>4 DEF Wiring, Joined
<1>5. InTime'
  BY <1>1 DEF Wiring, InTime, Unwired, Unlisted, Unfiltered, Uninjected
<1> QED
  BY <1>4, <1>5 DEF Wiring

\* A step of nothing.
LEMMA StutterKeepsWiring == Wiring /\ UNCHANGED setupVars => Wiring'
<1> SUFFICES ASSUME Wiring, UNCHANGED setupVars PROVE Wiring'
  OBVIOUS
<1>1. UNCHANGED <<pc, dev, filters, injectors, model, current, endpoints,
                  reader, writer, queue, applied, inject, threads, pushed, passed>>
  BY DEF setupVars, mostVars, world, plugins, modelVars, openVars, relayVars, wireVars
<1>2. \A p, e : MeantFor(p, e)' <=> MeantFor(p, e)
  BY <1>1, MeantStays DEF Known0, KnownMore
<1>3. AppliedAsMeant'
  BY <1>1, <1>2 DEF Wiring, Joined, AppliedAsMeant
<1>4. GivenAsMeant'
  BY <1>1, <1>2 DEF Wiring, Joined, GivenAsMeant, WriterSend
<1>5. InjectedAsMeant'
  BY <1>1, <1>2 DEF Wiring, Joined, InjectedAsMeant, WriterSend
<1>6. FilteredAsMeant'
  BY <1>1, <1>2 DEF Wiring, Joined, FilteredAsMeant, Meant
<1>7. Joined'
  BY <1>1, <1>3, <1>4, <1>5, <1>6 DEF Wiring, Joined
<1>8. InTime'
  BY <1>1 DEF Wiring, InTime
<1> QED
  BY <1>7, <1>8 DEF Wiring

\* The invariant holds throughout.
LEMMA WiringIsInductive == SetupSpec => []Wiring
<1>1. Wiring /\ [SetupNext]_setupVars => Wiring'
  <2> SUFFICES ASSUME Wiring, [SetupNext]_setupVars PROVE Wiring'
    OBVIOUS
  <2>1. CASE Setup
    BY <2>1, QuietActions, QuietKeepsWiring, LoadKeepsWiring, SetupControlKeepsWiring, EnumerateKeepsWiring,
       JoinEndpointsKeepsWiring, ApplyFiltersKeepsWiring, ApplyInjectorsKeepsWiring, StartInjectorsKeepsWiring
       DEF Setup
  <2>2. CASE \E i \in DOMAIN injectors, d \in Datagrams : Inject(i, d)
    BY <2>2, InjectKeepsWiring
  <2>3. CASE \E e \in DOMAIN writer : \E flags \in FlagsOf(e), c \in Contents(e) : Pass(e, flags, c)
    BY <2>3, PassKeepsWiring
  <2>4. CASE UNCHANGED setupVars
    BY <2>4, StutterKeepsWiring
  <2> QED
    BY <2>1, <2>2, <2>3, <2>4 DEF SetupNext
<1> QED
  BY WiringInit, <1>1, PTL DEF SetupSpec

\* Whatever the device, the plugins and the command line, and whenever injectors
\* push: Manager hands each relay the filters, and each injector the queues, that
\* are meant for its endpoint, and the reader and the writer of an endpoint the
\* same queue (start_control_relaying, start_data_relaying, Injector::listen); and
\* of its filters the writer lets act on a packet all, or, as the flags of an
\* injected one say, none, or those of one of the two directions of a request
\* (RelayWriter::relay_write, relay_write_setup).
THEOREM AllWiredAsMeant == SetupSpec => []WiredAsMeant
<1>1. Wiring => WiredAsMeant
  BY DEF Wiring, Joined, WiredAsMeant, Shared
<1> QED
  BY <1>1, WiringIsInductive, PTL
------------------------------------------------------------------------------
(***************************************************************************)
(* Facts about the operators of Descriptors, for any descriptors.           *)
(***************************************************************************)

\* The place of each element of a finite set of numbers in their order.
Rank(J, j) == Cardinality({i \in J : i <= j})

\* The place of an element is a number from one to the number of elements.
LEMMA RankType ==
  ASSUME NEW n \in Nat, NEW J \in SUBSET (0..n), NEW j \in J
  PROVE  Rank(J, j) \in 1..Cardinality(J)
<1>1. IsFiniteSet(0..n)
  BY FS_Interval
<1>2. IsFiniteSet(J) /\ Cardinality(J) \in Nat
  BY <1>1, FS_Subset, FS_CardinalityType
<1> DEFINE K == {i \in J : i <= j}
<1>3. K \in SUBSET J /\ j \in K
  OBVIOUS
<1>4. IsFiniteSet(K) /\ Cardinality(K) <= Cardinality(J) /\ Cardinality(K) \in Nat
  BY <1>2, <1>3, FS_Subset, FS_CardinalityType
<1>5. Cardinality(K) # 0
  BY <1>3, <1>4, FS_EmptySet
<1> QED
  BY <1>2, <1>4, <1>5 DEF Rank

\* No two elements have the same place.
LEMMA RankGrows ==
  ASSUME NEW n \in Nat, NEW J \in SUBSET (0..n), NEW i \in J, NEW j \in J, i < j
  PROVE  Rank(J, i) # Rank(J, j)
<1> DEFINE K(m) == {x \in J : x <= m}
<1>1. IsFiniteSet(0..n)
  BY FS_Interval
<1>2. IsFiniteSet(K(j))
  BY <1>1, FS_Subset
<1>3. K(i) \in SUBSET K(j) /\ j \in K(j) /\ j \notin K(i)
  <2>1. \A x \in J : x \in Int
    OBVIOUS
  <2>2. \A x \in J : x <= i => x <= j
    BY <2>1
  <2>3. j <= j /\ ~(j <= i)
    BY <2>1
  <2> QED
    BY <2>2, <2>3
<1>4. Cardinality(K(j)) = Cardinality(K(i)) => K(j) = K(i)
  BY <1>2, <1>3, FS_Subset
<1> QED
  BY <1>3, <1>4 DEF Rank

\* So it is one to one, and every number up to the cardinality is the place of an
\* element: Nth finds it.
LEMMA NthInverts ==
  ASSUME NEW n \in Nat, NEW J \in SUBSET (0..n)
  PROVE  /\ Cardinality(J) \in Nat
         /\ \A k \in 1..Cardinality(J) : Nth(J, k) \in J /\ Rank(J, Nth(J, k)) = k
         /\ \A j \in J : Rank(J, j) \in 1..Cardinality(J) /\ Nth(J, Rank(J, j)) = j
<1>1. IsFiniteSet(0..n)
  BY FS_Interval
<1>2. IsFiniteSet(J) /\ Cardinality(J) \in Nat
  BY <1>1, FS_Subset, FS_CardinalityType
<1> DEFINE c == Cardinality(J)
           f == [j \in J |-> Rank(J, j)]
<1>3. f \in [J -> 1..c]
  BY RankType
<1>4. \A i, j \in J : Rank(J, i) = Rank(J, j) => i = j
  BY RankGrows
<1>5. f \in Injection(J, 1..c)
  BY <1>3, <1>4 DEF Injection, IsInjective
<1>6. IsFiniteSet(1..c) /\ Cardinality(1..c) = c
  <2> HIDE DEF c
  <2>1. c \in Nat
    BY <1>2 DEF c
  <2> QED
    BY <2>1, FS_Interval
<1>7. f \in Surjection(J, 1..c)
  BY <1>5, <1>6, FS_Injection
<1>8. \A k \in 1..c : \E j \in J : Rank(J, j) = k
  BY <1>7 DEF Surjection
<1>9. \A k \in 1..c : Nth(J, k) \in J /\ Rank(J, Nth(J, k)) = k
  BY <1>8 DEF Nth, Rank
<1>10. \A j \in J : Rank(J, j) \in 1..c
  BY RankType
<1>11. \A j \in J : Nth(J, Rank(J, j)) = j
  BY <1>4, <1>9, <1>10
<1> QED
  BY <1>2, <1>9, <1>10, <1>11

\* A set of naturals that is bounded and not empty has a greatest element: the one
\* whose place is the last.
LEMMA Greatest ==
  ASSUME NEW n \in Nat, NEW J \in SUBSET (0..n), J # {}
  PROVE  Max(J) \in J /\ \A j \in J : j <= Max(J)
<1>1. IsFiniteSet(0..n)
  BY FS_Interval
<1>2. IsFiniteSet(J) /\ Cardinality(J) \in Nat /\ Cardinality(J) # 0
  BY <1>1, FS_Subset, FS_CardinalityType, FS_EmptySet
<1>3. PICK m \in J : Rank(J, m) = Cardinality(J)
  <2>1. Cardinality(J) \in 1..Cardinality(J)
    BY <1>2
  <2> QED
    BY <2>1, NthInverts
<1>4. {i \in J : i <= m} = J
  BY <1>2, <1>3, FS_Subset DEF Rank
<1>5. \A j \in J : m >= j
  BY <1>4
<1>6. Max(J) \in J /\ \A j \in J : Max(J) >= j
  BY <1>5 DEF Max
<1> QED
  BY <1>6

\* Taken has the descriptors at the positions it is given, each once.
LEMMA TakenProperties ==
  ASSUME NEW ds, NEW n \in Nat, NEW J \in SUBSET (0..n)
  PROVE  /\ Cardinality(J) \in Nat /\ Len(Taken(ds, J)) = Cardinality(J)
         /\ DOMAIN Taken(ds, J) = 1..Cardinality(J)
         /\ \A k \in 1..Cardinality(J) : Nth(J, k) \in J /\ Taken(ds, J)[k] = ds[Nth(J, k)]
         /\ \A j \in J : \E k \in 1..Cardinality(J) : Nth(J, k) = j
<1>1. Cardinality(J) \in Nat
  BY NthInverts
<1>2. Len(Taken(ds, J)) = Cardinality(J)
  BY <1>1 DEF Taken
<1>3. \A k \in 1..Cardinality(J) : Nth(J, k) \in J
  BY NthInverts
<1>4. \A j \in J : \E k \in 1..Cardinality(J) : Nth(J, k) = j
  BY NthInverts
<1> QED
  BY <1>1, <1>2, <1>3, <1>4 DEF Taken

\* The array of endpoints of the interface at i: bNumEndpoints places, the first of
\* them used.
Slots(ds, i) ==
    LET eps == Taken(ds, EndpointsAt(ds, i))
    IN [k \in 1..ds[i].eps |-> IF k \in DOMAIN eps THEN Endpoint(eps[k]) ELSE NoEndpoint]

\* What an interface, and a configuration, is made of.
LEMMA Parts ==
  ASSUME NEW ds, NEW answers, WellFormed(ds)
  PROVE  /\ Configuration(ds, answers).descriptor = ds[1]
         /\ Configuration(ds, answers).interfaces = Interfaces(ds)
         /\ DOMAIN Interfaces(ds) = Starts(ds)
         /\ Numbers(Configuration(ds, answers)) = 0..(ds[1].ifs - 1)
         /\ \A i \in Starts(ds) :
               /\ EndpointsAt(ds, i) \in SUBSET (0..Len(ds))
               /\ Interfaces(ds)[i].descriptor = ds[i]
               /\ Interfaces(ds)[i].endpoints = Slots(ds, i)
<1>1. /\ Configuration(ds, answers).descriptor = ds[1]
      /\ Configuration(ds, answers).interfaces = Interfaces(ds)
  BY DEF Configuration
<1>2. DOMAIN Interfaces(ds) = Starts(ds)
  BY DEF Interfaces
<1>3. Numbers(Configuration(ds, answers)) = 0..(ds[1].ifs - 1)
  BY <1>1 DEF Numbers
<1>4. ASSUME NEW i \in Starts(ds)
      PROVE  /\ EndpointsAt(ds, i) \in SUBSET (0..Len(ds))
             /\ Interfaces(ds)[i].descriptor = ds[i]
             /\ Interfaces(ds)[i].endpoints = Slots(ds, i)
  <2>1. EndpointsAt(ds, i) \in SUBSET (0..Len(ds))
    BY DEF EndpointsAt, Within, WellFormed
  <2>2. Interfaces(ds)[i] = Interface(ds, i, Ahead(ds, i))
    BY DEF Interfaces
  <2> QED
    BY <2>1, <2>2 DEF Interface, Slots
<1> QED
  BY <1>1, <1>2, <1>3, <1>4

\* The endpoints of an interface are those descriptors, each once, as far as there
\* are places for them; further places stay empty.
LEMMA EndpointsOf ==
  ASSUME NEW ds, WellFormed(ds), NEW i \in Starts(ds)
  PROVE  LET J == EndpointsAt(ds, i)
             es == Interfaces(ds)[i].endpoints
         IN /\ Cardinality(J) \in Nat /\ ds[i].eps \in 0..255
            /\ Len(es) = ds[i].eps /\ DOMAIN es = 1..ds[i].eps
            /\ \A k \in DOMAIN es :
                  IF k <= Cardinality(J) THEN Nth(J, k) \in J /\ es[k] = Endpoint(ds[Nth(J, k)])
                                         ELSE es[k] = NoEndpoint
            /\ Cardinality(J) <= ds[i].eps => \A j \in J : \E k \in DOMAIN es : es[k] = Endpoint(ds[j])
<1> DEFINE J == EndpointsAt(ds, i)
           es == Interfaces(ds)[i].endpoints
           eps == Taken(ds, J)
           n == ds[i].eps
<1>1. Len(ds) \in Nat
  BY DEF WellFormed
<1>2. J \in SUBSET (0..Len(ds)) /\ es = Slots(ds, i)
  BY Parts
<1>3. n \in 0..255
  BY DEF WellFormed, Starts
<1>4. es = [k \in 1..n |-> IF k \in DOMAIN eps THEN Endpoint(eps[k]) ELSE NoEndpoint]
  BY <1>2 DEF Slots
<1> HIDE DEF J, es, eps, n
<1>5. /\ Cardinality(J) \in Nat /\ DOMAIN eps = 1..Cardinality(J)
      /\ \A k \in 1..Cardinality(J) : Nth(J, k) \in J /\ eps[k] = ds[Nth(J, k)]
      /\ \A j \in J : \E k \in 1..Cardinality(J) : Nth(J, k) = j
  <2>1. eps = Taken(ds, J)
    BY DEF eps
  <2> QED
    BY ONLY <1>1, <1>2, <2>1, TakenProperties
<1>6. ASSUME NEW k \in DOMAIN es
      PROVE  IF k <= Cardinality(J) THEN Nth(J, k) \in J /\ es[k] = Endpoint(ds[Nth(J, k)])
                                    ELSE es[k] = NoEndpoint
  <2>1. k \in 1..n
    BY <1>4
  <2>2. k \in DOMAIN eps <=> k <= Cardinality(J)
    BY ONLY <2>1, <1>3, <1>5
  <2>3. k \in DOMAIN eps => eps[k] = ds[Nth(J, k)] /\ Nth(J, k) \in J
    BY ONLY <1>5
  <2>4. es[k] = IF k \in DOMAIN eps THEN Endpoint(eps[k]) ELSE NoEndpoint
    BY ONLY <1>4, <2>1
  <2> QED
    BY ONLY <2>2, <2>3, <2>4
<1>7. ASSUME Cardinality(J) <= n, NEW j \in J
      PROVE  \E k \in DOMAIN es : es[k] = Endpoint(ds[j])
  <2>1. PICK k \in 1..Cardinality(J) : Nth(J, k) = j
    BY <1>5
  <2>2. k \in 1..n
    BY ONLY <1>3, <1>5, <1>7, <2>1
  <2>3. k \in DOMAIN es /\ es[k] = Endpoint(eps[k]) /\ eps[k] = ds[j]
    BY ONLY <1>4, <1>5, <2>1, <2>2
  <2> QED
    BY <2>3
<1>8. DOMAIN es = 1..n /\ Len(es) = n
  BY <1>3, <1>4
<1> QED
  BY <1>3, <1>5, <1>6, <1>7, <1>8 DEF J, es, n

\* The setting a of interface n is the last that starts with those numbers, unless a
\* setting 255 of n follows.
StartsOf(ds, n, a) ==
    {i \in Starts(ds) : /\ ds[i].num = n /\ ds[i].alt = a
                        /\ \A j \in Starts(ds) : ds[j].num = n /\ ds[j].alt = 255 => j < i}

\* The settings found are those the device has sent.
LEMMA Alternates ==
  ASSUME NEW ds, NEW answers, WellFormed(ds), NEW n, NEW a,
         \A i \in Starts(ds) : Interfaces(ds)[i] # NoInterface
  PROVE  LET cfg == Configuration(ds, answers)
         IN /\ Settled(cfg, n, a) = StartsOf(ds, n, a)
            /\ StartsOf(ds, n, a) = {} => Alternate(cfg, n, a) = NoInterface
            /\ StartsOf(ds, n, a) # {} =>
                  /\ Max(StartsOf(ds, n, a)) \in StartsOf(ds, n, a)
                  /\ Alternate(cfg, n, a) = Interfaces(ds)[Max(StartsOf(ds, n, a))]
                  /\ Alternate(cfg, n, a) # NoInterface
<1> DEFINE cfg == Configuration(ds, answers)
<1>1. /\ cfg.interfaces = Interfaces(ds) /\ DOMAIN Interfaces(ds) = Starts(ds)
      /\ \A i \in Starts(ds) : Interfaces(ds)[i].descriptor = ds[i]
  BY Parts
<1> HIDE DEF cfg
<1>2. Settled(cfg, n, a) = StartsOf(ds, n, a)
  <2>1. InGroup(cfg, n) = {i \in Starts(ds) : ds[i].num = n}
    BY <1>1 DEF InGroup
  <2>2. Kept(cfg, n) = {i \in Starts(ds) : /\ ds[i].num = n
                          /\ \A j \in Starts(ds) : ds[j].num = n /\ ds[j].alt = 255 => j < i}
    BY <1>1, <2>1 DEF Kept
  <2> QED
    BY <1>1, <2>2 DEF Settled, StartsOf
<1>3. Len(ds) \in Nat /\ StartsOf(ds, n, a) \in SUBSET (0..Len(ds))
  BY DEF StartsOf, Starts, WellFormed
<1>4. StartsOf(ds, n, a) # {} => Max(StartsOf(ds, n, a)) \in StartsOf(ds, n, a)
  BY <1>3, Greatest
<1>5. StartsOf(ds, n, a) \subseteq Starts(ds)
  BY DEF StartsOf
<1> QED
  BY <1>1, <1>2, <1>4, <1>5 DEF Alternate, cfg

\* The settings that the code goes through are within what the interfaces' numbers
\* allow, and every interface descriptor is of one of them, if none has the number 255.
LEMMA Counts ==
  ASSUME NEW ds, NEW answers, WellFormed(ds)
  PROVE  LET cfg == Configuration(ds, answers)
         IN /\ \A n : AlternateCount(cfg, n) \in 0..256
            /\ \A i \in Starts(ds) : ds[i].num \in Numbers(cfg)
            /\ (\A i \in Starts(ds) : ds[i].alt < 255) =>
                  \A i \in Starts(ds) : ds[i].alt \in 0..(AlternateCount(cfg, ds[i].num) - 1)
<1> DEFINE cfg == Configuration(ds, answers)
           group(n) == {i \in Starts(ds) : ds[i].num = n}
           kept(n) == Kept(cfg, n)
           alts(n) == {ds[i].alt : i \in kept(n)}
<1>1. /\ cfg.interfaces = Interfaces(ds) /\ DOMAIN Interfaces(ds) = Starts(ds)
      /\ \A i \in Starts(ds) : Interfaces(ds)[i].descriptor = ds[i]
      /\ Numbers(cfg) = 0..(ds[1].ifs - 1)
  BY Parts
<1> HIDE DEF cfg
<1>2. \A n : InGroup(cfg, n) = group(n)
  BY <1>1 DEF InGroup
<1>2a. \A n : kept(n) \subseteq group(n)
  BY <1>2 DEF Kept
<1>2b. ASSUME \A i \in Starts(ds) : ds[i].alt < 255, NEW n
       PROVE  kept(n) = group(n)
  <2>1. ASSUME NEW i \in group(n) PROVE i \in Kept(cfg, n)
    <3>1. \A j \in group(n) : cfg.interfaces[j].descriptor.alt # 255
      <4>1. \A j \in Starts(ds) : ds[j].alt \in 0..255 /\ ds[j].alt < 255
        BY <1>2b DEF WellFormed, Starts
      <4> QED
        BY <4>1, <1>1
    <3> QED
      BY <3>1, <1>2 DEF Kept
  <2> QED
    BY <2>1, <1>2a
<1>3. \A n : {cfg.interfaces[i].descriptor.alt : i \in kept(n)} = alts(n)
  BY <1>1, <1>2a
<1>4. \A n : AlternateCount(cfg, n) = IF kept(n) = {} THEN 0 ELSE 1 + Max(alts(n))
  BY <1>3 DEF AlternateCount
<1>5. \A i \in Starts(ds) : ds[i].num \in Numbers(cfg) /\ ds[i].alt \in 0..255
  BY <1>1 DEF WellFormed, Starts
<1> HIDE DEF kept
<1>6. ASSUME NEW n, kept(n) # {}
      PROVE  /\ Max(alts(n)) \in 0..255
             /\ \A i \in kept(n) : ds[i].alt <= Max(alts(n))
  <2>1. alts(n) \in SUBSET (0..255) /\ alts(n) # {}
    BY <1>2a, <1>5, <1>6
  <2>2. Max(alts(n)) \in alts(n) /\ \A x \in alts(n) : x <= Max(alts(n))
    <3> HIDE DEF alts
    <3> QED
      BY <2>1, Greatest
  <2> QED
    BY <2>1, <2>2
<1>7. ASSUME NEW n
      PROVE  AlternateCount(cfg, n) \in 0..256
  <2>1. CASE kept(n) = {}
    <3>1. AlternateCount(cfg, n) = 0
      BY <2>1, <1>4
    <3> QED
      BY <3>1
  <2>2. CASE kept(n) # {}
    <3>1. AlternateCount(cfg, n) = 1 + Max(alts(n)) /\ Max(alts(n)) \in 0..255
      BY <2>2, <1>4, <1>6
    <3> HIDE DEF alts
    <3> QED
      BY <3>1
  <2> QED
    BY <2>1, <2>2
<1>8. ASSUME \A m \in Starts(ds) : ds[m].alt < 255, NEW i \in Starts(ds)
      PROVE  ds[i].alt \in 0..(AlternateCount(cfg, ds[i].num) - 1)
  <2>1. i \in kept(ds[i].num)
    BY <1>2b, <1>8
  <2>2. /\ Max(alts(ds[i].num)) \in 0..255 /\ ds[i].alt <= Max(alts(ds[i].num))
        /\ AlternateCount(cfg, ds[i].num) = 1 + Max(alts(ds[i].num))
    BY <2>1, <1>4, <1>6
  <2>3. ds[i].alt \in 0..255
    BY <1>5
  <2> HIDE DEF alts
  <2> QED
    BY <2>2, <2>3
<1> QED
  BY <1>5, <1>7, <1>8 DEF cfg

\* Every descriptor that is relayed is an endpoint descriptor of the device, and its
\* numbers are bounded.
LEMMA RelayedIsSent ==
  ASSUME NEW ds, NEW answers, WellFormed(ds),
         \A i \in Starts(ds) : Interfaces(ds)[i] # NoInterface,
         NoNull(Configuration(ds, answers)), NEW r \in Relayed(Configuration(ds, answers))
  PROVE  /\ r = <<r[1], r[2], r[3]>>
         /\ r[1] \in 0..ds[1].ifs /\ r[2] \in 0..256 /\ r[3] \in 0..255
         /\ \E j \in DOMAIN ds : /\ ds[j].t = "ep" /\ ds[j].type # "iso"
                                /\ EndpointAt(Configuration(ds, answers), r) = Endpoint(ds[j])
<1> DEFINE cfg == Configuration(ds, answers)
           i == Max(StartsOf(ds, r[1], r[2]))
           J == EndpointsAt(ds, i)
<1>0. PICK s \in Settings(cfg) : \E k \in DOMAIN Alternate(cfg, s[1], s[2]).endpoints : r = <<s[1], s[2], k>>
  BY DEF Relayed
<1>1. PICK k \in DOMAIN Alternate(cfg, s[1], s[2]).endpoints : r = <<s[1], s[2], k>>
  BY <1>0
<1>2. EndpointAt(cfg, r).type # "iso"
  BY DEF Relayed
<1>3a. PICK n \in Numbers(cfg) : \E a \in 0..(AlternateCount(cfg, n) - 1) : s = <<n, a>>
  BY DEF Settings
<1>3. PICK a \in 0..(AlternateCount(cfg, n) - 1) : s = <<n, a>>
  BY <1>3a
<1>4. r = <<n, a, k>> /\ r[1] = n /\ r[2] = a /\ r[3] = k /\ s[1] = n /\ s[2] = a
  BY <1>1, <1>3
<1>5. /\ Alternate(cfg, n, a) # NoInterface
      /\ Alternate(cfg, n, a).endpoints[k] # NoEndpoint
  BY <1>1, <1>4 DEF NoNull, SettingsThere
<1>6. i \in StartsOf(ds, n, a) /\ Alternate(cfg, n, a) = Interfaces(ds)[i]
  BY <1>4, <1>5, Alternates
<1>7. i \in Starts(ds)
  BY <1>6 DEF StartsOf
<1>9. n \in 0..ds[1].ifs
  <2>1. Numbers(cfg) = 0..(ds[1].ifs - 1)
    BY Parts
  <2>2. ds[1].ifs \in Nat
    BY DEF WellFormed
  <2> HIDE DEF cfg
  <2> QED
    BY <2>1, <2>2
<1>10. a \in 0..256
  <2>1. AlternateCount(cfg, n) \in 0..256
    BY Counts
  <2> QED
    BY <2>1, <1>3
<1>11. /\ ds[i].eps \in 0..255 /\ DOMAIN Interfaces(ds)[i].endpoints = 1..ds[i].eps
       /\ \A m \in DOMAIN Interfaces(ds)[i].endpoints :
             IF m <= Cardinality(J)
             THEN Nth(J, m) \in J /\ Interfaces(ds)[i].endpoints[m] = Endpoint(ds[Nth(J, m)])
             ELSE Interfaces(ds)[i].endpoints[m] = NoEndpoint
  <2> HIDE DEF i
  <2> QED
    BY <1>7, EndpointsOf
<1>12. k \in DOMAIN Interfaces(ds)[i].endpoints
  BY <1>1, <1>4, <1>6
<1> HIDE DEF cfg, i
<1>13. EndpointAt(cfg, r) = Endpoint(ds[Nth(J, k)]) /\ Nth(J, k) \in J
  BY <1>4, <1>5, <1>6, <1>11, <1>12 DEF EndpointAt
<1>14. ds[Nth(J, k)].t = "ep" /\ Nth(J, k) \in DOMAIN ds
  BY <1>13 DEF EndpointsAt, Within
<1>15. k \in 0..255
  <2> DEFINE eps == ds[i].eps
  <2>1. eps \in 0..255 /\ k \in 1..eps
    BY <1>11, <1>12
  <2> HIDE DEF eps
  <2> QED
    BY <2>1
<1>16. ds[Nth(J, k)].type # "iso"
  BY <1>2, <1>13 DEF Endpoint
<1> QED
  BY <1>4, <1>9, <1>10, <1>13, <1>14, <1>15, <1>16 DEF cfg

\* Every endpoint descriptor of the device that is in order is relayed.
LEMMA SentIsRelayed ==
  ASSUME NEW ds, NEW answers, WellFormed(ds),
         \A i \in Starts(ds) : Interfaces(ds)[i] # NoInterface,
         Ordered(ds), Matching(ds), NEW j \in DOMAIN ds, ds[j].t = "ep", ds[j].type # "iso"
  PROVE  \E r \in Relayed(Configuration(ds, answers)) :
            EndpointAt(Configuration(ds, answers), r) = Endpoint(ds[j])
<1> DEFINE cfg == Configuration(ds, answers)
           B == {i \in Starts(ds) : i < j}
           i == Max(B)
           n == ds[i].num
           a == ds[i].alt
           J == EndpointsAt(ds, i)
<1>1. Len(ds) \in Nat /\ DOMAIN ds = 1..Len(ds)
  BY DEF WellFormed
<1>2. B \in SUBSET (0..Len(ds)) /\ B # {}
  BY <1>1 DEF Starts, Ordered
<1>3. i \in B /\ \A m \in B : m <= i
  <2> HIDE DEF B
  <2> QED
    BY <1>1, <1>2, Greatest
<1>4. i \in Starts(ds) /\ i < j /\ i \in Nat
  BY <1>2, <1>3
<1>5. j \in J
  <2>1. ASSUME NEW m \in (i + 1)..j PROVE m \notin Starts(ds)
    <3> HIDE DEF i
    <3>1. m # j => m \notin B
      BY <1>3, <1>4, <2>1
    <3>2. j \notin Starts(ds)
      BY DEF Starts
    <3>3. j \in Nat
      BY <1>1
    <3> QED
      BY <1>4, <2>1, <3>1, <3>2, <3>3
  <2> HIDE DEF i
  <2> QED
    BY <1>4, <2>1 DEF Within, EndpointsAt
<1> HIDE DEF i
<1>6. StartsOf(ds, n, a) = {i}
  <2>1. \A m \in Starts(ds) : ds[m].alt # 255
    <3>1. \A m \in Starts(ds) : ds[m].alt \in 0..255 /\ ds[m].alt < 255
      BY DEF WellFormed, Starts, Ordered
    <3> QED
      BY <3>1
  <2>2. i \in StartsOf(ds, n, a)
    BY <1>4, <2>1 DEF StartsOf
  <2>3. \A m \in StartsOf(ds, n, a) : m = i
    BY <1>4 DEF StartsOf, Ordered
  <2> QED
    BY <2>2, <2>3
<1>7. Alternate(cfg, n, a) = Interfaces(ds)[i]
  BY <1>6, Alternates
<1>8. <<n, a>> \in Settings(cfg)
  <2>1. n \in Numbers(cfg) /\ a \in 0..(AlternateCount(cfg, n) - 1)
    BY <1>4, Counts DEF Ordered
  <2> QED
    BY <2>1 DEF Settings
<1>9. PICK k \in DOMAIN Interfaces(ds)[i].endpoints : Interfaces(ds)[i].endpoints[k] = Endpoint(ds[j])
  <2>1. Cardinality(J) = ds[i].eps
    BY <1>4 DEF Matching
  <2>2. ds[i].eps \in 0..255
    BY <1>4 DEF WellFormed, Starts
  <2>3. Cardinality(J) <= ds[i].eps
    BY <2>1, <2>2
  <2> QED
    BY <1>4, <1>5, <2>3, EndpointsOf
<1> DEFINE r == <<n, a, k>>
<1> HIDE DEF cfg, n, a, J
<1>12. EndpointAt(cfg, r) = Endpoint(ds[j]) /\ Endpoint(ds[j]).type # "iso"
  BY <1>7, <1>9 DEF EndpointAt, Endpoint
<1>13. r \in Relayed(cfg)
  <2>1. r \in UNION {{<<s[1], s[2], m>> : m \in DOMAIN Alternate(cfg, s[1], s[2]).endpoints} :
                         s \in Settings(cfg)}
    BY <1>7, <1>8, <1>9
  <2> QED
    BY <2>1, <1>12 DEF Relayed
<1> QED
  BY <1>12, <1>13 DEF cfg

\* Of the descriptors of an endpoint one is the last.
LEMMA LatestIsThere ==
  ASSUME NEW b \in Nat, NEW rs, rs # {},
         \A r \in rs : r = <<r[1], r[2], r[3]>> /\ r[1] \in 0..b /\ r[2] \in 0..b /\ r[3] \in 0..b
  PROVE  Latest(rs) \in rs
<1> DEFINE N == {r[1] : r \in rs}
           n == Max(N)
           A == {r[2] : r \in {p \in rs : p[1] = n}}
           a == Max(A)
           K == {r[3] : r \in {p \in rs : p[1] = n /\ p[2] = a}}
           k == Max(K)
<1>1. n \in N /\ \A x \in N : x <= n
  <2>1. N \in SUBSET (0..b) /\ N # {}
    OBVIOUS
  <2> HIDE DEF N
  <2> QED
    BY <2>1, Greatest
<1>2. a \in A /\ \A x \in A : x <= a
  <2>1. A \in SUBSET (0..b) /\ A # {}
    <3> HIDE DEF n
    <3> QED
      BY <1>1
  <2> HIDE DEF A
  <2> QED
    BY <2>1, Greatest
<1>3. k \in K /\ \A x \in K : x <= k
  <2>1. K \in SUBSET (0..b) /\ K # {}
    <3> HIDE DEF n, a
    <3> QED
      BY <1>2
  <2> HIDE DEF K
  <2> QED
    BY <2>1, Greatest
<1> HIDE DEF n, a, k
<1>4. PICK r \in rs : r[1] = n /\ r[2] = a /\ r[3] = k
  BY <1>3
<1>5. ASSUME NEW p \in rs \ {r}
      PROVE  Precedes(p, r)
  <2>1. DOMAIN p = 1..3 /\ p[1] \in Int /\ p[2] \in Int /\ p[3] \in Int
    <3>1. p = <<p[1], p[2], p[3]>> /\ p[1] \in 0..b /\ p[2] \in 0..b /\ p[3] \in 0..b
      OBVIOUS
    <3> QED
      BY <3>1
  <2>2. r[1] \in Int /\ r[2] \in Int /\ r[3] \in Int
    OBVIOUS
  <2>3. p[1] <= n
    BY <1>1
  <2>4. p[1] = n => p[2] <= a
    BY <1>2
  <2>5. p[1] = n /\ p[2] = a => p[3] <= k
    BY <1>3
  <2>6. ~(p[1] = n /\ p[2] = a /\ p[3] = k)
    BY <1>4
  <2>7. CASE p[1] < r[1]
    <3>1. 1 \in DOMAIN p /\ \A j \in 1..(1 - 1) : p[j] = r[j]
      BY <2>1
    <3> QED
      BY <2>7, <3>1 DEF Precedes
  <2>8. CASE p[1] = r[1] /\ p[2] < r[2]
    <3>1. 2 \in DOMAIN p /\ \A j \in 1..(2 - 1) : p[j] = r[j]
      BY <2>1, <2>8
    <3> QED
      BY <2>8, <3>1 DEF Precedes
  <2>9. CASE p[1] = r[1] /\ p[2] = r[2] /\ p[3] < r[3]
    <3>1. 3 \in DOMAIN p /\ \A j \in 1..(3 - 1) : p[j] = r[j]
      BY <2>1, <2>9
    <3> QED
      BY <2>9, <3>1 DEF Precedes
  <2> QED
    BY <1>4, <2>1, <2>2, <2>3, <2>4, <2>5, <2>6, <2>7, <2>8, <2>9
<1> QED
  BY <1>5 DEF Latest

\* Descriptors that are alike but for sizes and intervals.
SameShape(full, high) ==
    /\ DOMAIN full = DOMAIN high
    /\ \A i \in DOMAIN full :
          /\ full[i].t = high[i].t
          /\ full[i].t = "if" => /\ full[i].num = high[i].num /\ full[i].alt = high[i].alt
                                 /\ full[i].eps = high[i].eps
          /\ full[i].t = "ep" => Place(full[i]) = Place(high[i])

\* They make settings with the same endpoints in the same places.
LEMMA SameEndpoints ==
  ASSUME NEW ds, NEW es, NEW answers, WellFormed(ds), WellFormed(es), SameShape(ds, es),
         Pointers(ds), Pointers(es),
         NEW n, NEW a, Alternate(Configuration(ds, answers), n, a) # NoInterface
  PROVE  LET own == Alternate(Configuration(ds, answers), n, a)
             other == Alternate(Configuration(es, answers), n, a)
         IN /\ other # NoInterface
            /\ DOMAIN own.endpoints = DOMAIN other.endpoints
            /\ \A k \in DOMAIN own.endpoints :
                  own.endpoints[k] # NoEndpoint =>
                     /\ other.endpoints[k] # NoEndpoint
                     /\ Place(own.endpoints[k]) = Place(other.endpoints[k])
<1> DEFINE own == Alternate(Configuration(ds, answers), n, a)
           other == Alternate(Configuration(es, answers), n, a)
           i == Max(StartsOf(ds, n, a))
           J == EndpointsAt(ds, i)
<1>0. /\ \A m \in Starts(ds) : Interfaces(ds)[m] # NoInterface
      /\ \A m \in Starts(es) : Interfaces(es)[m] # NoInterface
      /\ \A j \in DOMAIN es : es[j].t = "ep" => Endpoint(es[j]) # NoEndpoint
  BY DEF Pointers
<1>1. Starts(ds) = Starts(es) /\ StartsOf(ds, n, a) = StartsOf(es, n, a)
  <2>1. Starts(ds) = Starts(es)
    BY DEF Starts, SameShape
  <2>2. \A m \in Starts(ds) : ds[m].num = es[m].num /\ ds[m].alt = es[m].alt
    BY DEF Starts, SameShape
  <2> QED
    BY <2>1, <2>2 DEF StartsOf
<1>1a. StartsOf(ds, n, a) # {} /\ i \in StartsOf(ds, n, a) /\ own = Interfaces(ds)[i]
  BY <1>0, Alternates
<1>2. StartsOf(ds, n, a) # {} /\ i \in Starts(ds) /\ own = Interfaces(ds)[i]
  BY <1>1a DEF StartsOf
<1>3. other # NoInterface /\ other = Interfaces(es)[i]
  BY <1>0, <1>1, <1>2, Alternates
<1>4. EndpointsAt(es, i) = J /\ es[i].eps = ds[i].eps
  BY <1>1, <1>2 DEF EndpointsAt, Within, SameShape, Starts
<1>5. /\ DOMAIN own.endpoints = 1..ds[i].eps /\ DOMAIN other.endpoints = 1..ds[i].eps
      /\ \A k \in 1..ds[i].eps :
            own.endpoints[k] # NoEndpoint =>
               /\ Nth(J, k) \in J /\ own.endpoints[k] = Endpoint(ds[Nth(J, k)])
               /\ other.endpoints[k] = Endpoint(es[Nth(J, k)])
  <2> HIDE DEF i, own, other
  <2>1. /\ DOMAIN own.endpoints = 1..ds[i].eps
        /\ \A k \in 1..ds[i].eps :
              IF k <= Cardinality(J) THEN Nth(J, k) \in J /\ own.endpoints[k] = Endpoint(ds[Nth(J, k)])
                                     ELSE own.endpoints[k] = NoEndpoint
    BY <1>2, EndpointsOf
  <2>2. /\ DOMAIN other.endpoints = 1..ds[i].eps
        /\ \A k \in 1..ds[i].eps :
              k <= Cardinality(J) => other.endpoints[k] = Endpoint(es[Nth(J, k)])
    BY <1>1, <1>2, <1>3, <1>4, EndpointsOf
  <2> QED
    BY <2>1, <2>2
<1>6. \A j \in J : Place(Endpoint(ds[j])) = Place(Endpoint(es[j])) /\ Endpoint(es[j]) # NoEndpoint
  <2>1. \A j \in J : j \in DOMAIN ds /\ j \in DOMAIN es /\ ds[j].t = "ep" /\ es[j].t = "ep"
                    /\ Place(ds[j]) = Place(es[j])
    BY DEF EndpointsAt, Within, SameShape
  <2> QED
    BY <1>0, <2>1 DEF Place, Endpoint
<1> HIDE DEF J, own, other
<1>7. \A k \in DOMAIN own.endpoints :
         own.endpoints[k] # NoEndpoint =>
            /\ other.endpoints[k] # NoEndpoint
            /\ Place(own.endpoints[k]) = Place(other.endpoints[k])
  BY <1>5, <1>6
<1>8. DOMAIN own.endpoints = DOMAIN other.endpoints
  BY <1>5
<1> QED
  BY <1>3, <1>7, <1>8 DEF own, other
------------------------------------------------------------------------------
(***************************************************************************)
(* That no regular device with a sensible command line brings the process   *)
(* down, and that the endpoints shown and relayed are the device's.  The    *)
(* invariant says what is known of the device model and of the host's       *)
(* choice at each place of the setup: the model's configurations are those  *)
(* the device sent, and what is opened, created and connected afterwards    *)
(* belongs to one of them.                                                  *)
(***************************************************************************)

\* The places before the host has set a configuration, and after that.
Unset == {"claim", "control", "threads", "host", "gadget", "relay"}
Chosen == {"open", "join", "apply", "inject", "running"}

Modelled(cs) == [i \in DOMAIN cs |-> Configuration(cs[i], dev.alternates)]
ModelRead == /\ model.configs = Modelled(Reported)
             /\ model.qualifier \in {<<>>, Modelled(OtherSpeed)}

\* The plugins that are filters, or could be, come from the command line.
FiltersLoaded ==
    \A i \in DOMAIN filters : /\ filters[i] \in ToSet(Loaded(CommandLine))
                              /\ filters[i].type # "injector"

\* What is set: first what the device says, later what the host has asked for.
ConfigurationKnown ==
    /\ pc \in Unset => current = dev.current
    /\ pc \in Chosen =>
          /\ asked \in Values \ {0} /\ FullSpeed # NoConfiguration
          /\ current = IF asked \in 1..Len(Reported) THEN asked ELSE -1
    /\ pc = "open" => todo \subseteq Settings(FullSpeed)
    /\ pc \in {"join", "apply", "inject", "running"} => ActiveConfiguration # NoConfiguration

\* A descriptor pair that has been written is one of those of a setting.
PairOf(e) ==
    \E s \in Settings(FullSpeed) :
        /\ Alternate(FullSpeed, s[1], s[2]) # NoInterface
        /\ \E k \in DOMAIN Pairs(s) : /\ opened[e] = Pairs(s)[k] /\ Pairs(s)[k][1] # NoEndpoint
                                      /\ Place(Pairs(s)[k][1]) = e
OpenedKnown ==
    /\ pc \in Unset \cup {"load", "read"} => DOMAIN opened = {}
    /\ \A e \in DOMAIN opened : ModelRead /\ FullSpeed # NoConfiguration /\ PairOf(e)

\* The endpoints to relay, and the queues they get.
Places(cfg) == {Place(EndpointAt(cfg, r)) : r \in Relayed(cfg)}
OneEach(f) == \A d, e \in DOMAIN f : f[d] = f[e] => d = e
QueuesKnown ==
    /\ OneEach(writer)
    /\ pc \in {"threads", "host", "gadget", "relay", "open", "join"} =>
          DOMAIN writer = {Control} /\ writer[Control] = ReaderSend
    /\ pc = "join" => /\ DOMAIN queue = Places(ActiveConfiguration) /\ OneEach(queue)
                      /\ \A e \in DOMAIN queue : queue[e] # ReaderSend
    /\ pc \in {"apply", "inject", "running"} =>
          DOMAIN writer = {Control} \cup Places(ActiveConfiguration)

SetupInv == /\ dev \in Devices
            /\ pc \in Unset \cup Chosen => ModelRead
            /\ FiltersLoaded /\ ConfigurationKnown /\ OpenedKnown /\ QueuesKnown
            /\ RegularDevicesWork

\* What is assumed of the device, for the speed it is at and for the other.
LEMMA SpeedFacts ==
  ASSUME dev \in Devices, NEW cs \in {Reported, OtherSpeed}
  PROVE  /\ Len(cs) \in Nat /\ DOMAIN cs = 1..Len(cs)
         /\ \A i \in DOMAIN cs :
               /\ WellFormed(cs[i]) /\ Configuration(cs[i], dev.alternates) # NoConfiguration
               /\ Pointers(cs[i])
               /\ \A j \in Starts(cs[i]) : Interfaces(cs[i])[j] # NoInterface
<1>1. cs \in {dev.full, dev.high}
  BY DEF Reported, OtherSpeed
<1> QED
  BY <1>1, DevicesAssumption, NullAssumption DEF Pointers

\* Which configurations the model has.
LEMMA ModelledFacts ==
  ASSUME dev \in Devices, NEW cs \in {Reported, OtherSpeed}
  PROVE  /\ Len(Modelled(cs)) = Len(cs) /\ DOMAIN Modelled(cs) = 1..Len(cs)
         /\ \A v : /\ v \in 1..Len(cs) =>
                         GetConfiguration(Modelled(cs), v) = Configuration(cs[v], dev.alternates)
                   /\ GetConfiguration(Modelled(cs), v) # NoConfiguration <=> v \in 1..Len(cs)
<1>1. Len(cs) \in Nat /\ DOMAIN cs = 1..Len(cs)
  BY SpeedFacts
<1>2. Len(Modelled(cs)) = Len(cs) /\ DOMAIN Modelled(cs) = 1..Len(cs)
  BY <1>1 DEF Modelled
<1>3. ASSUME NEW v \in 1..Len(cs)
      PROVE  /\ GetConfiguration(Modelled(cs), v) = Configuration(cs[v], dev.alternates)
             /\ Configuration(cs[v], dev.alternates) # NoConfiguration
  BY <1>1, <1>2, SpeedFacts DEF GetConfiguration, Modelled
<1>4. \A v : v \notin 1..Len(cs) => GetConfiguration(Modelled(cs), v) = NoConfiguration
  BY <1>2 DEF GetConfiguration
<1> QED
  BY <1>2, <1>3, <1>4

\* What the manager gives to the host proxy is a configuration the device sent,
\* at one of its speeds.
LEMMA ChoiceFacts ==
  ASSUME dev \in Devices, ModelRead, NEW v
  PROVE  /\ FullSpeedOf(v) # NoConfiguration =>
               \E cs \in {Reported, OtherSpeed} :
                  v \in 1..Len(cs) /\ FullSpeedOf(v) = Configuration(cs[v], dev.alternates)
         /\ Len(model.configs) = Len(Reported)
         /\ GetConfiguration(model.configs, v) # NoConfiguration <=> v \in 1..Len(Reported)
         /\ v \in 1..Len(Reported) =>
               GetConfiguration(model.configs, v) = Configuration(Reported[v], dev.alternates)
<1>1. ASSUME NEW cs \in {Reported, OtherSpeed}
      PROVE  /\ GetConfiguration(Modelled(cs), v) # NoConfiguration <=> v \in 1..Len(cs)
             /\ v \in 1..Len(cs) => GetConfiguration(Modelled(cs), v) = Configuration(cs[v], dev.alternates)
  BY ModelledFacts
<1>2. model.configs = Modelled(Reported) /\ (model.qualifier = <<>> \/ model.qualifier = Modelled(OtherSpeed))
  BY DEF ModelRead
<1>3. Len(model.configs) = Len(Reported)
  BY <1>2, ModelledFacts
<1> QED
  BY <1>1, <1>2, <1>3 DEF FullSpeedOf

\* If the settings of a configuration are there and each has as many endpoints as it
\* says, none of them is a null pointer.
LEMMA MatchingIsThere ==
  ASSUME NEW ds, NEW answers, WellFormed(ds), Pointers(ds), Matching(ds),
         SettingsThere(Configuration(ds, answers))
  PROVE  NoNull(Configuration(ds, answers))
<1> DEFINE cfg == Configuration(ds, answers)
<1> SUFFICES ASSUME NEW s \in Settings(cfg), NEW k \in DOMAIN Alternate(cfg, s[1], s[2]).endpoints
             PROVE  Alternate(cfg, s[1], s[2]).endpoints[k] # NoEndpoint
  BY DEF NoNull
<1> DEFINE i == Max(StartsOf(ds, s[1], s[2]))
           J == EndpointsAt(ds, i)
           es == Interfaces(ds)[i].endpoints
<1>1. Alternate(cfg, s[1], s[2]) # NoInterface
  BY DEF SettingsThere
<1>1a. \A m \in Starts(ds) : Interfaces(ds)[m] # NoInterface
  BY DEF Pointers
<1>1b. i \in StartsOf(ds, s[1], s[2]) /\ Alternate(cfg, s[1], s[2]) = Interfaces(ds)[i]
  BY <1>1, <1>1a, Alternates
<1>2. i \in Starts(ds) /\ Alternate(cfg, s[1], s[2]) = Interfaces(ds)[i]
  BY <1>1b DEF StartsOf
<1> HIDE DEF i
<1>3. Cardinality(J) = ds[i].eps
  BY <1>2 DEF Matching
<1>4. /\ ds[i].eps \in 0..255 /\ DOMAIN es = 1..ds[i].eps
      /\ \A m \in DOMAIN es : m <= Cardinality(J) => Nth(J, m) \in J /\ es[m] = Endpoint(ds[Nth(J, m)])
  BY <1>2, EndpointsOf
<1>5. k \in DOMAIN es
  BY <1>2
<1>6. k \in 1..ds[i].eps
  BY <1>4, <1>5
<1>7. k <= Cardinality(J)
  <2> HIDE DEF J
  <2> QED
    BY <1>3, <1>4, <1>6
<1>8. Nth(J, k) \in J /\ es[k] = Endpoint(ds[Nth(J, k)])
  BY <1>4, <1>5, <1>7
<1>9. es[k] # NoEndpoint
  BY <1>8 DEF EndpointsAt, Within, Pointers
<1> QED
  BY <1>2, <1>9

\* A regular device has no null pointers where the code goes.
LEMMA RegularFacts ==
  ASSUME dev \in Devices, Regular, NEW cs \in {Reported, OtherSpeed}, NEW v \in 1..Len(cs)
  PROVE  LET cfg == Configuration(cs[v], dev.alternates)
         IN /\ NoNull(cfg) /\ \A n \in Numbers(cfg) : Active(cfg, n) # NoInterface /\ <<n, 0>> \in Settings(cfg)
            /\ Ordered(cs[v]) /\ Matching(cs[v]) /\ cs[v][1].value = v
            /\ ~Overflows(cs[v]) /\ (~dev.highspeed => ~Strays(cfg))
<1> DEFINE cfg == Configuration(cs[v], dev.alternates)
<1>1. DOMAIN cs = 1..Len(cs) /\ WellFormed(cs[v]) /\ Pointers(cs[v])
  BY SpeedFacts
<1>2. /\ NumberedFromOne(cs) /\ NoHoles(cs) /\ Answers(cs)
      /\ \A i \in DOMAIN cs : /\ Ordered(cs[i]) /\ Matching(cs[i])
                              /\ ~dev.highspeed => ~Strays(Configuration(cs[i], dev.alternates))
  BY DEF Regular
<1>3. /\ SettingsThere(cfg) /\ Ordered(cs[v]) /\ Matching(cs[v]) /\ cs[v][1].value = v
      /\ ~dev.highspeed => ~Strays(cfg)
  BY <1>1, <1>2 DEF NumberedFromOne, NoHoles
<1>3a. NoNull(cfg)
  BY <1>1, <1>3, MatchingIsThere
<1>3b. ~Overflows(cs[v])
  <2> SUFFICES ASSUME NEW i \in Starts(cs[v]), Cardinality(EndpointsAt(cs[v], i)) > cs[v][i].eps
               PROVE  FALSE
    BY DEF Overflows
  <2>1. Cardinality(EndpointsAt(cs[v], i)) = cs[v][i].eps
    BY <1>3 DEF Matching
  <2>2. cs[v][i].eps \in 0..255
    BY <1>1 DEF WellFormed, Starts
  <2> DEFINE has == Cardinality(EndpointsAt(cs[v], i))
             eps == cs[v][i].eps
  <2>3. has > eps /\ has = eps /\ eps \in 0..255
    BY <2>1, <2>2
  <2> HIDE DEF has, eps
  <2> QED
    BY ONLY <2>3
<1>4. ASSUME NEW n \in Numbers(cfg)
      PROVE  Active(cfg, n) # NoInterface /\ <<n, 0>> \in Settings(cfg)
  <2>1. cfg.active[n] \in 0..(AlternateCount(cfg, n) - 1)
    BY <1>1, <1>2 DEF Answers
  <2>2. AlternateCount(cfg, n) \in 0..256
    BY <1>1, Counts
  <2> HIDE DEF cfg
  <2>3. 0 \in 0..(AlternateCount(cfg, n) - 1)
    <3> DEFINE count == AlternateCount(cfg, n)
               active == cfg.active[n]
    <3> HIDE DEF count, active
    <3>1. count \in 0..256 /\ active \in 0..(count - 1)
      BY <2>1, <2>2 DEF count, active
    <3>2. 0 \in 0..(count - 1)
      BY <3>1
    <3> QED
      BY <3>2 DEF count
  <2>4. <<n, cfg.active[n]>> \in Settings(cfg) /\ <<n, 0>> \in Settings(cfg)
    BY <2>1, <2>3 DEF Settings
  <2> QED
    BY <1>3, <2>4 DEF SettingsThere, Active, cfg
<1> QED
  BY <1>3, <1>3a, <1>3b, <1>4

\* What the invariant reads apart from the place.
KnownSetup == <<dev, options, filters, model, current, asked, opened, writer, queue>>

\* What follows from the device and the command line stays with them.
LEMMA WorldStays ==
  ASSUME UNCHANGED world
  PROVE  /\ Reported' = Reported /\ OtherSpeed' = OtherSpeed /\ Values' = Values
         /\ (\A cs : Modelled(cs)' = Modelled(cs)) /\ Regular' = Regular /\ Alike' = Alike
         /\ Loaded(CommandLine)' = Loaded(CommandLine) /\ Sensible' = Sensible
<1> USE DEF world
<1>1. Reported' = Reported /\ OtherSpeed' = OtherSpeed
  BY DEF Reported, OtherSpeed
<1>2. Values' = Values
  BY <1>1 DEF Values
<1>3. \A cs : Modelled(cs)' = Modelled(cs)
  BY DEF Modelled
<1>4. ASSUME NEW cs
      PROVE  /\ NumberedFromOne(cs)' = NumberedFromOne(cs) /\ NoHoles(cs)' = NoHoles(cs)
             /\ Answers(cs)' = Answers(cs)
  BY DEF NumberedFromOne, NoHoles, Gap, Answers
<1>4a. ASSUME NEW cs
       PROVE  (\A i \in DOMAIN cs :
                     /\ Ordered(cs[i]) /\ Matching(cs[i])
                     /\ ~dev.highspeed => ~Strays(Configuration(cs[i], dev.alternates)))'
              = (\A i \in DOMAIN cs :
                     /\ Ordered(cs[i]) /\ Matching(cs[i])
                     /\ ~dev.highspeed => ~Strays(Configuration(cs[i], dev.alternates)))
  OBVIOUS
<1>5. Regular' = Regular
  BY <1>1, <1>4, <1>4a DEF Regular
<1>6. Alike' = Alike
  BY DEF Alike
<1>7. Loaded(CommandLine)' = Loaded(CommandLine) /\ Sensible' = Sensible
  BY DEF CommandLine, Sensible, NumbersFor
<1> QED
  BY <1>1, <1>2, <1>3, <1>5, <1>6, <1>7

\* What follows from the model and the host's choice stays with them.
LEMMA ChoiceStays ==
  ASSUME UNCHANGED <<dev, model>>
  PROVE  /\ ModelRead' = ModelRead
         /\ current' = current => ActiveConfiguration' = ActiveConfiguration
         /\ asked' = asked => /\ FullSpeed' = FullSpeed /\ HighSpeed' = HighSpeed
                              /\ \A s : Pairs(s)' = Pairs(s)
                              /\ opened' = opened => \A e : PairOf(e)' = PairOf(e)
<1>1. ModelRead' = ModelRead
  BY DEF ModelRead, Modelled, Reported, OtherSpeed
<1>2. current' = current => ActiveConfiguration' = ActiveConfiguration
  BY DEF ActiveConfiguration
<1>3. asked' = asked => FullSpeed' = FullSpeed
  BY DEF FullSpeed, FullSpeedOf
<1>4. asked' = asked => HighSpeed' = HighSpeed
  BY DEF HighSpeed
<1>5. ASSUME asked' = asked, NEW s PROVE Pairs(s)' = Pairs(s)
  BY <1>3, <1>4, <1>5 DEF Pairs, OtherSetting
<1>6. ASSUME asked' = asked, opened' = opened, NEW e PROVE PairOf(e)' = PairOf(e)
  BY <1>3, <1>5, <1>6 DEF PairOf
<1> QED
  BY <1>1, <1>2, <1>3, <1>4, <1>5, <1>6

\* A step after which no more is known, and that goes on to the next place where no
\* more need be known, or ends the process.
Onward == {<<"claim", "control">>, <<"threads", "host">>, <<"host", "gadget">>, <<"gadget", "relay">>,
           <<"apply", "inject">>, <<"inject", "running">>}
MovesOn == /\ UNCHANGED KnownSetup
           /\ \/ pc' = pc /\ todo' = todo
              \/ <<pc, pc'>> \in Onward
              \/ pc' \in {"exit", "tunnel"}
              \/ pc' = "crash" /\ ~(Regular /\ Sensible)

\* Such a step keeps the invariant.
LEMMA MovingOnKeepsSetup == SetupInv /\ MovesOn => SetupInv'
<1> SUFFICES ASSUME SetupInv, MovesOn PROVE SetupInv'
  OBVIOUS
<1> USE DEF KnownSetup
<1>1. UNCHANGED world /\ UNCHANGED KnownSetup
  BY DEF MovesOn, world
<1>2. /\ Reported' = Reported /\ OtherSpeed' = OtherSpeed /\ Values' = Values
      /\ Regular' = Regular /\ Loaded(CommandLine)' = Loaded(CommandLine) /\ Sensible' = Sensible
  BY <1>1, WorldStays
<1>3. /\ ModelRead' = ModelRead /\ ActiveConfiguration' = ActiveConfiguration
      /\ FullSpeed' = FullSpeed /\ HighSpeed' = HighSpeed /\ \A e : PairOf(e)' = PairOf(e)
  BY <1>1, ChoiceStays
<1>4. /\ pc' \in Unset => pc \in Unset \ {"control"} \/ pc = pc'
      /\ pc' \in Chosen => pc \in Chosen
      /\ pc' \in {"load", "read", "open", "join"} => pc = pc'
      /\ pc' = "open" => todo' = todo
      /\ pc' \in {"threads", "host", "gadget", "relay"} => pc \in {"threads", "host", "gadget", "relay"}
      /\ pc' \in {"apply", "inject", "running"} => pc \in {"apply", "inject", "running"}
  BY DEF MovesOn, Onward, Unset, Chosen
<1>5. dev' \in Devices /\ FiltersLoaded'
  BY <1>1, <1>2 DEF SetupInv, FiltersLoaded
<1>6. pc' \in Unset \cup Chosen => ModelRead'
  BY <1>3, <1>4 DEF SetupInv
<1>7. ConfigurationKnown'
  BY <1>1, <1>2, <1>3, <1>4 DEF SetupInv, ConfigurationKnown, Unset, Chosen
<1>8. OpenedKnown'
  BY <1>1, <1>3, <1>4 DEF SetupInv, OpenedKnown, Unset, Chosen
<1>9. QueuesKnown'
  BY <1>1, <1>3, <1>4 DEF SetupInv, QueuesKnown, OneEach, Places
<1>10. RegularDevicesWork'
  <2>1. pc' = "crash" => ~(Regular /\ Sensible)
    BY DEF MovesOn, Onward, SetupInv, RegularDevicesWork
  <2> QED
    BY <1>2, <2>1 DEF RegularDevicesWork
<1> QED
  BY <1>5, <1>6, <1>7, <1>8, <1>9, <1>10 DEF SetupInv

\* Nothing is known at first.
LEMMA SetupInvInit == SetupInit => SetupInv
BY DEF SetupInit, SetupInv, FiltersLoaded, ConfigurationKnown, OpenedKnown, QueuesKnown, OneEach, Empty,
       RegularDevicesWork, Unset, Chosen

\* With a sensible command line the plugins are loaded, and the filters are sound.
LEMMA LoadKeepsSetup == SetupInv /\ Load => SetupInv'
<1> SUFFICES ASSUME SetupInv, Load PROVE SetupInv'
  OBVIOUS
<1> USE DEF mostVars, world, plugins, modelVars, openVars, relayVars, At, Go
<1>1. /\ pc = "load" /\ UNCHANGED world /\ UNCHANGED <<model, current, asked, opened, writer, queue>>
      /\ pc' = Loading(Loaded(CommandLine))
  BY DEF Load
<1>2. pc' \in {"crash", "read", "tunnel"}
  BY <1>1 DEF Loading
<1>3. Regular' = Regular /\ Loaded(CommandLine)' = Loaded(CommandLine) /\ Sensible' = Sensible
  BY <1>1, WorldStays
<1>4. dev' \in Devices
  BY <1>1 DEF SetupInv
<1>5. FiltersLoaded'
  <2>1. filters' = OfType({"filter", "both"})
    BY DEF Load
  <2>2. \A i \in DOMAIN filters' : filters'[i] \in ToSet(Loaded(CommandLine)) /\ filters'[i].type # "injector"
    BY <2>1 DEF OfType, ToSet
  <2> QED
    BY <1>3, <2>2 DEF FiltersLoaded
<1>6. ConfigurationKnown'
  BY <1>2 DEF ConfigurationKnown, Unset, Chosen
<1>7. OpenedKnown'
  BY <1>1, <1>2 DEF SetupInv, OpenedKnown
<1>8. QueuesKnown'
  BY <1>1, <1>2 DEF SetupInv, QueuesKnown, OneEach
<1>9. Sensible => pc' # "crash"
  <2> SUFFICES ASSUME Sensible PROVE pc' # "crash"
    OBVIOUS
  <2>1. ToSet(<<Get(CommandLine, "DeviceProxy"), Get(CommandLine, "HostProxy")>>) \ ProxyLibraries = {}
    BY DEF Sensible, ToSet
  <2>2. ~ \E p \in ToSet(Loaded(CommandLine)) : p.fails
    BY DEF Sensible
  <2>3. NumbersFor(<<Get(CommandLine, "DeviceProxy"), Get(CommandLine, "HostProxy")>>[1])
    BY DEF Sensible
  <2> QED
    BY <1>1, <2>1, <2>2, <2>3 DEF Loading
<1> QED
  BY <1>2, <1>3, <1>4, <1>5, <1>6, <1>7, <1>8, <1>9 DEF SetupInv, RegularDevicesWork, Unset, Chosen

\* The model has the configurations the device has sent.
LEMMA ReadKeepsSetup == SetupInv /\ (\E qualified \in BOOLEAN : Read(qualified)) => SetupInv'
<1> SUFFICES ASSUME SetupInv, NEW qualified \in BOOLEAN, Read(qualified) PROVE SetupInv'
  OBVIOUS
<1> USE DEF mostVars, world, plugins, openVars, relayVars, wireVars, At, Go
<1>1. /\ pc = "read" /\ pc' = "claim" /\ current' = dev.current /\ UNCHANGED world
      /\ UNCHANGED <<filters, asked, opened, writer, queue>>
  BY DEF Read
<1>2. ModelRead'
  <2>1. /\ model'.configs = Modelled(Reported)
        /\ model'.qualifier = IF qualified THEN Modelled(OtherSpeed) ELSE <<>>
    BY DEF Read, Modelled
  <2>2. Reported' = Reported /\ OtherSpeed' = OtherSpeed /\ \A cs : Modelled(cs)' = Modelled(cs)
    BY <1>1, WorldStays
  <2>3. Modelled(Reported)' = Modelled(Reported) /\ Modelled(OtherSpeed)' = Modelled(OtherSpeed)
    BY <1>1 DEF Modelled, Reported, OtherSpeed
  <2> QED
    BY <2>1, <2>3 DEF ModelRead
<1>3. Loaded(CommandLine)' = Loaded(CommandLine)
  BY <1>1, WorldStays
<1>4. dev' \in Devices /\ FiltersLoaded'
  BY <1>1, <1>3 DEF SetupInv, FiltersLoaded
<1>5. ConfigurationKnown'
  BY <1>1 DEF ConfigurationKnown, Chosen
<1>6. OpenedKnown'
  BY <1>1 DEF SetupInv, OpenedKnown
<1>7. QueuesKnown'
  BY <1>1 DEF SetupInv, QueuesKnown, OneEach
<1> QED
  BY <1>1, <1>2, <1>4, <1>5, <1>6, <1>7 DEF SetupInv, RegularDevicesWork

\* A regular device has a configuration at every place where one is needed.
LEMMA RegularIsSet ==
  ASSUME SetupInv, Regular
  PROVE  /\ pc \in Unset => current \in 1..Len(Reported)
         /\ pc \in Chosen => asked \in 1..Len(Reported) /\ current = asked
<1>1. dev \in Devices /\ ConfigurationKnown
  BY DEF SetupInv
<1>2. DOMAIN Reported = 1..Len(Reported)
  BY <1>1, SpeedFacts
<1>3. \A i \in 1..Len(Reported) : Reported[i][1].value = i
  BY <1>1, RegularFacts
<1>4. \A v \in Values \ {0} : v \in 1..Len(Reported)
  BY <1>2, <1>3 DEF Values
<1>5. dev.current \in 1..Len(Reported)
  <2>1. dev.current # 0
    BY DEF Regular
  <2>2. \E i \in DOMAIN Reported : dev.current = Reported[i][1].value
    BY <1>1, <2>1, DevicesAssumption DEF Reported
  <2> QED
    BY <1>2, <1>3, <2>2
<1> QED
  BY <1>1, <1>4, <1>5 DEF ConfigurationKnown

\* The endpoints of a setting are descriptors the device has sent, where they are.
LEMMA EndpointsSent ==
  ASSUME NEW ds, NEW answers, WellFormed(ds), \A j \in Starts(ds) : Interfaces(ds)[j] # NoInterface,
         NEW n, NEW a, Alternate(Configuration(ds, answers), n, a) # NoInterface
  PROVE  LET es == Alternate(Configuration(ds, answers), n, a).endpoints
         IN /\ Len(es) \in Nat /\ DOMAIN es = 1..Len(es)
            /\ \A k \in DOMAIN es :
                  es[k] # NoEndpoint => \E d \in ToSet(ds) : d.t = "ep" /\ es[k] = Endpoint(d)
<1> DEFINE es == Alternate(Configuration(ds, answers), n, a).endpoints
           i == Max(StartsOf(ds, n, a))
<1>1. StartsOf(ds, n, a) # {}
  BY Alternates
<1>2. i \in StartsOf(ds, n, a) /\ Alternate(Configuration(ds, answers), n, a) = Interfaces(ds)[i]
  BY <1>1, Alternates
<1>3. i \in Starts(ds)
  BY <1>2 DEF StartsOf
<1> DEFINE J == EndpointsAt(ds, i)
<1> HIDE DEF i
<1>4. /\ ds[i].eps \in 0..255 /\ Len(es) = ds[i].eps /\ DOMAIN es = 1..ds[i].eps
      /\ \A k \in DOMAIN es : es[k] # NoEndpoint => Nth(J, k) \in J /\ es[k] = Endpoint(ds[Nth(J, k)])
  BY <1>2, <1>3, EndpointsOf
<1>5. \A j \in J : j \in DOMAIN ds /\ ds[j].t = "ep"
  BY DEF EndpointsAt, Within
<1>6. \A j \in J : ds[j] \in ToSet(ds)
  BY <1>5 DEF ToSet
<1> QED
  BY <1>4, <1>5, <1>6

\* So are those of a setting the host may choose, and its pairs go with them.
LEMMA SettingFacts ==
  ASSUME dev \in Devices, ModelRead, FullSpeed # NoConfiguration,
         NEW s, Alternate(FullSpeed, s[1], s[2]) # NoInterface
  PROVE  LET es == Alternate(FullSpeed, s[1], s[2]).endpoints
         IN /\ Len(es) \in Nat /\ DOMAIN es = 1..Len(es)
            /\ DOMAIN Pairs(s) = DOMAIN es /\ Len(Pairs(s)) = Len(es)
            /\ \A k \in DOMAIN es : Pairs(s)[k][1] = es[k]
<1> DEFINE es == Alternate(FullSpeed, s[1], s[2]).endpoints
<1>1. PICK cs \in {Reported, OtherSpeed} :
         asked \in 1..Len(cs) /\ FullSpeed = Configuration(cs[asked], dev.alternates)
  BY ChoiceFacts DEF FullSpeed
<1>2. WellFormed(cs[asked]) /\ \A j \in Starts(cs[asked]) : Interfaces(cs[asked])[j] # NoInterface
  BY <1>1, SpeedFacts
<1>3. Len(es) \in Nat /\ DOMAIN es = 1..Len(es)
  BY <1>1, <1>2, EndpointsSent
<1> HIDE DEF es
<1>4. DOMAIN Pairs(s) = DOMAIN es /\ Len(Pairs(s)) = Len(es) /\ \A k \in DOMAIN es : Pairs(s)[k][1] = es[k]
  BY <1>3 DEF Pairs, es
<1> QED
  BY <1>3, <1>4 DEF es

\* None of the actions that find a null pointer does with a regular device.
LEMMA NoNullMet ==
  ASSUME SetupInv, Regular
  PROVE  /\ pc = "read" => \A cs \in {Reported, OtherSpeed} :
                              ~Gap(cs) /\ \A i \in DOMAIN cs : ~Overflows(cs[i])
         /\ pc = "claim" => ActiveConfiguration # NoConfiguration
         /\ pc = "host" => Walkable /\ \A cfg \in Walked : ~Strays(cfg)
         /\ pc = "relay" => \A v \in Values \ {0} : FullSpeedOf(v) # NoConfiguration
         /\ pc = "open" => /\ \A s \in todo : /\ Alternate(FullSpeed, s[1], s[2]) # NoInterface
                                             /\ \A k \in 1..Len(Pairs(s)) : Pairs(s)[k][1] # NoEndpoint
                           /\ ActiveConfiguration # NoConfiguration /\ NoNull(ActiveConfiguration)
<1>1. dev \in Devices /\ (pc \in Unset \cup Chosen => ModelRead) /\ ConfigurationKnown
  BY DEF SetupInv
<1>2. ASSUME NEW cs \in {Reported, OtherSpeed}
      PROVE  ~Gap(cs) /\ \A i \in DOMAIN cs : ~Overflows(cs[i])
  <2>1. ~Gap(cs)
    BY DEF Regular, NoHoles
  <2>2. DOMAIN cs = 1..Len(cs)
    BY <1>1, SpeedFacts
  <2>3. \A i \in DOMAIN cs : ~Overflows(cs[i])
    BY <1>1, <2>2, RegularFacts
  <2> QED
    BY <2>1, <2>3
<1>3. ASSUME pc \in Unset \cup Chosen
      PROVE  /\ ActiveConfiguration # NoConfiguration /\ NoNull(ActiveConfiguration)
  <2>1. ModelRead /\ current \in 1..Len(Reported)
    BY <1>1, <1>3, RegularIsSet
  <2>2. /\ ActiveConfiguration = Configuration(Reported[current], dev.alternates)
        /\ ActiveConfiguration # NoConfiguration
    BY <1>1, <2>1, ChoiceFacts DEF ActiveConfiguration
  <2> QED
    BY <1>1, <2>1, <2>2, RegularFacts
<1>4. ASSUME pc = "host" PROVE Walkable /\ \A cfg \in Walked : ~Strays(cfg)
  <2>1. ModelRead
    BY <1>1, <1>4 DEF Unset
  <2>2. ASSUME NEW cs \in {Reported, OtherSpeed}, NEW i, GetConfiguration(Modelled(cs), i) # NoConfiguration
        PROVE  /\ \A n \in Numbers(GetConfiguration(Modelled(cs), i)) :
                     Active(GetConfiguration(Modelled(cs), i), n) # NoInterface
               /\ ~dev.highspeed => ~Strays(GetConfiguration(Modelled(cs), i))
    <3>1. i \in 1..Len(cs) /\ GetConfiguration(Modelled(cs), i) = Configuration(cs[i], dev.alternates)
      BY <1>1, <2>2, ModelledFacts
    <3> QED
      BY <1>1, <3>1, RegularFacts
  <2>3. ASSUME NEW i \in DOMAIN model.configs
        PROVE  \/ Section(TRUE)[i] = GetConfiguration(Modelled(Reported), i)
               \/ Section(TRUE)[i] = GetConfiguration(Modelled(OtherSpeed), i)
    BY <2>1 DEF Section, ModelRead
  <2>4. ASSUME NEW cfg \in Walked
        PROVE  /\ ~dev.highspeed /\ cfg # NoConfiguration
               /\ \E i \in DOMAIN model.configs : cfg = Section(TRUE)[i]
    BY DEF Walked, Range, Section
  <2>5. ASSUME NEW cfg \in Walked
        PROVE  (\A n \in Numbers(cfg) : Active(cfg, n) # NoInterface) /\ ~Strays(cfg)
    <3>1. PICK i \in DOMAIN model.configs : cfg = Section(TRUE)[i]
      BY <2>4
    <3>2. PICK cs \in {Reported, OtherSpeed} : cfg = GetConfiguration(Modelled(cs), i)
      BY <2>3, <3>1
    <3> QED
      BY <2>2, <2>4, <3>2
  <2> QED
    BY <2>5 DEF Walkable
<1>5. ASSUME pc = "relay", NEW v \in Values \ {0} PROVE FullSpeedOf(v) # NoConfiguration
  <2>1. ModelRead
    BY <1>1, <1>5 DEF Unset
  <2>2. DOMAIN Reported = 1..Len(Reported) /\ \A i \in 1..Len(Reported) : Reported[i][1].value = i
    BY <1>1, SpeedFacts, RegularFacts
  <2>3. v \in 1..Len(Reported)
    BY <1>5, <2>2 DEF Values
  <2>4. Len(OtherSpeed) = 0 \/ Len(OtherSpeed) = Len(Reported)
    BY DEF Regular
  <2>5. model.qualifier # <<>> => model.qualifier = Modelled(OtherSpeed) /\ Len(OtherSpeed) = Len(Reported)
    <3>1. Len(OtherSpeed) = 0 => Modelled(OtherSpeed) = <<>>
      BY <1>1, SpeedFacts DEF Modelled
    <3> QED
      BY <2>1, <2>4, <3>1 DEF ModelRead
  <2>6. GetConfiguration(Modelled(Reported), v) # NoConfiguration
    BY <1>1, <2>3, ModelledFacts
  <2>7. Len(OtherSpeed) = Len(Reported) => GetConfiguration(Modelled(OtherSpeed), v) # NoConfiguration
    BY <1>1, <2>3, ModelledFacts
  <2> QED
    BY <2>1, <2>5, <2>6, <2>7 DEF FullSpeedOf, ModelRead
<1>6. ASSUME pc = "open", NEW s \in todo
      PROVE  /\ Alternate(FullSpeed, s[1], s[2]) # NoInterface
             /\ \A k \in 1..Len(Pairs(s)) : Pairs(s)[k][1] # NoEndpoint
  <2>1. ModelRead /\ FullSpeed # NoConfiguration /\ todo \subseteq Settings(FullSpeed)
    BY <1>1, <1>6 DEF Chosen, ConfigurationKnown
  <2>2. PICK cs \in {Reported, OtherSpeed} :
           asked \in 1..Len(cs) /\ FullSpeed = Configuration(cs[asked], dev.alternates)
    BY <1>1, <2>1, ChoiceFacts DEF FullSpeed
  <2>3. NoNull(FullSpeed)
    BY <1>1, <2>2, RegularFacts
  <2>4. s \in Settings(FullSpeed) /\ Alternate(FullSpeed, s[1], s[2]) # NoInterface
    BY <1>6, <2>1, <2>3 DEF NoNull, SettingsThere
  <2>5. /\ Len(Pairs(s)) = Len(Alternate(FullSpeed, s[1], s[2]).endpoints)
        /\ DOMAIN Alternate(FullSpeed, s[1], s[2]).endpoints = 1..Len(Alternate(FullSpeed, s[1], s[2]).endpoints)
        /\ \A k \in DOMAIN Alternate(FullSpeed, s[1], s[2]).endpoints :
              Pairs(s)[k][1] = Alternate(FullSpeed, s[1], s[2]).endpoints[k]
    BY <1>1, <2>1, <2>4, SettingFacts
  <2> QED
    BY <2>3, <2>4, <2>5 DEF NoNull
<1> QED
  BY <1>2, <1>3, <1>4, <1>5, <1>6 DEF Unset, Chosen

\* A filter that brings the process down did not find what its constructor needs, or
\* writes to an answer that is not there yet.
LEMMA PassMovesOn ==
  ASSUME SetupInv, Wiring, NEW e \in DOMAIN writer, NEW flags, NEW c, Pass(e, flags, c)
  PROVE  MovesOn
<1> USE DEF plugins, world, modelVars, openVars, relayVars, Go
<1>1. /\ pc = "running" \/ (pc = "relay" /\ e = Control)
      /\ UNCHANGED <<KnownSetup, todo>>
      /\ \/ pc' = pc
         \/ /\ pc' = "crash"
            /\ \E i \in ActingOut(e, flags, c) \cup ActingBack(e, flags, c) :
                  ~filters[i].sound \/ c \in filters[i].writes
  BY DEF Pass, KnownSetup
<1>2. e \in DOMAIN applied
  BY <1>1 DEF Wiring, InTime
<1>3. Acting(e, c) \subseteq DOMAIN filters
  BY <1>2, ActingAsMeant DEF Meant
<1>4. ActingOut(e, flags, c) \cup ActingBack(e, flags, c) \subseteq DOMAIN filters
  BY <1>3 DEF ActingOut, ActingBack
<1>5. \A i \in DOMAIN filters : Sensible => filters[i].sound /\ filters[i].writes = {}
  BY DEF SetupInv, FiltersLoaded, Sensible
<1> QED
  BY <1>1, <1>4, <1>5 DEF MovesOn

\* The actions that are such steps.
LEMMA MovesOnActions ==
  ASSUME SetupInv
  PROVE  /\ ReadFails \/ ReadCrashes \/ ClaimInterfaces => MovesOn
         /\ \A heard : InjectorsListen(heard) => MovesOn
         /\ HostConnect \/ HostConnectFails => MovesOn
         /\ \A shown : OpenGadget(shown) => MovesOn
         /\ \A v : SetAnother(v) => MovesOn
         /\ \A s : SettingMissing(s) => MovesOn
         /\ EnumerateNull \/ ApplyFilters \/ ApplyInjectors => MovesOn
         /\ \A i, d : Inject(i, d) => MovesOn
         /\ UNCHANGED setupVars => MovesOn
<1> USE DEF MovesOn, Onward, KnownSetup, setupVars, mostVars, plugins, world, modelVars, openVars, relayVars,
            wireVars, At, Go
<1>1. ReadFails \/ ReadCrashes \/ ClaimInterfaces => MovesOn
  BY NoNullMet DEF ReadFails, ReadCrashes, ClaimInterfaces
<1>2. \A heard : InjectorsListen(heard) => MovesOn
  BY DEF InjectorsListen
<1>3. HostConnect \/ HostConnectFails => MovesOn
  BY NoNullMet DEF HostConnect, HostConnectFails
<1>4. \A shown : OpenGadget(shown) => MovesOn
  BY DEF OpenGadget
<1>5. \A v : SetAnother(v) => MovesOn
  BY DEF SetAnother
<1>6. \A s : SettingMissing(s) => MovesOn
  <2> SUFFICES ASSUME NEW s, SettingMissing(s) PROVE MovesOn
    OBVIOUS
  <2>1. /\ pc = "open" /\ s \in todo /\ pc' = "crash" /\ UNCHANGED KnownSetup
        /\ \/ Alternate(FullSpeed, s[1], s[2]) = NoInterface
           \/ \E n \in 1..Len(Pairs(s)) : Pairs(s)[n][1] = NoEndpoint
    BY DEF SettingMissing, Turn
  <2>2. ~Regular
    BY <2>1, NoNullMet
  <2> QED
    BY <2>1, <2>2
<1>7. EnumerateNull \/ ApplyFilters \/ ApplyInjectors => MovesOn
  BY NoNullMet DEF EnumerateNull, ApplyFilters, ApplyInjectors
<1>8. \A i, d : Inject(i, d) => MovesOn
  BY DEF Inject
<1>9. UNCHANGED setupVars => MovesOn
  OBVIOUS
<1> QED
  BY ONLY <1>1, <1>2, <1>3, <1>4, <1>5, <1>6, <1>7, <1>8, <1>9

\* Endpoint 0 gets its writer.
LEMMA SetupControlKeepsSetup == SetupInv /\ SetupControl => SetupInv'
<1> SUFFICES ASSUME SetupInv, SetupControl PROVE SetupInv'
  OBVIOUS
<1> USE DEF mostVars, world, plugins, modelVars, openVars, At, Go
<1>1. /\ pc = "control" /\ pc' = "threads" /\ UNCHANGED world
      /\ UNCHANGED <<filters, model, current, asked, opened, queue>>
      /\ writer' = [e \in {Control} |-> ReaderSend]
  BY DEF SetupControl
<1>2. ModelRead' /\ Loaded(CommandLine)' = Loaded(CommandLine)
  BY <1>1, WorldStays, ChoiceStays DEF SetupInv, Unset
<1>3. dev' \in Devices /\ FiltersLoaded'
  BY <1>1, <1>2 DEF SetupInv, FiltersLoaded
<1>4. ConfigurationKnown'
  BY <1>1 DEF SetupInv, ConfigurationKnown, Unset, Chosen
<1>5. OpenedKnown'
  BY <1>1 DEF SetupInv, OpenedKnown, Unset
<1>6. QueuesKnown'
  <2>1. DOMAIN writer' = {Control} /\ writer'[Control] = ReaderSend
    BY <1>1
  <2> QED
    BY <1>1, <2>1 DEF QueuesKnown, OneEach
<1> QED
  BY <1>1, <1>2, <1>3, <1>4, <1>5, <1>6 DEF SetupInv, RegularDevicesWork

\* The host sets a configuration.
LEMMA HostSetsConfigKeepsSetup ==
  ASSUME SetupInv, NEW v \in Values, HostSetsConfig(v)
  PROVE  SetupInv'
<1> USE DEF mostVars, world, plugins, modelVars, relayVars, At, Go
<1>1. /\ pc = "relay" /\ v # 0 /\ asked' = v /\ UNCHANGED world
      /\ pc' = IF FullSpeedOf(v) = NoConfiguration THEN "crash" ELSE "open"
      /\ current' = IF v \in 1..Len(model.configs) THEN v ELSE -1
      /\ todo' = IF FullSpeedOf(v) = NoConfiguration THEN {} ELSE Settings(FullSpeedOf(v))
      /\ UNCHANGED <<filters, model, opened, writer, queue>>
  BY DEF HostSetsConfig
<1>2. ModelRead /\ ModelRead'
  BY <1>1, ChoiceStays DEF SetupInv, Unset
<1>3. /\ Loaded(CommandLine)' = Loaded(CommandLine) /\ Values' = Values /\ Reported' = Reported
      /\ Regular' = Regular /\ Sensible' = Sensible
  BY <1>1, WorldStays
<1>4. dev' \in Devices /\ FiltersLoaded'
  BY <1>1, <1>3 DEF SetupInv, FiltersLoaded
<1>5. FullSpeed' = FullSpeedOf(v)
  BY <1>1 DEF FullSpeed, FullSpeedOf
<1>6. Len(model.configs) = Len(Reported)
  BY <1>2, ChoiceFacts DEF SetupInv
<1>7. ConfigurationKnown'
  BY <1>1, <1>3, <1>5, <1>6 DEF ConfigurationKnown, Unset, Chosen
<1>8. OpenedKnown'
  BY <1>1 DEF SetupInv, OpenedKnown, Unset
<1>9. QueuesKnown'
  BY <1>1 DEF SetupInv, QueuesKnown, OneEach
<1>10. RegularDevicesWork'
  BY <1>1, <1>3, NoNullMet DEF RegularDevicesWork
<1> QED
  BY <1>1, <1>2, <1>4, <1>7, <1>8, <1>9, <1>10 DEF SetupInv

\* What a setting's endpoint files get stays with them, whatever is opened next.
LEMMA PairOfOver ==
  ASSUME NEW f, opened' = Over(f, opened), UNCHANGED <<dev, model, asked>>,
         NEW e \in DOMAIN opened',
         e \in DOMAIN opened => PairOf(e),
         \A d \in DOMAIN f :
            \E s \in Settings(FullSpeed) :
               /\ Alternate(FullSpeed, s[1], s[2]) # NoInterface
               /\ \E k \in DOMAIN Pairs(s) : /\ f[d] = Pairs(s)[k] /\ Pairs(s)[k][1] # NoEndpoint
                                             /\ Place(Pairs(s)[k][1]) = d
  PROVE  PairOf(e)'
<1>1. FullSpeed' = FullSpeed /\ \A s : Pairs(s)' = Pairs(s)
  BY ChoiceStays
<1>2. CASE e \in DOMAIN f
  <2>1. opened'[e] = f[e]
    <3>1. opened' = Over(f, opened)
      OBVIOUS
    <3> QED
      BY ONLY <1>2, <3>1 DEF Over
  <2> QED
    BY <1>1, <1>2, <2>1 DEF PairOf
<1>3. CASE e \notin DOMAIN f
  <2>1. /\ DOMAIN opened' = DOMAIN f \cup DOMAIN opened
        /\ \A d \in DOMAIN opened \ DOMAIN f : opened'[d] = opened[d]
    <3>1. opened' = Over(f, opened)
      OBVIOUS
    <3> QED
      BY ONLY <3>1 DEF Over
  <2>2. e \in DOMAIN opened /\ opened'[e] = opened[e]
    BY <1>3, <2>1
  <2> QED
    BY <1>1, <1>3, <2>2 DEF PairOf
<1> QED
  BY <1>2, <1>3

\* The endpoints of a setting are opened.
LEMMA OpenSettingKeepsSetup ==
  ASSUME SetupInv, NEW s, OpenSetting(s)
  PROVE  SetupInv'
<1> USE DEF mostVars, world, plugins, modelVars, relayVars, At, Go
<1>1. /\ pc = "open" /\ pc' = pc /\ UNCHANGED world /\ s \in todo /\ todo' \subseteq todo
      /\ Alternate(FullSpeed, s[1], s[2]) # NoInterface
      /\ UNCHANGED <<filters, model, current, asked, writer, queue>>
  BY DEF OpenSetting, Turn
<1>2. ModelRead /\ ModelRead' /\ FullSpeed # NoConfiguration /\ todo \subseteq Settings(FullSpeed)
  BY <1>1, ChoiceStays DEF SetupInv, Chosen, ConfigurationKnown
<1>3. FullSpeed' = FullSpeed
  BY <1>1, ChoiceStays
<1>4. /\ Loaded(CommandLine)' = Loaded(CommandLine) /\ Values' = Values /\ Reported' = Reported
  BY <1>1, WorldStays
<1>5. dev' \in Devices /\ FiltersLoaded'
  BY <1>1, <1>4 DEF SetupInv, FiltersLoaded
<1>6. ConfigurationKnown'
  BY <1>1, <1>2, <1>3, <1>4 DEF SetupInv, ConfigurationKnown, Unset, Chosen
<1>7. OpenedKnown'
  <2> DEFINE ps == Pairs(s)
             new(n) == [e \in {Place(ps[k][1]) : k \in 1..n} |-> ps[CHOOSE k \in 1..n : Place(ps[k][1]) = e]]
  <2>1. PICK n \in 0..Len(ps) : ThereUpTo(s, n) /\ opened' = Over(new(n), opened)
    BY DEF OpenSetting
  <2>1a. \A k \in 1..n : ps[k][1] # NoEndpoint
    BY <2>1 DEF ThereUpTo
  <2>2. Len(ps) \in Nat /\ DOMAIN ps = 1..Len(ps)
    BY <1>1, <1>2, SettingFacts DEF SetupInv
  <2>3. ASSUME NEW d \in DOMAIN new(n)
        PROVE  \E k \in DOMAIN ps : new(n)[d] = ps[k] /\ ps[k][1] # NoEndpoint /\ Place(ps[k][1]) = d
    <3> HIDE DEF ps
    <3> DEFINE k == CHOOSE k \in 1..n : Place(ps[k][1]) = d
    <3>1. k \in 1..n /\ Place(ps[k][1]) = d
      OBVIOUS
    <3>2. new(n)[d] = ps[k]
      OBVIOUS
    <3>3. k \in DOMAIN ps
      BY <2>2, <3>1
    <3> QED
      BY <2>1a, <3>1, <3>2, <3>3
  <2> HIDE DEF new, ps
  <2>4. \A d \in DOMAIN new(n) :
           \E t \in Settings(FullSpeed) :
              /\ Alternate(FullSpeed, t[1], t[2]) # NoInterface
              /\ \E k \in DOMAIN Pairs(t) : /\ new(n)[d] = Pairs(t)[k] /\ Pairs(t)[k][1] # NoEndpoint
                                            /\ Place(Pairs(t)[k][1]) = d
    BY <1>1, <1>2, <2>3 DEF ps
  <2>5. \A e \in DOMAIN opened : PairOf(e)
    BY DEF SetupInv, OpenedKnown
  <2>6. \A e \in DOMAIN opened' : PairOf(e)'
    BY <1>1, <2>1, <2>4, <2>5, PairOfOver
  <2> QED
    BY <1>1, <1>2, <1>3, <2>6 DEF OpenedKnown, Unset
<1>8. QueuesKnown'
  BY <1>1 DEF SetupInv, QueuesKnown, OneEach
<1> QED
  BY <1>1, <1>2, <1>5, <1>6, <1>7, <1>8 DEF SetupInv, RegularDevicesWork

\* What is relayed are descriptors of the configuration that is set, and the last
\* one of an endpoint is one of them.
LEMMA EnumeratedFacts ==
  ASSUME dev \in Devices, ModelRead, ActiveConfiguration # NoConfiguration, NoNull(ActiveConfiguration),
         NEW e \in Places(ActiveConfiguration)
  PROVE  LET cfg == ActiveConfiguration
             last == Latest({r \in Relayed(cfg) : Place(EndpointAt(cfg, r)) = e})
         IN last \in Relayed(cfg) /\ Place(EndpointAt(cfg, last)) = e /\ last # ReaderSend
<1> DEFINE cfg == ActiveConfiguration
           ds == Reported[current]
           rs == {r \in Relayed(cfg) : Place(EndpointAt(cfg, r)) = e}
           b == ds[1].ifs + 256
<1>1. current \in 1..Len(Reported) /\ cfg = Configuration(ds, dev.alternates)
  BY ChoiceFacts DEF ActiveConfiguration
<1>2. WellFormed(ds) /\ \A j \in Starts(ds) : Interfaces(ds)[j] # NoInterface
  BY <1>1, SpeedFacts
<1> HIDE DEF ds
<1>3. ds[1].ifs \in Nat
  BY <1>2 DEF WellFormed
<1>4. \A r \in Relayed(cfg) : /\ r = <<r[1], r[2], r[3]>>
                              /\ r[1] \in 0..ds[1].ifs /\ r[2] \in 0..256 /\ r[3] \in 0..255
  <2>1. NoNull(Configuration(ds, dev.alternates)) /\ Relayed(Configuration(ds, dev.alternates)) = Relayed(cfg)
    BY <1>1
  <2> HIDE DEF cfg
  <2> QED
    BY <1>2, <2>1, RelayedIsSent
<1> HIDE DEF cfg
<1>5. rs # {}
  BY DEF Places, cfg
<1>6. b \in Nat /\ \A x : (x \in 0..ds[1].ifs \/ x \in 0..256 \/ x \in 0..255) => x \in 0..b
  <2> DEFINE n == ds[1].ifs
  <2>1. n \in Nat /\ b = n + 256
    BY <1>3
  <2> HIDE DEF n, b
  <2>2. b \in Nat /\ n <= b /\ 256 <= b
    BY <2>1
  <2>3. \A x : (x \in 0..n \/ x \in 0..256 \/ x \in 0..255) => x \in 0..b
    BY <2>1, <2>2
  <2> QED
    BY <2>2, <2>3 DEF n
<1>7. \A r \in rs : r = <<r[1], r[2], r[3]>> /\ r[1] \in 0..b /\ r[2] \in 0..b /\ r[3] \in 0..b
  BY <1>4, <1>6
<1> HIDE DEF b, rs
<1>8. Latest(rs) \in rs
  BY ONLY <1>5, <1>6, <1>7, LatestIsThere
<1>9. Latest(rs) \in Relayed(cfg) /\ Place(EndpointAt(cfg, Latest(rs))) = e
  BY <1>8 DEF rs
<1>10. \A x, y, z : <<x, y, z>> # ReaderSend
  BY DEF ReaderSend
<1>11. Latest(rs) # ReaderSend
  BY <1>7, <1>8, <1>10
<1> QED
  BY <1>9, <1>11 DEF rs, cfg

\* Each endpoint to relay gets a queue of its own.
LEMMA EnumerateKeepsSetup == SetupInv /\ Enumerate => SetupInv'
<1> SUFFICES ASSUME SetupInv, Enumerate PROVE SetupInv'
  OBVIOUS
<1> USE DEF mostVars, world, plugins, modelVars, openVars, wireVars, At, Go
<1> DEFINE cfg == ActiveConfiguration
           last(e) == Latest({r \in Relayed(cfg) : Place(EndpointAt(cfg, r)) = e})
<1>1. /\ pc = "open" /\ pc' = "join" /\ UNCHANGED world
      /\ cfg # NoConfiguration /\ NoNull(cfg)
      /\ queue' = [e \in Places(cfg) |-> last(e)]
      /\ UNCHANGED <<filters, model, current, asked, opened, writer>>
  BY DEF Enumerate, Places
<1>2. dev \in Devices /\ ModelRead /\ ModelRead'
  BY <1>1, ChoiceStays DEF SetupInv, Chosen
<1>3. /\ FullSpeed' = FullSpeed /\ cfg' = cfg /\ \A e : PairOf(e)' = PairOf(e)
      /\ Loaded(CommandLine)' = Loaded(CommandLine) /\ Values' = Values /\ Reported' = Reported
  BY <1>1, WorldStays, ChoiceStays
<1>4. dev' \in Devices /\ FiltersLoaded'
  BY <1>1, <1>3 DEF SetupInv, FiltersLoaded
<1>5. ConfigurationKnown'
  BY <1>1, <1>3 DEF SetupInv, ConfigurationKnown, Unset, Chosen
<1>6. OpenedKnown'
  BY <1>1, <1>2, <1>3 DEF SetupInv, OpenedKnown, Unset
<1>7. QueuesKnown'
  <2>1. \A e \in Places(cfg) : Place(EndpointAt(cfg, last(e))) = e /\ last(e) # ReaderSend
    BY <1>1, <1>2, EnumeratedFacts
  <2> HIDE DEF last, cfg
  <2>2. \A e \in Places(cfg) : queue'[e] = last(e)
    BY <1>1
  <2>3. DOMAIN queue' = Places(cfg)
    BY <1>1
  <2>4. OneEach(queue') /\ \A e \in DOMAIN queue' : queue'[e] # ReaderSend
    BY <2>1, <2>2, <2>3 DEF OneEach
  <2>5. Places(ActiveConfiguration)' = Places(cfg)
    BY <1>3 DEF Places, cfg
  <2> QED
    BY <1>1, <2>3, <2>4, <2>5 DEF SetupInv, QueuesKnown, OneEach, cfg
<1> QED
  BY <1>1, <1>2, <1>4, <1>5, <1>6, <1>7 DEF SetupInv, RegularDevicesWork

\* Its writer takes from that queue.
LEMMA JoinEndpointsKeepsSetup == SetupInv /\ JoinEndpoints => SetupInv'
<1> SUFFICES ASSUME SetupInv, JoinEndpoints PROVE SetupInv'
  OBVIOUS
<1> USE DEF mostVars, world, plugins, modelVars, openVars, wireVars, At, Go
<1>1. /\ pc = "join" /\ pc' = "apply" /\ UNCHANGED world
      /\ writer' = Over(writer, queue)
      /\ UNCHANGED <<filters, model, current, asked, opened, queue>>
  BY DEF JoinEndpoints
<1>2. ModelRead /\ ModelRead'
  BY <1>1, ChoiceStays DEF SetupInv, Chosen
<1>3. /\ FullSpeed' = FullSpeed /\ ActiveConfiguration' = ActiveConfiguration /\ \A e : PairOf(e)' = PairOf(e)
      /\ Loaded(CommandLine)' = Loaded(CommandLine) /\ Values' = Values /\ Reported' = Reported
  BY <1>1, WorldStays, ChoiceStays
<1>4. dev' \in Devices /\ FiltersLoaded'
  BY <1>1, <1>3 DEF SetupInv, FiltersLoaded
<1>5. ConfigurationKnown'
  BY <1>1, <1>3 DEF SetupInv, ConfigurationKnown, Unset, Chosen
<1>6. OpenedKnown'
  BY <1>1, <1>2, <1>3 DEF SetupInv, OpenedKnown, Unset
<1>7. QueuesKnown'
  <2>1. /\ DOMAIN writer = {Control} /\ writer[Control] = ReaderSend
        /\ DOMAIN queue = Places(ActiveConfiguration) /\ OneEach(queue)
        /\ \A e \in DOMAIN queue : queue[e] # ReaderSend
    BY <1>1 DEF SetupInv, QueuesKnown
  <2>2. /\ DOMAIN writer' = {Control} \cup DOMAIN queue /\ writer'[Control] = ReaderSend
        /\ \A e \in DOMAIN queue \ {Control} : writer'[e] = queue[e]
    BY <1>1, <2>1 DEF Over
  <2>3. OneEach(writer')
    BY <2>1, <2>2 DEF OneEach
  <2>4. Places(ActiveConfiguration)' = Places(ActiveConfiguration)
    BY <1>3 DEF Places
  <2> QED
    BY <1>1, <2>1, <2>2, <2>3, <2>4 DEF QueuesKnown, OneEach
<1> QED
  BY <1>1, <1>2, <1>4, <1>5, <1>6, <1>7 DEF SetupInv, RegularDevicesWork

\* The invariant of the setup holds throughout, together with that of the wiring.
LEMMA SetupIsInductive == SetupSpec => []SetupInv
<1>1. SetupInv /\ Wiring /\ [SetupNext]_setupVars => SetupInv'
  <2> SUFFICES ASSUME SetupInv, Wiring, [SetupNext]_setupVars PROVE SetupInv'
    OBVIOUS
  <2>1. CASE Setup
    BY <2>1, MovesOnActions, MovingOnKeepsSetup, LoadKeepsSetup, ReadKeepsSetup, SetupControlKeepsSetup,
       HostSetsConfigKeepsSetup, OpenSettingKeepsSetup, EnumerateKeepsSetup, JoinEndpointsKeepsSetup
       DEF Setup
  <2>2. CASE \E i \in DOMAIN injectors, d \in Datagrams : Inject(i, d)
    BY <2>2, MovesOnActions, MovingOnKeepsSetup
  <2>3. CASE \E e \in DOMAIN writer : \E flags \in FlagsOf(e), c \in Contents(e) : Pass(e, flags, c)
    BY <2>3, PassMovesOn, MovingOnKeepsSetup
  <2>4. CASE UNCHANGED setupVars
    BY <2>4, MovesOnActions, MovingOnKeepsSetup
  <2> QED
    BY <2>1, <2>2, <2>3, <2>4 DEF SetupNext
<1> QED
  BY <1>1, SetupInvInit, WiringIsInductive, PTL DEF SetupSpec

\* A device whose configurations are numbered from one, whose interfaces have all
\* the settings they should, and whose settings have as many endpoints as they say
\* is set up without a null pointer and without a write behind an array's end,
\* although nothing that the device model returns is tested (get_configuration,
\* get_interface_alternate, get_endpoint_by_idx and their callers in Manager and
\* HostProxy_GadgetFS); and the plugins of a command line with numbers where numbers
\* are wanted, and without PacketFilter_Power, are used safely.
THEOREM RegularDevicesAlwaysWork == SetupSpec => []RegularDevicesWork
<1>1. SetupInv => RegularDevicesWork
  BY DEF SetupInv
<1> QED
  BY <1>1, SetupIsInductive, PTL

\* Which descriptors the full-speed and the high-speed configuration of a device
\* that knows both are made of.
LEMMA BothSpeeds ==
  ASSUME dev \in Devices, ModelRead, FullSpeed # NoConfiguration, model.qualifier # <<>>, Alike
  PROVE  /\ WellFormed(dev.full[asked]) /\ WellFormed(dev.high[asked])
         /\ Pointers(dev.full[asked]) /\ Pointers(dev.high[asked])
         /\ \A i \in Starts(dev.full[asked]) : Interfaces(dev.full[asked])[i] # NoInterface
         /\ \A i \in Starts(dev.high[asked]) : Interfaces(dev.high[asked])[i] # NoInterface
         /\ FullSpeed = Configuration(dev.full[asked], dev.alternates)
         /\ HighSpeed = Configuration(dev.high[asked], dev.alternates) /\ HighSpeed # NoConfiguration
         /\ SameShape(dev.full[asked], dev.high[asked])
         /\ dev.full[asked][1].ifs = dev.high[asked][1].ifs
<1>1. model.qualifier = Modelled(OtherSpeed) /\ model.configs = Modelled(Reported)
  BY DEF ModelRead
<1>2. dev.highspeed \in BOOLEAN
  BY DevicesAssumption
<1>3. /\ FullSpeed = GetConfiguration(Modelled(dev.full), asked)
      /\ HighSpeed = GetConfiguration(Modelled(dev.high), asked)
  <2>1. CASE dev.highspeed
    <3>1. FullSpeed = GetConfiguration(Modelled(OtherSpeed), asked)
      BY <1>1, <2>1 DEF FullSpeed, FullSpeedOf
    <3>2. HighSpeed = GetConfiguration(Modelled(Reported), asked)
      BY <1>1, <2>1 DEF HighSpeed
    <3> QED
      BY <2>1, <3>1, <3>2 DEF Reported, OtherSpeed
  <2>2. CASE ~dev.highspeed
    <3>1. FullSpeed = GetConfiguration(Modelled(Reported), asked)
      BY <1>1, <2>2 DEF FullSpeed, FullSpeedOf
    <3>2. HighSpeed = GetConfiguration(Modelled(OtherSpeed), asked)
      BY <1>1, <2>2 DEF HighSpeed
    <3> QED
      BY <2>2, <3>1, <3>2 DEF Reported, OtherSpeed
  <2> QED
    BY <1>2, <2>1, <2>2
<1>4. {dev.full, dev.high} \subseteq {Reported, OtherSpeed}
  BY DEF Reported, OtherSpeed
<1>5. asked \in 1..Len(dev.full) /\ FullSpeed = Configuration(dev.full[asked], dev.alternates)
  BY <1>3, <1>4, ModelledFacts
<1>6. /\ DOMAIN dev.full = 1..Len(dev.full) /\ DOMAIN dev.high = 1..Len(dev.high)
  BY <1>4, SpeedFacts
<1>7. asked \in 1..Len(dev.high) /\ asked \in DOMAIN dev.full
  BY <1>5, <1>6 DEF Alike
<1>8. HighSpeed = Configuration(dev.high[asked], dev.alternates) /\ HighSpeed # NoConfiguration
  BY <1>3, <1>4, <1>7, ModelledFacts
<1>9. /\ SameShape(dev.full[asked], dev.high[asked])
      /\ dev.full[asked][1].ifs = dev.high[asked][1].ifs
  BY <1>7 DEF Alike, SameShape
<1>10. /\ WellFormed(dev.full[asked]) /\ WellFormed(dev.high[asked])
       /\ Pointers(dev.full[asked]) /\ Pointers(dev.high[asked])
       /\ \A i \in Starts(dev.full[asked]) : Interfaces(dev.full[asked])[i] # NoInterface
       /\ \A i \in Starts(dev.high[asked]) : Interfaces(dev.high[asked])[i] # NoInterface
  BY <1>4, <1>5, <1>6, <1>7, SpeedFacts
<1> QED
  BY <1>5, <1>8, <1>9, <1>10

\* The model's copy of an endpoint descriptor that is among ds.
Sent(copy, ds) == \E d \in ToSet(ds) : d.t = "ep" /\ copy = Endpoint(d)

\* The pairs of descriptors belong together.
LEMMA PairsBelongTogether == SetupInv => PairsMatch
<1> SUFFICES ASSUME SetupInv PROVE PairsMatch
  OBVIOUS
<1> SUFFICES ASSUME NEW e \in DOMAIN opened
             PROVE  /\ model.qualifier = <<>> \/ (Alike /\ FullSpeed.descriptor.ifs = 1) =>
                          Place(opened[e][2]) = e
                    /\ Alike /\ model.qualifier # <<>> /\ Settings(FullSpeed) = {<<0, 0>>} =>
                          Sent(opened[e][1], dev.full[asked]) /\ Sent(opened[e][2], dev.high[asked])
  BY DEF PairsMatch, Sent
<1>1. dev \in Devices /\ ModelRead /\ FullSpeed # NoConfiguration /\ PairOf(e)
  BY DEF SetupInv, OpenedKnown
<1>2. PICK s \in Settings(FullSpeed) :
         /\ Alternate(FullSpeed, s[1], s[2]) # NoInterface
         /\ \E k \in DOMAIN Pairs(s) : /\ opened[e] = Pairs(s)[k] /\ Pairs(s)[k][1] # NoEndpoint
                                      /\ Place(Pairs(s)[k][1]) = e
  BY <1>1 DEF PairOf
<1> DEFINE own == Alternate(FullSpeed, s[1], s[2]).endpoints
           other(k) == EndpointByIdx(OtherSetting(s), k)
<1>3. PICK k \in DOMAIN own :
         /\ opened[e][1] = own[k] /\ own[k] # NoEndpoint /\ Place(own[k]) = e
         /\ opened[e][2] = IF other(k) # NoEndpoint THEN other(k) ELSE own[k]
  BY <1>2 DEF Pairs
<1>4. OtherSetting(s) = Alternate(FullSpeed, s[1], s[2]) => Place(opened[e][2]) = e
  BY <1>3 DEF EndpointByIdx
<1>5. s = <<s[1], s[2]>> /\ s[1] \in Numbers(FullSpeed)
  BY DEF Settings
<1>6. CASE model.qualifier = <<>>
  <2>1. HighSpeed = NoConfiguration
    BY <1>6 DEF HighSpeed
  <2> QED
    BY <1>4, <1>6, <2>1 DEF OtherSetting
<1>7. CASE model.qualifier # <<>> /\ Alike
  <2> DEFINE ds == dev.full[asked]
             es == dev.high[asked]
  <2>1. /\ WellFormed(ds) /\ WellFormed(es) /\ SameShape(ds, es) /\ ds[1].ifs = es[1].ifs
        /\ Pointers(ds) /\ Pointers(es)
        /\ \A i \in Starts(ds) : Interfaces(ds)[i] # NoInterface
        /\ \A i \in Starts(es) : Interfaces(es)[i] # NoInterface
        /\ FullSpeed = Configuration(ds, dev.alternates)
        /\ HighSpeed = Configuration(es, dev.alternates) /\ HighSpeed # NoConfiguration
    BY <1>1, <1>7, BothSpeeds
  <2> HIDE DEF ds, es
  <2>2. /\ Numbers(FullSpeed) = 0..(ds[1].ifs - 1) /\ Numbers(HighSpeed) = 0..(ds[1].ifs - 1)
        /\ FullSpeed.descriptor = ds[1]
    BY <2>1, Parts
  <2>3. ASSUME s = <<0, 0>>, 0 \in Numbers(HighSpeed)
        PROVE  Place(opened[e][2]) = e /\ Sent(opened[e][2], es)
    <3>1. /\ Alternate(HighSpeed, 0, 0) # NoInterface
          /\ DOMAIN own = DOMAIN Alternate(HighSpeed, 0, 0).endpoints
          /\ \A j \in DOMAIN own :
                own[j] # NoEndpoint =>
                   /\ Alternate(HighSpeed, 0, 0).endpoints[j] # NoEndpoint
                   /\ Place(own[j]) = Place(Alternate(HighSpeed, 0, 0).endpoints[j])
      BY <1>2, <2>1, <2>3, SameEndpoints
    <3>2. OtherSetting(s) = Alternate(HighSpeed, 0, 0)
      BY <2>1, <2>3, <3>1 DEF OtherSetting
    <3>3. opened[e][2] = Alternate(HighSpeed, 0, 0).endpoints[k]
      BY <1>3, <3>1, <3>2 DEF EndpointByIdx
    <3>4. Sent(Alternate(HighSpeed, 0, 0).endpoints[k], es)
      BY <1>3, <2>1, <3>1, EndpointsSent DEF Sent
    <3> QED
      BY <1>3, <3>1, <3>3, <3>4
  <2>4. Sent(opened[e][1], ds)
    BY <1>2, <1>3, <2>1, EndpointsSent DEF Sent
  <2>5. ASSUME FullSpeed.descriptor.ifs = 1 PROVE Place(opened[e][2]) = e
    <3>1. Numbers(FullSpeed) = {0} /\ Numbers(HighSpeed) = {0}
      BY <2>2, <2>5
    <3>2. CASE s[2] = 0
      BY <1>5, <2>3, <3>1, <3>2
    <3>3. CASE s[2] # 0
      <4>1. OtherSetting(s) = Alternate(FullSpeed, s[1], s[2])
        BY <3>1, <3>3 DEF OtherSetting
      <4> QED
        BY <1>4, <4>1
    <3> QED
      BY <3>2, <3>3
  <2>6. ASSUME Settings(FullSpeed) = {<<0, 0>>} PROVE Sent(opened[e][2], es)
    <3>1. s = <<0, 0>>
      BY <2>6
    <3>2. 0 \in Numbers(HighSpeed)
      BY <1>5, <2>2, <3>1
    <3> QED
      BY <2>3, <3>1, <3>2
  <2> QED
    BY <1>7, <2>4, <2>5, <2>6 DEF ds, es
<1> QED
  BY <1>6, <1>7

\* The endpoints that are relayed are those of the configuration, no more, no less.
LEMMA RelayedAreSent == SetupInv => RelayedOnce
<1> SUFFICES ASSUME SetupInv PROVE RelayedOnce
  OBVIOUS
<1>1. \A e, f \in DOMAIN writer : writer[e] = writer[f] => e = f
  BY DEF SetupInv, QueuesKnown, OneEach
<1>2. ASSUME Regular, pc = "running"
      PROVE  DOMAIN writer \ {Control} =
                {Place(e) : e \in {d \in ToSet(Reported[asked]) : d.t = "ep" /\ d.type # "iso"}}
  <2> DEFINE ds == Reported[asked]
             cfg == Configuration(ds, dev.alternates)
             sent == {Place(e) : e \in {d \in ToSet(ds) : d.t = "ep" /\ d.type # "iso"}}
  <2>1. dev \in Devices /\ ModelRead /\ asked \in 1..Len(Reported) /\ current = asked
    BY <1>2, RegularIsSet DEF SetupInv, Chosen
  <2>2. ActiveConfiguration = cfg
    BY <2>1, ChoiceFacts DEF ActiveConfiguration
  <2>3. DOMAIN writer = {Control} \cup Places(cfg)
    BY <1>2, <2>2 DEF SetupInv, QueuesKnown
  <2>4. /\ WellFormed(ds) /\ \A j \in Starts(ds) : Interfaces(ds)[j] # NoInterface
        /\ NoNull(cfg) /\ Ordered(ds) /\ Matching(ds)
    BY <1>2, <2>1, SpeedFacts, RegularFacts
  <2> HIDE DEF ds
  <2>5. Places(cfg) \subseteq sent
    <3>1. \A r \in Relayed(cfg) : \E j \in DOMAIN ds :
             ds[j].t = "ep" /\ ds[j].type # "iso" /\ Place(EndpointAt(cfg, r)) = Place(ds[j])
      BY <2>4, RelayedIsSent DEF Place, Endpoint
    <3> QED
      BY <3>1 DEF Places, ToSet
  <2>6. sent \subseteq Places(cfg)
    <3>1. \A j \in DOMAIN ds : ds[j].t = "ep" /\ ds[j].type # "iso" =>
             \E r \in Relayed(cfg) : Place(EndpointAt(cfg, r)) = Place(ds[j])
      BY <2>4, SentIsRelayed DEF Place, Endpoint
    <3> QED
      BY <3>1 DEF Places, ToSet
  <2>7. Control \notin sent
    <3>1. \A j \in DOMAIN ds : ds[j].t = "ep" => ds[j].addr # 0
      BY <2>4 DEF WellFormed
    <3> QED
      BY <3>1 DEF ToSet, Place, Control
  <2> QED
    BY <2>3, <2>5, <2>6, <2>7 DEF ds
<1> QED
  BY <1>1, <1>2 DEF RelayedOnce

\* Of any device every endpoint that is relayed has a queue of its own, and the two
\* descriptors written to an endpoint's file belong together where the code can find
\* the right ones (HostProxy_GadgetFS::setConfig).  Of a regular device, with as many
\* endpoint descriptors as its bNumEndpoints say and no setting 255, the endpoints
\* that get a relay are those of the configuration the host has asked for
\* (Manager::start_data_relaying).
THEOREM EndpointsAlwaysMatch == SetupSpec => []EndpointsMatch
<1>1. SetupInv => EndpointsMatch
  BY PairsBelongTogether, RelayedAreSent DEF EndpointsMatch
<1> QED
  BY <1>1, SetupIsInductive, PTL
==============================================================================
