------------------------------- MODULE Manager -------------------------------
(***************************************************************************)
(* The life of one usb-mitm process: main's loop (tools/usb-mitm.cpp),      *)
(* Manager::start_control_relaying, stop_relaying, stopEps and setConfig,   *)
(* the notifications the manager gets, and the threads it creates.          *)
(*                                                                          *)
(* Manager::status is one plain variable.  The main thread and the libusb   *)
(* event thread both store to it, and start_control_relaying tests it many  *)
(* times on its way, so each test and each store is a step of its own.      *)
(* stopEps, on whatever thread, ends in exit(-1): the process of this model *)
(* is never restarted, and the code after that call is not modelled.        *)
(***************************************************************************)
EXTENDS Naturals

CONSTANTS Injectors,  \* TRUE: injector plugins are loaded
          Configs     \* configuration numbers SET_CONFIGURATION may name

ASSUME InjectorsAssumption == Injectors \in BOOLEAN
ASSUME ConfigsAssumption == Configs \subseteq Nat

VARIABLES status,     \* Manager::status, without its USBM_ prefix
          mpc,        \* where the main thread is
          done,       \* set by the handler of SIGTERM and SIGINT
          spin,       \* the spinner of the two connect loops
          plugged,    \* the USB device is there
          hostReady,  \* hostProxy->connect finds its peer
          listener,   \* the libusb event thread
          callback,   \* deviceProxy->disconnectNotifierCallback is set
          notified,   \* history: deviceDisconnectNotification was called
          thread,     \* the EP0 reader and writer, the injectors, the data relays
          config,     \* Manager::configurationNumber
          inStopEps,  \* threads inside stopEps
          process     \* "running", "exited" by exit(-1), "killed" by SIGHUP

envVars == <<done, plugged, hostReady>>
devVars == <<listener, callback, notified>>
vars == <<status, mpc, spin, envVars, devVars, thread, config, inStopEps, process>>

Statuses == {"IDLE", "SETUP", "RELAYING", "SETUP_ABORT", "RESET", "STOPPING"}
Kinds == {"reader", "writer", "injector", "data"}
\* "asked": please_stop was called on it.
ThreadStates == {"none", "running", "asked", "ended"}
Alive(k) == thread[k] \in {"running", "asked"}

Init == /\ status = "IDLE" /\ mpc = "new" /\ spin = 0
        /\ done = FALSE /\ plugged \in BOOLEAN /\ hostReady \in BOOLEAN
        /\ listener = "none" /\ callback = FALSE /\ notified = FALSE
        /\ thread = [k \in Kinds |-> "none"]
        /\ config = 0 /\ inStopEps = {} /\ process = "running"
------------------------------------------------------------------------------
(* start_control_relaying, on the main thread.                              *)

MainAt(p) == process = "running" /\ mpc = p
Goto(p) == mpc' = p

StartSetup ==
    /\ MainAt("new")
    /\ status' = "SETUP" /\ Goto("connect")
    /\ UNCHANGED <<spin, envVars, devVars, thread, config, inStopEps, process>>

\* deviceProxy->connect: ENODEV and ETIMEDOUT are tried again as long as the
\* status is SETUP.  DeviceProxy_LibUSB starts its event thread here.
DeviceConnected ==
    /\ MainAt("connect")
    /\ plugged
    /\ listener' = "running" /\ Goto("callback")
    /\ UNCHANGED <<status, spin, envVars, callback, notified, thread, config,
                   inStopEps, process>>

DeviceAbsent ==
    /\ MainAt("connect")
    /\ ~plugged
    /\ IF status = "SETUP" THEN spin' = 1 - spin /\ UNCHANGED <<status, mpc>>
                           ELSE status' = "IDLE" /\ Goto("poll") /\ UNCHANGED spin
    /\ UNCHANGED <<envVars, devVars, thread, config, inStopEps, process>>

DeviceError ==
    /\ MainAt("connect")
    /\ plugged
    /\ status' = "IDLE" /\ Goto("poll")
    /\ UNCHANGED <<spin, envVars, devVars, thread, config, inStopEps, process>>

SetCallback ==
    /\ MainAt("callback")
    /\ callback' = TRUE /\ Goto("check")
    /\ UNCHANGED <<status, spin, envVars, listener, notified, thread, config,
                   inStopEps, process>>

\* if (status != USBM_SETUP) { stop_relaying(); return; }
Checked(next) == Goto(IF status = "SETUP" THEN next ELSE "stop")

\* The checks while the device model, EP0, its relayers, filters and injector
\* queues are set up: nothing another thread sees happens in between.
CheckSetup ==
    /\ MainAt("check")
    /\ Checked(IF Injectors THEN "injectors" ELSE "host")
    /\ UNCHANGED <<status, spin, envVars, devVars, thread, config, inStopEps, process>>

StartThread(k) == thread' = [thread EXCEPT ![k] = "running"]

StartInjectors ==
    /\ MainAt("injectors")
    /\ Checked("host")
    /\ IF status = "SETUP" THEN StartThread("injector") ELSE UNCHANGED thread
    /\ UNCHANGED <<status, spin, envVars, devVars, config, inStopEps, process>>

\* hostProxy->connect, tried again after ETIMEDOUT while the status is SETUP.
HostConnected ==
    /\ MainAt("host")
    /\ hostReady
    /\ Goto("startReader")
    /\ UNCHANGED <<status, spin, envVars, devVars, thread, config, inStopEps, process>>

\* Mutant: the loop goes on until the host comes.
HostAbsentNoCheck ==
    /\ MainAt("host")
    /\ ~hostReady
    /\ spin' = 1 - spin
    /\ UNCHANGED <<status, mpc, envVars, devVars, thread, config, inStopEps, process>>

HostAbsent ==
    /\ MainAt("host")
    /\ ~hostReady
    /\ IF status = "SETUP" THEN spin' = 1 - spin /\ UNCHANGED <<status, mpc>>
                           ELSE status' = "SETUP_ABORT" /\ Goto("stop") /\ UNCHANGED spin
    /\ UNCHANGED <<envVars, devVars, thread, config, inStopEps, process>>

\* Mutant: the status is left alone when the host proxy fails.
HostErrorNoAbort ==
    /\ MainAt("host")
    /\ Goto("stop")
    /\ UNCHANGED <<status, spin, envVars, devVars, thread, config, inStopEps, process>>

HostError ==
    /\ MainAt("host")
    /\ status' = "SETUP_ABORT" /\ Goto("stop")
    /\ UNCHANGED <<spin, envVars, devVars, thread, config, inStopEps, process>>

\* Mutant: the status says RELAYING as soon as the reader is there.
StartReaderRelaying ==
    /\ MainAt("startReader")
    /\ StartThread("reader") /\ status' = "RELAYING" /\ Goto("startWriter")
    /\ UNCHANGED <<spin, envVars, devVars, config, inStopEps, process>>

StartReader ==
    /\ MainAt("startReader")
    /\ StartThread("reader") /\ Goto("startWriter")
    /\ UNCHANGED <<status, spin, envVars, devVars, config, inStopEps, process>>

StartWriter ==
    /\ MainAt("startWriter")
    /\ IF status = "SETUP"
       THEN StartThread("writer") /\ Goto("lastCheck") /\ UNCHANGED status
       ELSE status' = "SETUP_ABORT" /\ Goto("stop") /\ UNCHANGED thread
    /\ UNCHANGED <<spin, envVars, devVars, config, inStopEps, process>>

LastCheck ==
    /\ MainAt("lastCheck")
    /\ Checked("store")
    /\ UNCHANGED <<status, spin, envVars, devVars, thread, config, inStopEps, process>>

\* The status tested by LastCheck may be another one by now.
StoreRelaying ==
    /\ MainAt("store")
    /\ status' = "RELAYING" /\ Goto("poll")
    /\ UNCHANGED <<spin, envVars, devVars, thread, config, inStopEps, process>>
------------------------------------------------------------------------------
(* main's loop, and stop_relaying.                                          *)

\* Mutant: the loop does not look at done (as in greengrass/main.cpp).
PollStatusOnly ==
    /\ MainAt("poll")
    /\ status # "RELAYING"
    /\ Goto("stop")
    /\ UNCHANGED <<status, spin, envVars, devVars, thread, config, inStopEps, process>>

Poll ==
    /\ MainAt("poll")
    /\ done \/ status # "RELAYING"
    /\ Goto("stop")
    /\ UNCHANGED <<status, spin, envVars, devVars, thread, config, inStopEps, process>>

Ask(ks) == thread' = [k \in Kinds |-> IF k \in ks /\ thread[k] = "running"
                                      THEN "asked" ELSE thread[k]]

\* The switch on status, and please_stop on the injectors.  In SETUP it only
\* leaves a mark for start_control_relaying and returns to main, which deletes
\* the proxies.
StopRelaying ==
    /\ MainAt("stop")
    /\ IF status = "SETUP"
       THEN status' = "SETUP_ABORT" /\ Goto("cleanup") /\ UNCHANGED thread
       ELSE /\ status' = IF status \in {"RELAYING", "SETUP_ABORT", "RESET"}
                         THEN "STOPPING" ELSE status
            /\ Ask({"injector"})
            /\ Goto("join")
    /\ UNCHANGED <<spin, envVars, devVars, config, inStopEps, process>>

\* Mutant: the injectors are not waited for.
JoinNothing ==
    /\ MainAt("join")
    /\ inStopEps' = inStopEps \cup {"main"} /\ Goto("stopEps") /\ Ask({"reader", "writer", "data"})
    /\ UNCHANGED <<status, spin, envVars, devVars, config, process>>

\* The injector threads are joined; stopEps(ALL_ENDPOINTS) then begins.
JoinInjectors ==
    /\ MainAt("join")
    /\ ~Alive("injector")
    /\ inStopEps' = inStopEps \cup {"main"}
    /\ Ask({"reader", "writer", "data"})
    /\ Goto("stopEps")
    /\ UNCHANGED <<status, spin, envVars, devVars, config, process>>

Main == \/ StartSetup \/ DeviceConnected \/ DeviceAbsent \/ DeviceError
        \/ SetCallback \/ CheckSetup \/ StartInjectors
        \/ HostConnected \/ HostAbsent \/ HostError
        \/ StartReader \/ StartWriter \/ LastCheck \/ StoreRelaying
        \/ Poll \/ StopRelaying \/ JoinInjectors
------------------------------------------------------------------------------
(* The other threads.                                                       *)

\* disconnect_notifier on the libusb event thread: the event loop is told to
\* end, so there is no second notification; without a callback the process
\* group gets SIGHUP, which nothing handles.
DeviceLeft ==
    /\ process = "running"
    /\ listener = "running"
    /\ ~plugged
    /\ listener' = "ended"
    /\ IF callback
       THEN status' = "RESET" /\ notified' = TRUE /\ UNCHANGED process
       ELSE process' = "killed" /\ UNCHANGED <<status, notified>>
    /\ UNCHANGED <<mpc, spin, envVars, callback, thread, config, inStopEps>>

\* The reader gets CONTROL_REQUEST_DISCONNECT: hostDisconnectNotification calls
\* stopEps(ALL_ENDPOINTS_EXCEPT_EP0).  please_stop may come after the reader
\* has looked for it.
HostDisconnect ==
    /\ process = "running"
    /\ Alive("reader")
    /\ "reader" \notin inStopEps
    /\ inStopEps' = inStopEps \cup {"reader"}
    /\ Ask({"data"})
    /\ UNCHANGED <<status, mpc, spin, envVars, devVars, config, process>>

\* The writer handles SET_CONFIGURATION: setConfig(index).
SetConfig(index) ==
    /\ process = "running"
    /\ Alive("writer")
    /\ "writer" \notin inStopEps
    /\ config # index
    /\ IF config # 0
       THEN /\ inStopEps' = inStopEps \cup {"writer"}
            /\ Ask({"data"})
            /\ UNCHANGED config
       ELSE /\ config' = index
            /\ StartThread("data")
            /\ UNCHANGED inStopEps
    /\ UNCHANGED <<status, mpc, spin, envVars, devVars, process>>

\* A thread that was asked to stop notices (inside stopEps it notices nothing).
ThreadEnds(k) ==
    /\ process = "running"
    /\ thread[k] = "asked"
    /\ k \notin inStopEps
    /\ thread' = [thread EXCEPT ![k] = "ended"]
    /\ UNCHANGED <<status, mpc, spin, envVars, devVars, config, inStopEps, process>>

\* The rest of stopEps: SIGUSR1, disconnectEps, release_interface, exit(-1).
Exit(t) ==
    /\ process = "running"
    /\ t \in inStopEps
    /\ process' = "exited"
    /\ UNCHANGED <<status, mpc, spin, envVars, devVars, thread, config, inStopEps>>

\* The user plugs and unplugs the device, starts the peer, sends SIGTERM.
Environment(plug, ready, term) ==
    /\ process = "running"
    /\ plugged' = plug /\ hostReady' = ready /\ done' = term
    /\ UNCHANGED <<status, mpc, spin, devVars, thread, config, inStopEps, process>>

Plug    == Environment(~plugged, hostReady, done)
PeerUp  == Environment(plugged, TRUE, done)
Sigterm == Environment(plugged, hostReady, TRUE)

Callers == {"main", "reader", "writer"}

Next == \/ Main
        \/ DeviceLeft
        \/ HostDisconnect
        \/ \E index \in Configs : SetConfig(index)
        \/ \E k \in Kinds : ThreadEnds(k)
        \/ \E t \in Callers : Exit(t)
        \/ Plug \/ PeerUp \/ Sigterm

\* Threads run.  The environment is free.
Fairness == /\ WF_vars(Main)
            /\ WF_vars(DeviceLeft)
            /\ \A k \in Kinds : WF_vars(ThreadEnds(k))
            /\ \A t \in Callers : WF_vars(Exit(t))

Spec == Init /\ [][Next]_vars /\ Fairness
------------------------------------------------------------------------------
TypeOK ==
    /\ status \in Statuses
    /\ mpc \in {"new", "connect", "callback", "check", "injectors", "host", "startReader",
                "startWriter", "lastCheck", "store", "poll", "stop", "join", "stopEps",
                "cleanup"}
    /\ done \in BOOLEAN /\ spin \in {0, 1}
    /\ plugged \in BOOLEAN /\ hostReady \in BOOLEAN
    /\ listener \in {"none", "running", "ended"}
    /\ callback \in BOOLEAN /\ notified \in BOOLEAN
    /\ thread \in [Kinds -> ThreadStates]
    /\ config \in Configs \cup {0}
    /\ inStopEps \subseteq Callers
    /\ process \in {"running", "exited", "killed"}

\* The early return of stop_relaying is never taken: main reaches stop_relaying
\* only after start_control_relaying has left SETUP.  If it were taken, main
\* would delete the proxies under the threads that use them.
NeverStoppedInSetup == mpc = "stop" => status # "SETUP"

\* Once the manager has been seen relaying, every thread the control relay
\* needs has been created, whatever notifications came during the setup.
RelayingWithAllThreads ==
    status = "RELAYING" => /\ thread["reader"] # "none"
                           /\ thread["writer"] # "none"
                           /\ Injectors => thread["injector"] # "none"

\* stop_relaying stops the endpoint threads only when no injector can push into
\* their queues any more.
InjectorsJoinedFirst == "main" \in inStopEps => ~Alive("injector")

\* When main's loop has a reason to stop, the process ends: no thread keeps
\* stop_relaying waiting.
ReasonToStopEndsProcess ==
    mpc = "poll" /\ (done \/ status # "RELAYING") ~> process # "running"

\* A device that leaves during the setup, before the last check of status, ends
\* the process although the host may never connect.
LeftDuringSetupEndsProcess ==
    status = "RESET" /\ mpc # "store" ~> process # "running"

\* "sigterm: stop forwarding threads, and/or hotplug loop and exit"
\* (usb-mitm.cpp): after SIGTERM the process ends.
SigtermEndsProcess == done ~> process # "running"

\* "called by relayReader to notify manager of device disconnect" (Manager.cpp):
\* a manager that was notified does not go on relaying.
DisconnectNotificationHeeded == notified ~> process # "running"
==============================================================================
