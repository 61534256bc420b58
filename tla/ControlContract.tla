--------------------------- MODULE ControlContract ---------------------------
(***************************************************************************)
(* What the relay of endpoint 0 promises: the host asks one thing at a      *)
(* time; the device executes each request at most once, the manager changes *)
(* its configuration only between the execution of a request and its        *)
(* answer, and the host is told what the device said.  A request may be     *)
(* lost on either way; then the host waits on it for good.                  *)
(*                                                                          *)
(* Of a relay with plugins only the host's side is promised: injectors may  *)
(* ask the device, and answer the host, in between.                         *)
(***************************************************************************)
EXTENDS Naturals

VARIABLES plugged,  \* plugins serve the endpoint; chosen at the start
          asked,    \* how many requests the host has made; they are numbered 1, 2, ...
          waiting,  \* the request the host waits on, or 0
          device,   \* how far that request is: "asked", executed ("accepted" or
                    \* "refused"), or nowhere ("none")
          config,   \* the manager's configuration
          answers   \* the requests answered, and whether with a stall

contractVars == <<plugged, asked, waiting, device, config, answers>>

Executed == {"accepted", "refused"}

Init == /\ plugged \in BOOLEAN
        /\ asked = 0 /\ waiting = 0 /\ device = "none" /\ config = 0 /\ answers = {}

\* The host makes a request, which may be lost at once.
Ask == /\ waiting = 0
       /\ asked' = asked + 1 /\ waiting' = asked + 1
       /\ device' = "none" \/ (~plugged /\ device' = "asked")
       /\ UNCHANGED <<plugged, config, answers>>

Execute == /\ device = "asked"
           /\ device' \in Executed
           /\ UNCHANGED <<plugged, asked, waiting, config, answers>>

Configure == /\ plugged \/ device \in Executed
             /\ config' # config
             /\ UNCHANGED <<plugged, asked, waiting, device, answers>>

Answer(stalled) == /\ waiting # 0 /\ waiting' = 0
                   /\ plugged \/ device = (IF stalled THEN "refused" ELSE "accepted")
                   /\ device' = "none"
                   /\ answers' = answers \cup {[request |-> waiting, stalled |-> stalled]}
                   /\ UNCHANGED <<plugged, asked, config>>

Lose == /\ device # "none" /\ device' = "none"
        /\ UNCHANGED <<plugged, asked, waiting, config, answers>>

Next == Ask \/ Execute \/ Configure \/ (\E stalled \in BOOLEAN : Answer(stalled)) \/ Lose

Spec == Init /\ [][Next]_contractVars
==============================================================================
