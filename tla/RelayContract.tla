---------------------------- MODULE RelayContract ----------------------------
(***************************************************************************)
(* What the relay of a data endpoint promises the proxies on its two sides: *)
(* a channel that may lose packets but never reorders or repeats them.  The *)
(* packets are numbered 1, 2, ... in the order in which they arrive; what   *)
(* injectors add is not the channel's and does not appear here.             *)
(***************************************************************************)
EXTENDS Naturals

VARIABLES arrived,    \* how many packets have arrived
          transit,    \* the packets on their way
          delivered,  \* the packets given to the other side
          lost        \* the packets that go no further

channelVars == <<arrived, transit, delivered, lost>>

Init == arrived = 0 /\ transit = {} /\ delivered = {} /\ lost = {}

\* A packet enters the channel, or is lost at its mouth.
Arrive == /\ arrived' = arrived + 1
          /\ \/ transit' = transit \cup {arrived + 1} /\ UNCHANGED lost
             \/ lost' = lost \cup {arrived + 1} /\ UNCHANGED transit
          /\ UNCHANGED delivered

\* The oldest packet in transit comes out.
Deliver(n) == /\ n \in transit
              /\ \A m \in transit : n <= m
              /\ transit' = transit \ {n}
              /\ delivered' = delivered \cup {n}
              /\ UNCHANGED <<arrived, lost>>

Lose(n) == /\ n \in transit
           /\ transit' = transit \ {n}
           /\ lost' = lost \cup {n}
           /\ UNCHANGED <<arrived, delivered>>

Next == Arrive \/ \E n \in transit : Deliver(n) \/ Lose(n)

Spec == Init /\ [][Next]_channelVars
==============================================================================
