-------------------------- MODULE ReplayProtection --------------------------
(***************************************************************************)
(* What replay protection promises of one stream of numbered packets:      *)
(* within one epoch of the stream no number is delivered twice, and none   *)
(* that has fallen out of the window behind the highest one.               *)
(***************************************************************************)
EXTENDS Naturals

CONSTANT Window

VARIABLE delivered   \* the numbers delivered in this epoch

InWindow(i) == \A j \in delivered : j < i + Window

Deliver(i) ==
    /\ i \notin delivered /\ InWindow(i)
    /\ delivered' = delivered \union {i}

\* The stream starts anew, with this packet.
Restart(i) == delivered' = {i}

Init == delivered = {}
Next == \E i \in delivered' : Deliver(i) \/ Restart(i)

Spec == Init /\ [][Next]_delivered
=============================================================================
