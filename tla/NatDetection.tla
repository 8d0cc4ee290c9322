---------------------------- MODULE NatDetection ----------------------------
(***************************************************************************)
(* NAT detection (nat/detect.rs) and the manager that runs it, chooses a   *)
(* strategy and keeps one keepalive (nat/manager.rs).  The NAT, the STUN   *)
(* server and the loss of packets are external.                            *)
(***************************************************************************)
EXTENDS Naturals

CONSTANTS
    Detectors,   \* tasks that call detect()
    ForceModes,  \* force_mode of the configuration, "none" among them
    MaxKeepalives \* bound: keepalives started

ASSUME DetectionAssumption ==
    MaxKeepalives \in Nat /\ ForceModes \subseteq {"none", "direct", "relay", "holepunch"}

VARIABLES
    net,       \* the NAT, and what the server supports
    test,      \* per detector: the test under way, or its verdict
    manager,   \* DetectionState, stun_server, force_mode
    keepalive  \* the keepalive of the manager, and those whose task runs

natVars == <<net, test, manager, keepalive>>

NatTypes == {"Open", "FullCone", "RestrictedCone", "PortRestrictedCone", "Symmetric", "Unknown"}
Strategies == [direct |-> "Direct", relay |-> "Relay", holepunch |-> "HolePunch", none |-> "HolePunch"]

\* How the NAT maps destinations to ports, and whose packets it lets in; does
\* the server answer from another address or port, and name its second address?
Nets == [mapping : {"none", "same", "per_destination"}, filter : {"any", "address", "port"},
         changes : BOOLEAN, second : BOOLEAN]

NatInit ==
    /\ net \in {n \in Nets : n.mapping = "none" => n.filter = "any"}
    /\ test = [d \in Detectors |-> "none"]
    /\ \E f \in ForceModes :
         manager = [force |-> f, stun |-> FALSE, nat |-> "Unknown", strategy |-> Strategies[f]]
    /\ keepalive = [current |-> 0, running |-> {}]

for_nat_type(n) ==
    IF n \in {"Open", "FullCone"} THEN "Direct" ELSE IF n = "Symmetric" THEN "Relay" ELSE "HolePunch"

MutantLetsIn(who) == TRUE
LetsIn(who) == net.filter = "any" \/ (net.filter = "address" /\ who = "port")

\* init(): the server's name is resolved, or the call fails.
Resolve ==
    /\ manager' = [manager EXCEPT !.stun = TRUE]
    /\ UNCHANGED <<net, test, keepalive>>

Step(d, from, to) ==
    /\ test[d] = from /\ test' = [test EXCEPT ![d] = to]
    /\ UNCHANGED <<net, manager, keepalive>>

Detect(d) == manager.stun /\ Step(d, "none", "I")

\* Test I.  Any answer tells the address, which is not the local one: the socket
\* is bound to the unspecified address, and that is what it is compared with.
TestILost(d) == Step(d, "I", "Unknown")
TestI(d) == Step(d, "I", "II")

\* Tests II and IV: an answer from elsewhere, which a packet loss may hide.
TestII(d) == net.changes /\ LetsIn("address") /\ Step(d, "II", "FullCone")
TestIIFails(d) == Step(d, "II", "III")

\* Test III needs the second address, and that it answers.
TestIII(d) == net.second /\ net.mapping = "per_destination" /\ Step(d, "III", "Symmetric")
TestIIISame(d) == (net.second => net.mapping # "per_destination") /\ Step(d, "III", "IV")
TestIIILost(d) == net.second /\ Step(d, "III", "IV")

TestIV(d) == net.changes /\ LetsIn("port") /\ Step(d, "IV", "RestrictedCone")
TestIVFails(d) == Step(d, "IV", "PortRestrictedCone")

\* The verdict is stored with its strategy, which a forced mode replaces.
Conclude(d) ==
    /\ test[d] \in NatTypes
    /\ manager' = [manager EXCEPT !.nat = test[d],
                     !.strategy = IF manager.force = "none" THEN for_nat_type(test[d]) ELSE @]
    /\ test' = [test EXCEPT ![d] = "none"]
    /\ UNCHANGED <<net, keepalive>>

\* start_keepalive() replaces the former one, whose task ends at its next turn;
\* shutdown() stops it.
StartKeepalive ==
    /\ manager.stun /\ keepalive.current < MaxKeepalives
    /\ keepalive' = [current |-> keepalive.current + 1,
                     running |-> {keepalive.current + 1}]
    /\ UNCHANGED <<net, test, manager>>
Shutdown ==
    /\ keepalive' = [keepalive EXCEPT !.running = {}]
    /\ UNCHANGED <<net, test, manager>>

NatNext ==
    \/ Resolve \/ StartKeepalive \/ Shutdown
    \/ \E d \in Detectors :
         \/ Detect(d) \/ TestI(d) \/ TestILost(d) \/ TestII(d) \/ TestIIFails(d)
         \/ TestIII(d) \/ TestIIISame(d) \/ TestIIILost(d) \/ TestIV(d) \/ TestIVFails(d)
         \/ Conclude(d)

NatSpec == NatInit /\ [][NatNext]_natVars

----------------------------------------------------------------------------
(* Properties.                                                             *)

NatTypeOK ==
    /\ \A d \in Detectors : test[d] \in NatTypes \union {"none", "I", "II", "III", "IV"}
    /\ manager.nat \in NatTypes /\ manager.strategy \in {"Direct", "Relay", "HolePunch"}

\* A verdict that relies on an answer is right, whatever was lost and whatever
\* the server supports: full cone, restricted cone, symmetric.  Without a forced
\* mode the peer is sent directly to an address only when anyone may send there.
VerdictsSound ==
    /\ manager.nat = "FullCone" => net.filter = "any"
    /\ manager.nat = "RestrictedCone" => net.filter # "port"
    /\ manager.nat = "Symmetric" => net.mapping = "per_destination"
    /\ manager.force = "none" =>
         /\ manager.strategy = "Direct" => net.filter = "any"
         /\ manager.strategy = "Relay" => net.mapping = "per_destination"
=============================================================================
