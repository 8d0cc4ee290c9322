------------------------------ MODULE MCServices -----------------------------
(***************************************************************************)
(* The components around a call whose promise is also that something       *)
(* happens, in one run for TLC: the port pool, the session timer, the STUN *)
(* client with its pool of servers, the NAT keepalive, and digits within a *)
(* call.  They share no state; the initial state chooses the one that      *)
(* moves, and the others keep their initial states, of which one is        *)
(* enough.                                                                 *)
(***************************************************************************)
EXTENDS RtpPortPool, SessionTimer, StunTransaction, StunPool, NatKeepalive, SipDtmf

VARIABLE part

\* Offers below the minimum, and on both sides of the point where the grace period
\* stops growing (3 * 32 = 96).
MCOffered == {30, 96, 97}

\* Digits, a pause, and one that is refused; an INFO that names a digit and one whose
\* signal does not parse.
MCStrings == {<<"digit", "bad">>, <<"pause">>}
MCBodies ==
    {<<[name |-> "duration", holds |-> {6000}], [name |-> "signal", holds |-> signal]>> : signal \in {{}, {"digit"}}}

PartNames == {"ports", "timer", "stun", "pool", "keepalive", "digits"}
serviceVars == <<part, portVars, timerVars, txnVars, poolVars, kaVars, sipDtmfVars>>

Init ==
    /\ part \in PartNames
    /\ PortInit /\ (part # "ports" => \A c \in Calls : dir[c] = "Inbound")
    /\ TimerInit /\ (part # "timer" => se = DefaultSe /\ role = "Local")
    /\ TxnInit /\ (part # "stun" => txn.skip_source)
    /\ KaInit
    /\ PoolInit /\ (part # "pool" => up = Servers)
    /\ SipDtmfInit /\ (part # "digits" => phone.dialog /\ phone.event_pt)

\* One component moves: the tuple of its variables is left out.
OnlyPorts == UNCHANGED <<part, timerVars, txnVars, poolVars, kaVars, sipDtmfVars>>
OnlyTimer == UNCHANGED <<part, portVars, txnVars, poolVars, kaVars, sipDtmfVars>>
OnlyStun == UNCHANGED <<part, portVars, timerVars, poolVars, kaVars, sipDtmfVars>>
OnlyPool == UNCHANGED <<part, portVars, timerVars, txnVars, kaVars, sipDtmfVars>>
OnlyKeepalive == UNCHANGED <<part, portVars, timerVars, txnVars, poolVars, sipDtmfVars>>
OnlyDigits == UNCHANGED <<part, portVars, timerVars, txnVars, poolVars, kaVars>>

PortsMove == part = "ports" /\ PortNext /\ OnlyPorts
TimerMoves == part = "timer" /\ TimerNext /\ OnlyTimer
StunMoves == part = "stun" /\ TxnNext /\ OnlyStun
PoolMoves == part = "pool" /\ PoolNext /\ OnlyPool
KeepaliveMoves == part = "keepalive" /\ KaNext /\ OnlyKeepalive
DigitsMove == part = "digits" /\ SipDtmfNext /\ OnlyDigits

Next ==
    \/ PortsMove \/ TimerMoves \/ StunMoves \/ PoolMoves \/ KeepaliveMoves
    \/ DigitsMove

\* The fairness of the components' specifications, of which one matters at a time.
MovesOn ==
    \/ part = "ports" /\ (\E c \in Calls : Allocate(c)) /\ OnlyPorts
    \/ part = "timer" /\ (TimerTick \/ TimerTask) /\ OnlyTimer
    \/ part = "stun" /\ TxnWork /\ OnlyStun
    \/ part = "pool" /\ PoolWork /\ OnlyPool
    \/ part = "keepalive" /\ TaskWork /\ OnlyKeepalive
    \/ part = "digits" /\ (\E t \in DigitThreads : DigitWork(t)) /\ OnlyDigits
MovesToo(t) ==
    \/ part = "pool" /\ Answered(t) /\ OnlyPool
    \/ part = "keepalive" /\ t = ProbeTask /\ (\E n \in Notifiers : CallWork(n)) /\ OnlyKeepalive
Fairness == WF_serviceVars(MovesOn) /\ \A t \in PoolTasks : WF_serviceVars(MovesToo(t))

Spec == Init /\ [][Next]_serviceVars /\ Fairness

\* Types of every component's state, and the ranges its fields keep to: the ports
\* handed out, the timer's interval and the servers' ages.
TypesOK ==
    /\ PortTypeOK /\ PortsInRange /\ TimerTypeOK
    /\ TxnTypeOK /\ PoolTypeOK /\ KaTypeOK /\ SipDtmfTypeOK

\* What was begun ends: the search for a port, a STUN transaction however busy its
\* socket is, and the waits of threads that ask for digits.
WorkEnds == AllocationEnds /\ TransactionEnds /\ DigitWaitsEnd
=============================================================================
