---------------------------- MODULE RtpPortPool ----------------------------
(***************************************************************************)
(* The RTP port pool of the SIP engine (allocate_rtp_port and              *)
(* release_rtp_port of sip/engine.rs) and the life of the ports under the  *)
(* calls that use them.                                                    *)
(*                                                                         *)
(* allocate_rtp_port searches for a free port while it holds the locks of  *)
(* the cursor and of the allocated set: one step per turn of its loop,     *)
(* with the caller that holds the locks in scan.by.  A call takes a port,  *)
(* binds an RTP socket to it (RtpEngine::new binds without address reuse)  *)
(* and gives it back on one of several paths; the socket is closed when    *)
(* the session, its last owner, is dropped.                                *)
(***************************************************************************)
EXTENDS Integers, FiniteSets

CONSTANTS
    Calls,      \* the calls of one lifetime of the engine
    PortStart,  \* rtp_port_start
    PortEnd,    \* rtp_port_end
    PortMod     \* ports are u16: 2^16, smaller in a model

ASSUME PortAssumption ==
    /\ PortStart \in Nat /\ PortEnd \in Nat /\ PortMod \in Nat
    /\ PortMod % 2 = 0
    /\ PortStart < PortEnd /\ PortEnd < PortMod

VARIABLES
    next,       \* next_rtp_port
    allocated,  \* allocated_ports
    scan,       \* who is inside allocate_rtp_port, initial_port, wrapped
    pc,         \* progress of each call
    dir,        \* its direction
    port,       \* the port it was given
    noted       \* has its Terminated handler noted the port, to release it?

portVars == <<next, allocated, scan, pc, dir, port, noted>>

\* An even number of the range: a port allocate_rtp_port may hand out.
RoundUp(p) == IF p % 2 # 0 THEN (p + 1) % PortMod ELSE p
RangeStart == RoundUp(PortStart)
Slots == {p \in RangeStart .. (PortEnd - 1) : p % 2 = 0}

Advance(p) == (p + 2) % PortMod

MutantWrap(p) == IF p > PortEnd THEN RangeStart ELSE p
Wrap(p) == IF p >= PortEnd THEN RangeStart ELSE p

\* Calls that own an open socket on their port.
HasSocket == {"live", "cancelled", "ending"}
BoundPorts == {port[c] : c \in {d \in Calls : pc[d] \in HasSocket}}

Unlocked == scan.by = {}

PortInit ==
    /\ next = PortStart
    /\ allocated = {}
    /\ scan = [by |-> {}, initial |-> 0, wrapped |-> FALSE]
    /\ pc = [c \in Calls |-> "new"]
    /\ dir \in [Calls -> {"Inbound", "Outbound"}]
    /\ port = [c \in Calls |-> 0]
    /\ noted = [c \in Calls |-> FALSE]

----------------------------------------------------------------------------
(* allocate_rtp_port.                                                      *)

\* Take both locks and make the cursor even.
BeginAllocate(c) ==
    /\ pc[c] = "new" /\ Unlocked
    /\ next' = RoundUp(next)
    /\ scan' = [by |-> {c}, initial |-> RoundUp(next), wrapped |-> FALSE]
    /\ pc' = [pc EXCEPT ![c] = "scan"]
    /\ UNCHANGED <<allocated, dir, port, noted>>

\* At the top of the loop: the wrapped flag, and whether the pool is exhausted.
Wrapped == scan.wrapped \/ next >= PortEnd
MutantIgnoresWrap == Wrap(next) >= scan.initial
MutantNeverExhausted == FALSE
Exhausted == Wrapped /\ Wrap(next) >= scan.initial

\* The port under the cursor is in use: go on with the next one.
ScanSkip(c) ==
    /\ pc[c] = "scan"
    /\ Wrap(next) \in allocated /\ ~Exhausted
    /\ next' = Advance(Wrap(next))
    /\ scan' = [scan EXCEPT !.wrapped = Wrapped]
    /\ UNCHANGED <<allocated, pc, dir, port, noted>>

\* It is free, or no port is: hand it out, advance the cursor, unlock.
ScanTake(c) ==
    /\ pc[c] = "scan"
    /\ Wrap(next) \notin allocated \/ Exhausted
    /\ allocated' = allocated \union {Wrap(next)}
    /\ next' = Wrap(Advance(Wrap(next)))
    /\ pc' = [pc EXCEPT ![c] = "binding"]
    /\ port' = [port EXCEPT ![c] = Wrap(next)]
    /\ scan' = [scan EXCEPT !.by = {}]
    /\ UNCHANGED <<dir, noted>>

----------------------------------------------------------------------------
(* The calls.                                                              *)

ReleaseRtpPort(p) == Unlocked /\ allocated' = allocated \ {p}

\* The RTP engine is bound and the session enters the calls map.
SetUp(c) ==
    /\ pc[c] = "binding" /\ port[c] \notin BoundPorts
    /\ pc' = [pc EXCEPT ![c] = "live"]
    /\ UNCHANGED <<next, allocated, scan, dir, port, noted>>

\* call() returns an error (the bind or a URI), or handle_incoming_invite
\* cannot create the server dialog: the port is not given back.
SetUpFails(c) ==
    /\ pc[c] = "binding"
    /\ dir[c] = "Outbound" \/ port[c] \notin BoundPorts
    /\ pc' = [pc EXCEPT ![c] = "over"]
    /\ UNCHANGED <<next, allocated, scan, dir, port, noted>>

\* The bind fails for an inbound call: the port is given back, and the call
\* is refused or goes on without RTP.
InboundBindFails(c) ==
    /\ pc[c] = "binding" /\ dir[c] = "Inbound"
    /\ ReleaseRtpPort(port[c])
    /\ pc' = [pc EXCEPT ![c] = "over"]
    /\ UNCHANGED <<next, scan, dir, port, noted>>

\* cancel(): the port is given back while the session stays in the map.
CancelCall(c) ==
    /\ pc[c] = "live" /\ dir[c] = "Outbound"
    /\ ReleaseRtpPort(port[c])
    /\ pc' = [pc EXCEPT ![c] = "cancelled"]
    /\ UNCHANGED <<next, scan, dir, port, noted>>

\* reject(), or the invite task after a cancel signal, a 422, a redirect or an
\* error: the port is given back and the session removed.
GiveUp(c) ==
    /\ pc[c] \in {"live", "cancelled"}
    /\ ReleaseRtpPort(port[c])
    /\ pc' = [pc EXCEPT ![c] = "ending"]
    /\ UNCHANGED <<next, scan, dir, port, noted>>

\* The Terminated handler notes the port of a session it finds in the map ...
TerminatedNotes(c) ==
    /\ pc[c] \in {"live", "cancelled"} /\ ~noted[c]
    /\ noted' = [noted EXCEPT ![c] = TRUE]
    /\ UNCHANGED <<next, allocated, scan, pc, dir, port>>

\* ... and gives it back, in a later step, before it removes the session.
TerminatedReleases(c) ==
    /\ noted[c]
    /\ ReleaseRtpPort(port[c])
    /\ noted' = [noted EXCEPT ![c] = FALSE]
    /\ pc' = [pc EXCEPT ![c] = IF @ \in {"live", "cancelled"} THEN "ending" ELSE @]
    /\ UNCHANGED <<next, scan, dir, port>>

\* The last reference to the session goes, and with it the socket.
DropSession(c) ==
    /\ pc[c] = "ending"
    /\ pc' = [pc EXCEPT ![c] = "over"]
    /\ UNCHANGED <<next, allocated, scan, dir, port, noted>>

----------------------------------------------------------------------------
Allocate(c) == ScanSkip(c) \/ ScanTake(c)

PortNext ==
    \E c \in Calls :
        \/ BeginAllocate(c) \/ Allocate(c)
        \/ SetUp(c) \/ SetUpFails(c) \/ InboundBindFails(c)
        \/ CancelCall(c) \/ GiveUp(c)
        \/ TerminatedNotes(c) \/ TerminatedReleases(c) \/ DropSession(c)

\* A thread inside allocate_rtp_port keeps running.
PortSpec == PortInit /\ [][PortNext]_portVars /\ WF_portVars(\E c \in Calls : Allocate(c))

----------------------------------------------------------------------------
(* Properties.                                                             *)

CallPcs == {"new", "scan", "binding", "over"} \union HasSocket

\* Types of the pool, the scan and the calls.
PortTypeOK ==
    /\ next \in 0 .. (PortMod - 1)
    /\ allocated \subseteq 0 .. (PortMod - 1)
    /\ scan \in [by : SUBSET Calls, initial : 0 .. (PortMod - 1), wrapped : BOOLEAN]
    /\ pc \in [Calls -> CallPcs]
    /\ dir \in [Calls -> {"Inbound", "Outbound"}]
    /\ port \in [Calls -> 0 .. (PortMod - 1)]
    /\ noted \in [Calls -> BOOLEAN]

\* Every port the pool hands out is an even port of the configured range,
\* through every rounding, skip and wrap of the cursor.
PortsInRange == allocated \subseteq Slots

\* allocate_rtp_port hands out a port that is in use only when all are: the
\* wrap-around test stops the search neither too early nor on a stale cursor.
FreshUnlessExhausted ==
    [][\A c \in Calls :
         pc[c] = "scan" /\ pc'[c] = "binding"
             => port'[c] \notin allocated \/ Slots \subseteq allocated]_portVars

\* The search ends and gives the locks back, also with every port in use.
AllocationEnds == ~Unlocked ~> Unlocked

\* The loop invariant of the search, which makes FreshUnlessExhausted inductive:
\* the ports it has passed are all in use, from where it began up to the cursor
\* and, once it has wrapped, round the end of the range; and exactly the thread
\* that scans holds the locks.
ScanInv ==
    /\ PortTypeOK
    /\ allocated \subseteq Slots
    /\ next % 2 = 0 \/ (next = PortStart /\ Unlocked)
    /\ next >= PortStart /\ next <= PortEnd + 1
    /\ Unlocked => next < PortEnd
    /\ \A c \in Calls : c \in scan.by <=> pc[c] = "scan"
    /\ \A c, d \in scan.by : c = d
    /\ ~Unlocked =>
         /\ scan.initial \in Slots
         /\ next % 2 = 0
         /\ \A p \in Slots : ~scan.wrapped /\ scan.initial <= p /\ p < next => p \in allocated
         /\ ~scan.wrapped => scan.initial <= next
         /\ \A p \in Slots : scan.wrapped /\ (scan.initial <= p \/ p < next) => p \in allocated
         /\ scan.wrapped => next <= scan.initial

----------------------------------------------------------------------------
(* Statements of the repository's comments that the code does not keep.    *)

\* The pool tracks the port of every call that has one (P1-SIP-5).
LivePortsTracked == \A c \in Calls : pc[c] = "live" => port[c] \in allocated

\* The port that the Terminated handler of a call gives back is not in use by another
\* call, whoever has given it back before (P1-SIP-5).
OwnPortReleased ==
    [][\A c, d \in Calls :
         (c # d /\ noted[d] /\ ~noted'[d] /\ pc[c] = "live")
             => port[c] # port[d] \/ port[c] \notin allocated]_portVars
=============================================================================
