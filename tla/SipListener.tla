---------------------------- MODULE SipListener -----------------------------
(***************************************************************************)
(* The task that SipEngine::start spawns (sip/engine.rs): it takes the     *)
(* incoming transactions one at a time, admits or refuses an INVITE, and   *)
(* answers OPTIONS and REFER; beside it the application places calls, and  *)
(* the keepalive task asks the gateways whether they are there.            *)
(***************************************************************************)
EXTENDS Integers, Sequences, FiniteSets

CONSTANTS
    CallIds,        \* SIP Call-IDs of incoming INVITEs
    Outbound,       \* calls the application places
    MaxCalls,       \* max_calls
    MaxRate,        \* max_requests_per_second
    Second,         \* ticks in the window of the rate limit
    Gateways,       \* servers of the providers
    Backlog,        \* bound: transactions waiting (TLC)
    LastTick        \* bound: ticks (TLC)

ASSUME ListenerAssumption == {MaxCalls, MaxRate, Second, Backlog, LastTick} \subseteq Nat /\ MaxRate > 0

VARIABLES
    inbox,      \* transactions that wait for the listener
    handling,   \* the INVITE that is being handled, and how far
    sessions,   \* calls: the sessions, by Call-ID or as placed
    request_timestamps,     \* request_timestamps
    clock,
    admitted,   \* when an INVITE passed the rate limit (history)
    gateways,     \* gateway_health, and the state last told
    running     \* no shutdown yet

listenVars == <<inbox, handling, sessions, request_timestamps, clock, admitted, gateways, running>>

Requests == CallIds \union {"OPTIONS"}   \* REFER and the rest are like OPTIONS here
Inbound == {s \in sessions : s.inbound}
NewSession(id, inbound, key) == [id |-> id, inbound |-> inbound, key |-> key]

ListenInit ==
    /\ inbox = <<>> /\ handling = {} /\ sessions = {}
    /\ request_timestamps = <<>> /\ clock = 0 /\ admitted = <<>>
    /\ gateways = [g \in Gateways |-> "unknown"] /\ running = TRUE

\* An INVITE, or its retransmission, or another request.
RequestArrives(r) ==
    /\ Len(inbox) < Backlog /\ inbox' = Append(inbox, r)
    /\ UNCHANGED <<handling, sessions, request_timestamps, clock, admitted, gateways, running>>

\* OPTIONS gets 200, REFER 202 or 400, anything else 405; an INVITE gets 100.
TakeRequest ==
    /\ running /\ handling = {} /\ inbox # <<>>
    /\ inbox' = Tail(inbox)
    /\ handling' = IF Head(inbox) \in CallIds THEN {[id |-> Head(inbox), at |-> "trying"]} ELSE {}
    /\ UNCHANGED <<sessions, request_timestamps, clock, admitted, gateways, running>>

\* retain(): the stamps are in the order in which they were pushed, so that those it
\* removes come first.
SinceStale(stale) == SubSeq(request_timestamps, Cardinality(stale) + 1, Len(request_timestamps))

\* A bug that would pass the tests: a request is forgotten a tick before the second it came in is over.
MutantRetained == SinceStale({i \in DOMAIN request_timestamps : clock - request_timestamps[i] >= Second - 1})

\* check_rate_limit: the requests of the last second, and this one if there is room.
Retained == SinceStale({i \in DOMAIN request_timestamps : clock - request_timestamps[i] >= Second})
WithinRate == Len(Retained) < MaxRate
Known(id) == \E s \in Inbound : s.id = id

\* handle_incoming_invite after 100 Trying: a known Call-ID is dropped, the limits
\* are looked at, then max_calls.
CheckInvite == \E h \in handling :
    /\ h.at = "trying"
    /\ IF Known(h.id) THEN handling' = {} /\ UNCHANGED <<request_timestamps, admitted>>
       ELSE /\ request_timestamps' = IF WithinRate THEN Append(Retained, clock) ELSE Retained
            /\ admitted' = IF WithinRate THEN Append(admitted, clock) ELSE admitted
            /\ handling' = IF WithinRate /\ (MaxCalls > 0 => Cardinality(sessions) < MaxCalls)
                           THEN {[h EXCEPT !.at = "setup"]} ELSE {}
    /\ UNCHANGED <<inbox, sessions, clock, gateways, running>>

\* The dialog, the RTP engine and the replies in between: the session is stored, or
\* the INVITE is refused.
StoreSession == \E h \in handling :
    /\ h.at = "setup" /\ handling' = {}
    /\ sessions' = sessions \union {NewSession(h.id, TRUE, Len(admitted))}
    /\ UNCHANGED <<inbox, request_timestamps, clock, admitted, gateways, running>>

RefuseInvite == \E h \in handling :
    /\ h.at = "setup" /\ handling' = {}
    /\ UNCHANGED <<inbox, sessions, request_timestamps, clock, admitted, gateways, running>>

\* call(): no limit is looked at.
PlaceCall(c) ==
    /\ running /\ \A s \in sessions : s.id # c
    /\ sessions' = sessions \union {NewSession(c, FALSE, 0)}
    /\ UNCHANGED <<inbox, handling, request_timestamps, clock, admitted, gateways, running>>

CallOver(s) ==
    /\ sessions' = sessions \ {s}
    /\ UNCHANGED <<inbox, handling, request_timestamps, clock, admitted, gateways, running>>

\* send_options_keepalive: the answer, or none in five seconds.
Pinged(g, answer) ==
    /\ running /\ gateways' = [gateways EXCEPT ![g] = answer]
    /\ UNCHANGED <<inbox, handling, sessions, request_timestamps, clock, admitted, running>>

ListenTick ==
    /\ clock < LastTick /\ clock' = clock + 1
    /\ UNCHANGED <<inbox, handling, sessions, request_timestamps, admitted, gateways, running>>

StopListener ==
    /\ running /\ running' = FALSE
    /\ UNCHANGED <<inbox, handling, sessions, request_timestamps, clock, admitted, gateways>>

ListenNext ==
    \/ \E r \in Requests : RequestArrives(r)
    \/ TakeRequest \/ CheckInvite \/ StoreSession \/ RefuseInvite
    \/ \E c \in Outbound : PlaceCall(c)
    \/ \E s \in sessions : CallOver(s)
    \/ \E g \in Gateways, answer \in {"healthy", "unhealthy"} : Pinged(g, answer)
    \/ ListenTick \/ StopListener

ListenSpec == ListenInit /\ [][ListenNext]_listenVars

----------------------------------------------------------------------------
(* Properties.                                                             *)

ListenTypeOK ==
    /\ \A h \in handling : h.id \in CallIds /\ h.at \in {"trying", "setup"}
    /\ Len(inbox) <= Backlog /\ DOMAIN gateways = Gateways

\* Incoming calls are at most max_calls whatever the application places in between,
\* no Call-ID has two sessions however often its INVITE is repeated, and no second,
\* wherever it begins, sees more INVITEs admitted than the limit.
Admission ==
    /\ MaxCalls > 0 => Cardinality(Inbound) <= MaxCalls
    /\ \A s, r \in Inbound : s.id = r.id => s = r
    /\ \A i, j \in DOMAIN admitted : j >= i + MaxRate => admitted[j] - admitted[i] >= Second
=============================================================================
