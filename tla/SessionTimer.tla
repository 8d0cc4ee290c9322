---------------------------- MODULE SessionTimer ----------------------------
(***************************************************************************)
(* The session timer of one call (sip/session_timer.rs) and the task that  *)
(* polls it (call() and answer() of sip/engine.rs), in seconds: what is    *)
(* negotiated, when the session is refreshed, and when the call is given   *)
(* up.  SipCall leaves these times open.                                   *)
(***************************************************************************)
EXTENDS Integers

CONSTANTS
    MinSe,      \* min_se of the configuration (90 s)
    DefaultSe,  \* Session-Expires assumed when none is received (1800 s)
    Poll,       \* sleep between two looks at the timer (5 s)
    MaxReply,   \* longest time until send_reinvite returns
    Offered     \* Session-Expires values the far end may send

ASSUME TimerAssumption ==
    /\ MinSe \in Nat /\ DefaultSe \in Nat /\ Poll \in Nat /\ MaxReply \in Nat
    /\ 2 <= MinSe /\ MinSe <= DefaultSe
    /\ 0 < Poll /\ 0 < MaxReply
    /\ Offered \subseteq Nat

VARIABLES
    se,       \* session_expires, negotiated
    role,     \* who refreshes: RefreshRole
    elapsed,  \* time since last_refresh
    phase,    \* the task sleeps, waits for its re-INVITE, or has left its loop
    due,     \* time left in the phase, at most
    alive,    \* does the far end still answer?
    failed    \* has a refresh of ours failed?

timerVars == <<se, role, elapsed, phase, due, alive, failed>>

Roles == {"Local", "Remote"}

----------------------------------------------------------------------------
(* session_timer.rs.                                                       *)

Grace(s) == IF s \div 3 < 32 THEN s \div 3 ELSE 32

\* refresh_interval: half the session, but before the grace period at its end.
RefreshInterval(s) == IF s \div 2 < s - Grace(s) THEN s \div 2 ELSE s - Grace(s)

Expiry(s) == s + Grace(s)

\* A re-INVITE sent when the task finds it due is settled before the session
\* expires, for the shortest session that can be negotiated.
ASSUME ReplyAssumption == RefreshInterval(MinSe) + Poll + MaxReply <= Expiry(MinSe)

\* start(): the negotiated interval is raised to the configured minimum.
Clamp(s) == IF s < MinSe THEN MinSe ELSE s

\* process_response: a value with or without a refresher, which preferred_role
\* (Local) replaces; without a readable value the default, refreshed by us.
ExpiresHeaders == [kind : {"absent", "unreadable"}] \union
           [kind : {"value"}, seconds : Offered, refresher : {"uac", "uas", "none"}]

RoleOf(refresher, is_uac) ==
    IF refresher = "none" \/ (refresher = "uac") = is_uac THEN "Local" ELSE "Remote"

NegotiatedSe(h) == IF h.kind = "value" THEN Clamp(h.seconds) ELSE DefaultSe
NegotiatedRole(h, is_uac) == IF h.kind = "value" THEN RoleOf(h.refresher, is_uac) ELSE "Local"

MutantRefreshesLate == role = "Local" /\ elapsed >= se
needs_refresh == role = "Local" /\ elapsed >= RefreshInterval(se)
MutantNoGrace == elapsed >= se
is_expired == elapsed >= Expiry(se)

----------------------------------------------------------------------------
(* The monitoring task.                                                    *)

\* The timer starts with the answer, and so does the task.
TimerInit ==
    /\ \E h \in ExpiresHeaders, is_uac \in BOOLEAN :
         se = NegotiatedSe(h) /\ role = NegotiatedRole(h, is_uac)
    /\ elapsed = 0
    /\ phase = "sleep" /\ due = Poll
    /\ alive = TRUE /\ failed = FALSE

TimerTick ==
    /\ phase # "over" /\ due > 0
    /\ elapsed' = elapsed + 1 /\ due' = due - 1
    /\ UNCHANGED <<se, role, phase, alive, failed>>

\* The session has expired: hang up and leave the loop.
PollExpired ==
    /\ phase = "sleep" /\ due = 0 /\ is_expired
    /\ phase' = "over"
    /\ UNCHANGED <<se, role, elapsed, due, alive, failed>>

\* It is time for a refresh: send a re-INVITE and wait for its outcome.
PollRefresh ==
    /\ phase = "sleep" /\ due = 0 /\ ~is_expired /\ needs_refresh
    /\ phase' = "await" /\ due' = MaxReply
    /\ UNCHANGED <<se, role, elapsed, alive, failed>>

PollIdle ==
    /\ phase = "sleep" /\ due = 0 /\ ~is_expired /\ ~needs_refresh
    /\ due' = Poll
    /\ UNCHANGED <<se, role, elapsed, phase, alive, failed>>

\* Only a re-INVITE that succeeded restarts the timer.
ReinviteSucceeds ==
    /\ phase = "await" /\ alive
    /\ elapsed' = 0
    /\ phase' = "sleep" /\ due' = Poll
    /\ UNCHANGED <<se, role, alive, failed>>

MutantReinviteFails ==
    /\ phase = "await" /\ failed' = TRUE /\ elapsed' = 0 /\ phase' = "sleep" /\ due' = Poll
    /\ UNCHANGED <<se, role, alive>>
ReinviteFails ==
    /\ phase = "await"
    /\ failed' = TRUE
    /\ phase' = "sleep" /\ due' = Poll
    /\ UNCHANGED <<se, role, elapsed, alive>>

\* DialogState::Updated: any re-INVITE of the far end restarts the timer.
RemoteRefresh ==
    /\ phase # "over" /\ alive
    /\ elapsed' = 0
    /\ UNCHANGED <<se, role, phase, due, alive, failed>>

\* The far end falls silent (external).
FarEndDies ==
    /\ alive /\ alive' = FALSE
    /\ UNCHANGED <<se, role, elapsed, phase, due, failed>>

TimerTask == PollExpired \/ PollRefresh \/ PollIdle \/ ReinviteSucceeds \/ ReinviteFails

TimerNext == TimerTick \/ TimerTask \/ RemoteRefresh \/ FarEndDies

\* Time passes, and the task runs when it is due.
TimerSpec == TimerInit /\ [][TimerNext]_timerVars /\ WF_timerVars(TimerTick \/ TimerTask)

----------------------------------------------------------------------------
(* Properties.                                                             *)

\* Types of the timer and its task; no interval below the minimum is accepted.
TimerTypeOK ==
    /\ se \in Nat /\ MinSe <= se
    /\ role \in Roles
    /\ elapsed \in Nat
    /\ phase \in {"sleep", "await", "over"}
    /\ due \in Nat
    /\ alive \in BOOLEAN /\ failed \in BOOLEAN

\* While our refreshes are accepted the session never reaches its expiry, with
\* the poll interval and the time a re-INVITE takes counted in: neither side
\* has a reason to give up a call that is well.
SessionKept == role = "Local" /\ ~failed => elapsed < Expiry(se)

\* A call that nobody refreshes is not kept longer than its expiry, one poll and
\* one re-INVITE, in whatever phase of the task it expires, and none is given up
\* before its whole interval has passed.
GivenUpInTime ==
    /\ elapsed <= Expiry(se) + Poll + MaxReply
    /\ phase = "over" => elapsed >= Expiry(se)

\* A call whose far end has died is given up, whichever side refreshes.
DeadCallsEnd == ~alive ~> phase = "over"

\* What makes these inductive: how far the clock may run in each phase.
ClockInv ==
    /\ TimerTypeOK
    /\ phase = "sleep" => due <= Poll /\ elapsed + due < Expiry(se) + Poll + MaxReply
    /\ phase = "await" => due <= MaxReply /\ elapsed + due < Expiry(se) + MaxReply
    /\ phase = "over" => elapsed >= Expiry(se) /\ elapsed < Expiry(se) + Poll + MaxReply
    /\ role = "Local" /\ ~failed =>
         /\ phase # "over"
         /\ phase = "sleep" => elapsed + due < RefreshInterval(se) + Poll
         /\ phase = "await" => elapsed + due < RefreshInterval(se) + Poll + MaxReply
=============================================================================
