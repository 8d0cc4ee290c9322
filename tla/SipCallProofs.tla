--------------------------- MODULE SipCallProofs ---------------------------
(***************************************************************************)
(* Proofs about one call (SipCall), for any number of application threads  *)
(* and any of its bounds.  The lemmas say what each helper does to the     *)
(* session, to a caller and to the channel; the invariants then need, per  *)
(* action, only the parts that the action disturbs.                        *)
(***************************************************************************)
EXTENDS SipCall, SequenceTheorems, TLAPS

----------------------------------------------------------------------------
(* Updates of the session.                                                 *)

\* The state shown to the application agrees with the hold flags of s.
HoldOK(s) ==
    /\ s.state = "Hold" => s.local_hold \/ s.remote_hold
    /\ s.state = "Active" => ~s.local_hold

\* A session of call() or handle_incoming_invite before anything happened.
LEMMA NewSessionType ==
    ASSUME NEW timer \in {"none", "active"}, NEW rtp \in {"none", "up"}, NEW tx \in BOOLEAN
    PROVE  /\ NewSession(timer, rtp, tx) \in Session
           /\ NewSession(timer, rtp, tx).state = "Trying"
           /\ ~NewSession(timer, rtp, tx).local_hold
           /\ ~NewSession(timer, rtp, tx).reinvite_pending
           /\ ~NewSession(timer, rtp, tx).refer_pending
  BY DEF NewSession, Session, PreAnswer, EarlyStates

\* RtpEngine::stop
LEMMA StopRtpType ==
    ASSUME NEW s \in Session
    PROVE  /\ StopRtp(s) \in Session
           /\ StopRtp(s).rtp = (IF s.rtp = "none" THEN "none" ELSE "stopped") /\ StopRtp(s).rtp # "up"
           /\ StopRtp(s).early = s.early
           /\ StopRtp(s).state = s.state
           /\ StopRtp(s).local_hold = s.local_hold
           /\ StopRtp(s).remote_hold = s.remote_hold
           /\ StopRtp(s).reinvite_pending = s.reinvite_pending
  BY DEF StopRtp, Session

\* The same with state := Ended, in the invite task and in reject().
LEMMA StopAndEndType ==
    ASSUME NEW s \in Session
    PROVE  /\ [StopRtp(s) EXCEPT !.state = "Ended"] \in Session
           /\ [StopRtp(s) EXCEPT !.state = "Ended"].rtp =
                IF s.rtp = "none" THEN "none" ELSE "stopped"
           /\ [StopRtp(s) EXCEPT !.state = "Ended"].rtp # "up"
           /\ [StopRtp(s) EXCEPT !.state = "Ended"].state = "Ended"
           /\ [StopRtp(s) EXCEPT !.state = "Ended"].local_hold = s.local_hold
           /\ [StopRtp(s) EXCEPT !.state = "Ended"].reinvite_pending = s.reinvite_pending
  BY DEF StopRtp, Session

\* The end of hangup() and cancel().
LEMMA EndSessionType ==
    ASSUME NEW s \in Session
    PROVE  /\ EndSession(s) \in Session
           /\ EndSession(s).state = "Ended"
           /\ EndSession(s).rtp = (IF s.rtp = "none" THEN "none" ELSE "stopped") /\ EndSession(s).rtp # "up"
           /\ ~EndSession(s).local_hold
           /\ EndSession(s).reinvite_pending = s.reinvite_pending
  BY DEF EndSession, StopRtp, Session

\* update_from_remote_sdp moves only between Active and Hold, consistently
\* with the flags, and leaves our side's hold and the RTP engine alone.
LEMMA ApplySdpType ==
    ASSUME NEW s \in Session, NEW sdp \in Sdp
    PROVE  /\ ApplySdp(s, sdp) \in Session
           /\ ApplySdp(s, sdp).rtp = s.rtp
           /\ ApplySdp(s, sdp).early = s.early
           /\ ApplySdp(s, sdp).local_hold = s.local_hold
           /\ ApplySdp(s, sdp).reinvite_pending = s.reinvite_pending
           /\ s.state \notin Established => ApplySdp(s, sdp).state = s.state
           /\ HoldOK(s) => HoldOK(ApplySdp(s, sdp))
<1>1. CASE sdp \in {"active", "hold"}
  <2>1. UpdateFromRemoteSdp(s, sdp) \in Session
    BY <1>1, Zenon DEF UpdateFromRemoteSdp, Session, Established
  <2>2. /\ UpdateFromRemoteSdp(s, sdp).rtp = s.rtp
        /\ UpdateFromRemoteSdp(s, sdp).early = s.early
        /\ UpdateFromRemoteSdp(s, sdp).local_hold = s.local_hold
        /\ UpdateFromRemoteSdp(s, sdp).reinvite_pending = s.reinvite_pending
        /\ s.state \notin Established => UpdateFromRemoteSdp(s, sdp).state = s.state
    BY <1>1 DEF UpdateFromRemoteSdp, Session, Established
  <2>3. HoldOK(s) => HoldOK(UpdateFromRemoteSdp(s, sdp))
    BY <1>1 DEF UpdateFromRemoteSdp, Session, HoldOK
  <2> QED  BY <1>1, <2>1, <2>2, <2>3 DEF ApplySdp
<1>2. CASE sdp \notin {"active", "hold"}
  BY <1>2 DEF ApplySdp
<1> QED  BY <1>1, <1>2

\* What hold() and unhold() write after their re-INVITE is accepted is a session.
LEMMA HoldFlagType ==
    ASSUME NEW s \in Session
    PROVE  /\ [s EXCEPT !.local_hold = TRUE, !.state = "Hold"] \in Session
           /\ [s EXCEPT !.local_hold = FALSE, !.state = "Active"] \in Session
           /\ [s EXCEPT !.local_hold = FALSE] \in Session
<1>1. [s EXCEPT !.local_hold = TRUE, !.state = "Hold"] \in Session
  BY DEF Session, Established
<1>2. [s EXCEPT !.local_hold = FALSE, !.state = "Active"] \in Session
  BY DEF Session, Established
<1>3. [s EXCEPT !.local_hold = FALSE] \in Session
  BY DEF Session
<1> QED  BY <1>1, <1>2, <1>3

\* The early-media state machine never touches hold flags or the RTP engine,
\* and enters no established state.
LEMMA ProvisionalType ==
    ASSUME NEW s \in Session, NEW has_sdp \in BOOLEAN,
           NEW t \in {Process180(s), Process183(s, has_sdp)}
    PROVE  /\ t \in Session
           /\ t.rtp = s.rtp
           /\ t.local_hold = s.local_hold /\ t.remote_hold = s.remote_hold
           /\ t.reinvite_pending = s.reinvite_pending
           /\ t.state # s.state => t.state \in PreAnswer
<1>1. Process180(s) \in Session
  BY Zenon DEF Process180, Session, PreAnswer, EarlyStates
<1>2. Process183(s, has_sdp) \in Session
  BY Zenon DEF Process183, Session, PreAnswer, EarlyStates
<1>3. CASE t = Process180(s)
  BY <1>1, <1>3 DEF Process180, Session, PreAnswer, EarlyStates
<1>4. CASE t = Process183(s, has_sdp)
  BY <1>2, <1>4 DEF Process183, Session, PreAnswer, EarlyStates
<1> QED  BY <1>3, <1>4

----------------------------------------------------------------------------
(* Steps of a caller.                                                      *)

\* f is op with caller c moved to p and every other caller left alone.
Moved(f, c, p) ==
    /\ f \in [Callers -> Caller]
    /\ f[c].pc = p
    /\ \A d \in Callers : d # c => f[d] = op[d]

\* A task that moves a caller to another step keeps op well formed: the shape of
\* every handler that only advances op[c].pc.
LEMMA Goto ==
    ASSUME op \in [Callers -> Caller], NEW c \in Callers, NEW p \in Pcs
    PROVE  Moved([op EXCEPT ![c].pc = p], c, p)
  BY Zenon DEF Moved, Caller

\* The same for the handlers that also record why, or with which dialog and sender.
LEMMA GotoWith ==
    ASSUME op \in [Callers -> Caller], NEW c \in Callers, NEW p \in Pcs,
           NEW g \in Goals, NEW dlg \in BOOLEAN, NEW tx \in BOOLEAN
    PROVE  /\ Moved([op EXCEPT ![c].pc = p, ![c].goal = g], c, p)
           /\ Moved([op EXCEPT ![c].goal = g, ![c].pc = p], c, p)
           /\ Moved([op EXCEPT ![c].pc = p, ![c].dlg = dlg], c, p)
           /\ Moved([op EXCEPT ![c].pc = p, ![c].dlg = dlg, ![c].tx = tx], c, p)
<1>1. Moved([op EXCEPT ![c].pc = p, ![c].goal = g], c, p)  BY DEF Moved, Caller
<1>2. Moved([op EXCEPT ![c].goal = g, ![c].pc = p], c, p)  BY DEF Moved, Caller
<1>3. Moved([op EXCEPT ![c].pc = p, ![c].dlg = dlg], c, p)  BY DEF Moved, Caller
<1>4. Moved([op EXCEPT ![c].pc = p, ![c].dlg = dlg, ![c].tx = tx], c, p)  BY DEF Moved, Caller
<1> QED  BY <1>1, <1>2, <1>3, <1>4

\* The caller every API call starts from and returns to is a caller.
LEMMA IdleType == Idle \in Caller /\ Idle.pc = "idle"
  BY CallAssumption DEF Idle, Caller, Pcs, Goals

\* One more attempt after a 491 stays within the retries.
LEMMA RetryType ==
    ASSUME op \in [Callers -> Caller], NEW c \in Callers, op[c].tries < MaxRetries
    PROVE  Moved(Retry(c), c, "ri_lookup")
<1>1. op[c] \in Caller  OBVIOUS
<1>2. op[c].tries \in 0..MaxRetries  BY <1>1 DEF Caller
<1> DEFINE n == op[c].tries + 1
<1>3. n \in 0..MaxRetries  BY <1>2, CallAssumption
<1>4. Retry(c) = [op EXCEPT ![c] = [op[c] EXCEPT !.pc = "ri_lookup", !.tries = n]]
  BY DEF Retry
<1> HIDE DEF n
<1>5. [op[c] EXCEPT !.pc = "ri_lookup", !.tries = n] \in Caller
  BY <1>1, <1>3, Zenon DEF Caller, Pcs
<1>6. [op[c] EXCEPT !.pc = "ri_lookup", !.tries = n].pc = "ri_lookup"
  BY <1>1 DEF Caller
<1> QED  BY <1>4, <1>5, <1>6 DEF Moved

\* Return(c): the caller is idle, or the timer task sleeps on.
LEMMA ReturnType ==
    ASSUME op \in [Callers -> Caller], NEW c \in Callers, Return(c)
    PROVE  \E p \in {"idle", "sleep"} : Moved(op', c, p)
<1>1. PICK p \in {"idle", "sleep"} : op' = [op EXCEPT ![c] = [Idle EXCEPT !.pc = p]]
  BY DEF Return
<1>2. [Idle EXCEPT !.pc = p] \in Caller  BY IdleType, Zenon DEF Caller, Pcs
<1>3. [Idle EXCEPT !.pc = p].pc = p  BY IdleType DEF Caller
<1>4. op' \in [Callers -> Caller]  BY <1>1, <1>2
<1> QED  BY <1>1, <1>3, <1>4 DEF Moved

----------------------------------------------------------------------------
(* The channel, the port and the events.                                   *)

\* rsipstack's report of a finished dialog is a message of the state channel.
LEMMA EndDialogType ==
    ASSUME chan \in Seq(ChanMsg), EndDialog
    PROVE  peer' = "terminated" /\ chan' \in Seq(ChanMsg)
<1>1. [type |-> "Terminated", code |-> 0, sdp |-> "none"] \in ChanMsg  BY DEF ChanMsg
<1> QED  BY <1>1 DEF EndDialog

\* Receiving from the state channel leaves a channel of messages.
LEMMA ReceiveType ==
    ASSUME chan \in Seq(ChanMsg), chan # <<>>
    PROVE  /\ Tail(chan) \in Seq(ChanMsg)
           /\ Head(chan) \in ChanMsg
           /\ Head(chan).sdp \in Sdp
<1>1. Head(chan) \in ChanMsg /\ Tail(chan) \in Seq(ChanMsg)  OBVIOUS
<1> QED  BY <1>1 DEF ChanMsg, Sdp

\* release_rtp_port keeps the count of releases a number.
LEMMA ReleaseType ==
    ASSUME port \in [taken : BOOLEAN, releases : Nat], Release
    PROVE  port' \in [taken : BOOLEAN, releases : Nat]
  BY DEF Release

\* Sending events of the engine's kinds keeps the two event sets of those kinds.
LEMMA EmitType ==
    ASSUME emitted \subseteq EventKinds, repeated \subseteq EventKinds,
           NEW kinds \in SUBSET EventKinds, Emit(kinds)
    PROVE  emitted' \subseteq EventKinds /\ repeated' \subseteq EventKinds
  BY DEF Emit


----------------------------------------------------------------------------
(* Type correctness.                                                       *)

\* A call that has not been made yet is well typed.
LEMMA InitTypes == Init => TypeOK
<1> SUFFICES ASSUME Init PROVE TypeOK  OBVIOUS
<1>1. sess \in Session  BY NewSessionType DEF Init
<1>2. op \in [Callers -> Caller]  BY IdleType DEF Init
<1>3. budget \in [early : Nat, updates : Nat, refers : Nat, notifies : Nat]
  BY CallAssumption DEF Init
<1>4. direction \in {"Inbound", "Outbound"}  BY CallAssumption DEF Init
<1>5. port \in [taken : BOOLEAN, releases : Nat]  BY DEF Init
<1>6. chan \in Seq(ChanMsg)  BY DEF Init
<1> QED  BY <1>1, <1>2, <1>3, <1>4, <1>5, <1>6 DEF Init, TypeOK

\* call() and handle_incoming_invite insert a well-typed session.
LEMMA SetupTypes == TypeOK /\ Setup => TypeOK'
<1> SUFFICES ASSUME TypeOK, Setup PROVE TypeOK'  OBVIOUS
<1>1. CASE PlaceCall
  <2>1. sess' \in Session  BY <1>1, NewSessionType DEF PlaceCall
  <2>2. port' \in [taken : BOOLEAN, releases : Nat]  BY <1>1 DEF TypeOK, PlaceCall
  <2> QED  BY <1>1, <2>1, <2>2 DEF TypeOK, PlaceCall, Silent
<1>2. CASE RefuseInvite
  <2>1. port' \in [taken : BOOLEAN, releases : Nat]  BY <1>2 DEF TypeOK, RefuseInvite
  <2> QED  BY <1>2, <2>1 DEF TypeOK, RefuseInvite, Silent
<1>3. CASE AcceptInvite
  <2>1. PICK sdp \in Bodies, timer \in TimerUse, rtp \in {"up", "none"} :
          /\ sess' = [NewSession(IF timer THEN "active" ELSE "none", rtp, FALSE)
                        EXCEPT !.remote_dir = IF sdp = "hold" THEN "hold" ELSE "active"]
          /\ port' = [port EXCEPT !.taken = (rtp = "up")]
    BY <1>3 DEF AcceptInvite
  <2>2. NewSession(IF timer THEN "active" ELSE "none", rtp, FALSE) \in Session
    BY NewSessionType
  <2>3. sess' \in Session  BY <2>1, <2>2 DEF Session
  <2>4. port' \in [taken : BOOLEAN, releases : Nat]  BY <2>1 DEF TypeOK
  <2> QED  BY <1>3, <2>3, <2>4 DEF TypeOK, AcceptInvite, Silent
<1>4. CASE RingIncoming
  <2>1. sess' \in Session  BY <1>4 DEF TypeOK, RingIncoming, Session, PreAnswer
  <2>2. emitted' \subseteq EventKinds /\ repeated' \subseteq EventKinds
    BY <1>4, EmitType DEF TypeOK, RingIncoming, EventKinds
  <2> QED  BY <1>4, <2>1, <2>2 DEF TypeOK, RingIncoming
<1> QED  BY <1>1, <1>2, <1>3, <1>4 DEF Setup

\* The invite task of call() keeps the types.
LEMMA InviteTypes == TypeOK /\ InviteTask => TypeOK'
<1> SUFFICES ASSUME TypeOK, InviteTask PROVE TypeOK'  OBVIOUS
<1>1. CASE InviteCancelled
  <2>1. peer' = "terminated" /\ chan' \in Seq(ChanMsg)
    BY <1>1, EndDialogType DEF TypeOK, InviteCancelled
  <2> QED  BY <1>1, <2>1 DEF TypeOK, InviteCancelled, Silent
<1>a. CASE InviteCancelRemoves
  <2>1. sess' \in Session  BY <1>a, StopAndEndType DEF TypeOK, InviteCancelRemoves
  <2>2. port' \in [taken : BOOLEAN, releases : Nat]
    BY <1>a, ReleaseType DEF TypeOK, InviteCancelRemoves
  <2> QED  BY <1>a, <2>1, <2>2 DEF TypeOK, InviteCancelRemoves, Silent
<1>b. CASE InviteTellsCancelled
  <2>1. emitted' \subseteq EventKinds /\ repeated' \subseteq EventKinds
    BY <1>b, EmitType DEF TypeOK, InviteTellsCancelled, EventKinds
  <2> QED  BY <1>b, <2>1 DEF TypeOK, InviteTellsCancelled
<1>2. CASE InviteReturns
  BY <1>2 DEF TypeOK, InviteReturns, Silent
<1>3. CASE InviteFails
  <2>1. sess' \in Session  BY <1>3, StopRtpType DEF TypeOK, InviteFails
  <2>2. port' \in [taken : BOOLEAN, releases : Nat]
    BY <1>3, ReleaseType DEF TypeOK, InviteFails
  <2>3. FailureEvents(result.kind) \in SUBSET EventKinds  BY DEF FailureEvents, EventKinds
  <2>4. emitted' \subseteq EventKinds /\ repeated' \subseteq EventKinds
    BY <1>3, <2>3, EmitType DEF TypeOK, InviteFails
  <2> QED  BY <1>3, <2>1, <2>2, <2>4 DEF TypeOK, InviteFails
<1>4. CASE InviteAnswered
  <2>1. sess' \in Session
    <3>1. CASE UNCHANGED sess  BY <3>1 DEF TypeOK
    <3>2. CASE ~UNCHANGED sess
      <4> DEFINE s == [sess EXCEPT !.state = "Active", !.client_dialog = TRUE, !.early = "None"]
      <4>1. s \in Session  BY DEF TypeOK, Session, Established, EarlyStates
      <4>2. result.sdp \in Sdp
        BY <1>4 DEF TypeOK, InviteAnswered, Response, NoResult, Sdp
      <4>3. ApplySdp(s, result.sdp) \in Session  BY <4>1, <4>2, ApplySdpType
      <4>4. PICK timer \in TimerUse :
              sess' = [ApplySdp(s, result.sdp)
                         EXCEPT !.timer = IF timer THEN "active" ELSE "none"]
        BY <1>4, <3>2 DEF InviteAnswered
      <4> HIDE DEF s
      <4> QED  BY <4>3, <4>4 DEF Session
    <3> QED  BY <3>1, <3>2
  <2> QED  BY <1>4, <2>1 DEF TypeOK, InviteAnswered, Silent
<1>5. CASE InviteChecksCancel
  BY <1>5 DEF TypeOK, InviteChecksCancel, Silent
<1>6. CASE InviteSendsBye
  <2>1. peer' \in {peer, "terminated"} /\ chan' \in Seq(ChanMsg)
    BY <1>6, EndDialogType DEF TypeOK, InviteSendsBye
  <2> QED  BY <1>6, <2>1 DEF TypeOK, InviteSendsBye, Silent
<1>7. CASE InviteMarksEnded
  <2>1. sess' \in Session  BY <1>7, StopAndEndType DEF TypeOK, InviteMarksEnded
  <2> QED  BY <1>7, <2>1 DEF TypeOK, InviteMarksEnded, Silent
<1>8. CASE InviteAnnounces
  <2>1. Moved([op EXCEPT !["timer"].pc = "sleep"], "timer", "sleep")
    BY Goto DEF TypeOK, Callers, Pcs
  <2>2. op' \in [Callers -> Caller]
    BY <1>8, <2>1 DEF TypeOK, InviteAnnounces, Moved
  <2>3. emitted' \subseteq EventKinds /\ repeated' \subseteq EventKinds
    BY <1>8, EmitType DEF TypeOK, InviteAnnounces, EventKinds
  <2> QED  BY <1>8, <2>2, <2>3 DEF TypeOK, InviteAnnounces
<1> QED  BY <1>1, <1>a, <1>b, <1>2, <1>3, <1>4, <1>5, <1>6, <1>7, <1>8 DEF InviteTask

\* The dialog-state task keeps the types.
LEMMA StateTaskTypes == TypeOK /\ StateTask => TypeOK'
<1> SUFFICES ASSUME TypeOK, StateTask PROVE TypeOK'  OBVIOUS
<1>1. CASE OnEarly
  <2> DEFINE m == Head(chan)
             s == ApplySdp(sess, m.sdp)
             new == IF m.code = 183 THEN Process183(s, m.sdp # "none") ELSE Process180(s)
  <2>1. Tail(chan) \in Seq(ChanMsg) /\ m.sdp \in Sdp
    BY <1>1, ReceiveType DEF TypeOK, OnEarly, Receive
  <2>2. s \in Session  BY <2>1, ApplySdpType DEF TypeOK
  <2>3. new \in Session  BY <2>2, ProvisionalType
  <2>4. sess' \in Session  BY <1>1, <2>3 DEF TypeOK, OnEarly
  <2>5. emitted' \subseteq EventKinds /\ repeated' \subseteq EventKinds
    BY <1>1, EmitType DEF TypeOK, OnEarly, EventKinds
  <2> QED  BY <1>1, <2>1, <2>4, <2>5 DEF TypeOK, OnEarly
<1>2. CASE OnUpdated
  <2>1. Tail(chan) \in Seq(ChanMsg) /\ Head(chan).sdp \in Sdp
    BY <1>2, ReceiveType DEF TypeOK, OnUpdated, Receive
  <2>2. sess' \in Session  BY <1>2, <2>1, ApplySdpType DEF TypeOK, OnUpdated
  <2>3. emitted' \subseteq EventKinds /\ repeated' \subseteq EventKinds
    BY <1>2, EmitType DEF TypeOK, OnUpdated, EventKinds
  <2> QED  BY <1>2, <2>1, <2>2, <2>3 DEF TypeOK, OnUpdated
<1>3. CASE OnNotify
  <2>1. Tail(chan) \in Seq(ChanMsg)
    BY <1>3, ReceiveType DEF TypeOK, OnNotify, Receive
  <2>2. sess' \in Session  BY <1>3 DEF TypeOK, OnNotify, Session
  <2>3. emitted' \subseteq EventKinds /\ repeated' \subseteq EventKinds
    BY <1>3, EmitType DEF TypeOK, OnNotify, EventKinds
  <2> QED  BY <1>3, <2>1, <2>2, <2>3 DEF TypeOK, OnNotify
<1>4. CASE OnTerminated
  <2>1. Tail(chan) \in Seq(ChanMsg)
    BY <1>4, ReceiveType DEF TypeOK, OnTerminated, Receive
  <2>2. StopRtp(sess) \in Session  BY StopRtpType DEF TypeOK
  <2>3. sess' \in Session  BY <1>4, <2>2 DEF TypeOK, OnTerminated, Session
  <2> QED  BY <1>4, <2>1, <2>3 DEF TypeOK, OnTerminated, Silent
<1>5. CASE TerminatedReleases
  <2>1. port' \in [taken : BOOLEAN, releases : Nat]
    BY <1>5, ReleaseType DEF TypeOK, TerminatedReleases
  <2> QED  BY <1>5, <2>1 DEF TypeOK, TerminatedReleases, Silent
<1>6. CASE TerminatedRemoves
  <2>1. emitted' \subseteq EventKinds /\ repeated' \subseteq EventKinds
    BY <1>6, EmitType DEF TypeOK, TerminatedRemoves, EventKinds
  <2> QED  BY <1>6, <2>1 DEF TypeOK, TerminatedRemoves
<1> QED  BY <1>1, <1>2, <1>3, <1>4, <1>5, <1>6 DEF StateTask

\* hangup(), on behalf of an application thread or of the timer task.
LEMMA StartHangupTypes ==
    ASSUME TypeOK, NEW c \in Callers, NEW goal \in Goals, StartHangup(c, goal)
    PROVE  TypeOK'
<1> DEFINE p == IF sess.state \in PreAnswer
                THEN IF direction = "Inbound" THEN "reject0" ELSE "cancel0"
                ELSE "bye0"
<1>1. p \in Pcs  BY DEF Pcs
<1>2. op' = [op EXCEPT ![c].goal = goal, ![c].pc = p]  BY DEF StartHangup
<1> HIDE DEF p
<1>3. Moved([op EXCEPT ![c].goal = goal, ![c].pc = p], c, p)
  BY <1>1, GotoWith DEF TypeOK
<1>4. op' \in [Callers -> Caller]  BY <1>2, <1>3 DEF Moved
<1> QED  BY <1>4 DEF TypeOK, StartHangup, Silent

\* The session-timer task keeps the types.
LEMMA TimerTypes == TypeOK /\ TimerTask => TypeOK'
<1> SUFFICES ASSUME TypeOK, TimerTask PROVE TypeOK'  OBVIOUS
<1>0. "timer" \in Callers  BY DEF Callers
<1>1. CASE TimerLeaves
  <2>1. op' \in [Callers -> Caller]  BY <1>0, <1>1, IdleType DEF TypeOK, TimerLeaves
  <2> QED  BY <1>1, <2>1 DEF TypeOK, TimerLeaves, Silent
<1>2. CASE TimerExpires
  BY <1>0, <1>2, StartHangupTypes DEF TimerExpires, Goals
<1>3. CASE TimerRefreshes
  <2>1. Moved([op EXCEPT !["timer"].pc = "ri_lookup", !["timer"].goal = "refresh"],
              "timer", "ri_lookup")
    BY <1>0, GotoWith DEF TypeOK, Pcs, Goals
  <2>2. op' \in [Callers -> Caller]  BY <1>3, <2>1 DEF TimerRefreshes, Moved
  <2> QED  BY <1>3, <2>2 DEF TypeOK, TimerRefreshes, Silent
<1> QED  BY <1>1, <1>2, <1>3 DEF TimerTask

\* What the far end may still send never becomes negative.
LEMMA BudgetType ==
    ASSUME NEW b \in [early : Nat, updates : Nat, refers : Nat, notifies : Nat]
    PROVE  LET Budget == [early : Nat, updates : Nat, refers : Nat, notifies : Nat]
           IN  /\ b.early > 0 => [b EXCEPT !.early = @ - 1] \in Budget
               /\ b.updates > 0 => [b EXCEPT !.updates = @ - 1] \in Budget
               /\ b.notifies > 0 => [b EXCEPT !.notifies = @ - 1] \in Budget
               /\ b.refers > 0 => [b EXCEPT !.refers = @ - 1, !.notifies = @ + 1] \in Budget
<1>1. /\ b.early \in Nat /\ b.updates \in Nat /\ b.refers \in Nat /\ b.notifies \in Nat
      /\ b = [early |-> b.early, updates |-> b.updates, refers |-> b.refers,
              notifies |-> b.notifies]
  OBVIOUS
<1>2. /\ b.early > 0 => b.early - 1 \in Nat
      /\ b.updates > 0 => b.updates - 1 \in Nat
      /\ b.notifies > 0 => b.notifies - 1 \in Nat
      /\ b.refers > 0 => b.refers - 1 \in Nat
      /\ b.notifies + 1 \in Nat
  BY <1>1
<1> QED  BY <1>1, <1>2, Zenon

\* What the far end and rsipstack do keeps the types.
LEMMA PeerTypes == TypeOK /\ Peer => TypeOK'
<1> SUFFICES ASSUME TypeOK, Peer PROVE TypeOK'  OBVIOUS
<1> DEFINE Budget == [early : Nat, updates : Nat, refers : Nat, notifies : Nat]
<1>1. CASE PeerProvisional
  <2>1. chan' \in Seq(ChanMsg)
    <3>1. PICK code \in {180, 183}, sdp \in Bodies :
            chan' = Append(chan, [type |-> "Early", code |-> code, sdp |-> sdp])
      BY <1>1 DEF PeerProvisional
    <3>2. [type |-> "Early", code |-> code, sdp |-> sdp] \in ChanMsg
      BY CallAssumption DEF ChanMsg, Sdp
    <3> QED  BY <3>1, <3>2 DEF TypeOK
  <2>2. budget' \in Budget  BY <1>1, BudgetType DEF TypeOK, PeerProvisional
  <2> QED  BY <1>1, <2>1, <2>2 DEF TypeOK, PeerProvisional, PeerUnchanged, Silent
<1>2. CASE PeerFinal
  <2>1. peer' \in {"confirmed", "terminated"} /\ chan' \in Seq(ChanMsg)
    BY <1>2, EndDialogType DEF TypeOK, PeerFinal
  <2> QED  BY <1>2, <2>1 DEF TypeOK, PeerFinal, PeerUnchanged, Silent
<1>3. CASE PeerReinvites
  <2>1. chan' \in Seq(ChanMsg)
    <3>1. PICK sdp \in Bodies :
            chan' = Append(chan, [type |-> "Updated", code |-> 0, sdp |-> sdp])
      BY <1>3 DEF PeerReinvites
    <3>2. [type |-> "Updated", code |-> 0, sdp |-> sdp] \in ChanMsg
      BY CallAssumption DEF ChanMsg, Sdp
    <3> QED  BY <3>1, <3>2 DEF TypeOK
  <2>2. budget' \in Budget  BY <1>3, BudgetType DEF TypeOK, PeerReinvites
  <2> QED  BY <1>3, <2>1, <2>2 DEF TypeOK, PeerReinvites, PeerUnchanged, Silent
<1>4. CASE PeerEnds
  <2>1. peer' = "terminated" /\ chan' \in Seq(ChanMsg)
    BY <1>4, EndDialogType DEF TypeOK, PeerEnds
  <2> QED  BY <1>4, <2>1 DEF TypeOK, PeerEnds, PeerUnchanged, Silent
<1>5. CASE PeerNotifies
  <2>1. \A code \in {100, 200} :
          [type |-> "Notify", code |-> code, sdp |-> "none"] \in ChanMsg
    BY DEF ChanMsg
  <2>2. PICK code \in {100, 200} :
          chan' = Append(chan, [type |-> "Notify", code |-> code, sdp |-> "none"])
    BY <1>5 DEF PeerNotifies
  <2>3. chan' \in Seq(ChanMsg)  BY <2>1, <2>2 DEF TypeOK
  <2>4. budget' \in Budget  BY <1>5, BudgetType DEF TypeOK, PeerNotifies
  <2> QED  BY <1>5, <2>3, <2>4 DEF TypeOK, PeerNotifies, PeerUnchanged, Silent
<1>6. ASSUME NEW c \in Apps, PeerAcceptsRefer(c) PROVE TypeOK'
  <2>1. Moved([op EXCEPT ![c].pc = "refer_ok"], c, "refer_ok")
    BY Goto DEF TypeOK, Pcs, Callers
  <2>3. op' \in [Callers -> Caller]  BY <1>6, <2>1 DEF PeerAcceptsRefer, Moved
  <2>2. budget' \in Budget  BY <1>6, BudgetType DEF TypeOK, PeerAcceptsRefer
  <2> QED  BY <1>6, <2>2, <2>3 DEF TypeOK, PeerAcceptsRefer, PeerUnchanged, Silent
<1> QED  BY <1>1, <1>2, <1>3, <1>4, <1>5, <1>6 DEF Peer

\* The first step of every API call keeps the types.
LEMMA AppTypes == ASSUME TypeOK, NEW c \in Apps, AppCalls(c) PROVE TypeOK'
<1> USE DEF TypeOK
<1>0. c \in Callers  BY DEF Callers
<1>1. CASE Answer(c)
  <2>1. sess' \in Session  BY <1>1 DEF Answer, Session, Established
  <2>2. Moved([op EXCEPT ![c].pc = "answer2"], c, "answer2")  BY <1>0, Goto DEF Pcs
  <2>3. op' \in [Callers -> Caller]  BY <1>1, <2>2 DEF Answer, Moved
  <2> QED  BY <1>1, <2>1, <2>3 DEF Answer, Silent
<1>2. CASE Reject(c)
  <2>1. Moved([op EXCEPT ![c].pc = "reject1", ![c].goal = "reject"], c, "reject1")
    BY <1>0, GotoWith DEF Pcs, Goals, AllOps
  <2>2. op' \in [Callers -> Caller]  BY <1>2, <2>1 DEF Reject, Moved
  <2> QED  BY <1>2, <2>2 DEF Reject, Silent
<1>3. CASE Hangup(c)
  BY <1>0, <1>3, StartHangupTypes DEF Hangup, Goals, AllOps
<1>4. CASE Cancel(c)
  <2>1. Moved([op EXCEPT ![c].pc = "cancel1", ![c].goal = "cancel"], c, "cancel1")
    BY <1>0, GotoWith DEF Pcs, Goals, AllOps
  <2>2. op' \in [Callers -> Caller]  BY <1>4, <2>1 DEF Cancel, Moved
  <2> QED  BY <1>4, <2>2 DEF Cancel, Silent
<1>5. CASE Refer(c)
  <2>1. Moved([op EXCEPT ![c].pc = "refer_wait", ![c].goal = "refer"], c, "refer_wait")
    BY <1>0, GotoWith DEF Pcs, Goals, AllOps
  <2>2. op' \in [Callers -> Caller]  BY <1>5, <2>1 DEF Refer, Moved
  <2> QED  BY <1>5, <2>2 DEF Refer, Silent
<1>6. ASSUME NEW goal \in {"hold", "unhold", "reinvite"}, Modify(c, goal) PROVE TypeOK'
  <2>1. Moved([op EXCEPT ![c].pc = "ri_lookup", ![c].goal = goal], c, "ri_lookup")
    BY <1>0, GotoWith DEF Pcs, Goals, AllOps
  <2>2. op' \in [Callers -> Caller]  BY <1>6, <2>1 DEF Modify, Moved
  <2> QED  BY <1>6, <2>2 DEF Modify, Silent
<1> QED  BY <1>1, <1>2, <1>3, <1>4, <1>5, <1>6 DEF AppCalls

\* The later steps of every API call, and of the timer task's, keep the types.
LEMMA CallerTypes == ASSUME TypeOK, NEW c \in Callers, CallerSteps(c) PROVE TypeOK'
<1> USE DEF TypeOK
<1>r. Return(c) => op' \in [Callers -> Caller]  BY ReturnType DEF Moved
<1>g. \A p \in Pcs : [op EXCEPT ![c].pc = p] \in [Callers -> Caller]  BY Goto DEF Moved
<1>d. \A p \in Pcs, dlg \in BOOLEAN, tx \in BOOLEAN :
         /\ [op EXCEPT ![c].pc = p, ![c].dlg = dlg] \in [Callers -> Caller]
         /\ [op EXCEPT ![c].pc = p, ![c].dlg = dlg, ![c].tx = tx] \in [Callers -> Caller]
  <2> TAKE p \in Pcs, dlg \in BOOLEAN, tx \in BOOLEAN
  <2>1. "none" \in Goals  BY DEF Goals
  <2>2. /\ Moved([op EXCEPT ![c].pc = p, ![c].dlg = dlg], c, p)
        /\ Moved([op EXCEPT ![c].pc = p, ![c].dlg = dlg, ![c].tx = tx], c, p)
    BY <2>1, GotoWith
  <2> QED  BY <2>2 DEF Moved
<1>s. sess.client_dialog \in BOOLEAN /\ sess.cancel_tx \in BOOLEAN  BY DEF Session
<1>1. CASE AnswerAccept(c)
  <2>1. [op EXCEPT ![c] = Idle] \in [Callers -> Caller]  BY IdleType
  <2>2. "answer3" \in Pcs  BY DEF Pcs
  <2>3. op' \in [Callers -> Caller]  BY <1>1, <1>g, <2>1, <2>2 DEF AnswerAccept
  <2> QED  BY <1>1, <2>3 DEF AnswerAccept, Silent
<1>2. CASE AnswerDone(c)
  <2> DEFINE f == [op EXCEPT ![c] = Idle]
  <2>1. f \in [Callers -> Caller]  BY IdleType
  <2>2. op' \in {f, [f EXCEPT !["timer"].pc = "sleep"]}  BY <1>2 DEF AnswerDone
  <2>3. "timer" \in Callers /\ "sleep" \in Pcs  BY DEF Callers, Pcs
  <2> HIDE DEF f
  <2>4. [f EXCEPT !["timer"].pc = "sleep"] \in [Callers -> Caller]
    BY <2>1, <2>3, Zenon DEF Caller
  <2>5. op' \in [Callers -> Caller]  BY <2>1, <2>2, <2>4
  <2>6. emitted' \subseteq EventKinds /\ repeated' \subseteq EventKinds
    BY <1>2, EmitType DEF AnswerDone, EventKinds
  <2> QED  BY <1>2, <2>6, <2>5 DEF AnswerDone
<1>3. CASE Lookup(c)
  <2>1. CASE Return(c)
    BY <1>3, <1>r, <2>1 DEF Lookup, Silent
  <2>2. CASE ~Return(c)
    <3>1. PICK p \in {"reject1", "cancel1", "bye1", "ri_check"} :
            op' = [op EXCEPT ![c].pc = p]
      BY <1>3, <2>2 DEF Lookup
    <3>2. op' \in [Callers -> Caller]  BY <1>g, <3>1 DEF Pcs
    <3> QED  BY <1>3, <3>2 DEF Lookup, Silent
  <2> QED  BY <2>1, <2>2
<1>4. CASE Reject1(c)
  <2>1. sess' \in Session  BY <1>4, StopAndEndType DEF Reject1
  <2>2. op' \in [Callers -> Caller]
    <3>1. [op EXCEPT ![c].pc = "reject2"] \in [Callers -> Caller]  BY <1>g DEF Pcs
    <3> QED  BY <1>4, <1>r, <3>1 DEF Reject1
  <2> QED  BY <1>4, <2>1, <2>2 DEF Reject1, Silent
<1>5. CASE Reject2(c)
  <2>1. op' \in [Callers -> Caller]
    <3>1. [op EXCEPT ![c].pc = "reject3"] \in [Callers -> Caller]  BY <1>g DEF Pcs
    <3> QED  BY <1>5, <1>r, <3>1 DEF Reject2
  <2>2. peer' \in {peer, "terminated"} /\ chan' \in Seq(ChanMsg)
    BY <1>5, EndDialogType DEF Reject2
  <2> QED  BY <1>5, <2>1, <2>2 DEF Reject2, Silent
<1>6. CASE Reject3(c)
  <2>1. op' \in [Callers -> Caller]  BY <1>6, <1>g DEF Reject3, Pcs
  <2>2. port' \in [taken : BOOLEAN, releases : Nat]  BY <1>6, ReleaseType DEF Reject3
  <2> QED  BY <1>6, <2>1, <2>2 DEF Reject3, Silent
<1>a. CASE Reject4(c)
  <2>1. op' \in [Callers -> Caller]  BY <1>a, <1>g DEF Reject4, Pcs
  <2> QED  BY <1>a, <2>1 DEF Reject4, Silent
<1>b. CASE Reject5(c)
  <2>1. op' \in [Callers -> Caller]  BY <1>b, <1>r DEF Reject5
  <2>2. emitted' \subseteq EventKinds /\ repeated' \subseteq EventKinds
    BY <1>b, EmitType DEF Reject5, EventKinds
  <2> QED  BY <1>b, <2>1, <2>2 DEF Reject5
<1>7. CASE Bye1(c)
  <2>1. sess' \in Session  BY <1>7, EndSessionType DEF Bye1
  <2>2. op' \in [Callers -> Caller]  BY <1>7, <1>d, <1>s DEF Bye1, Pcs
  <2> QED  BY <1>7, <2>1, <2>2 DEF Bye1, Silent
<1>8. CASE Bye2(c)
  <2>1. op' \in [Callers -> Caller]  BY <1>8, <1>r DEF Bye2
  <2>2. peer' \in {peer, "terminated"} /\ chan' \in Seq(ChanMsg)
    BY <1>8, EndDialogType DEF Bye2
  <2> QED  BY <1>8, <2>1, <2>2 DEF Bye2, Silent
<1>9. CASE Cancel1(c)
  <2>1. sess' \in Session  BY <1>9 DEF Cancel1, Session
  <2>2. op' \in [Callers -> Caller]
    <3>1. [op EXCEPT ![c].pc = "cancel2", ![c].dlg = sess.client_dialog,
                     ![c].tx = sess.cancel_tx] \in [Callers -> Caller]
      BY <1>d, <1>s DEF Pcs
    <3> QED  BY <1>9, <1>r, <3>1 DEF Cancel1
  <2> QED  BY <1>9, <2>1, <2>2 DEF Cancel1, Silent
<1>10. CASE Cancel2(c)
  <2>1. sess' \in Session  BY <1>10 DEF Cancel2, Session
  <2>2. op' \in [Callers -> Caller]  BY <1>10, <1>g DEF Cancel2, Pcs
  <2> QED  BY <1>10, <2>1, <2>2 DEF Cancel2, Silent
<1>11. CASE Cancel3(c)
  <2>1. op' \in [Callers -> Caller]  BY <1>11, <1>r, <1>g DEF Cancel3, Pcs
  <2> QED  BY <1>11, <2>1 DEF Cancel3, Silent
<1>12. CASE Cancel4(c)
  <2>1. sess' \in Session  BY <1>12, EndSessionType DEF Cancel4
  <2>2. op' \in [Callers -> Caller]  BY <1>12, <1>r DEF Cancel4
  <2>3. port' \in [taken : BOOLEAN, releases : Nat]  BY <1>12, ReleaseType DEF Cancel4
  <2>4. emitted' \subseteq EventKinds /\ repeated' \subseteq EventKinds
    BY <1>12, EmitType DEF Cancel4, EventKinds
  <2> QED  BY <1>12, <2>1, <2>2, <2>3, <2>4 DEF Cancel4
<1>13. CASE ReinviteCheck(c)
  <2>1. op' \in [Callers -> Caller]  BY <1>13, <1>r, <1>g DEF ReinviteCheck, Pcs
  <2> QED  BY <1>13, <2>1 DEF ReinviteCheck, Silent
<1>14. CASE ReinviteSet(c)
  <2>1. sess' \in Session  BY <1>14 DEF ReinviteSet, Session
  <2>2. op' \in [Callers -> Caller]  BY <1>14, <1>d, <1>s DEF ReinviteSet, Pcs
  <2> QED  BY <1>14, <2>1, <2>2 DEF ReinviteSet, Silent
<1>15. CASE ReinviteReturns(c)
  <2>1. sess' \in Session  BY <1>15 DEF ReinviteReturns, ClearPending, Session
  <2>2. op[c].tries < MaxRetries => Retry(c) \in [Callers -> Caller]  BY RetryType DEF Moved
  <2>3. "ri_ok" \in Pcs  BY DEF Pcs
  <2>4. op' \in [Callers -> Caller]  BY <1>15, <1>r, <1>g, <2>2, <2>3 DEF ReinviteReturns
  <2> QED  BY <1>15, <2>1, <2>4 DEF ReinviteReturns, Silent
<1>16. CASE ReinviteApply(c)
  <2>1. sess' \in Session
    <3>1. sess' \in {sess,
                     [sess EXCEPT !.local_hold = TRUE, !.state = "Hold"],
                     [sess EXCEPT !.local_hold = FALSE, !.state = "Active"],
                     [sess EXCEPT !.local_hold = FALSE]}
      <4>1. [sess EXCEPT !.local_hold = FALSE, !.state = @] = [sess EXCEPT !.local_hold = FALSE]
        BY DEF Session
      <4> QED  BY <1>16, <4>1 DEF ReinviteApply
    <3> QED  BY <3>1, HoldFlagType
  <2>2. op' \in [Callers -> Caller]  BY <1>16, <1>r DEF ReinviteApply
  <2> QED  BY <1>16, <2>1, <2>2 DEF ReinviteApply, Silent
<1>17. CASE ReferFails(c)
  <2>1. op' \in [Callers -> Caller]  BY <1>17, <1>r DEF ReferFails
  <2> QED  BY <1>17, <2>1 DEF ReferFails, Silent
<1>18. CASE ReferAccepted(c)
  <2>1. sess' \in Session  BY <1>18 DEF ReferAccepted, Session
  <2>2. op' \in [Callers -> Caller]  BY <1>18, <1>r DEF ReferAccepted
  <2>3. emitted' \subseteq EventKinds /\ repeated' \subseteq EventKinds
    BY <1>18, EmitType DEF ReferAccepted, EventKinds
  <2> QED  BY <1>18, <2>1, <2>2, <2>3 DEF ReferAccepted
<1> QED
  BY <1>1, <1>2, <1>3, <1>4, <1>5, <1>6, <1>7, <1>8, <1>9, <1>10, <1>11, <1>12, <1>13,
     <1>14, <1>15, <1>16, <1>17, <1>18, <1>a, <1>b DEF CallerSteps

\* Every step of the engine keeps the types: one case per task.
LEMMA TypeStep == TypeOK /\ [Next]_vars => TypeOK'
<1> SUFFICES ASSUME TypeOK, [Next]_vars PROVE TypeOK'  OBVIOUS
<1>1. CASE UNCHANGED vars  BY <1>1 DEF TypeOK, vars
<1> QED
  BY <1>1, SetupTypes, InviteTypes, StateTaskTypes, TimerTypes, PeerTypes, AppTypes,
     CallerTypes DEF Next

\* Every variable of a call keeps its type, the session's fields, the callers'
\* retry counters and the messages in the channel included.
THEOREM TypeCorrect == Spec => []TypeOK
  BY InitTypes, TypeStep, PTL DEF Spec
============================================================================
