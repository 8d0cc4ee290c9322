------------------------------ MODULE SipCall ------------------------------
(***************************************************************************)
(* One call of the SIP engine (sip/engine.rs), inbound or outbound, from   *)
(* its creation to its removal from the `calls` map.                       *)
(*                                                                         *)
(* The call session is shared, behind a lock, by tasks that run in         *)
(* parallel on a multi-threaded runtime:                                   *)
(*   - the invite task of call(), or the listener that accepts an INVITE;  *)
(*   - the dialog-state task, which consumes rsipstack's state channel;    *)
(*   - the session-timer task;                                             *)
(*   - application threads inside answer, reject, hangup, cancel, hold,    *)
(*     unhold, send_reinvite and send_refer.                               *)
(* A step is what a task does under the lock, or one await; between two    *)
(* steps of a task any other task may run.  rsipstack and the far end are  *)
(* external and modelled from how the engine uses them.                    *)
(***************************************************************************)
EXTENDS CallStates, Naturals, Sequences, FiniteSets

CONSTANTS
    Apps,        \* application threads
    Ops,         \* the API calls they make
    Directions,  \* directions of the call to consider
    Bodies,      \* SDP bodies the far end sends
    TimerUse,    \* subset of BOOLEAN: is a session timer negotiated?
    Faults,      \* may rsipstack fail to send a message?
    MaxRetries,  \* retries of a re-INVITE answered 491 (3 in the code)
    MaxEarly,    \* bound: provisional responses from the far end
    MaxUpdates,  \* bound: re-INVITEs and interim NOTIFYs from the far end
    MaxRefers    \* bound: REFERs the far end accepts

AllOps == {"answer", "reject", "hangup", "cancel", "hold", "unhold", "reinvite", "refer"}

ASSUME CallAssumption ==
    /\ "timer" \notin Apps
    /\ Ops \subseteq AllOps
    /\ Directions \subseteq {"Inbound", "Outbound"}
    /\ Bodies \subseteq {"none", "bad", "active", "hold"}
    /\ TimerUse \subseteq BOOLEAN
    /\ Faults \in BOOLEAN
    /\ MaxRetries \in Nat /\ MaxEarly \in Nat /\ MaxUpdates \in Nat /\ MaxRefers \in Nat

VARIABLES
    direction,  \* CallSession::direction
    sess,       \* the mutable fields of the CallSession
    inMap,      \* is the session in SipEngine::calls?
    port,       \* the RTP port taken for the call, and its releases
    invite,     \* progress of the invite task or of handle_incoming_invite
    result,     \* what do_invite returned
    stask,      \* progress of the dialog-state task
    op,         \* progress of every API caller and of the timer task
    chan,       \* DialogState channel from rsipstack to the state task
    peer,       \* the far end's view of the dialog
    budget,     \* what the far end may still send: bounds, and final NOTIFYs owed
    emitted,    \* kinds of CallEvent sent so far
    repeated    \* kinds sent more than once

vars == <<direction, sess, inMap, port, invite, result, stask, op, chan, peer,
          budget, emitted, repeated>>

Callers == Apps \union {"timer"}

\* What an SDP body says: nothing, unparsable, media flowing, stream on hold.
Sdp == {"none", "bad", "active", "hold"}

\* Results of do_invite: 2xx and failures carry an SDP or other body or none.
Response ==
    [kind : {"2xx", "4xx"}, sdp : Sdp] \union
    [kind : {"422", "3xx", "error"}, sdp : {"none"}]
NoResult == [kind |-> "none", sdp |-> "none"]

ChanMsg ==
    [type : {"Early"}, code : {180, 183}, sdp : Sdp] \union
    [type : {"Updated"}, code : {0}, sdp : Sdp] \union
    [type : {"Notify"}, code : {100, 200}, sdp : {"none"}] \union
    [type : {"Terminated"}, code : {0}, sdp : {"none"}]

EventKinds == {"Incoming", "Ringing", "EarlyMedia", "Answered", "ReInvite",
               "Hangup", "Error", "Redirected", "Cancelled", "Transfer", "TransferProgress"}

EarlyStates == {"None", "Ringing180", "EarlyMedia183", "Ringing180After183"}
RemoteMedia == {"EarlyMedia183", "Ringing180After183"}

Session ==
    [state : PreAnswer \union Established \union {"Ended"},
     early : EarlyStates,
     local_hold : BOOLEAN, remote_hold : BOOLEAN, remote_dir : {"active", "hold"},
     client_dialog : BOOLEAN, cancel_tx : BOOLEAN, cancel_pending : BOOLEAN,
     reinvite_pending : BOOLEAN, refer_pending : BOOLEAN,
     timer : {"none", "active", "stopped"},
     rtp : {"none", "up", "stopped"}]

Pcs == {"idle", "sleep", "answer2", "answer3",
        "reject0", "reject1", "reject2", "reject3", "reject4", "reject5",
        "bye0", "bye1", "bye2", "cancel0", "cancel1", "cancel2", "cancel3", "cancel4",
        "ri_lookup", "ri_check", "ri_set", "ri_wait", "ri_ok", "refer_wait", "refer_ok"}

\* Where a caller holds no reference to the session.
Unattached == {"idle", "sleep", "reject0", "bye0", "cancel0"}

\* Why a caller is in a step it shares with others: the API call, or the timer's reason.
Goals == AllOps \union {"none", "expired", "refresh"}

Caller == [pc : Pcs, goal : Goals, tries : 0..MaxRetries, dlg : BOOLEAN, tx : BOOLEAN]
Idle == [pc |-> "idle", goal |-> "none", tries |-> 0, dlg |-> FALSE, tx |-> FALSE]

NewSession(timer, rtp, cancelTx) ==
    [state |-> "Trying", early |-> "None",
     local_hold |-> FALSE, remote_hold |-> FALSE, remote_dir |-> "active",
     client_dialog |-> FALSE, cancel_tx |-> cancelTx, cancel_pending |-> FALSE,
     reinvite_pending |-> FALSE, refer_pending |-> FALSE,
     timer |-> timer, rtp |-> rtp]

Init ==
    /\ direction \in Directions
    /\ sess = NewSession("none", "none", FALSE)
    /\ inMap = FALSE
    /\ port = [taken |-> FALSE, releases |-> 0]
    /\ invite = "start"
    /\ result = NoResult
    /\ stask = "none"
    /\ op = [c \in Callers |-> Idle]
    /\ chan = <<>>
    /\ peer = "none"
    /\ budget = [early |-> MaxEarly, updates |-> MaxUpdates, refers |-> MaxRefers, notifies |-> 0]
    /\ emitted = {}
    /\ repeated = {}

----------------------------------------------------------------------------
(* Helpers shared by the handlers.                                         *)

Emit(kinds) ==
    /\ emitted' = emitted \union kinds
    /\ repeated' = repeated \union (kinds \intersect emitted)

Silent == UNCHANGED <<emitted, repeated>>

MutantStopRtp(s) == s
StopRtp(s) == [s EXCEPT !.rtp = IF @ = "none" THEN @ ELSE "stopped"]

\* state := Ended with the hold flags reset and the RTP engine stopped.
MutantEndSession(s) == [StopRtp(s) EXCEPT !.state = "Terminated"]
EndSession(s) ==
    [StopRtp(s) EXCEPT !.state = "Ended", !.local_hold = FALSE, !.remote_hold = FALSE]

\* release_rtp_port(local_addr().port()), when the session has an RTP engine.
MutantRelease == UNCHANGED port
Release == port' = [port EXCEPT !.releases = IF sess.rtp = "none" THEN @ ELSE @ + 1]

\* The dialog is over for the far end; rsipstack reports it on the channel once.
EndDialog ==
    /\ peer' = "terminated"
    /\ chan' = IF peer \in {"terminated", "none"} THEN chan
               ELSE Append(chan, [type |-> "Terminated", code |-> 0, sdp |-> "none"])

\* CallSession::update_from_remote_sdp, for a body that parses.
MutantUpdateFromRemoteSdp(s, sdp) ==
    [s EXCEPT !.remote_hold = (sdp = "hold"), !.remote_dir = sdp,
              !.state = IF @ \notin Established THEN @ ELSE IF sdp = "hold" THEN "Hold" ELSE "Active"]
UpdateFromRemoteSdp(s, sdp) ==
    LET held == sdp = "hold"
        t == [s EXCEPT !.remote_hold = held, !.remote_dir = sdp]
    IN  IF held /\ s.state = "Active" THEN [t EXCEPT !.state = "Hold"]
        ELSE IF ~held /\ ~s.local_hold /\ s.state = "Hold" THEN [t EXCEPT !.state = "Active"]
        ELSE t

\* The body is parsed and applied; one that does not parse changes nothing.
ApplySdp(s, sdp) == IF sdp \in {"active", "hold"} THEN UpdateFromRemoteSdp(s, sdp) ELSE s

\* CallSession::process_180_ringing
MutantProcess180(s) == [s EXCEPT !.early = "Ringing180", !.state = "Ringing"]
Process180(s) ==
    CASE s.early = "None" -> [s EXCEPT !.early = "Ringing180", !.state = "Ringing"]
      [] s.early = "EarlyMedia183" -> [s EXCEPT !.early = "Ringing180After183"]
      [] OTHER -> s

\* CallSession::process_183_session_progress
Process183(s, has_sdp) ==
    CASE has_sdp -> [s EXCEPT !.early = "EarlyMedia183", !.state = "EarlyMedia"]
      [] ~has_sdp /\ s.early = "None" -> [s EXCEPT !.early = "Ringing180", !.state = "Ringing"]
      [] OTHER -> s

----------------------------------------------------------------------------
(* Outbound: call() and its invite task.                                   *)

\* call(): the session enters the map and the two tasks are spawned.  Its
\* error returns before that point leave no session behind (RtpPortPool
\* follows what they do to the port).
PlaceCall ==
    /\ direction = "Outbound" /\ invite = "start"
    /\ sess' = NewSession("none", "up", TRUE)
    /\ inMap' = TRUE
    /\ port' = [port EXCEPT !.taken = TRUE]
    /\ invite' = "select"
    /\ stask' = "loop"
    /\ peer' = "invited"
    /\ Silent
    /\ UNCHANGED <<direction, result, op, chan, budget>>

\* The sender of the cancel channel is alive: in the session, while the map or
\* a caller refers to it, or in the hands of a caller about to fire it.
SenderAlive ==
    \/ sess.cancel_tx /\ (inMap \/ \E c \in Callers : op[c].pc \notin Unattached)
    \/ \E c \in Callers : op[c].tx /\ op[c].pc \in {"cancel2", "cancel3"}

\* select! takes the cancel branch, which completes when the sender fires and
\* also when it is dropped: do_invite is dropped (rsipstack then
\* cancels the INVITE and may report Terminated) ...
InviteCancelled ==
    /\ invite = "select" /\ ~SenderAlive
    /\ EndDialog \/ (peer' = "terminated" /\ UNCHANGED chan)
    /\ invite' = "cancelled"
    /\ Silent
    /\ UNCHANGED <<direction, sess, inMap, port, result, stask, op, budget>>

\* ... then the session, if still in the map, is stopped, its port released, and
\* removed under one lock ...
InviteCancelRemoves ==
    /\ invite = "cancelled"
    /\ IF inMap THEN sess' = [StopRtp(sess) EXCEPT !.state = "Ended"] /\ Release
                ELSE UNCHANGED <<sess, port>>
    /\ inMap' = FALSE
    /\ invite' = "untold"
    /\ Silent
    /\ UNCHANGED <<direction, result, stask, op, chan, peer, budget>>

\* ... and the event is sent when the lock is gone.
InviteTellsCancelled ==
    /\ invite = "untold"
    /\ Emit({"Cancelled"})
    /\ invite' = "done"
    /\ UNCHANGED <<direction, sess, inMap, port, result, stask, op, chan, peer, budget>>

\* select! takes the result of do_invite.
InviteReturns ==
    /\ invite = "select" /\ result # NoResult
    /\ invite' = "respond"
    /\ Silent
    /\ UNCHANGED <<direction, sess, inMap, port, result, stask, op, chan, peer, budget>>

\* What is reported when the INVITE is redirected or fails.
MutantFailureEvents(kind) == {"Hangup"}
MutantUntold(kind) == {}
FailureEvents(kind) == IF kind = "3xx" THEN {"Redirected"} ELSE {"Error"}

\* 422 with timers requested, 3xx, and Err: report, then stop, release and
\* remove under one lock.
InviteFails ==
    /\ invite = "respond" /\ result.kind \in {"422", "3xx", "error"}
    /\ Emit(FailureEvents(result.kind))
    /\ IF inMap THEN sess' = StopRtp(sess) /\ Release ELSE UNCHANGED <<sess, port>>
    /\ inMap' = FALSE
    /\ invite' = "done"
    /\ UNCHANGED <<direction, result, stask, op, chan, peer, budget>>

\* Every other Ok result is treated as an answer; the session is updated only
\* if the response has a body.  A Session-Expires header, or our own request
\* for timers, starts the session timer.
InviteAnswered ==
    /\ invite = "respond" /\ result.kind \in {"2xx", "4xx"}
    /\ IF inMap /\ result.sdp # "none"
       THEN \E timer \in TimerUse :
              sess' = [ApplySdp([sess EXCEPT !.state = "Active", !.client_dialog = TRUE,
                                             !.early = "None"], result.sdp)
                         EXCEPT !.timer = IF timer THEN "active" ELSE "none"]
       ELSE UNCHANGED sess
    /\ invite' = "check"
    /\ Silent
    /\ UNCHANGED <<direction, inMap, port, result, stask, op, chan, peer, budget>>

\* Was the call cancelled while the 200 OK was under way?
InviteChecksCancel ==
    /\ invite = "check"
    /\ invite' = IF inMap /\ sess.cancel_pending THEN "bye" ELSE "announce"
    /\ Silent
    /\ UNCHANGED <<direction, sess, inMap, port, result, stask, op, chan, peer, budget>>

\* CANCEL/200 race: dialog.hangup(), whose error is only logged.
MutantInviteSendsBye ==
    /\ invite = "bye" /\ invite' = "ended" /\ Silent
    /\ UNCHANGED <<direction, sess, inMap, port, result, stask, op, chan, peer, budget>>
InviteSendsBye ==
    /\ invite = "bye"
    /\ EndDialog \/ (Faults /\ UNCHANGED <<peer, chan>>)
    /\ invite' = "ended"
    /\ Silent
    /\ UNCHANGED <<direction, sess, inMap, port, result, stask, op, budget>>

InviteMarksEnded ==
    /\ invite = "ended"
    /\ sess' = IF inMap THEN [StopRtp(sess) EXCEPT !.state = "Ended"] ELSE sess
    /\ invite' = "done"
    /\ Silent
    /\ UNCHANGED <<direction, inMap, port, result, stask, op, chan, peer, budget>>

\* Spawn the timer task if the session has an active timer, report the answer.
InviteAnnounces ==
    /\ invite = "announce"
    /\ op' = IF inMap /\ sess.timer = "active" THEN [op EXCEPT !["timer"].pc = "sleep"] ELSE op
    /\ Emit({"Answered"})
    /\ invite' = "done"
    /\ UNCHANGED <<direction, sess, inMap, port, result, stask, chan, peer, budget>>

InviteTask == InviteCancelled \/ InviteCancelRemoves \/ InviteTellsCancelled
                \/ InviteReturns \/ InviteFails \/ InviteAnswered \/ InviteChecksCancel
                \/ InviteSendsBye \/ InviteMarksEnded \/ InviteAnnounces

----------------------------------------------------------------------------
(* Inbound: handle_incoming_invite and answer().                           *)

\* The INVITE is refused before a session exists, or no dialog can be made
\* for it (then nothing more is sent and the port stays taken).
RefuseInvite ==
    /\ direction = "Inbound" /\ invite = "start"
    /\ \/ peer' = "terminated" /\ UNCHANGED port
       \/ peer' = "invited" /\ port' = [port EXCEPT !.taken = TRUE]
    /\ invite' = "refused"
    /\ Silent
    /\ UNCHANGED <<direction, sess, inMap, result, stask, op, chan, budget>>

\* The session enters the map in state Trying.  The offer sets the remote
\* direction, not the hold flag.  Without an RTP engine (its port already
\* given back) only an INVITE without SDP is accepted.
AcceptInvite ==
    /\ direction = "Inbound" /\ invite = "start"
    /\ \E sdp \in Bodies, timer \in TimerUse, rtp \in {"up", "none"} :
         /\ rtp = "none" => sdp = "none"
         /\ sess' = [NewSession(IF timer THEN "active" ELSE "none", rtp, FALSE)
                       EXCEPT !.remote_dir = IF sdp = "hold" THEN "hold" ELSE "active"]
         /\ port' = [port EXCEPT !.taken = (rtp = "up")]
    /\ inMap' = TRUE
    /\ peer' = "invited"
    /\ invite' = "ringing"
    /\ Silent
    /\ UNCHANGED <<direction, result, stask, op, chan, budget>>

\* After the 180: state := Ringing, whatever happened since the insertion,
\* and the state task is spawned.
RingIncoming ==
    /\ invite = "ringing"
    /\ sess' = [sess EXCEPT !.state = "Ringing"]
    /\ Emit({"Incoming"})
    /\ stask' = "loop"
    /\ invite' = "done"
    /\ UNCHANGED <<direction, inMap, port, result, op, chan, peer, budget>>

\* answer(), first lock: Ringing -> Active.
MutantAnswer(c) ==
    /\ "answer" \in Ops /\ op[c].pc = "idle" /\ c \in Apps /\ inMap /\ direction = "Inbound"
    /\ sess' = [sess EXCEPT !.state = "Active"]
    /\ op' = [op EXCEPT ![c].pc = "answer2"]
    /\ Silent
    /\ UNCHANGED <<direction, inMap, port, invite, result, stask, chan, peer, budget>>
Answer(c) ==
    /\ "answer" \in Ops /\ op[c].pc = "idle" /\ c \in Apps
    /\ inMap /\ direction = "Inbound" /\ sess.state = "Ringing"
    /\ sess' = [sess EXCEPT !.state = "Active"]
    /\ op' = [op EXCEPT ![c].pc = "answer2"]
    /\ Silent
    /\ UNCHANGED <<direction, inMap, port, invite, result, stask, chan, peer, budget>>

\* server_dialog.accept(): sends 200 OK, or fails and answer() returns.
AnswerAccept(c) ==
    /\ op[c].pc = "answer2"
    /\ \/ peer = "invited" /\ peer' = "confirmed" /\ op' = [op EXCEPT ![c].pc = "answer3"]
       \/ (Faults \/ peer # "invited") /\ UNCHANGED peer /\ op' = [op EXCEPT ![c] = Idle]
    /\ Silent
    /\ UNCHANGED <<direction, sess, inMap, port, invite, result, stask, chan, budget>>

\* Restart the timer from now, spawn its task, report the answer.
AnswerDone(c) ==
    /\ op[c].pc = "answer3"
    /\ LET returned == [op EXCEPT ![c] = Idle]
       IN  op' = IF sess.timer = "active" THEN [returned EXCEPT !["timer"].pc = "sleep"] ELSE returned
    /\ Emit({"Answered"})
    /\ UNCHANGED <<direction, sess, inMap, port, invite, result, stask, chan, peer, budget>>

----------------------------------------------------------------------------
(* API calls that end the call.  A caller returns with Return(c): the      *)
(* timer task leaves its loop after a hangup and sleeps on otherwise.      *)

Return(c) ==
    op' = [op EXCEPT ![c] =
             [Idle EXCEPT !.pc = IF c = "timer" /\ op[c].goal # "expired" THEN "sleep" ELSE "idle"]]

\* hangup(): Ended is a no-op; before the answer it becomes reject(487) or
\* cancel(); otherwise a BYE is due.
StartHangup(c, goal) ==
    /\ inMap
    /\ op' = [op EXCEPT ![c].goal = goal,
              ![c].pc = IF sess.state \in PreAnswer
                        THEN IF direction = "Inbound" THEN "reject0" ELSE "cancel0"
                        ELSE "bye0"]
    /\ Silent
    /\ UNCHANGED <<direction, sess, inMap, port, invite, result, stask, chan, peer, budget>>

Hangup(c) ==
    /\ "hangup" \in Ops /\ c \in Apps /\ op[c].pc = "idle"
    /\ sess.state # "Ended"
    /\ StartHangup(c, "hangup")

\* Second lookup of hangup(), its delegates and every re-INVITE attempt: the
\* call may have left the map, and may leave it while the session is held.
Lookup(c) ==
    /\ op[c].pc \in {"reject0", "cancel0", "bye0", "ri_lookup"}
    /\ IF inMap
       THEN op' = [op EXCEPT ![c].pc = CASE @ = "reject0" -> "reject1"
                                         [] @ = "cancel0" -> "cancel1"
                                         [] @ = "bye0" -> "bye1"
                                         [] @ = "ri_lookup" -> "ri_check"]
       ELSE Return(c)
    /\ Silent
    /\ UNCHANGED <<direction, sess, inMap, port, invite, result, stask, chan, peer, budget>>

\* Last lock of hangup(): stop RTP, state := Ended.
Bye1(c) ==
    /\ op[c].pc = "bye1"
    /\ sess' = EndSession(sess)
    /\ op' = [op EXCEPT ![c].pc = "bye2", ![c].dlg = sess.client_dialog \/ direction = "Inbound"]
    /\ Silent
    /\ UNCHANGED <<direction, inMap, port, invite, result, stask, chan, peer, budget>>

\* dialog.hangup() or bye(), its result ignored; nothing without a dialog.
Bye2(c) ==
    /\ op[c].pc = "bye2"
    /\ \/ op[c].dlg /\ peer = "confirmed" /\ EndDialog
       \/ (Faults \/ ~op[c].dlg \/ peer # "confirmed") /\ UNCHANGED <<peer, chan>>
    /\ Return(c)
    /\ Silent
    /\ UNCHANGED <<direction, sess, inMap, port, invite, result, stask, budget>>

Cancel(c) ==
    /\ "cancel" \in Ops /\ c \in Apps /\ op[c].pc = "idle" /\ inMap
    /\ op' = [op EXCEPT ![c].pc = "cancel1", ![c].goal = "cancel"]
    /\ Silent
    /\ UNCHANGED <<direction, sess, inMap, port, invite, result, stask, chan, peer, budget>>

\* cancel(), first lock: read the state and the dialog, take cancel_tx; an
\* answered or ended call is an error.
Cancel1(c) ==
    /\ op[c].pc = "cancel1"
    /\ sess' = [sess EXCEPT !.cancel_tx = FALSE]
    /\ IF sess.state \in PreAnswer
       THEN op' = [op EXCEPT ![c].pc = "cancel2", ![c].dlg = sess.client_dialog,
                             ![c].tx = sess.cancel_tx]
       ELSE Return(c)
    /\ Silent
    /\ UNCHANGED <<direction, inMap, port, invite, result, stask, chan, peer, budget>>

Cancel2(c) ==
    /\ op[c].pc = "cancel2"
    /\ sess' = [sess EXCEPT !.cancel_pending = TRUE]
    /\ op' = [op EXCEPT ![c].pc = "cancel3"]
    /\ Silent
    /\ UNCHANGED <<direction, inMap, port, invite, result, stask, chan, peer, budget>>

\* With a dialog, send CANCEL on it (rsipstack has no INVITE left to cancel
\* once it is confirmed) or return its error; otherwise signal the invite
\* task, if cancel_tx was ours to take.
Cancel3(c) ==
    /\ op[c].pc = "cancel3"
    /\ \/ op' = [op EXCEPT ![c].pc = "cancel4"]
       \/ op[c].dlg /\ Faults /\ Return(c)
    /\ Silent
    /\ UNCHANGED <<direction, sess, inMap, port, invite, result, stask, chan, peer, budget>>

\* Last lock of cancel(): state := Ended, RTP stopped, port released.
Cancel4(c) ==
    /\ op[c].pc = "cancel4"
    /\ sess' = EndSession(sess)
    /\ Release
    /\ Emit({"Cancelled"})
    /\ Return(c)
    /\ UNCHANGED <<direction, inMap, invite, result, stask, chan, peer, budget>>

Reject(c) ==
    /\ "reject" \in Ops /\ c \in Apps /\ op[c].pc = "idle" /\ inMap
    /\ op' = [op EXCEPT ![c].pc = "reject1", ![c].goal = "reject"]
    /\ Silent
    /\ UNCHANGED <<direction, sess, inMap, port, invite, result, stask, chan, peer, budget>>

\* reject(), first lock: no check of the state.
Reject1(c) ==
    /\ op[c].pc = "reject1"
    /\ IF direction = "Inbound"
       THEN /\ sess' = [StopRtp(sess) EXCEPT !.state = "Ended"]
            /\ op' = [op EXCEPT ![c].pc = "reject2"]
       ELSE Return(c) /\ UNCHANGED sess
    /\ Silent
    /\ UNCHANGED <<direction, inMap, port, invite, result, stask, chan, peer, budget>>

\* server_dialog.reject(): refuses a pending INVITE; an error returns.
Reject2(c) ==
    /\ op[c].pc = "reject2"
    /\ \/ peer = "invited" /\ EndDialog /\ op' = [op EXCEPT ![c].pc = "reject3"]
       \/ peer # "invited" /\ UNCHANGED <<peer, chan>> /\ op' = [op EXCEPT ![c].pc = "reject3"]
       \/ (Faults \/ peer # "invited") /\ UNCHANGED <<peer, chan>> /\ Return(c)
    /\ Silent
    /\ UNCHANGED <<direction, sess, inMap, port, invite, result, stask, budget>>

\* Release the port, then remove the call under a lock of its own ...
Reject3(c) ==
    /\ op[c].pc = "reject3"
    /\ Release
    /\ op' = [op EXCEPT ![c].pc = "reject4"]
    /\ Silent
    /\ UNCHANGED <<direction, sess, inMap, invite, result, stask, chan, peer, budget>>

Reject4(c) ==
    /\ op[c].pc = "reject4"
    /\ inMap' = FALSE
    /\ op' = [op EXCEPT ![c].pc = "reject5"]
    /\ Silent
    /\ UNCHANGED <<direction, sess, port, invite, result, stask, chan, peer, budget>>

\* ... and report the hangup.
Reject5(c) ==
    /\ op[c].pc = "reject5"
    /\ Emit({"Hangup"})
    /\ Return(c)
    /\ UNCHANGED <<direction, sess, inMap, port, invite, result, stask, chan, peer, budget>>

----------------------------------------------------------------------------
(* API calls inside the dialog: hold, unhold, re-INVITE and REFER.         *)

\* hold() and unhold() return at once when there is nothing to change, and
\* fail without an RTP engine.
Modify(c, goal) ==
    /\ goal \in Ops /\ c \in Apps /\ op[c].pc = "idle" /\ inMap
    /\ goal \in {"hold", "unhold"} => sess.rtp # "none"
    /\ goal = "hold" => ~sess.local_hold
    /\ goal = "unhold" => sess.local_hold
    /\ op' = [op EXCEPT ![c].pc = "ri_lookup", ![c].goal = goal]
    /\ Silent
    /\ UNCHANGED <<direction, sess, inMap, port, invite, result, stask, chan, peer, budget>>

\* send_reinvite_internal(): only an established call may be modified.
ReinviteCheck(c) ==
    /\ op[c].pc = "ri_check"
    /\ IF sess.state \in Established
       THEN op' = [op EXCEPT ![c].pc = "ri_set"]
       ELSE Return(c)
    /\ Silent
    /\ UNCHANGED <<direction, sess, inMap, port, invite, result, stask, chan, peer, budget>>

\* reinvite_pending := true, with a guard that clears it on every exit.
ReinviteSet(c) ==
    /\ op[c].pc = "ri_set"
    /\ sess' = [sess EXCEPT !.reinvite_pending = TRUE]
    /\ op' = [op EXCEPT ![c].pc = "ri_wait", ![c].dlg = sess.client_dialog \/ direction = "Inbound"]
    /\ Silent
    /\ UNCHANGED <<direction, inMap, port, invite, result, stask, chan, peer, budget>>

\* ReinviteGuard::drop
MutantClearPending(s) == s
ClearPending(s) == [s EXCEPT !.reinvite_pending = FALSE]

\* One more attempt after a 491.
MutantRetry(c) == [op EXCEPT ![c].pc = "ri_lookup"]
Retry(c) == [op EXCEPT ![c].pc = "ri_lookup", ![c].tries = @ + 1]

\* dialog.reinvite() returns: accepted, refused (or no dialog), or 491, which
\* is retried after a delay while tries are left.
ReinviteReturns(c) ==
    /\ op[c].pc = "ri_wait"
    /\ sess' = ClearPending(sess)
    /\ \/ op[c].dlg /\ peer = "confirmed" /\ op' = [op EXCEPT ![c].pc = "ri_ok"]
       \/ op[c].dlg /\ peer = "confirmed" /\ op[c].tries < MaxRetries /\ op' = Retry(c)
       \/ Return(c)
    /\ Silent
    /\ UNCHANGED <<direction, inMap, port, invite, result, stask, chan, peer, budget>>

\* The re-INVITE was accepted: apply what it was for.
ReinviteApply(c) ==
    /\ op[c].pc = "ri_ok"
    /\ sess' = CASE op[c].goal = "hold" -> [sess EXCEPT !.local_hold = TRUE, !.state = "Hold"]
                 [] op[c].goal = "unhold" ->
                      [sess EXCEPT !.local_hold = FALSE,
                                   !.state = IF sess.remote_hold THEN @ ELSE "Active"]
                 [] OTHER -> sess
    /\ Return(c)
    /\ Silent
    /\ UNCHANGED <<direction, inMap, port, invite, result, stask, chan, peer, budget>>

\* send_refer(): established call with a dialog.
Refer(c) ==
    /\ "refer" \in Ops /\ c \in Apps /\ op[c].pc = "idle" /\ inMap
    /\ sess.state \in Established
    /\ sess.client_dialog \/ direction = "Inbound"
    /\ op' = [op EXCEPT ![c].pc = "refer_wait", ![c].goal = "refer"]
    /\ Silent
    /\ UNCHANGED <<direction, sess, inMap, port, invite, result, stask, chan, peer, budget>>

\* Refused, timed out or not sent.
ReferFails(c) ==
    /\ op[c].pc = "refer_wait"
    /\ Return(c)
    /\ Silent
    /\ UNCHANGED <<direction, sess, inMap, port, invite, result, stask, chan, peer, budget>>

\* After the 2xx: the transfer is recorded as pending.
ReferAccepted(c) ==
    /\ op[c].pc = "refer_ok"
    /\ sess' = [sess EXCEPT !.refer_pending = TRUE]
    /\ Emit({"Transfer"})
    /\ Return(c)
    /\ UNCHANGED <<direction, inMap, port, invite, result, stask, chan, peer, budget>>

----------------------------------------------------------------------------
(* The session-timer task polls the call.  When the timer has expired or   *)
(* needs a refresh is a matter of time (module SessionTimer): any poll of  *)
(* an active timer may find either.                                        *)

\* The call is gone or over, or has no timer any more.
MutantTimerDone == sess.state = "Ended" \/ sess.timer = "none"
TimerDone == ~inMap \/ sess.state = "Ended" \/ sess.timer = "none"

TimerLeaves ==
    /\ op["timer"].pc = "sleep" /\ TimerDone
    /\ op' = [op EXCEPT !["timer"] = Idle]
    /\ Silent
    /\ UNCHANGED <<direction, sess, inMap, port, invite, result, stask, chan, peer, budget>>

TimerExpires ==
    /\ op["timer"].pc = "sleep" /\ ~TimerDone /\ sess.timer = "active"
    /\ StartHangup("timer", "expired")

TimerRefreshes ==
    /\ op["timer"].pc = "sleep" /\ ~TimerDone /\ sess.timer = "active"
    /\ op' = [op EXCEPT !["timer"].pc = "ri_lookup", !["timer"].goal = "refresh"]
    /\ Silent
    /\ UNCHANGED <<direction, sess, inMap, port, invite, result, stask, chan, peer, budget>>

----------------------------------------------------------------------------
(* The dialog-state task.  A handler that finds no session in the map      *)
(* still sends its event.                                                  *)

Receive(type) == stask = "loop" /\ chan # <<>> /\ Head(chan).type = type

\* 180 and 183: User-Agent and Contact are noted, the SDP applied, then the
\* early-media state advanced, all under one lock.
OnEarly ==
    /\ Receive("Early")
    /\ LET m == Head(chan)
           s == ApplySdp(sess, m.sdp)
           new == IF m.code = 183 THEN Process183(s, m.sdp # "none") ELSE Process180(s)
       IN  /\ sess' = IF inMap THEN new ELSE sess
           /\ Emit(IF ~inMap THEN {}
                   ELSE IF m.code = 183 /\ m.sdp # "none" THEN {"EarlyMedia"}
                   ELSE IF m.code = 180 /\ new.early \notin RemoteMedia THEN {"Ringing"}
                   ELSE {})
    /\ chan' = Tail(chan)
    /\ UNCHANGED <<direction, inMap, port, invite, result, stask, op, peer, budget>>

\* A re-INVITE that rsipstack has already accepted: its SDP is applied even
\* in a glare, and it counts as a session refresh.
OnUpdated ==
    /\ Receive("Updated")
    /\ sess' = IF inMap THEN ApplySdp(sess, Head(chan).sdp) ELSE sess
    /\ Emit({"ReInvite"})
    /\ chan' = Tail(chan)
    /\ UNCHANGED <<direction, inMap, port, invite, result, stask, op, peer, budget>>

\* NOTIFY of a REFER subscription: the final one settles the transfer.
OnNotify ==
    /\ Receive("Notify")
    /\ sess' = IF inMap /\ Head(chan).code = 200 THEN [sess EXCEPT !.refer_pending = FALSE] ELSE sess
    /\ Emit({"TransferProgress"})
    /\ chan' = Tail(chan)
    /\ UNCHANGED <<direction, inMap, port, invite, result, stask, op, peer, budget>>

\* Terminated: note the port, stop the timer and the RTP engine ...
OnTerminated ==
    /\ Receive("Terminated")
    /\ sess' = IF inMap
               THEN [StopRtp(sess) EXCEPT !.timer = IF @ = "none" THEN @ ELSE "stopped"]
               ELSE sess
    /\ stask' = IF inMap /\ sess.rtp # "none" THEN "release" ELSE "remove"
    /\ chan' = Tail(chan)
    /\ Silent
    /\ UNCHANGED <<direction, inMap, port, invite, result, op, peer, budget>>

\* ... release the port ...
TerminatedReleases ==
    /\ stask = "release"
    /\ Release
    /\ stask' = "remove"
    /\ Silent
    /\ UNCHANGED <<direction, sess, inMap, invite, result, op, chan, peer, budget>>

\* ... report the hangup, remove the call and leave the loop.
MutantTerminatedRemoves ==
    /\ stask = "remove" /\ stask' = "exited" /\ Emit({"Hangup"})
    /\ UNCHANGED <<direction, sess, inMap, port, invite, result, op, chan, peer, budget>>
TerminatedRemoves ==
    /\ stask = "remove"
    /\ Emit({"Hangup"})
    /\ inMap' = FALSE
    /\ stask' = "exited"
    /\ UNCHANGED <<direction, sess, port, invite, result, op, chan, peer, budget>>

StateTask == OnEarly \/ OnUpdated \/ OnNotify \/ OnTerminated
               \/ TerminatedReleases \/ TerminatedRemoves

----------------------------------------------------------------------------
(* The far end and rsipstack (external).                                   *)

PeerUnchanged == UNCHANGED <<direction, sess, inMap, port, invite, stask>> /\ Silent

PeerProvisional ==
    /\ direction = "Outbound" /\ peer = "invited" /\ invite = "select" /\ budget.early > 0
    /\ \E code \in {180, 183}, sdp \in Bodies :
         chan' = Append(chan, [type |-> "Early", code |-> code, sdp |-> sdp])
    /\ budget' = [budget EXCEPT !.early = @ - 1]
    /\ PeerUnchanged /\ UNCHANGED <<result, op, peer>>

\* do_invite completes: with a 2xx the dialog is confirmed, otherwise over;
\* rsipstack reports the end of a refused dialog, and of one that failed
\* without a response or not.
PeerFinal ==
    /\ direction = "Outbound" /\ peer = "invited" /\ invite = "select"
    /\ result' \in Response /\ (result'.kind \in {"2xx", "4xx"} => result'.sdp \in Bodies)
    /\ result'.kind = "422" => TRUE \in TimerUse
    /\ \/ result'.kind = "2xx" /\ peer' = "confirmed" /\ UNCHANGED chan
       \/ result'.kind # "2xx" /\ EndDialog
       \/ result'.kind = "error" /\ peer' = "terminated" /\ UNCHANGED chan
    /\ PeerUnchanged /\ UNCHANGED <<op, budget>>

PeerReinvites ==
    /\ peer = "confirmed" /\ budget.updates > 0
    /\ invite \notin {"select"}
    /\ \E sdp \in Bodies : chan' = Append(chan, [type |-> "Updated", code |-> 0, sdp |-> sdp])
    /\ budget' = [budget EXCEPT !.updates = @ - 1]
    /\ PeerUnchanged /\ UNCHANGED <<result, op, peer>>

\* BYE on a confirmed dialog, CANCEL of an INVITE we have not answered.
PeerEnds ==
    /\ \/ peer = "confirmed"
       \/ peer = "invited" /\ direction = "Inbound" /\ invite \in {"ringing", "done"}
    /\ EndDialog
    /\ PeerUnchanged /\ UNCHANGED <<result, op, budget>>

\* The 2xx to a REFER starts a subscription; its NOTIFYs may overtake the
\* caller's processing of the 2xx.
PeerAcceptsRefer(c) ==
    /\ op[c].pc = "refer_wait" /\ peer = "confirmed" /\ budget.refers > 0
    /\ op' = [op EXCEPT ![c].pc = "refer_ok"]
    /\ budget' = [budget EXCEPT !.refers = @ - 1, !.notifies = @ + 1]
    /\ PeerUnchanged /\ UNCHANGED <<result, chan, peer>>

PeerNotifies ==
    /\ peer = "confirmed" /\ budget.notifies > 0
    /\ \/ /\ chan' = Append(chan, [type |-> "Notify", code |-> 200, sdp |-> "none"])
          /\ budget' = [budget EXCEPT !.notifies = @ - 1]
       \/ /\ budget.updates > 0
          /\ chan' = Append(chan, [type |-> "Notify", code |-> 100, sdp |-> "none"])
          /\ budget' = [budget EXCEPT !.updates = @ - 1]
    /\ PeerUnchanged /\ UNCHANGED <<result, op, peer>>

----------------------------------------------------------------------------
CallerSteps(c) ==
    \/ AnswerAccept(c) \/ AnswerDone(c)
    \/ Lookup(c)
    \/ Reject1(c) \/ Reject2(c) \/ Reject3(c) \/ Reject4(c) \/ Reject5(c)
    \/ Bye1(c) \/ Bye2(c)
    \/ Cancel1(c) \/ Cancel2(c) \/ Cancel3(c) \/ Cancel4(c)
    \/ ReinviteCheck(c) \/ ReinviteSet(c) \/ ReinviteReturns(c) \/ ReinviteApply(c)
    \/ ReferFails(c) \/ ReferAccepted(c)

AppCalls(c) ==
    \/ Answer(c) \/ Reject(c) \/ Hangup(c) \/ Cancel(c) \/ Refer(c)
    \/ \E goal \in {"hold", "unhold", "reinvite"} : Modify(c, goal)

TimerTask == TimerLeaves \/ TimerExpires \/ TimerRefreshes

Peer ==
    \/ PeerProvisional \/ PeerFinal \/ PeerReinvites \/ PeerEnds \/ PeerNotifies
    \/ \E c \in Apps : PeerAcceptsRefer(c)

Setup == PlaceCall \/ RefuseInvite \/ AcceptInvite \/ RingIncoming

Next ==
    \/ Setup \/ InviteTask \/ StateTask \/ TimerTask \/ Peer
    \/ \E c \in Apps : AppCalls(c)
    \/ \E c \in Callers : CallerSteps(c)

\* Every spawned task keeps running; what the application and the far end do
\* is up to them, except that each awaited rsipstack operation returns.
Fairness ==
    /\ WF_vars(RingIncoming) /\ WF_vars(InviteTask) /\ WF_vars(StateTask)
    /\ WF_vars(TimerLeaves)
    /\ \A c \in Callers : WF_vars(CallerSteps(c))

Spec == Init /\ [][Next]_vars /\ Fairness

----------------------------------------------------------------------------
(* Properties.                                                             *)

\* Types of the session, the tasks, the callers and the messages: every handler
\* writes a state and flags that the others can meet.
TypeOK ==
    /\ direction \in {"Inbound", "Outbound"}
    /\ sess \in Session
    /\ inMap \in BOOLEAN
    /\ port \in [taken : BOOLEAN, releases : Nat]
    /\ invite \in {"start", "select", "cancelled", "untold", "respond", "check", "bye",
                   "ended", "announce", "ringing", "refused", "done"}
    /\ result \in Response \union {NoResult}
    /\ stask \in {"none", "loop", "release", "remove", "exited"}
    /\ op \in [Callers -> Caller]
    /\ chan \in Seq(ChanMsg)
    /\ peer \in {"none", "invited", "confirmed", "terminated"}
    /\ budget \in [early : Nat, updates : Nat, refers : Nat, notifies : Nat]
    /\ emitted \subseteq EventKinds
    /\ repeated \subseteq EventKinds

\* The state shown to the application agrees with the hold flags whatever the
\* order in which hold, unhold, remote re-INVITEs and hangups complete: Hold
\* has a party holding, and a call we hold is never shown as Active.
HoldMatchesFlags ==
    /\ sess.state = "Hold" => sess.local_hold \/ sess.remote_hold
    /\ sess.state = "Active" => ~sess.local_hold

\* The glare flag is never left set by an exit of send_reinvite_internal
\* (the reason for its drop guard): someone is always still waiting.
NoStuckReinvite ==
    sess.reinvite_pending => \E c \in Callers : op[c].pc = "ri_wait"

\* What makes the two inductive: before the call is answered nothing is held
\* and no re-INVITE is under way, the answer is given by one caller, and the
\* timer task is spawned by that answer and not before.
Answering == {c \in Callers : op[c].pc \in {"answer2", "answer3"}}
Unanswered ==
    \/ direction = "Outbound" /\ invite \in {"start", "select", "respond"}
    \/ direction = "Inbound" /\ (invite # "done" \/ sess.state \in {"Trying", "Ringing"})
AnswerInv ==
    /\ direction = "Inbound" =>
         /\ invite \in {"start", "refused", "ringing", "done"}
         /\ invite # "done" => sess.state \in {"Trying", "Ended"}
         /\ \A i \in DOMAIN chan : chan[i].type # "Early"
    /\ direction = "Outbound" => invite # "ringing" /\ Answering = {}
    /\ \A c, d \in Answering : c = d
    /\ Unanswered =>
         /\ sess.state \notin Established /\ ~sess.local_hold
         /\ \A c \in Callers : op[c].pc \notin {"answer2", "answer3", "ri_set", "ri_wait", "ri_ok"}
    /\ Unanswered \/ Answering # {} \/ invite \in {"check", "announce"}
         => op["timer"].pc = "idle"

\* No path that removes a call leaves its RTP engine running, although the
\* stop and the removal are separate steps in reject() and on Terminated.
RemovedIsStopped == ~inMap => sess.rtp # "up"

\* What makes it inductive: who is about to remove the call has stopped it.
StopInv ==
    /\ RemovedIsStopped
    /\ stask \in {"release", "remove"} => sess.rtp # "up"
    /\ \A c \in Callers : op[c].pc \in {"reject2", "reject3", "reject4"} => sess.rtp # "up"
    /\ invite = "start" =>
         /\ ~inMap /\ stask = "none"
         /\ \A c \in Callers : op[c].pc = "idle"

\* A call that has left the map has given its RTP port back, whichever task
\* removed it.
PortGivenBack ==
    ~inMap /\ sess.rtp # "none" => port.releases > 0

\* An answer the application is not told about is torn down: when the invite
\* task gives up a 2xx because of a cancel, the far end's dialog is ended.
UnannouncedIsTornDown ==
    invite = "done" /\ result.kind = "2xx" /\ "Answered" \notin emitted
        => peer # "confirmed"

\* While the far end plays media before the answer, a 180 does not take the
\* call back to ringing: the shown state and the ringback event agree with
\* the early-media state (RFC 3960 handling in process_180_ringing).
EarlyMediaKept ==
    [][/\ sess.state = "EarlyMedia" => sess'.state # "Ringing"
       /\ sess.early \in RemoteMedia /\ sess'.early \in RemoteMedia
            => ("Ringing" \in emitted' => "Ringing" \in emitted)]_vars

\* The Terminated handler is the only source of Hangup for an outbound call
\* and runs once, whatever hangup and cancel calls race with it.
HangupOnce == "Hangup" \notin repeated

\* The application has been told that the call is over; or the task that removed the
\* call, of the two that do so first, is about to tell it.
FinalEvents == {"Hangup", "Error", "Redirected", "Cancelled"}
Told == emitted \intersect FinalEvents # {}
Owed == invite = "untold" \/ \E c \in Callers : op[c].pc = "reject5"

\* Whoever of the five paths ends the call, and whatever the others are doing then, its
\* life is that of CallLife: it never comes back to the map, its RTP engine never runs
\* again, its port is not released under a running engine, and it does not leave the map
\* before all of that is done and an event has told the application, or is owed by the
\* task that removed it, which then sends it.
Life == INSTANCE CallLife WITH
    life <- IF inMap THEN "listed" ELSE IF invite = "start" THEN "new"
            ELSE IF invite = "refused" THEN "refused" ELSE "gone",
    media <- sess.rtp,
    returned <- port.releases > 0,
    told <- IF Told THEN "yes" ELSE IF Owed THEN "owed" ELSE "no"
LivesOnce == Life!Spec

\* Once the dialog is over for the far end the call leaves the map and the application,
\* unless it never heard of the call, is told, even if a local hangup, cancel, hold or
\* timer step is under way or fails.
EndedCallsAreRemoved == peer = "terminated" ~> ~inMap /\ (Told \/ invite = "refused")

\* Every API call returns: none waits for another caller, for the state task
\* or for a retry without end.
CallersReturn == \A c \in Apps : op[c].pc # "idle" ~> op[c].pc = "idle"

\* The session-timer task does not outlive its call, even when it was spawned
\* by an answer that completed after the call was removed.
TimerTaskStops == ~inMap /\ invite # "start" ~> op["timer"].pc = "idle"

----------------------------------------------------------------------------
(* Statements of the repository's comments and documentation that the code *)
(* does not keep; README, section 4, says where each is found violated.    *)

\* Nothing more will happen to the call by itself.
Quiet ==
    /\ invite = "done" /\ chan = <<>>
    /\ \A c \in Callers : op[c].pc \in {"idle", "sleep"}

\* cancel(): a 200 OK that races with it is followed by a BYE, so that the far
\* end is not left in a call that was given up here.
CancelledIsTornDown == Quiet /\ sess.state = "Ended" => peer # "confirmed"

\* CallEvent::Answered means that the call was answered with a 2xx.
AnsweredMeansAnswered ==
    direction = "Outbound" /\ "Answered" \in emitted => result.kind = "2xx"

\* A call leaves the map after the application was told, so that who hears of its end
\* can still look it up (Bug #96).
ToldBeforeRemoved == ~inMap /\ invite \notin {"start", "refused"} => Told

\* The engine moves a call only along the transition table of StateValidator.
StateFollowsTable ==
    [][sess'.state # sess.state => can_transition(sess.state, sess'.state)]_vars
============================================================================
