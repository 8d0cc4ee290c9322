# TLA+ specifications of rtpsip

`rtpsip` is a Rust library for SIP calls with RTP media, with Python bindings.
This directory holds TLA+ modules translated from its source, TLC configurations
that check them on small instances, and theorems that TLAPS proves for every
value of the constants. Paths below are relative to `src/src/` (the crate's
sources); `PROJECT.json` maps every definition to the lines it stands for.

    tlc  -config CallInbound.cfg MCSipCall.tla   # one run
    tlapm SipCallSafety.tla                      # the proofs of one module

## 1. Inventory of the system

| Component | State | Operations and tasks | What makes it correct |
|---|---|---|---|
| **SIP engine: calls** `sip/engine.rs` | `calls` map; per call a `CallSession` under a lock: state, early-media state, hold flags, dialogs, cancel and re-INVITE flags, session timer, RTP engine | `call` and its invite task, `handle_incoming_invite`, dialog-state task, session-timer task, `answer`, `reject`, `hangup`, `cancel`, `hold`, `unhold`, `send_reinvite`, `send_refer` | a finished call leaves the map with its RTP stopped and its port given back; the shown state agrees with what the parties did; the far end is not left in a call that is over here; one final event |
| **Call states** `session/state.rs` | none (tables) | `can_transition`, predicates | calls move along the table, end once |
| **RTP port pool** `sip/engine.rs` | cursor, set of allocated ports | `allocate_rtp_port`, `release_rtp_port` | ports in range, no port with two users while one is free, the search ends |
| **Session timer** `sip/session_timer.rs`, tasks in `sip/engine.rs` | interval, role, last refresh | `start`, `process_response`, `refresh`, `needs_refresh`, `is_expired`; polling task | live sessions never expire, dead ones are given up in time |
| **Registration** `sip/engine.rs` | per provider: state, registration under an async lock, refresh handle | `register`, `unregister`, refresh task with retry and back-off | one refresh task per provider, and the one that can be ended |
| **Listener, gateways** `sip/engine.rs` | recent requests, calls, gateway health | `start`, `stop`, `handle_incoming_invite`, keepalive task | limits hold, no INVITE makes two sessions |
| **Digits in a call** `sip/engine.rs`, `rtp/engine.rs` | mode, queue of detected digits under two locks | `send_dtmf_digits`, `send_dtmf_info`, `recv_dtmf`, `recv_dtmf_blocking`, `parse_dtmf_relay` | whoever asks returns |
| **Session manager** `session/manager.rs` | sessions map, event channel | `add_session`, `remove_session`, `update_state` | (nothing constructs it) |
| **SDP** `sip/sdp.rs` | none | parse, build, negotiate | a section means what its lines say, else what the session says |
| **Digest authentication** `sip/digest_auth.rs` | cached challenge, its age, nonce count | `update_challenge`, `authorize`, `authorize_cached`, `clear_cache` | while the cache keeps a nonce, its counts are 1, 2, 3; what is sent belongs to one challenge |
| **SIP DNS** `sip/dns.rs` | time of the last resolution | SRV selection, fall-back | priority order, weights |
| **Jitter buffer** `rtp/jitter.rs` | packet map, last played sequence, adaptive delay, statistics | `push`, `pop`, `reset`, `pending_nacks` | plays in order, once, and goes on playing while packets arrive |
| **RTP engine** `rtp/engine.rs`, `rtp/packet.rs` | sequence and timestamp, SSRC, hold, timeout flag, normalizer | senders, receive loop, media timeout, `start`, `stop` | timestamps smooth, a timeout told once, no keystream reused |
| **RTCP** `rtp/rtcp.rs` | send and receive statistics | `record_*`, `process_incoming_rtcp`, `build_rtcp` | reports count what was sent, over wraps |
| **DTMF** `rtp/dtmf.rs`, `rtp/goertzel.rs` | sender's and detector's event state | `generate_digit`, `process_rtp` | each key press is told once, whatever is lost or repeated, while the packets of two digits do not cross |
| **SRTP** `rtp/srtp.rs` | rollover counters, replay windows, keys | `protect_*`, `unprotect_*` | index estimate over wraps; no packet accepted twice |
| **Media taps** `rtp/media_tap.rs` | bounded channels | send, receive, drop | (nothing attaches one) |
| **Audio processing** `rtp/codec.rs`, `plc.rs`, `vad.rs`, `resampler.rs` | filter state | numeric | (signal processing) |
| **STUN** `nat/stun/` | pending transaction, server health | retransmission, pool with fail-over, probes | every transaction ends; a server that is back is found |
| **TURN client** `nat/turn/` | allocation, permissions, channels, nonce | allocate, refresh loop, bind, deallocate | what is tracked does not lapse at the server |
| **NAT traversal** `nat/manager.rs`, `detect.rs`, `hole_punch.rs`, `demux.rs` | verdict, strategy, keepalive | detection, punching, demultiplexing | a verdict that rests on an answer is right |
| **Keepalive** `nat/keepalive.rs` | interval, counter, rebinding flag, two locks | periodic task, `notify_rebinding`, `notify_stable` | locks are released, the interval keeps its bounds |
| **Symmetric RTP** `nat/symmetric_rtp.rs` | candidate and tally, learned address, switch history, lock | `process_incoming*`, `rearm`, `reset` | follows the far end, resists flapping |
| **Provider router** `provider/` | providers, statistics | `route`, `route_with_fallback`, call counters | no slot is lost |
| **Python bindings** `python/` | engine slot, event receiver slot | `start`, `stop`, `next_event`, call operations | no event lost or repeated between threads |
| **Configuration, errors** `config.rs`, `error.rs`, `lib.rs` | none | parsing | - |

How they interact. The Python client owns a SIP engine and calls its operations
from any thread. The engine runs on a multi-threaded tokio runtime: a listener
task accepts INVITEs and creates sessions; each call has a task that consumes
rsipstack's dialog states, an outbound call has an invite task, and an answered
call with a negotiated timer has a polling task. All of them share the
`CallSession` behind a `Mutex` that is *not* held across an `await`. Every call
takes an RTP port from the pool, owns an RTP engine (with jitter buffer, DTMF,
SRTP, RTCP inside) and reports through a broadcast channel of `CallEvent`s. NAT
components find and keep the public address of the media socket.

What is hard. (a) Everything between two locks: `cancel()` takes the session's
lock three times, `hold()` awaits a re-INVITE between looking and writing, five
paths can end the same call at once, `send_dtmf` reads a sequence number and
writes it back later. (b) Order across tasks: dialog states and the result of
the INVITE come through different tasks. (c) Failure of one step of several (a
BYE, a 200 OK, a refresh in the middle of a round). (d) Time: polling tasks
against expiry, deadlines that move. (e) Wrap-around of 16-bit numbers under
loss and reordering. (f) Locks and slots that threads share: the queue of digits,
the keepalive's two locks, the event receiver. The list, line by line, is under
`hazards` in `PROJECT.json`.

## 2. Modules

| Module | Models | Checked by | Proved in |
|---|---|---|---|
| `CallStates` | `session/state.rs`: states, transition table | through `SipCall` | - |
| `SipCall` | one call of `sip/engine.rs`, all its tasks and API callers | `Call*`, `VCancelRace`, `VAnsweredEvent`, `VLateRinging` | `SipCallProofs`, `SipCallSafety`, `SipCallEndings` |
| `CallLife` | what a call promises (abstract): listed once, and gone only at rest | refined by `SipCall` | `SipCallEndings` |
| `RtpPortPool` | the port pool and the ports of several calls | `Services`, `VReleasedTwice` | `ServicesProofs` |
| `SessionTimer` | `sip/session_timer.rs` and the polling task, in seconds | `Services` | `ServicesProofs` |
| `StunTransaction`, `StunPool` | `nat/stun/`: one transaction on a shared socket; the servers and their health | `Services` | - |
| `NatKeepalive` | `nat/keepalive.rs`, lock by lock | `Services` | `ServicesProofs` |
| `SipDtmf` | digits in a call: modes, INFO, the queue of detected digits | `Services` | - |
| `JitterBuffer` | `rtp/jitter.rs` and the receive task that drives it | `Media`, `VStarved` | `MediaProofs` |
| `SrtpContext` | `rtp/srtp.rs` as operators on records | through the next two | `ReceiverProofs` |
| `SrtpReceiver` | a receive context behind a bad network | `Media` | `ReceiverProofs` |
| `ReplayProtection` | what replay protection promises (abstract) | refined by `SrtpReceiver` | `ReceiverProofs` |
| `RtpSender` | concurrent senders on one RTP and SRTP stream | `Media` | `MediaProofs` |
| `DtmfDetector` | the RFC 2833 detector behind a bad network | `Media` | `ReceiverProofs` |
| `RtcpSession` | sequence tracking and report counts | `Media` | `MediaProofs` |
| `RtpEngine` | receive loops, normalizer, media timeout | `Media` | `MediaProofs` |
| `TurnClient` | the TURN client, its refresh task, the server | `Media`, `VTurnLapse` | `MediaProofs` |
| `NatDetection` | detection and the NAT manager | `Media` | `MediaProofs` |
| `SymmetricRtp` | learning of the remote address | `Media` | `SignallingProofs` |
| `Registration` | registration of a provider | `Media` | `SignallingProofs` |
| `SipListener` | admission of requests and calls | `Media` | `SignallingProofs` |
| `DigestAuth` | the nonce cache | `Media` | `SignallingProofs` |
| `Sdp` | parser, questions asked of its result, builder | `Media` | `SdpProofs` |
| `SipRunner` | the Python runner and its threads | `Media`, `VDeafRunner` | `SignallingProofs` |
| `ProviderRouter` | routing and call counters | `Media` | `SignallingProofs` |

`MCSipCall`, `MCRtpPortPool` and `MCTurnClient` add symmetry and constants;
`MCServices` and `MCMedia` put several components into one run (section 3).

How the modules meet. `SipCall` leaves open *when* the timer task finds its timer
due or expired (`SessionTimer` has the clock), *which* port a call holds
(`RtpPortPool`), and what goes on inside its RTP engine. `RtpEngine` lets packets
through to `JitterBuffer` and out of `SrtpReceiver`; `SrtpContext` holds both
halves of a context, so that `RtpSender` protects and `SrtpReceiver` unprotects
with the same definitions. `DtmfDetector` decides what enters the queue that
`SipDtmf` hands to threads. `SipListener` decides which sessions `SipCall` begins.

### SipCall

One call, from nothing to removed. The variables are the parts of the program
that outlive a step: `sess` is the mutable part of `CallSession`, `inMap` its
membership in `SipEngine::calls`, `invite` and `stask` are the program counters
of the invite task (or `handle_incoming_invite`) and of the dialog-state task,
`op[c]` is the program counter of API caller `c` (and of the timer task,
`op["timer"]`) with the locals it carries across an await, `chan` is the
`DialogState` channel, `peer` the far end's view of the dialog, `emitted` and
`repeated` the kinds of events sent once and more than once.

A step is the code a task runs under one lock, or one await. Handlers that take
the lock several times are several actions: `cancel()` is `Cancel`, `Cancel1` to
`Cancel4`; `hangup()` is `Hangup`, `Lookup`, `Bye1`, `Bye2`, or continues as
`reject()` or `cancel()`; a re-INVITE is `ri_lookup`, `ri_check`, `ri_set`,
`ri_wait`, `ri_ok`, and the guard that clears `reinvite_pending` runs with the
return of the await. The Terminated handler is three steps (note and stop,
release, report and remove), because it takes three locks. `reject()` ends in three
(`Reject3` releases, `Reject4` removes, `Reject5` reports), and so does the invite task
of a cancelled call (`InviteCancelled` drops the INVITE, `InviteCancelRemoves` tears down
and removes under the lock of the map, `InviteTellsCancelled` reports): there is a moment
when the call is gone and its end untold.

Abstracted: an SDP body is one of `none` (no body), `bad` (does not parse),
`active`, `hold`; a final response is a kind (`2xx`, `4xx`, `422`, `3xx`, `error`)
with such a body; the RTP engine is `none`, `up` or `stopped`. Left out: in-dialog
OPTIONS, codec change and device detection (they touch no modelled field), the
text of events, `remote_sdp`.

External, from how the engine uses rsipstack: `do_invite` returns `Ok` for every
final response (the engine itself tests for 422 and 3xx in its `Ok` branch);
dropping it ends the INVITE for the far end; the end of a dialog is reported on
the channel once, and need not be reported for an INVITE that failed without a
response; `reject()` on a dialog that is confirmed or over may return `Ok` and
changes nothing; a re-INVITE from the far end has been accepted when it is
reported. The far end may answer, refuse, redirect, send provisional responses,
re-INVITE, BYE, CANCEL, accept a REFER and send NOTIFYs, in any order its state
allows.

### RtpPortPool, SessionTimer

`allocate_rtp_port` turn by turn: the cursor made even, the wrap at the end of
the range, the exhaustion test against the first port tried, the port handed out
although in use when all are. The locks it holds are `scan.by`, so a release
waits. Around it, the life of a port under a call: bound, live, given back by
`cancel()`, by the paths that remove the session, by the Terminated handler in a
step of its own, or not at all on the early error returns. u16 arithmetic is
`% PortMod`.

`Grace`, `RefreshInterval`, `Expiry`, `Clamp` are the arithmetic of
`session_timer.rs`, integer division included; `process_response` is
`NegotiatedSe` and `NegotiatedRole`. The polling task sleeps `Poll` seconds,
looks, hangs up, sends a re-INVITE (and waits at most `MaxReply` seconds for its
outcome) or sleeps again. The far end may refresh at any time, refuse a refresh,
or die.

### JitterBuffer

The receive task of `RtpEngine::start` with its jitter buffer: `Arrive...` is the
arrival of a packet (`push` with its checks in the code's order: gap of 3000, marker,
duplicate, too old, timestamp jump, store, evict), after which the task pops in
phase `drain` until `pop` returns nothing; in phase `free` a pop is the tick of a
silent interval. The pops of one push happen under one lock. `pop` is split by
outcome: not ready, empty, plays, waits, loses, catches up. `heard` and `tally` are
history. A packet is its index in the sender's stream; the code sees `PacketSeq`, the
index plus an offset modulo `JitterSeqMod`. The jitter estimate, which depends on
arrival times, is any delay in `JitterDelays`. The network (external) loses up to
`MaxGap` packets in a row, delivers a packet up to `Window` late, and repeats packets.

### SrtpContext, SrtpReceiver, ReplayProtection, RtpSender

Encryption is abstracted: a packet is authentic exactly when the receiver computes its
tag with the rollover counter the sender used. What is modelled is everything around
it: the index (ROC and sequence number), `estimate_roc` at the code's three cases, the
bitmap windows of RTP and SRTCP, the order of checks (replay, then tag, then state), the
change of SSRC, which starts anew, and the reset after 100 errors. `FarSends` numbers
without bound except the run's; `Network` delivers any packet ever sent, any number of
times, and forged ones. `ReplayProtection` is the promise: within an epoch no number is
delivered twice, and none that is behind the window.

`RtpSender` has several tasks that take sequence numbers under the builder's lock and
send later: audio, comfort noise, and the two halves of `send_dtmf`, which reads the
number in one step and writes it back in another. Numbers *are* used twice; what
`protect_rtp` refuses, and so whether the keystream is, is the property.

### DtmfDetector, RtcpSession, RtpEngine

`process_rtp` with its branches in order: overlap, out of order, duplicates and the
sanity limit, wall-clock and inter-digit time-outs, begin, continue, conclude with the
duration's u16 wraps. Keys are pressed one after the other; the network loses, repeats
and reorders their packets, those of one digit after those of the next included.
`RtcpSession` is the sequence tracking of
`record_rtp_received` (RFC 3550 A.1 as the code has it), the extended counts, and the
reports in both directions. `RtpEngine` has the checks a packet passes, the timestamp
normalizer and the media timeout, with hold and several loops after `stop` and `start`.

### StunTransaction, StunPool, TurnClient, NatKeepalive, NatDetection, SymmetricRtp

`StunTransaction` counts in units of the initial RTO; the socket may be shared with
media, whose packets are handed on while there is room. `StunPool` orders servers by
health and speed, each attempt records its outcome, and one task probes. `TurnClient`
has one API caller, the refresh task with its three stages and their one retry after a
438, and a server that lets things lapse in real (discrete) time and rotates nonces; an
exchange with all its retransmissions takes up to `MaxReply`. `NatKeepalive` is
one action per lock taken; the interval is its distance from the floor in steps.
`NatDetection` puts a NAT (mapping, filtering, what the server supports) against the
four tests. `SymmetricRtp` sees sources and SSRCs in any order, with time for the rate
limit.

### Registration, SipListener, DigestAuth, Sdp, SipDtmf, SipRunner, ProviderRouter

`Registration`: `register()` and `unregister()` one after the other, refresh tasks as a
set, each with the object it refreshes and its place in the loop; the async lock of an
object is held across the request. `SipListener`: the listener takes transactions one
at a time; the application places calls beside it. `DigestAuth`: a challenge is a nonce, the
rest (realm, opaque, algorithm and qop as one value) and whether it is stale; the registrar
may send any, with a nonce of before or not, and the caller may authorize with any of them any
number of times; a digest is what was hashed. `life` counts (as history) how often the cache
gave up the count it kept: by expiry, by `clear_cache`, by a stale challenge. `Sdp`: the parser is a machine that reads one
line at a time, so every prefix of every description is a state. A description begins
with what is `coming` (its mandatory lines, the origin perhaps left out, after which any
line may follow; or an answer as `SdpBuilder` writes it), and a line that does not parse
ends the reading, as the early return of `parse` does. `SipDtmf`: the
session's lock and the queue's lock meet. `SipRunner`: the GIL makes what a method does
between two `allow_threads` atomic, so a step is the code between two waits.
`ProviderRouter`: two maps under two locks, hence two steps for adding and removing.

## 3. Runs

Bounds are constants of the modules, marked `(TLC)` where they are declared; nothing
else limits the runs. Deadlock checking is off because the modelled systems stop: a call
ends, a pool's calls are over, a task leaves, a bound is reached.

`Services` and `Media` each check several components. They share no state, so a product
of their state spaces would say nothing more than each says alone: the initial state
chooses the one component that moves (`part`), the others keep an initial state, and the
reachable states are the union of the components' own. A property speaks of the
variables of its component, which in the other parts keep their initial values.
`MCServices` joins the fairness of its components into two conditions: `MovesOn` is the
disjunction of the work of the components, of which only the moving one can be enabled,
so that weak fairness of the disjunction is weak fairness of that component's.

| Run | Question | Instance |
|---|---|---|
| `CallOutbound` | do the paths that end an outbound call leave anything behind when they overlap? | 2 threads, hangup and cancel; 2 provisional responses; every final response |
| `CallInbound` | one answer, and a shown state that follows hold, resume, re-INVITE, refresh, transfer and hangup in every order? | 2 threads, sends that fail, all bodies but unparsable, 1 REFER, 1 re-INVITE or interim NOTIFY, timer on and off |
| `CallLive` | does everything end? | 1 thread, both directions, failures, 1 retry |
| `Services` | does work end, in time, and without getting stuck? | below |
| `Media` | what may never happen, with bad networks, overlapping threads and forgetful servers | below |

`Services`: 3 calls on 2 ports, odd lower bound (exhausted, wrapped and partly free);
intervals 30, 96 and 97 against a minimum of 90, a poll of 5 s, replies of up to 60 s
(below the minimum, and on both sides of the point where the grace stops growing); 7
retransmissions; 2 servers, of which one or both go up and down, threshold 2; two
threads against the keepalive task; two threads that send, and ask for, digits with a
queue of one.

`Media`, by component: *jitter* 11 packets, 7 of them received, sequence numbers modulo 44
from 39, buffer of 4, up to 3 late, 1 lost in a row; *srtp* sequence numbers modulo 8, ROC
modulo 4, windows of 3 and 2, two SSRCs, 9 packets; *sender* 2 tasks, 4 sends, numbers
modulo 8, digits of 2 packets; *dtmf* 2 keys of 3 or 6 packets, durations modulo 4, 2
packets in flight, 2 digits told (two packets that are repeated for ever may be told for
ever); *rtcp* numbers modulo 8, dropout 3, misorder 2, two SSRCs; *engine* time stamps
modulo 8, two loops; *turn* a lifetime of two rounds, items that outlive their refresh by
the exchanges of one round and no longer, one stale nonce, one failure; *nat* two
detectors, every NAT and server; *symmetric* 3 sources, 2 SSRCs, threshold 2, 1 switch per
window; *registration* 4 refresh tasks, 3 objects; *listener* 2 Call-IDs, 2 requests per 2
ticks, 1 call; *digest* 2 nonces, 2 kinds (one with a qop), 3 headers; *sdp* 6 lines;
*runner* 2 threads, 2 engines, a channel of 1; *router* 2 providers, 2 calls.

Why the bounds are enough. Two threads, with the tasks of the component, give every pair
of racing operations; the flags involved are booleans, so a third repeats a second. One
retry distinguishes "retries left" from "none left". Moduli are small so that numbers wrap
in a run, most of them several times, and keep the proportions of the code: window < half the space,
buffer < gap limit < half the sequence space < late limit, dropout + misorder < space. The
rare counts of the code (250 packets between adaptations, 100 errors, 1500 repeats, 3000
packets of a gap) are as small as their order to each other allows, which makes rare
events happen at every chance. `VStarved` uses the real default configuration instead.
The theorems below hold without any of these bounds.

### Properties

* `CallOutbound`: `TypeOK`; `LivesOnce` (refinement: no call leaves the map with its RTP
  engine running, its port kept or its end unreported, unless who removed it still has to
  report it); `HangupOnce`;
  `UnannouncedIsTornDown` (a 2xx that is given up because of a cancel gets its BYE; without
  send failures, for a BYE that cannot be sent is only logged); `EarlyMediaKept` (a 180
  after a 183 with media brings no local ringback).
* `CallInbound`: `AnswerInv` (before the answer nothing is held, no re-INVITE is under
  way, one caller answers), `HoldMatchesFlags`, `NoStuckReinvite`, `PortGivenBack`
  (a call that left the map has released its port).
* `CallLive`: `EndedCallsAreRemoved` (a call that is over for the far end leaves the map, and
  its end is reported), `CallersReturn`, `TimerTaskStops`.
* `Services`: `TypesOK`; `FreshUnlessExhausted` (a used port only when all are used);
  `SessionKept`, `GivenUpInTime`, `DeadCallsEnd` (a live session never expires, a dead one
  is given up, neither early nor late); `Recovers` (a server that is back for good is
  healthy again); `HolderGoesOn` (whoever holds a lock of the keepalive waits for nobody) and
  `LocksReleased`; `WorkEnds` (the search for a port, a STUN transaction
  on a busy socket, the waits for digits).
* `Media`: `TypesOK`; `PlayedInOrder`, `LossAccounted` (every number the playout passed was
  played, skipped on purpose or counted as lost); `RocFollows` (a genuine packet within
  half the space gets its true ROC), `NoReplay` (refinement); `KeystreamOnce`; `ToldOnce`
  (a key is told no longer than pressed, and for certain when its END came in time; while no
  packet of a digit arrives after one of a later digit, also at most once and in order); `ReportsCount`; `NormalizedSmooth`, `TimeoutOnce`; `ItemsKept`
  (permissions and channels do not lapse before the allocation); `VerdictsSound`;
  `RedirectedWithCause`; `OneRefresher`; `Admission`; `CountsOnce` (while the
  cache keeps a nonce its counts are 1, 2, 3; a header built from the cache repeats the nonce
  and the parameters of one challenge, unless the nonce came as stale); `ReadAsMeant`;
  `EventsInOrder`; `SlotsReturned`.

Every property of a run has a mutant in `PROJECT.json`: a plausible bug in one mapped definition
(a stop forgotten, a guard dropped, a lock taken in the other order, a nonce count not
reset) with which TLC finds the property violated; the three parts of `WorkEnds` have one
each, and `LivesOnce` has two. The `Mutant...` definitions stand next to what they change.

### Refinement

`LivesOnce` says that `SipCall` implements `CallLife`. The map decides `life` (with `new` before
the set-up and `refused` for an INVITE that got no session), `sess.rtp` is `media`, the port is
`returned` once it was released, and `told` is `yes` once one of the four events that report
an end was sent, and before that `owed` while the task that removed the call is between the
removal and the event. That the owed event is then sent is `EndedCallsAreRemoved`; that a
subscriber may look for the call in between is `ToldBeforeRemoved`, which does not hold (section 4). The set-up is `Begin` or `Refuse`; every later step, of whichever of the paths
that end a call, is a `WindDown` or a stutter. TLC checks it in `CallOutbound`;
`SipCallEndings` proves it for both directions.

`NoReplay` says that `SrtpReceiver` implements `ReplayProtection` twice: for RTP with
`delivered <- accepted`, for SRTCP with `delivered <- rtcpTaken`. The initial states map to
the empty set, a packet taken is `Deliver` or, when it changes the SSRC, `Restart`, and
every other step, refused packets and forged ones included, is a stutter. TLC checks it in
`Media`; `ReceiverProofs` proves it.

### Fairness

Only what the runtime guarantees: a spawned task that can run does (`RingIncoming`,
`InviteTask`, `StateTask`, `TimerLeaves`), and an API caller goes on, which
includes that each awaited rsipstack operation returns (transactions have
timers: INVITE and non-INVITE time out after 64*T1). No fairness is assumed for
applications, for the far end, for the success of anything, or for a timer that
becomes due. In `RtpPortPool` the thread inside the search keeps running; in
`SessionTimer` time passes and the task runs when its sleep is over. In
`StunTransaction` a tick comes although packets keep arriving: tokio's `timeout` polls
the deadline with an unconstrained budget after the future it wraps, so a busy socket
cannot starve it. In `StunPool` time passes, the probe task runs, and a request to a
server that answers is answered before its timeout, unless the server changes. In
`NatKeepalive` and `SipDtmf` a lock that is free is obtained and a wait with a timeout
ends. `Media` has safety properties only and needs none.

## 4. What the code does not do

Runs that end in a counterexample, each quoting a statement of the repository
(`findings` in `PROJECT.json`):

* `VCancelRace`: `cancel()` that reads the state before the 200 OK is handled, and
  sets `cancel_pending` after the invite task looked at it, ends the call here
  and leaves the far end in it.
* `VAnsweredEvent`: a 4xx to 6xx answer takes the path of a 2xx and is reported as
  `Answered`.
* `VLateRinging`: a queued 180 handled after the 200 OK takes an Active call to
  Ringing.
* `VReleasedTwice`: the Terminated handler notes the port of its call and gives it back in a
  later step; when another path has given it back in between and another call has taken it,
  the handler takes it from that call.
* `VStarved`: `pop` trims an overfull buffer by removing its oldest packet, which may be the
  next one to play, and leaves the position where it was. With the default configuration,
  after a burst of three lost packets, the trim keeps ahead of the position and nothing is
  played, though every later packet arrives in order, until the gap of 3000 resets the
  buffer. (With a trim that also advances the position TLC finds no such silence.)
* `VTurnLapse`: the refresh task moves its deadline at the top of the loop whenever it has
  passed. When it passes while the task is busy with a permission, the refresh is put off
  by another 80% of the lifetime and the allocation lapses, though no exchange failed.
* `VDeafRunner`: a `next_event()` that waits across `stop()` and `start()` puts the old
  engine's receiver over the new one's; the runner runs and hears nothing. (`RunningIsHeard`
  speaks of an engine whose predecessors were all stopped; overlapping `start()` is below.)

Five more statements of comments are operators at the end of their modules without a run of
their own; TLC finds each violated when it is added to the configuration named.

* `SipCall!ToldBeforeRemoved` (invariant, `CallInbound` or `CallOutbound`): `reject()`
  (`sip/engine.rs:1954`) and the invite task of a cancelled call (2573) remove the call from
  the map before they report its end, while the comments on "Bug #96" (1700, 3276) want the
  event first, so that a subscriber can still look the call up.
* `RtpPortPool!LivePortsTracked` (invariant, `VReleasedTwice`): with every port in use
  (`sip/engine.rs:2350`) a new call is handed the port of a live one; its bind fails, it gives
  the port back, and the live call's port is no longer tracked.
* `DtmfDetector!NotToldAgain` (invariant, `Media`): after the first packet of a digit, a
  repeated END of the digit before passes the overlap check, for it has the END bit
  (`rtp/dtmf.rs:1128`); it ends the new digit (into a queue that nothing reads) and is told as
  the earlier one a second time, at the digit boundary that the check is there for (896).
* `DigestAuth!SecondCounts` (property, `Media`): a stale challenge resets the count also when
  it repeats the cached nonce (`sip/digest_auth.rs:260`; 244 says "nothing is reset"), so
  authorizing twice with it sends the nonce twice with count 1.
* `DigestAuth!ReturnedUnchanged` (invariant, `Media`): a stale challenge replaces the cached
  nonce alone (267); `authorize_cached` then sends it with the opaque, realm, algorithm and
  qop of the challenge before, where 208 says "must be returned unchanged".

Met on the way and not given a property. Calls: overlapping re-INVITEs share one glare flag;
a redirected call reports Redirected and then Hangup; an INVITE that offers a
held stream is answered as Active; `call()` and `handle_incoming_invite` return early without giving the port back, and `call()` does not
look at `max_calls`; with `rtp_port_end` = 65535 the cursor overflows; a hold whose
re-INVITE completes after a hangup turns Ended into Hold; digits sent over RTP go on after
a hangup, since the state is read once. Registration: two `register()` calls at once leave
two refresh tasks; a refresh that waits for the lock registers again after
`unregister()`; a failed `unregister()` leaves the state at unregistering. STUN: seven
retransmissions with a doubling RTO take 127.5 s in the code, 39.5 s in its comment. DTMF: two digits
sent at once share a time stamp; the wall-clock time-out of a digit is looked at only when
another packet arrives. RTP: `stop()` followed at once by `start()`
leaves two receive loops. Provider router: a provider between its two maps is routed to although
unregistered; routing and counting are two calls, so limits can be exceeded. Runner: two
overlapping `start()` both make an engine; a second `stop()` empties the slots of an engine
started in between.

## 5. Proofs

A specification that is proved about keeps its proofs in a module of their own. Each
theorem holds for every value of the constants that the assumptions below admit: any
number of threads, calls, packets and messages, any modulus and limit.

### Assumptions

Most only give the constants their types (the bounds are naturals, modes and directions are
those of the code). Those that say more:

* `PortAssumption` (a non-empty u16 range, an even modulus) and `Roomy` (the range ends two
  short of the modulus: where it does not, the cursor overflows and port 0 is handed out).
* `TimerAssumption`, `ReplyAssumption`: a re-INVITE is settled before the shortest session
  expires; with 90 s and a poll of 5 s, 45 + 5 + MaxReply <= 120.
* `SrtpAssumption`, `ReceiverAssumption`: positive moduli and windows, an even number of
  sequence numbers, a sender that stops before its 48-bit index is used up.
* `RtcpAssumption`: a packet is less late, and a burst of losses shorter, than what
  `max_misorder` and `max_dropout` leave of the numbers (RFC 3550, A.1).
* `RtpEngineAssumption`: the largest step of a time stamp that counts as smooth (5 s) is
  less than half the stamps; a frame is not longer than that.
* `JitterAssumption`: delays and gaps ordered as in `JitterConfig`; a gap up to `BigGap` is
  less than half the numbers and `BigGapEnd` more; and a full buffer whose packets are each
  a timestamp jump apart spans less than half the numbers (250 * 51 = 12750 < 32768).
* `DtmfAssumption`: digits are apart (`KeyGap > 0`); the sanity limit is as long as the longest
  digit (1500 packets of 20 ms are the 30 s of `DTMF_MAX_DURATION`), and durations wrap at most
  after one (65536 < 240001 samples); no digit within that time has a length that is a multiple
  of the modulus, which in samples, 160 to a packet, is so below 41 s.
* `TurnAssumption`: the client's ages have positive thresholds (240 s and 480 s).
  `ItemsKeptHolds` alone assumes `Outlives`: what the server keeps outlives its threshold by
  one sleep of the refresh task and seven exchanges. With the constants of the code (300 s and
  600 s, a sleep of 30 s) an exchange may take 4 s for the sake of the permissions, 12 s for
  that of the channels. For the channel the bound is tight: with a tick less in `Media` TLC
  finds one that lapses. An exchange that is retransmitted to the end takes 71.5 s, so
  several of them together, each answered late, can let a permission lapse.
* `UnannouncedIsTornDownHolds` alone assumes that rsipstack can send (`~Faults`): the one
  failure that the code logs and forgets is that of this BYE.

### Calls

* `SipCallProofs!TypeCorrect`: `Spec => []TypeOK`, one lemma per task, resting on
  lemmas about what each session helper keeps (`StopRtp`, `EndSession`, `ApplySdp`,
  `Process180/183`) and about moving a caller (`Goto`, `GotoWith`).
* `SipCallSafety!StopInvariant`, `RemovedIsStoppedHolds`. `RemovedIsStopped` (no call outside the
  map has a running RTP engine; a part of `LivesOnce`) is not inductive: the Terminated handler and `reject()` stop the engine in
  one step and remove the call in a later one. `StopInv` adds that whoever is between the two
  has stopped it, and that nothing is under way before the session exists. The
  argument is that no step starts an RTP engine after setup (`RtpStays`), and
  that the four actions that remove a call (`MapLeave`) stop it themselves or come
  after a stop.
* `SipCallSafety!AnswerInvariant`, `HoldMatchesFlagsHolds`. "Active means we hold
  nothing" is broken by `answer()`, which writes Active without resetting the
  flags; it is safe because nothing can be held before the answer. `AnswerInv`
  says so: before the answer there is no hold, no re-INVITE and no timer task, at
  most one caller is inside `answer()`, and no 180 is queued on an inbound call.
* `SipCallSafety!NoStuckReinviteHolds`: the flag is set by `ReinviteSet` only, whose
  caller then waits, and only `ReinviteReturns` moves a waiting caller (`PcSteps`).
* `SipCallEndings!PortGivenBackHolds`: `PortInv` adds that the Terminated handler and
  `reject()` have released the port when they come to remove the call; the other two paths
  release and remove in one step.
* `SipCallEndings!HangupOnceHolds`: on an outbound call nobody is inside `reject()`, and
  the Terminated handler, the only other source of the event, has exited once it is told.
  An inbound call may be told twice (Hangup by `reject()` and by the handler), so the
  theorem is about outbound calls, which is what the run checks.
* `SipCallEndings!UnannouncedIsTornDownHolds`: the invite task leaves a 2xx with the event
  or with the dialog ended, and nothing confirms a dialog afterwards.
* `SipCallEndings!EarlyMediaKeptHolds`: an action property, handler by handler.
* `SipCallEndings!CallLives`: `SipCall` implements `CallLife` (section 3). Beyond `StopInv` and
  `PortInv` this needs `LifeInv`: a port is released by five steps, each of which finds the
  engine stopped or stops it (`BackWhenStopped`); the four steps that remove a call come after
  or with the event that says so, or leave who took them about to send it (`LeavesTold`), and
  that place is left by sending it (`OwedIsTold`); only the set-up puts a call into the map
  (`MapEnter`).

### Ports, timers and the keepalive

* `ServicesProofs!ScanInvariant`: `ScanInv` is the loop invariant of the search: every port from
  the first one tried to the cursor is in use, and after the wrap those from the
  start of the range to the cursor too. From it `PortsInRange` and
  `FreshUnlessExhausted`, which holds at the moment of handing out.
* `ServicesProofs!ClockInvariant`: `ClockInv` bounds elapsed time plus what is left of the current
  phase; `SessionKept` and `GivenUpInTime` follow. The lemma that the
  refresh interval plus a poll and a reply ends before expiry for *every* interval
  from the one assumption about the shortest is the arithmetic core.
* `ServicesProofs!HolderGoesOnHolds`: `KaInv` ties the two locks of the keepalive to the places
  of their holders. A thread that takes the interval's lock finds nobody with the count's
  (`NobodyHolds`), so the holder of a lock never waits for one. `LocksReleased`, that each is
  released again, adds the fairness of the threads and stays with TLC.

### Signalling (`SignallingProofs`)

* `OneRefresherHolds`: one task at most is only kept because `register()` aborts the kept
  handle before it asks; `RefresherInv` says that while a REGISTER is under way no handle
  is kept and a task is left to spawn.
* `SlotsReturnedHolds`: `RoutesInv` gives a call one provider and each provider a finite set
  of calls, so that a start adds one element to one set (`StartAddsOne`), and counting it
  late or not at all keeps the count below the cardinality.
* `CountsOnceHolds`: nothing is assumed of the challenges. `InCacheInv` says what the cache
  keeps: the nonce of the last header, the largest count of its current use (`OneUse`: the
  headers since the count was last given up, which `life` numbers), and parameters that some
  challenge brought with that nonce, unless it came as stale. A header either goes on from
  there or begins a use (`Keeps`), so what is built next is the next count (`HeaderInv`).
* `EventsInOrderHolds`: the receiver of an engine is in one place, the slot or one thread's
  hands (`OnePlace`), and what was given or skipped lies before its position. Without the
  first, two threads could be given one event.
* `AdmissionHolds`: the recorded times are the admissions of the last second, oldest first
  (`RateInv`: `retain` drops a beginning), and what the listener saw when it looked at the
  Call-ID and at `max_calls` still holds when it stores the session (`CallInv`).
* `RedirectedWithCauseHolds`: a candidate has sent at least its tally; the recorded switches
  are oldest first, so that what `record_switch` forgets is what is out of the window.

### Session descriptions (`SdpProofs`)

* `ReadAsMeantHolds`: reading a line is a step, so that what `parse` makes of a description
  of any length is an invariant and needs no induction over data. `ParserInv` says of every
  field of the parser which line it came from: the connection and the direction of a section
  are those of the last such line of that section, of the session's directions the first
  counts, and the section that is open is the last one. A line adds one position to one
  section (`OneMoreLine`, `OfGrows`) and leaves what the others mean (`MeansGrows`); `m=`
  closes a section and opens the next (`ClosedMedia`, `SectionStarts`). What is built is a
  description whose lines are known (`BuildLines`), so `BuiltAsMeant` reads its media from
  the invariant. For the proof `Read` says in its guards that nothing is read after a failure.

### Media (`ReceiverProofs`, `MediaProofs`)

* `SrtpInvariant`: a window records the packets taken (`Tracks`): every taken index is at
  most the base, and within the window it has its bit. `MarkTracks`
  keeps that when the window slides, `FreeIsNew` makes of it that a packet the window lets
  through is new and not behind it, and so `SrtpNoReplay`: every step of the receiver is a
  step of `ReplayProtection` or a stutter.
* `RocFollowsHolds`: the receiver's counter and highest number make an index that the sender
  has reached (`FollowsInv`); the three cases of `estimate_roc` are the three carries of a
  difference of less than half the numbers.
* `ToldOnceHolds`: `DtmfSpec /\ []Apart => []ToldOnce`. `Apart` (the network holds packets of
  one digit at a time) is a real condition of the code: without it a late END is told again
  (`NotToldAgain`, section 4). What holds in its absence (`ToldOnce` without `Apart`, for packets in flight
  together that do not cross) is model-checked. `DtmfInv` places what the detector remembers among the packets as they were
  sent. `Heard` counts those of the digit up to the last one the detector took; the duration it
  shows and the wraps it believes in never exceed that (`OwnInv`, `TurnsCount`), and what it
  remembers of other digits is at least a gap older (`StampsInv`). Once a digit is told, no
  packet of it that is still in the network can begin it again (`ToldInv`); until it is told,
  it is the one in progress, or its time is over (`WaitInv`). The sanity limit cannot cut a
  digit in two because it is as long as the longest.
* `KeystreamOnceHolds`: numbers are used twice (`send_dtmf` sets the builder back), but the
  indices on the wire rise, because the context remembers the last and refuses the rest
  (`WireInv`).
* `NormalizedSmoothHolds`: the last stamp played is the last one heard plus the offset
  (`NormInv`), which each discontinuity sets so that the next is one frame on.
* `TimeoutOnceHolds`: a timeout that was told has its flag set until packets come again or a
  new stream starts.
* `ReportsCountHolds`: cycles and highest number make the true distance from the base
  (`Follows`), with which a wrap is told from a late packet.
* `VerdictsSoundHolds`: the verdict a detector has reached and not yet stored is true of the
  NAT as well (`VerdictInv`).
* `BufferInvariant`, `LossAccountedHolds`, `WithinHalfHolds`. Playout computes modulo 2^16
  what it passed, so no loss is miscounted only as long as a step forward can be told from
  a step back: all packets of the buffer must be ahead of the position by less than half the
  numbers. `WithinHalf` says so and is not inductive: a packet is compared with the newest
  one (the timestamp jump) and with the position (the gap), never with the others. `InReach`
  bounds how far each packet is behind the newest by one jump per packet from it on, so
  `max_packets` bounds the span of the buffer; taking out the oldest keeps that, taking out
  another would not, and every packet that `pop` and `push` take out is the oldest
  (`Advances`, `OldestTaken`). Each branch of `pop` then moves the position and the counts
  by the same number (`MovesOn`).
* `PlayedInOrderHolds`: `JitterSpec /\ []NotFarAhead => PlayedInOrder`. `OrderInv` gives the
  position as a packet of the stream (the first one played plus what was passed since),
  which the packets of the buffer exceed and the last one heard does not. A packet that is
  stored is ahead of the position by its number; that it is ahead in the stream
  (`ArrivalKeepsOrder`) needs to know that it is not a full turn of the numbers away: not
  ahead, because it is no timestamp jump from the newest packet of the buffer, and not
  behind, because of `NotFarAhead`. That condition is a real one of the code and not of the
  model: after a marker bit has restarted the buffer, and until enough is buffered again,
  `pop` gives up one number every `max_wait_before_loss` packet times although nothing
  arrives, and after 32768 of them (some 20 minutes of silence) a packet sent long ago
  would be ahead of the position again. Once enough is buffered an empty buffer holds off,
  and a silence counts no losses.

* `ItemsKeptHolds`: `ItemInv` bounds, for an item that the task cares for and that is due, its
  age at the server plus the rest of the current wait plus the waits that may come before
  its refresh has ended (`Wait`, by the state of the task: a permission comes behind the
  allocation, a channel behind both, and each may be tried twice). Every step of the task
  uses up of `Wait` what it then waits itself (`RetryWaits`, `AfterPerm`, `AfterBind`); the
  age in the client starts when the exchange ends and that at the server up to one exchange
  earlier; and no item is cared for unless the allocation is usable (`TaskInv`, `ApiInv`).

### Only model-checked

* Liveness: `EndedCallsAreRemoved`, `CallersReturn`, `TimerTaskStops`, `DeadCallsEnd`,
  `WorkEnds`, `Recovers`, `LocksReleased`. It needs ENABLED and fairness.
* `TypesOK` of `Services` and `Media`: types and bounds of every component. The parts that a
  theorem needs are in its invariant.

## 6. Plan

1. `SipListener` composed with `SipCall`, several calls at once.
2. `Registration` with overlapping calls and a clock for the back-off.

## 7. Not modelled

* Signal processing (`codec`, `plc`, `vad`, `resampler`, `goertzel`), cryptographic
  primitives, message texts and binary formats (SIP headers, STUN and TURN attributes,
  RTCP packets), configuration, logging: out of TLC's reach or without state.
* SIP DNS (`sip/dns.rs`): an external resolver and a random choice by weight; the age of
  the last answer is only logged.
* `session/manager.rs` and `rtp/media_tap.rs`: no code of the crate constructs a session
  manager or attaches a tap, so there is no caller to say which states they are in.
* The engine's transports: `SipEngine::new` builds an endpoint without a transport of its
  own in the source; what arrives at the listener is external, and so is everything inside
  rsipstack.
* Who configures SRTP: `RtpEngine::set_srtp` has no caller in the crate, so `SrtpReceiver`
  and `RtpSender` model the contexts as the RTP engine drives them once they are set.
* Hole punching and demultiplexing (`hole_punch.rs`, `demux.rs`): a burst of packets, and a
  function of the first byte of a packet.
