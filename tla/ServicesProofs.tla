---------------------------- MODULE ServicesProofs ---------------------------
(***************************************************************************)
(* Of the components that MCServices puts side by side: the search for a   *)
(* port, for every range that holds an even port and ends below the top of *)
(* the u16 port numbers and for any number of calls; the safety of the     *)
(* session timer, for every configuration that satisfies its two           *)
(* assumptions; and the locks of the NAT keepalive.                        *)
(***************************************************************************)
EXTENDS MCServices, TLAPS

(***************************************************************************)
(* The port pool: ScanInv is inductive.                                    *)
(***************************************************************************)

\* The configured range holds a port to hand out, and the cursor cannot
\* overflow when it moves past the end of the range.
Roomy == RangeStart < PortEnd /\ PortEnd + 1 < PortMod

\* A port below the modulus is its own remainder: u16 arithmetic that does not overflow.
LEMMA SmallMod == ASSUME NEW m \in Nat, NEW x \in Nat, x < m PROVE x % m = x
  OBVIOUS

\* The range starts at an even port, at or just above rtp_port_start.
LEMMA RangeFacts ==
  ASSUME Roomy
  PROVE  /\ RangeStart \in Nat /\ RangeStart % 2 = 0
         /\ PortStart <= RangeStart /\ RangeStart <= PortStart + 1
         /\ RangeStart < PortEnd /\ PortEnd + 1 < PortMod
         /\ PortStart % 2 = 0 => RangeStart = PortStart
  <1>1. (PortStart + 1) % PortMod = PortStart + 1
    BY SmallMod, PortAssumption DEF Roomy
  <1> QED
    BY <1>1, PortAssumption DEF Roomy, RangeStart, RoundUp

\* Below the end of the range the cursor moves to the next even number.
LEMMA AdvanceFacts ==
  ASSUME Roomy, NEW p \in Nat, p < PortEnd
  PROVE  Advance(p) = p + 2
  BY SmallMod, PortAssumption DEF Roomy, Advance

\* allocate_rtp_port rounds an odd cursor, which can only be the initial one.
LEMMA RoundUpFacts ==
  ASSUME Roomy, NEW p \in Nat, p < PortEnd, p >= PortStart, p % 2 = 0 \/ p = PortStart
  PROVE  RoundUp(p) \in Slots /\ RoundUp(p) \in Nat
  <1>1. CASE p % 2 = 0
    BY <1>1, RangeFacts, PortAssumption DEF RoundUp, Slots
  <1>2. CASE p % 2 # 0
    <2>1. RoundUp(p) = RangeStart
      BY <1>2 DEF RangeStart
    <2> QED BY <2>1, RangeFacts, PortAssumption DEF Slots
  <1> QED BY <1>1, <1>2

\* The pool starts unlocked, with its cursor at the start of the range.
LEMMA InitScan == ASSUME Roomy, PortInit PROVE ScanInv
  BY RangeFacts, PortAssumption
  DEF PortInit, ScanInv, PortTypeOK, Unlocked, CallPcs, HasSocket, Slots

\* The top of the loop: the cursor, wrapped, is a port of the range.
LEMMA CursorFacts ==
  ASSUME Roomy, ScanInv, ~Unlocked
  PROVE  Wrap(next) \in Slots /\ Wrap(next) \in Nat /\ Wrap(next) < PortEnd
  <1>1. next \in Nat /\ next % 2 = 0 /\ next >= PortStart
    BY PortAssumption DEF ScanInv, PortTypeOK
  <1>2. next < PortEnd => next >= RangeStart
    BY <1>1, RangeFacts, PortAssumption
  <1> QED BY <1>1, <1>2, RangeFacts, PortAssumption DEF Wrap, Slots

\* Entering the search: an empty prefix has been passed.
LEMMA BeginScan ==
  ASSUME Roomy, ScanInv, NEW c \in Calls, BeginAllocate(c) PROVE ScanInv'
  <1>1. RoundUp(next) \in Slots /\ RoundUp(next) \in Nat
    BY RoundUpFacts, PortAssumption DEF ScanInv, PortTypeOK, BeginAllocate
  <1>2. PortTypeOK'
    BY <1>1, RangeFacts, PortAssumption DEF BeginAllocate, ScanInv, PortTypeOK, Slots, CallPcs, HasSocket
  <1>3. ~Unlocked' /\ next' = RoundUp(next) /\ scan'.initial = next' /\ ~scan'.wrapped
    BY DEF BeginAllocate, Unlocked
  <1>4. \A e \in Calls : e \in scan'.by <=> pc'[e] = "scan"
    BY DEF BeginAllocate, ScanInv, PortTypeOK, Unlocked
  <1>5. next' % 2 = 0 /\ next' >= PortStart /\ next' <= PortEnd + 1
    BY <1>1, <1>3, RangeFacts, PortAssumption DEF Slots
  <1>6. allocated' \subseteq Slots
    BY DEF BeginAllocate, ScanInv, Slots
  <1>8. \A d, e \in scan'.by : d = e
    BY DEF BeginAllocate
  <1>7. \A p \in Slots : ~(scan'.initial <= p /\ p < next')
    BY <1>1, <1>3, RangeFacts, PortAssumption DEF Slots
  <1> QED BY <1>1, <1>2, <1>3, <1>4, <1>5, <1>6, <1>7, <1>8 DEF ScanInv, Slots

\* A turn of the loop adds a port in use to those passed; past the end of the
\* range they are all those from the initial port on.
LEMMA SkipScan ==
  ASSUME Roomy, ScanInv, NEW c \in Calls, ScanSkip(c) PROVE ScanInv'
  <1>1. ~Unlocked
    BY DEF ScanSkip, ScanInv, Unlocked
  <1>2. Wrap(next) \in Slots /\ Wrap(next) \in Nat /\ Wrap(next) < PortEnd
    BY <1>1, CursorFacts
  <1>3. next' = Wrap(next) + 2
    BY <1>2, AdvanceFacts DEF ScanSkip
  <1>4. PortTypeOK'
    <2>1. next' \in 0 .. (PortMod - 1)
      BY <1>2, <1>3, PortAssumption DEF Roomy
    <2>2. Wrapped \in BOOLEAN
      BY DEF Wrapped, ScanInv, PortTypeOK
    <2>3. scan' \in [by : SUBSET Calls, initial : 0 .. (PortMod - 1), wrapped : BOOLEAN]
      BY <2>2, Zenon DEF ScanSkip, ScanInv, PortTypeOK
    <2> QED BY <2>1, <2>3 DEF ScanSkip, ScanInv, PortTypeOK
  <1>5. next' % 2 = 0 /\ next' >= PortStart /\ next' <= PortEnd + 1
    BY <1>2, <1>3, RangeFacts, PortAssumption DEF Slots
  <1>6. (scan'.wrapped <=> Wrapped) /\ scan'.initial = scan.initial /\ scan'.by = scan.by
    <2>1. scan \in [by : SUBSET Calls, initial : 0 .. (PortMod - 1), wrapped : BOOLEAN]
      BY DEF ScanInv, PortTypeOK
    <2>2. scan' = [scan EXCEPT !.wrapped = Wrapped]
      BY DEF ScanSkip
    <2> QED BY <2>1, <2>2, Zenon
  <1>7. scan.initial \in Slots /\ scan.initial \in Nat /\ next \in Nat /\ next % 2 = 0
    BY <1>1, PortAssumption DEF ScanInv, PortTypeOK
  <1>8. CASE ~Wrapped
    <2>1. Wrap(next) = next /\ ~scan.wrapped
      BY <1>8 DEF Wrapped, Wrap
    <2>2. \A p \in Slots : p < next' => p < next \/ p = next
      BY <2>1, <1>3, <1>7, RangeFacts DEF Slots
    <2>3. \A p \in Slots : scan.initial <= p /\ p < next' => p \in allocated
      BY <2>1, <2>2, <1>1 DEF ScanInv, ScanSkip
    <2>4. scan.initial <= next'
      BY <2>1, <1>1, <1>3, <1>7 DEF ScanInv
    <2> QED BY <1>1, <1>4, <1>5, <1>6, <1>8, <2>3, <2>4 DEF ScanInv, ScanSkip, Unlocked
  <1>9. CASE Wrapped
    <2>1. Wrap(next) < scan.initial
      BY <1>9, <1>2, <1>7 DEF ScanSkip, Exhausted, Slots
    <2>2. next' <= scan.initial
      BY <2>1, <1>2, <1>3, <1>7 DEF Slots
    <2>3. \A p \in Slots : scan.initial <= p => p \in allocated
      <3>1. CASE scan.wrapped
        BY <3>1, <1>1 DEF ScanInv
      <3>2. CASE ~scan.wrapped
        <4>1. next >= PortEnd
          BY <3>2, <1>9 DEF Wrapped
        <4>2. \A p \in Slots : p < next
          BY <4>1, <1>7, RangeFacts, PortAssumption DEF Slots
        <4> QED BY <3>2, <4>2, <1>1 DEF ScanInv
      <3> QED BY <3>1, <3>2
    <2>4. \A p \in Slots : p < Wrap(next) => p \in allocated
      <3>1. CASE next >= PortEnd
        BY <3>1, RangeFacts DEF Wrap, Slots
      <3>2. CASE next < PortEnd
        BY <3>2, <1>1, <1>7, <1>9, PortAssumption DEF Wrap, Wrapped, ScanInv
      <3> QED BY <3>1, <3>2, <1>7, PortAssumption
    <2>5. \A p \in Slots : p < next' => p < Wrap(next) \/ p = Wrap(next)
      BY <1>2, <1>3, RangeFacts DEF Slots
    <2>6. \A p \in Slots : p < next' => p \in allocated
      BY <2>4, <2>5 DEF ScanSkip
    <2> QED BY <1>1, <1>4, <1>5, <1>6, <1>9, <2>2, <2>3, <2>6 DEF ScanInv, ScanSkip, Unlocked
  <1> QED BY <1>8, <1>9

\* Leaving the search: the port is in the range, and if it is in use the
\* search has come back to where it began.
LEMMA TakeScan ==
  ASSUME Roomy, ScanInv, NEW c \in Calls, ScanTake(c)
  PROVE  /\ ScanInv'
         /\ pc'[c] = "binding" /\ port'[c] \in Slots
         /\ port'[c] \notin allocated \/ Slots \subseteq allocated
  <1>1. ~Unlocked
    BY DEF ScanTake, ScanInv, Unlocked
  <1>2. Wrap(next) \in Slots /\ Wrap(next) \in Nat /\ Wrap(next) < PortEnd
    BY <1>1, CursorFacts
  <1>3. next' = Wrap(Wrap(next) + 2)
    BY <1>2, AdvanceFacts DEF ScanTake
  <1>4. /\ next' \in Nat /\ next' % 2 = 0
        /\ next' >= PortStart /\ next' < PortEnd
    BY <1>2, <1>3, RangeFacts, PortAssumption DEF Wrap, Slots
  <1>5. scan.by = {c}
    BY <1>1 DEF ScanInv, ScanTake, PortTypeOK
  <1>6. Unlocked' /\ \A e \in Calls : e \in scan'.by <=> pc'[e] = "scan"
    <2>1. \A e \in Calls : pc[e] = "scan" => e = c
      BY <1>5 DEF ScanInv
    <2>2. pc' = [pc EXCEPT ![c] = "binding"] /\ pc \in [Calls -> CallPcs]
      BY DEF ScanTake, ScanInv, PortTypeOK
    <2>3. scan'.by = {}
      BY DEF ScanTake, ScanInv, PortTypeOK
    <2> QED BY <2>1, <2>2, <2>3 DEF Unlocked
  <1>7. allocated' \subseteq Slots /\ port'[c] = Wrap(next) /\ pc'[c] = "binding"
    BY <1>2 DEF ScanTake, ScanInv, PortTypeOK
  <1>8. PortTypeOK'
    <2>1. scan' \in [by : SUBSET Calls, initial : 0 .. (PortMod - 1), wrapped : BOOLEAN]
      BY DEF ScanTake, ScanInv, PortTypeOK
    <2>2. Wrap(next) \in 0 .. (PortMod - 1) /\ next' \in 0 .. (PortMod - 1)
      BY <1>2, <1>4, PortAssumption
    <2> QED BY <2>1, <2>2 DEF ScanTake, ScanInv, PortTypeOK, CallPcs, HasSocket
  <1>9. ScanInv'
    <2>1. \A d, e \in scan'.by : d = e
      BY <1>6 DEF Unlocked
    <2>2. next' <= PortEnd + 1
      BY <1>4, PortAssumption
    <2> QED BY <2>1, <2>2, <1>4, <1>6, <1>7, <1>8 DEF ScanInv
  <1>10. ASSUME Wrap(next) \in allocated PROVE Slots \subseteq allocated
    <2>1. Wrapped /\ Wrap(next) >= scan.initial
      BY <1>10 DEF ScanTake, Exhausted
    <2>2. scan.initial \in Slots /\ next \in Nat
      BY <1>1, PortAssumption DEF ScanInv, PortTypeOK
    <2>3. CASE scan.wrapped
      <3>1. next <= scan.initial
        BY <2>3, <1>1 DEF ScanInv
      <3>2. next < PortEnd /\ Wrap(next) = next
        BY <3>1, <2>2, RangeFacts, PortAssumption DEF Slots, Wrap
      <3>3. next = scan.initial
        BY <3>1, <3>2, <2>1, <2>2, RangeFacts, PortAssumption DEF Slots
      <3>4. \A p \in Slots : scan.initial <= p \/ p < next
        BY <3>3, <2>2, RangeFacts DEF Slots
      <3> QED BY <3>4, <2>3, <1>1 DEF ScanInv
    <2>4. CASE ~scan.wrapped
      <3>1. next >= PortEnd /\ Wrap(next) = RangeStart
        BY <2>1, <2>4 DEF Wrapped, Wrap
      <3>2. \A p \in Slots : scan.initial <= p /\ p < next
        BY <3>1, <2>1, <2>2, RangeFacts, PortAssumption DEF Slots
      <3> QED BY <3>2, <2>4, <1>1 DEF ScanInv
    <2> QED BY <2>3, <2>4
  <1> QED BY <1>2, <1>7, <1>9, <1>10

\* A step of a call outside the search.
OutsideStepOf(c) ==
    \/ SetUp(c) \/ SetUpFails(c) \/ InboundBindFails(c) \/ CancelCall(c) \/ GiveUp(c)
    \/ TerminatedNotes(c) \/ TerminatedReleases(c) \/ DropSession(c)

\* Outside the search the cursor and the scan are untouched, no
\* port is added, and a port is given back only while nobody searches.
LEMMA OutsideStep ==
  ASSUME Roomy, ScanInv, NEW c \in Calls, OutsideStepOf(c)
  PROVE  /\ next' = next /\ scan' = scan
         /\ PortTypeOK' /\ \A d \in Calls : pc[d] = "scan" <=> pc'[d] = "scan"
         /\ allocated' \subseteq allocated /\ (~Unlocked => allocated' = allocated)
  <1>1. PortTypeOK
    BY DEF ScanInv
  <1>2. CASE SetUp(c)
    BY <1>1, <1>2 DEF SetUp, PortTypeOK, CallPcs, HasSocket
  <1>3. CASE SetUpFails(c)
    BY <1>1, <1>3 DEF SetUpFails, PortTypeOK, CallPcs, HasSocket
  <1>4. CASE InboundBindFails(c)
    BY <1>1, <1>4 DEF InboundBindFails, ReleaseRtpPort, PortTypeOK, CallPcs, HasSocket
  <1>5. CASE CancelCall(c)
    BY <1>1, <1>5 DEF CancelCall, ReleaseRtpPort, PortTypeOK, CallPcs, HasSocket
  <1>6. CASE GiveUp(c)
    BY <1>1, <1>6 DEF GiveUp, ReleaseRtpPort, PortTypeOK, CallPcs, HasSocket
  <1>7. CASE TerminatedNotes(c)
    BY <1>1, <1>7 DEF TerminatedNotes, PortTypeOK
  <1>8. CASE TerminatedReleases(c)
    BY <1>1, <1>8 DEF TerminatedReleases, ReleaseRtpPort, PortTypeOK, CallPcs, HasSocket
  <1>9. CASE DropSession(c)
    BY <1>1, <1>9 DEF DropSession, PortTypeOK, CallPcs, HasSocket
  <1> QED BY <1>2, <1>3, <1>4, <1>5, <1>6, <1>7, <1>8, <1>9 DEF OutsideStepOf

\* The loop invariant does not mention what a step outside the search changes.
LEMMA QuietKeeps ==
  ASSUME ScanInv, PortTypeOK', next' = next, scan' = scan,
         \A d \in Calls : pc[d] = "scan" <=> pc'[d] = "scan",
         allocated' \subseteq allocated, ~Unlocked => allocated' = allocated
  PROVE  ScanInv'
  <1>1. Unlocked' <=> Unlocked
    BY DEF Unlocked
  <1>2. CASE Unlocked
    BY <1>1, <1>2 DEF ScanInv, Slots
  <1>3. CASE ~Unlocked
    BY <1>1, <1>3 DEF ScanInv, Slots
  <1> QED BY <1>2, <1>3

\* Every step of a search and of a call keeps the loop invariant of allocate_rtp_port.
LEMMA StepScan == ASSUME Roomy, ScanInv, [PortNext]_portVars PROVE ScanInv'
  <1>1. CASE UNCHANGED portVars
    BY <1>1, QuietKeeps DEF portVars, ScanInv, PortTypeOK
  <1>2. CASE PortNext
    <2>1. PICK c \in Calls : BeginAllocate(c) \/ ScanSkip(c) \/ ScanTake(c) \/ OutsideStepOf(c)
      BY <1>2 DEF PortNext, Allocate, OutsideStepOf
    <2>2. CASE BeginAllocate(c)
      BY <2>2, BeginScan
    <2>3. CASE ScanSkip(c)
      BY <2>3, SkipScan
    <2>4. CASE ScanTake(c)
      BY <2>4, TakeScan
    <2>5. CASE OutsideStepOf(c)
      BY <2>5, OutsideStep, QuietKeeps
    <2> QED BY <2>1, <2>2, <2>3, <2>4, <2>5
  <1> QED BY <1>1, <1>2

\* Only the end of a search hands out a port.
LEMMA StepFresh ==
  ASSUME Roomy, ScanInv, [PortNext]_portVars, NEW c \in Calls, pc[c] = "scan", pc'[c] = "binding"
  PROVE  port'[c] \notin allocated \/ Slots \subseteq allocated
  <1>1. PortNext
    BY DEF portVars
  <1>2. PICK d \in Calls : BeginAllocate(d) \/ ScanSkip(d) \/ ScanTake(d) \/ OutsideStepOf(d)
    BY <1>1 DEF PortNext, Allocate, OutsideStepOf
  <1>3. pc \in [Calls -> CallPcs]
    BY DEF ScanInv, PortTypeOK
  <1>4. ~BeginAllocate(d)
    BY <1>3 DEF BeginAllocate
  <1>5. ~ScanSkip(d)
    BY DEF ScanSkip
  <1>6. ~OutsideStepOf(d)
    BY OutsideStep
  <1>7. ScanTake(d)
    BY <1>2, <1>4, <1>5, <1>6
  <1>8. c = d
    BY <1>3, <1>7 DEF ScanTake
  <1> QED BY <1>7, <1>8, TakeScan

\* The loop invariant of allocate_rtp_port holds in every state.
THEOREM ScanInvariant == ASSUME Roomy PROVE PortSpec => []ScanInv
  <1>1. PortInit => ScanInv
    BY InitScan
  <1>2. ScanInv /\ [PortNext]_portVars => ScanInv'
    BY StepScan
  <1> QED BY <1>1, <1>2, PTL DEF PortSpec

\* Every port the pool hands out is an even port of the range.
THEOREM PortsInRangeHolds == ASSUME Roomy PROVE PortSpec => []PortsInRange
  <1>1. ScanInv => PortsInRange
    BY DEF ScanInv, PortsInRange
  <1> QED BY <1>1, ScanInvariant, PTL

\* A port in use is handed out only when the whole range is in use.
THEOREM FreshUnlessExhaustedHolds == ASSUME Roomy PROVE PortSpec => FreshUnlessExhausted
  <1> DEFINE Fresh == \A c \in Calls :
               pc[c] = "scan" /\ pc'[c] = "binding"
                 => port'[c] \notin allocated \/ Slots \subseteq allocated
  <1>1. ScanInv /\ [PortNext]_portVars => [Fresh]_portVars
    BY StepFresh
  <1>2. PortSpec => []ScanInv
    BY ScanInvariant
  <1> QED BY <1>1, <1>2, PTL DEF PortSpec, FreshUnlessExhausted

(***************************************************************************)
(* The session timer: ClockInv is inductive.                               *)
(***************************************************************************)

\* Whatever session is negotiated, a refresh is due after a while, and one sent
\* at the first poll that finds it due is settled before the session expires
\* (SessionTimer::refresh_interval and grace_period).
LEMMA RefreshBeforeExpiry ==
    ASSUME NEW s \in Nat, MinSe <= s
    PROVE  /\ RefreshInterval(s) \in Nat /\ 0 < RefreshInterval(s)
           /\ Expiry(s) \in Nat
           /\ RefreshInterval(s) + Poll + MaxReply <= Expiry(s)
<1>1. /\ Grace(s) \in Nat /\ Grace(MinSe) <= Grace(s) /\ 3 * Grace(s) <= s
      /\ Grace(MinSe) \in Nat /\ 3 * Grace(MinSe) <= MinSe
  BY TimerAssumption DEF Grace
<1>2. /\ RefreshInterval(s) = s \div 2
      /\ RefreshInterval(MinSe) = MinSe \div 2
  BY <1>1, TimerAssumption DEF RefreshInterval
<1>3. /\ s \div 2 \in Nat /\ 0 < s \div 2
      /\ s - s \div 2 >= MinSe - MinSe \div 2
  BY TimerAssumption
<1> QED  BY <1>1, <1>2, <1>3, TimerAssumption, ReplyAssumption DEF Expiry

\* The answer starts a timer whose interval respects the configured minimum.
LEMMA InitClock == TimerInit => ClockInv
<1> SUFFICES ASSUME TimerInit PROVE ClockInv  OBVIOUS
<1>1. PICK h \in ExpiresHeaders, is_uac \in BOOLEAN :
        se = NegotiatedSe(h) /\ role = NegotiatedRole(h, is_uac)
  BY DEF TimerInit
<1>2. se \in Nat /\ MinSe <= se
  <2>1. CASE h.kind = "value"
    <3>1. h.seconds \in Nat  BY <2>1, TimerAssumption DEF ExpiresHeaders
    <3> QED  BY <1>1, <2>1, <3>1, TimerAssumption DEF NegotiatedSe, Clamp
  <2>2. CASE h.kind # "value"
    BY <1>1, <2>2, TimerAssumption DEF NegotiatedSe
  <2> QED  BY <2>1, <2>2
<1>3. role \in Roles  BY <1>1 DEF NegotiatedRole, RoleOf, Roles
<1>4. TimerTypeOK  BY <1>2, <1>3, TimerAssumption DEF TimerInit, TimerTypeOK
<1>5. Expiry(se) \in Nat /\ RefreshInterval(se) \in Nat /\ 0 < RefreshInterval(se)
      /\ 0 < Expiry(se)
  BY <1>2, RefreshBeforeExpiry, TimerAssumption
<1> QED  BY <1>4, <1>5, TimerAssumption DEF TimerInit, ClockInv, TimerTypeOK

\* Every step of the clock, the task and the far end keeps the invariant.
LEMMA ClockStep == ClockInv /\ [TimerNext]_timerVars => ClockInv'
<1> SUFFICES ASSUME ClockInv, [TimerNext]_timerVars PROVE ClockInv'  OBVIOUS
<1> DEFINE E == Expiry(se)
           R == RefreshInterval(se)
<1>1. TimerTypeOK  BY DEF ClockInv
<1>2. se \in Nat /\ MinSe <= se /\ Poll \in Nat /\ MaxReply \in Nat /\ 0 < Poll /\ 0 < MaxReply
  BY <1>1, TimerAssumption DEF TimerTypeOK
<1>3. E \in Nat /\ R \in Nat /\ 0 < R /\ R + Poll + MaxReply <= E
  BY <1>2, RefreshBeforeExpiry
<1>4. se' = se /\ Expiry(se)' = E /\ RefreshInterval(se)' = R
  BY DEF TimerNext, TimerTick, TimerTask, PollExpired, PollRefresh, PollIdle, ReinviteSucceeds,
         ReinviteFails, RemoteRefresh, FarEndDies, timerVars
<1> HIDE DEF E, R
<1> USE <1>2, <1>3, <1>4
<1>a. CASE TimerTick
  BY <1>a DEF ClockInv, TimerTypeOK, TimerTick, E, R
<1>b. CASE PollExpired
  BY <1>b DEF ClockInv, TimerTypeOK, PollExpired, is_expired, E, R
<1>c. CASE PollRefresh
  BY <1>c DEF ClockInv, TimerTypeOK, PollRefresh, is_expired, E, R
<1>d. CASE PollIdle
  BY <1>d DEF ClockInv, TimerTypeOK, PollIdle, is_expired, needs_refresh, E, R
<1>e. CASE ReinviteSucceeds
  BY <1>e DEF ClockInv, TimerTypeOK, ReinviteSucceeds, E, R
<1>f. CASE ReinviteFails
  BY <1>f DEF ClockInv, TimerTypeOK, ReinviteFails, E, R
<1>g. CASE RemoteRefresh
  BY <1>g DEF ClockInv, TimerTypeOK, RemoteRefresh, E, R
<1>h. CASE FarEndDies
  BY <1>h DEF ClockInv, TimerTypeOK, FarEndDies, E, R
<1>i. CASE UNCHANGED timerVars
  BY <1>i DEF ClockInv, TimerTypeOK, timerVars, E, R
<1> QED
  BY <1>a, <1>b, <1>c, <1>d, <1>e, <1>f, <1>g, <1>h, <1>i DEF TimerNext, TimerTask

\* The invariant of the polling task holds in every reachable state.
THEOREM ClockInvariant == TimerSpec => []ClockInv
  BY InitClock, ClockStep, PTL DEF TimerSpec

\* Accepted refreshes keep the session from ever reaching its expiry: the task
\* polls early enough, whatever interval was negotiated.
THEOREM SessionKeptHolds == TimerSpec => []SessionKept
<1>1. ClockInv => SessionKept
  <2> SUFFICES ASSUME ClockInv, role = "Local", ~failed PROVE elapsed < Expiry(se)
    BY DEF SessionKept
  <2>1. /\ Expiry(se) \in Nat /\ RefreshInterval(se) \in Nat
        /\ RefreshInterval(se) + Poll + MaxReply <= Expiry(se)
    BY RefreshBeforeExpiry DEF ClockInv, TimerTypeOK
  <2>2. elapsed \in Nat /\ due \in Nat /\ phase \in {"sleep", "await"}
    BY DEF ClockInv, TimerTypeOK
  <2> QED  BY <2>1, <2>2, TimerAssumption DEF ClockInv
<1> QED  BY <1>1, ClockInvariant, PTL

\* Expiry is noticed at most one poll and one re-INVITE late, also by the task
\* of a session that the far end refreshes, and never early.
THEOREM GivenUpInTimeHolds == TimerSpec => []GivenUpInTime
<1>1. ClockInv => GivenUpInTime
  <2> SUFFICES ASSUME ClockInv PROVE GivenUpInTime  OBVIOUS
  <2>1. Expiry(se) \in Nat  BY RefreshBeforeExpiry DEF ClockInv, TimerTypeOK
  <2>2. elapsed \in Nat /\ due \in Nat /\ phase \in {"sleep", "await", "over"}
    BY DEF ClockInv, TimerTypeOK
  <2>3. elapsed <= Expiry(se) + Poll + MaxReply
    BY <2>1, <2>2, TimerAssumption DEF ClockInv
  <2>4. phase = "over" => elapsed >= Expiry(se)
    BY <2>1, <2>2 DEF ClockInv
  <2> QED  BY <2>3, <2>4 DEF GivenUpInTime
<1> QED  BY <1>1, ClockInvariant, PTL

----------------------------------------------------------------------------
(***************************************************************************)
(* The NAT keepalive: types, who holds which lock, and counts that stay    *)
(* below the threshold while they are not acted on.                        *)
(***************************************************************************)
KaStates == [eff : 0 .. MaxStep, rebind : BOOLEAN, count : 0 .. Stable]
Places == {"sleep", "ended", "send", "halve", "reset", "flag", "sync", "lockEff", "lockCount", "grow"}
TaskStates ==
    [pc : Places, last : Reflexive \union {Unknown}, seen : Reflexive \union {Unknown}, count : 0 .. Stable,
     running : BOOLEAN]

KaInv ==
    /\ ka \in KaStates /\ task \in TaskStates /\ changes \in 0 .. Capacity
    /\ call \in [Notifiers -> {"idle", "rebinding", "stable"}]
    /\ locks \in [{"eff", "count"} -> Threads \union {FreeLock}]
    /\ task.pc \notin {"lockEff", "lockCount", "grow"} => task.count < Stable
    /\ task.pc = "send" => task.seen \in Reflexive
    /\ task.pc = "lockCount" => locks.eff = "task" /\ locks.count = FreeLock
    /\ task.pc = "grow" => locks.eff = "task" /\ locks.count = "task"
    /\ \A n \in Notifiers : call[n] # "idle" => locks.eff = n /\ locks.count = FreeLock
    /\ HolderGoesOn

LEMMA KaConstants ==
    /\ Stable \in Nat /\ MinStep \in Nat /\ MaxStep \in Nat /\ Capacity \in Nat
    /\ Stable > 0 /\ MinStep <= MaxStep
    /\ \A n \in Notifiers : n # "task" /\ n # FreeLock
  BY KeepaliveAssumption DEF KeepaliveAssumption, FreeLock

LEMMA KaInitial == KaInit => KaInv
  BY KaConstants DEF KaInit, KaInv, KaStates, TaskStates, Places, HolderGoesOn, Threads, FreeLock

\* What releasing locks leaves of their holders.
LEMMA Released ==
    ASSUME KaInv, NEW held \in SUBSET {"eff", "count"}, Unlock(held)
    PROVE  /\ locks' \in [{"eff", "count"} -> Threads \union {FreeLock}]
           /\ \A l \in {"eff", "count"} : locks'[l] = IF l \in held THEN FreeLock ELSE locks[l]
  BY DEF KaInv, Unlock

LEMMA Acquired ==
    ASSUME KaInv, NEW l \in {"eff", "count"}, NEW t \in Threads, Acquire(l, t)
    PROVE  /\ locks' \in [{"eff", "count"} -> Threads \union {FreeLock}]
           /\ locks[l] = FreeLock /\ locks'[l] = t
           /\ \A k \in {"eff", "count"} \ {l} : locks'[k] = locks[k]
  BY DEF KaInv, Acquire

\* While the interval's lock is free so is the count's, and no thread needs it.
LEMMA NobodyHolds ==
    ASSUME KaInv, locks.eff = FreeLock
    PROVE  /\ locks.count = FreeLock /\ task.pc \notin {"lockCount", "grow"}
           /\ \A n \in Notifiers : call[n] = "idle"
<1>1. DOMAIN locks = {"eff", "count"} /\ FreeLock # "task"  BY DEF KaInv, FreeLock
<1>2. locks.count = FreeLock  BY <1>1 DEF KaInv, HolderGoesOn
<1> QED  BY <1>1, <1>2, KaConstants DEF KaInv

\* What the interval and the count become.
LEMMA KaWritten ==
    ASSUME KaInv, NEW e \in Halved \union Grown
    PROVE  /\ [ka EXCEPT !.eff = e] \in KaStates
           /\ [ka EXCEPT !.eff = e, !.count = 0] \in KaStates
           /\ [ka EXCEPT !.eff = e, !.rebind = TRUE] \in KaStates
<1>1. e \in 0 .. MaxStep /\ ka \in KaStates  BY DEF Halved, Grown, KaInv
<1>2. 0 \in 0 .. Stable  BY KaConstants
<1>3. [ka EXCEPT !.eff = e] \in KaStates  BY <1>1, Zenon DEF KaStates
<1>4. \A r \in KaStates : [r EXCEPT !.count = 0] \in KaStates /\ [r EXCEPT !.rebind = TRUE] \in KaStates
  BY <1>2 DEF KaStates
<1>5. /\ [ka EXCEPT !.eff = e, !.count = 0] = [[ka EXCEPT !.eff = e] EXCEPT !.count = 0]
      /\ [ka EXCEPT !.eff = e, !.rebind = TRUE] = [[ka EXCEPT !.eff = e] EXCEPT !.rebind = TRUE]
  BY <1>1 DEF KaStates
<1> QED  BY <1>3, <1>4, <1>5

LEMMA TaskRestarts ==
    ASSUME KaInv, NEW to \in Places, task' = [task EXCEPT !.pc = to, !.count = 0]
    PROVE  task' \in TaskStates /\ task'.pc = to /\ task'.count = 0
<1>1. task \in TaskStates  BY DEF KaInv
<1>2. 0 \in 0 .. Stable  BY KaConstants
<1> DEFINE t == [task EXCEPT !.pc = to]
<1>3. t \in TaskStates /\ t.pc = to  BY <1>1, Zenon DEF TaskStates, Places
<1>4. task' = [t EXCEPT !.count = 0]  BY <1>1 DEF TaskStates
<1> HIDE DEF t
<1> QED  BY <1>2, <1>3, <1>4 DEF TaskStates

\* The task on its own: the requests and their answers, which move no lock.
LEMMA RequestKeeps ==
    ASSUME KaInv,
           \/ Stopped \/ KeepaliveFails \/ SameAddress \/ SendsChange
           \/ \E a \in Reflexive : FirstAddress(a) \/ AddressChanged(a)
    PROVE  KaInv'
<1> USE KaConstants DEF KaInv, HolderGoesOn, KaStates, TaskStates, Places, TaskAt, TaskTo
<1>1. CASE Stopped  BY <1>1 DEF Stopped
<1>2. CASE KeepaliveFails  BY <1>2 DEF KeepaliveFails, kaVars
<1>3. CASE SameAddress
  <2>1. CASE ~ka.rebind  BY <1>3, <2>1 DEF SameAddress
  <2>2. CASE ka.rebind
    <3> DEFINE to == IF task.count + 1 >= Stable THEN "lockEff" ELSE "sync"
    <3>1. task' = [task EXCEPT !.count = @ + 1, !.pc = to] /\ task.pc = "sleep"
      BY <1>3, <2>2 DEF SameAddress
    <3>2. task.count + 1 \in 0 .. Stable /\ (to = "sync" => task.count + 1 < Stable)  BY <3>1
    <3>3. to \in {"lockEff", "sync"}  OBVIOUS
    <3> HIDE DEF to
    <3>4. task' \in TaskStates /\ task'.pc = to /\ task'.count = task.count + 1
      BY <3>1, <3>2, <3>3
    <3> QED  BY <1>3, <3>1, <3>2, <3>3, <3>4 DEF SameAddress
  <2> QED  BY <2>1, <2>2
<1>4. CASE SendsChange  BY <1>4 DEF SendsChange
<1>5. ASSUME NEW a \in Reflexive, FirstAddress(a) PROVE KaInv'  BY <1>5 DEF FirstAddress
<1>6. ASSUME NEW a \in Reflexive, AddressChanged(a) PROVE KaInv'  BY <1>6 DEF AddressChanged
<1> QED  BY <1>1, <1>2, <1>3, <1>4, <1>5, <1>6

\* The task where it writes what it shares.
LEMMA TaskKeeps == ASSUME KaInv, TaskWork PROVE KaInv'
<1> USE KaConstants DEF KaInv, HolderGoesOn, KaStates, TaskStates, Places, TaskAt, TaskTo
<1>1. CASE Halves
  <2>1. PICK e \in Halved : ka' = [ka EXCEPT !.eff = e]  BY <1>1 DEF Halves
  <2>2. ka' \in KaStates  BY <2>1, KaWritten
  <2>3. task' = [task EXCEPT !.pc = "reset", !.count = 0] /\ task.pc = "halve"
        /\ UNCHANGED <<call, locks, changes>>
    BY <1>1 DEF Halves
  <2>4. task' \in TaskStates /\ task'.pc = "reset" /\ task'.count = 0
    BY <2>3, TaskRestarts DEF Places
  <2> QED  BY <2>2, <2>3, <2>4
<1>2. CASE Resets  BY <1>2 DEF Resets
<1>3. CASE Flags  BY <1>3 DEF Flags
<1>4. CASE Syncs  BY <1>4 DEF Syncs
<1>5. CASE LocksFirst
  <2>1. Acquire("eff", "task") /\ "task" \in Threads  BY <1>5 DEF LocksFirst, LockOrder, Threads
  <2> QED  BY <1>5, <2>1, Acquired DEF LocksFirst
<1>6. CASE LocksSecond
  <2>1. Acquire("count", "task") /\ "task" \in Threads  BY <1>6 DEF LocksSecond, LockOrder, Threads
  <2> QED  BY <1>6, <2>1, Acquired DEF LocksSecond
<1>7. CASE Grows
  <2>1. Unlock({"eff", "count"})  BY <1>7 DEF Grows
  <2>2. locks'.eff = FreeLock /\ locks'.count = FreeLock
        /\ locks' \in [{"eff", "count"} -> Threads \union {FreeLock}]
    BY <2>1, Released
  <2>3. PICK e \in Grown : ka' = [ka EXCEPT !.eff = e, !.count = 0]  BY <1>7 DEF Grows
  <2>4. ka' \in KaStates  BY <2>3, KaWritten
  <2>5. task' = [task EXCEPT !.pc = "sleep", !.count = 0] /\ call' = call /\ changes' = changes
        /\ task.pc = "grow"
    BY <1>7 DEF Grows
  <2>6. task' \in TaskStates /\ task'.pc = "sleep" /\ task'.count = 0
    BY <2>5, TaskRestarts DEF Places
  <2>7. \A n \in Notifiers : call'[n] = "idle"  BY <2>5
  <2> QED  BY <2>2, <2>4, <2>5, <2>6, <2>7
<1> QED  BY <1>1, <1>2, <1>3, <1>4, <1>5, <1>6, <1>7 DEF TaskWork

LEMMA EntersKeeps ==
    ASSUME KaInv, NEW n \in Notifiers, Acquire("eff", n), NEW to \in {"rebinding", "stable"},
           call' = [call EXCEPT ![n] = to], ka' \in KaStates, UNCHANGED <<task, changes>>
    PROVE  KaInv'
<1>1. n \in Threads  BY DEF Threads
<1>2. /\ locks' \in [{"eff", "count"} -> Threads \union {FreeLock}]
      /\ locks.eff = FreeLock /\ locks'.eff = n /\ locks'.count = locks.count
  BY <1>1, Acquired
<1>3. /\ locks.count = FreeLock /\ task.pc \notin {"lockCount", "grow"}
      /\ \A o \in Notifiers : call[o] = "idle"
  BY <1>2, NobodyHolds
<1>4. /\ call' \in [Notifiers -> {"idle", "rebinding", "stable"}] /\ call'[n] # "idle"
      /\ \A o \in Notifiers \ {n} : call'[o] = "idle"
  BY <1>3 DEF KaInv
<1>5. HolderGoesOn'  BY <1>2, <1>3, <1>4, KaConstants DEF HolderGoesOn
<1> QED  BY <1>2, <1>3, <1>4, <1>5 DEF KaInv

LEMMA LeavesKeeps ==
    ASSUME KaInv, NEW n \in Notifiers, Unlock({"eff"}), call[n] # "idle",
           call' = [call EXCEPT ![n] = "idle"], ka' \in KaStates, UNCHANGED <<task, changes>>
    PROVE  KaInv'
<1>1. /\ locks' \in [{"eff", "count"} -> Threads \union {FreeLock}]
      /\ locks'.eff = FreeLock /\ locks'.count = locks.count
  BY Released
<1>2. locks.eff = n /\ locks.count = FreeLock /\ n # "task" /\ n # FreeLock
  BY KaConstants DEF KaInv
<1>3. task.pc \notin {"lockCount", "grow"}  BY <1>2 DEF KaInv
<1>4. /\ call' \in [Notifiers -> {"idle", "rebinding", "stable"}]
      /\ \A o \in Notifiers : call'[o] = "idle"
  BY <1>2 DEF KaInv
<1>5. HolderGoesOn'  BY <1>1, <1>2 DEF HolderGoesOn
<1> QED  BY <1>1, <1>3, <1>4, <1>5 DEF KaInv

\* The other threads, which take the interval's lock first as well.
LEMMA NotifierKeeps ==
    ASSUME KaInv, NEW n \in Notifiers, NotifyRebinding(n) \/ NotifyStable(n) \/ CallWork(n)
    PROVE  KaInv'
<1> USE KaConstants DEF KaInv, HolderGoesOn, KaStates, TaskStates, CallStep
<1>1. n \in Threads  BY DEF Threads
<1>2. CASE NotifyRebinding(n)
  <2>1. Acquire("eff", n) /\ call' = [call EXCEPT ![n] = "rebinding"] /\ UNCHANGED <<task, changes>>
    BY <1>2 DEF NotifyRebinding
  <2>2. ka' \in KaStates
    <3>1. PICK e \in Halved : ka' = [ka EXCEPT !.eff = e, !.rebind = TRUE]
      BY <1>2 DEF NotifyRebinding
    <3> QED  BY <3>1, KaWritten
  <2> QED  BY <2>1, <2>2, <1>1, EntersKeeps
<1>3. CASE NotifyStable(n)
  <2>1. /\ Acquire("eff", n) /\ call' = [call EXCEPT ![n] = "stable"]
        /\ UNCHANGED <<ka, task, changes>>
    BY <1>3 DEF NotifyStable
  <2> QED  BY <2>1, <1>1, EntersKeeps
<1>4. CASE ResetsCount(n)
  <2>1. Unlock({"eff"}) /\ call[n] # "idle" /\ call' = [call EXCEPT ![n] = "idle"]
    BY <1>4 DEF ResetsCount
  <2>2. ka' \in KaStates /\ UNCHANGED <<task, changes>>  BY <1>4 DEF ResetsCount
  <2> QED  BY <2>1, <2>2, LeavesKeeps
<1>5. CASE Counts(n)
  <2>1. Unlock({"eff"}) /\ call[n] # "idle" /\ call' = [call EXCEPT ![n] = "idle"]
        /\ UNCHANGED <<task, changes>>
    BY <1>5 DEF Counts
  <2>2. ka' \in KaStates
    <3>1. CASE ka.count + 1 >= Stable
      <4>1. PICK e \in Grown : ka' = [ka EXCEPT !.eff = e, !.count = 0]  BY <1>5, <3>1 DEF Counts
      <4> QED  BY <4>1, KaWritten
    <3>2. CASE ~(ka.count + 1 >= Stable)
      <4>1. ka' = [ka EXCEPT !.count = @ + 1] /\ ka.count + 1 \in 0 .. Stable  BY <1>5, <3>2 DEF Counts
      <4> QED  BY <4>1
    <3> QED  BY <3>1, <3>2
  <2> QED  BY <2>1, <2>2, LeavesKeeps
<1> QED  BY <1>2, <1>3, <1>4, <1>5 DEF CallWork

\* No two of the threads that share the keepalive's locks wait for each other.
THEOREM HolderGoesOnHolds == KaSpec => []HolderGoesOn
<1>1. KaInv /\ [KaNext]_kaVars => KaInv'
  <2> SUFFICES ASSUME KaInv, [KaNext]_kaVars PROVE KaInv'  OBVIOUS
  <2>1. CASE StopKeepalive
    BY <2>1 DEF StopKeepalive, KaInv, HolderGoesOn, TaskStates
  <2>2. CASE ReadsChange
    BY <2>2, KaConstants DEF ReadsChange, KaInv, HolderGoesOn
  <2>3. CASE UNCHANGED kaVars
    BY <2>3 DEF kaVars, KaInv, HolderGoesOn
  <2> QED  BY <2>1, <2>2, <2>3, RequestKeeps, TaskKeeps, NotifierKeeps DEF KaNext
<1>2. KaInv => HolderGoesOn  BY DEF KaInv
<1> QED  BY <1>1, <1>2, KaInitial, PTL DEF KaSpec
=============================================================================
