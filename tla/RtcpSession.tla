---------------------------- MODULE RtcpSession -----------------------------
(***************************************************************************)
(* The statistics of a call (rtp/rtcp.rs): what record_rtp_received makes  *)
(* of 16-bit sequence numbers from a network that loses, duplicates and    *)
(* delays packets of a far end that may change its SSRC, what a report     *)
(* says of them, and what the reports of the far end make of ours.         *)
(***************************************************************************)
EXTENDS Integers

CONSTANTS
    RtcpSeqMod,    \* 2^16
    MaxDropout,    \* MAX_DROPOUT: 3000
    MaxMisorder,   \* MAX_MISORDER: 100
    RtcpSsrcs,     \* SSRCs of the far end
    MaxBurst,      \* the network loses fewer packets in a row
    MaxLate,       \* and delays a packet by no more
    MaxRtpSent,    \* bound: the last index the far end sends (TLC)
    MaxHeard,      \* bound: packets counted (TLC)
    MaxReports     \* bound: our sender reports (TLC)

ASSUME RtcpAssumption ==
    /\ {RtcpSeqMod, MaxDropout, MaxMisorder, MaxBurst, MaxLate, MaxRtpSent, MaxHeard, MaxReports}
         \subseteq Nat
    /\ MaxBurst + MaxLate + MaxMisorder < RtcpSeqMod
    /\ MaxDropout + MaxLate <= RtcpSeqMod

VARIABLES
    remote,     \* remote_ssrc and the receiver state kept for it
    reports,    \* last_sr_sent_at as the number of the report, and rtt
    span        \* true indices: the base packet, the greatest since (history)

rtcpSessionVars == <<remote, reports, span>>

\* with_clock_rate, reset_receiver.
NewRemote == [ssrc |-> {}, received |-> 0, expected |-> 0, ext |-> 0, cycles |-> 0, highest |-> 0,
              first |-> FALSE, base |-> 0, lastReceived |-> 0, lastExpected |-> 0]
ResetRemote(ssrc) == [NewRemote EXCEPT !.ssrc = {ssrc}]

\* The three branches of RFC 3550 A.1: ahead, far ahead, behind.
Ahead(r, seq) == (seq - r.highest) % RtcpSeqMod < MaxDropout
Rebases(r, seq) ==
    r.first /\ ~Ahead(r, seq) /\ (seq - r.highest) % RtcpSeqMod <= RtcpSeqMod - 1 - MaxMisorder
Based(r, seq) == [r EXCEPT !.base = seq, !.highest = seq, !.cycles = 0, !.first = TRUE]

\* A bug that would pass the tests: the rebase keeps what the last report counted.
MutantTracked(r, seq) ==
    IF ~r.first THEN Based(r, seq)
    ELSE IF Ahead(r, seq)
         THEN [r EXCEPT !.cycles = IF seq < r.highest THEN @ + 1 ELSE @, !.highest = seq]
         ELSE IF Rebases(r, seq) THEN [Based(r, seq) EXCEPT !.received = 1] ELSE r

Tracked(r, seq) ==
    IF ~r.first THEN Based(r, seq)
    ELSE IF Ahead(r, seq)
         THEN [r EXCEPT !.cycles = IF seq < r.highest THEN @ + 1 ELSE @, !.highest = seq]
         ELSE IF Rebases(r, seq)
              THEN [Based(r, seq) EXCEPT !.received = 1, !.lastReceived = 0, !.lastExpected = 0]
              ELSE r

\* record_rtp_received.
Spanned(r) ==
    LET ext == r.cycles * RtcpSeqMod + r.highest
    IN  [r EXCEPT !.ext = ext, !.expected = (IF ext > r.base THEN ext - r.base ELSE 0) + 1]
Sourced(r, ssrc) == IF r.ssrc \subseteq {ssrc} THEN [r EXCEPT !.ssrc = {ssrc}] ELSE ResetRemote(ssrc)
Heard(r, ssrc, seq) == LET s == Sourced(r, ssrc) IN
    Spanned(Tracked([s EXCEPT !.received = @ + 1], seq))

\* build_report_blocks and the end of build_rtcp.
ReportedUpTo(r) == [r EXCEPT !.lastReceived = r.received, !.lastExpected = r.expected]

RtcpSessionInit ==
    /\ remote = NewRemote
    /\ reports = [last |-> 0, rtt |-> {}]
    /\ span = [base |-> 0, top |-> 0]

\* A packet reaches the session: the new ones within the burst, old ones late or twice.
RtpHeard(ssrc, i) == LET s == Sourced(remote, ssrc)   seq == i % RtcpSeqMod IN
    /\ s.received < MaxHeard
    /\ s.first => i \in span.top - MaxLate .. span.top + MaxBurst
    /\ remote' = Heard(remote, ssrc, seq)
    /\ span' = IF ~s.first \/ Rebases(s, seq) THEN [base |-> i, top |-> i]
               ELSE [span EXCEPT !.top = IF i > @ THEN i ELSE @]
    /\ reports' = IF s.first \/ ~remote.first THEN reports
                  ELSE [reports EXCEPT !.rtt = {}]

\* build_rtcp: a sender report once something was sent, else a receiver report.
ReportSent(sender) ==
    /\ remote' = ReportedUpTo(remote)
    /\ sender => reports.last < MaxReports
    /\ reports' = IF sender THEN [reports EXCEPT !.last = @ + 1] ELSE reports
    /\ UNCHANGED span

\* process_incoming_rtcp: a report that answers one of ours, maybe not the last;
\* calculate_rtt measures from the last.
ReportHeard(answers) ==
    /\ reports' = [reports EXCEPT !.rtt = {[from |-> reports.last, answers |-> answers]}]
    /\ UNCHANGED <<remote, span>>

RtcpSessionNext ==
    \/ \E s \in RtcpSsrcs, i \in 0 .. MaxRtpSent : RtpHeard(s, i)
    \/ \E sender \in BOOLEAN : ReportSent(sender)
    \/ \E answers \in 1 .. reports.last : ReportHeard(answers)

RtcpSessionSpec == RtcpSessionInit /\ [][RtcpSessionNext]_rtcpSessionVars

----------------------------------------------------------------------------
(* Properties.                                                             *)

RtcpSessionTypeOK ==
    /\ remote.ssrc \subseteq RtcpSsrcs /\ remote.highest \in 0 .. RtcpSeqMod - 1
    /\ {remote.received, remote.expected, remote.cycles} \subseteq Nat

\* The packets a report expects are those from the base packet to the greatest one
\* heard, across wraps and in spite of late and repeated packets, and what was
\* reported before is never more than what is counted now, so that no interval of a
\* report is cut off at zero (record_rtp_received, build_report_blocks).
ReportsCount ==
    /\ remote.first => remote.expected = span.top - span.base + 1
    /\ remote.lastExpected <= remote.expected /\ remote.lastReceived <= remote.received
=============================================================================
