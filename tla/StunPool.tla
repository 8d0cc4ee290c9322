------------------------------ MODULE StunPool ------------------------------
(***************************************************************************)
(* The pool of STUN servers (nat/stun/pool.rs): requests that try one      *)
(* server after the other, the health each attempt records, and the task   *)
(* that probes the unhealthy ones, in units of ATTEMPT_TIMEOUT.  A server  *)
(* (external) answers while it is up.                                      *)
(***************************************************************************)
EXTENDS Naturals, SequencesExt

CONSTANTS
    N,          \* servers 1 .. N, in the order of the configuration
    Callers,    \* tasks that make requests
    Threshold,  \* UNHEALTHY_THRESHOLD (3)
    Interval,   \* PROBE_INTERVAL (60)
    Slowest,    \* u64::MAX, for a server that never answered; response times are below
    Reachable   \* servers of the socket's address family

ASSUME PoolAssumption ==
    /\ {N, Threshold} \subseteq Nat \ {0} /\ Slowest \in Nat \ {0, 1}
    /\ Interval \in Nat /\ N < Interval
    /\ Reachable \subseteq 1 .. N

VARIABLES
    health,  \* ServerHealth: failures in a row, response time, time since the last probe
    up,      \* servers that answer
    trying,  \* the servers each caller, and the probe task, still has to try
    wait,    \* time left of the attempt under way, and will it be answered
    timer    \* time until the probe task's interval ticks

poolVars == <<health, up, trying, wait, timer>>

Servers == 1 .. N
ProbeTask == "probe"
PoolTasks == Callers \union {ProbeTask}
Longest == 2 * Interval + N   \* where the age of a probe stops counting

PoolInit ==
    /\ health = [s \in Servers |-> [failures |-> 0, rtt |-> Slowest, probed |-> Longest]]
    /\ up \in SUBSET Servers
    /\ trying = [t \in PoolTasks |-> <<>>]
    /\ wait = [t \in PoolTasks |-> [left |-> 0, answered |-> FALSE]]
    /\ timer = Interval

is_healthy(s) == health[s].failures < Threshold
Least(a, b) == IF a < b THEN a ELSE b

\* sort_key: healthy first, then the fastest; the sort is stable.
Tier(s) == IF is_healthy(s) THEN 0 ELSE 1
Preferred(a, b) ==
    \/ Tier(a) < Tier(b)
    \/ Tier(a) = Tier(b) /\ health[a].rtt < health[b].rtt
    \/ Tier(a) = Tier(b) /\ health[a].rtt = health[b].rtt /\ a < b
ServersByPriority == SetToSortSeq(Reachable, Preferred)

ShouldProbe(s) == ~is_healthy(s) /\ health[s].probed >= Interval

\* The moving average of the response times, of which only the order counts.
MutantRecordSuccess(s, rtt) == [health EXCEPT ![s].rtt = rtt, ![s].probed = 0]
RecordSuccess(s, rtt) == [health EXCEPT ![s] = [failures |-> 0, rtt |-> rtt, probed |-> 0]]
RecordFailure(s) ==
    [health EXCEPT ![s].failures = Least(@ + 1, Threshold + 1), ![s].probed = 0]

Try(t, servers) ==
    /\ trying' = [trying EXCEPT ![t] = servers]
    /\ wait' = [wait EXCEPT ![t] =
                   [left |-> IF servers = <<>> THEN 0 ELSE 1,
                    answered |-> servers # <<>> /\ Head(servers) \in up]]

\* binding_request_on: all servers of the family, in the order of this moment.
BindingRequest(c) ==
    /\ trying[c] = <<>>
    /\ Try(c, ServersByPriority)
    /\ UNCHANGED <<health, up, timer>>

\* An answer in time ends the request; the probe task goes on.
Answered(t) ==
    /\ trying[t] # <<>> /\ wait[t].answered
    /\ \E rtt \in 1 .. (Slowest - 1) : health' = RecordSuccess(Head(trying[t]), rtt)
    /\ Try(t, IF t = ProbeTask THEN Tail(trying[t]) ELSE <<>>)
    /\ UNCHANGED <<up, timer>>

\* 500 ms without one: on to the next server.
AttemptTimesOut(t) ==
    /\ trying[t] # <<>> /\ ~wait[t].answered /\ wait[t].left = 0
    /\ health' = RecordFailure(Head(trying[t]))
    /\ Try(t, Tail(trying[t]))
    /\ UNCHANGED <<up, timer>>

\* probe_unhealthy at each tick of the interval.
ProbeUnhealthy ==
    /\ timer = 0 /\ trying[ProbeTask] = <<>>
    /\ timer' = Interval
    /\ Try(ProbeTask, SetToSeq({s \in Servers : ShouldProbe(s)}))
    /\ UNCHANGED <<health, up>>

ServerChanges(s) ==
    /\ up' = IF s \in up THEN up \ {s} ELSE up \union {s}
    /\ UNCHANGED <<health, trying, wait, timer>>

PoolTick ==
    /\ timer > 0
    /\ \A t \in PoolTasks : trying[t] = <<>> \/ wait[t].left > 0
    /\ wait' = [t \in PoolTasks |-> [wait[t] EXCEPT !.left = IF @ = 0 THEN 0 ELSE @ - 1]]
    /\ timer' = timer - 1
    /\ health' = [s \in Servers |-> [health[s] EXCEPT !.probed = Least(@ + 1, Longest)]]
    /\ UNCHANGED <<up, trying>>

PoolWork == PoolTick \/ ProbeUnhealthy \/ (\E t \in PoolTasks : AttemptTimesOut(t))

PoolNext ==
    \/ PoolWork
    \/ \E t \in PoolTasks : Answered(t)
    \/ \E c \in Callers : BindingRequest(c)
    \/ \E s \in Servers : ServerChanges(s)

\* Time passes and what is due is done; an answer that comes is received.
PoolSpec ==
    /\ PoolInit /\ [][PoolNext]_poolVars
    /\ WF_poolVars(PoolWork) /\ \A t \in PoolTasks : WF_poolVars(Answered(t))

----------------------------------------------------------------------------
(* Properties.                                                             *)

PoolTypeOK ==
    /\ \A s \in Servers : /\ health[s].failures \in 0 .. (Threshold + 1)
                          /\ health[s].rtt \in 1 .. Slowest /\ health[s].probed \in 0 .. Longest
    /\ \A t \in PoolTasks : Range(trying[t]) \subseteq Servers /\ wait[t].left \in 0 .. 1
    /\ timer \in 0 .. Interval

\* A server that is back for good is used again: the probe task finds it, also
\* when requests keep failing on it and postpone its probes.
Recovers == \A s \in Servers : <>[](s \in up) => <>[]is_healthy(s)
=============================================================================
