------------------------------ MODULE SipRunner ------------------------------
(***************************************************************************)
(* The runner that Python holds (python/client.rs): the slots for the      *)
(* engine and for the receiver of its events, and the threads that start,  *)
(* stop, call and ask for events.  A thread holds the GIL except where a   *)
(* call waits for the runtime, so it runs alone between two such waits;    *)
(* the engine's tasks send events at any time.                             *)
(***************************************************************************)
EXTENDS Integers, SequencesExt

CONSTANTS
    PyThreads,   \* Python threads that use the runner
    Engines,     \* bound: engines ever made, 1 .. n (TLC)
    MaxEvents,   \* bound: events an engine sends (TLC)
    Backlogged   \* capacity of the broadcast channel (1000)

ASSUME RunnerAssumption == MaxEvents \in Nat /\ Backlogged \in Nat \ {0}

VARIABLES
    runner,    \* running, engine, event_rx
    thread,    \* where each thread is, and what it took out of the slots
    emitted,      \* events each engine has emitted; none before it is made
    stopped,   \* engines whose stop() was called
    given,     \* events handed to Python, per engine (history)
    skipped    \* events a receiver was told it lagged behind (history)

runnerVars == <<runner, thread, emitted, stopped, given, skipped>>

Unmade == -1
Thread(where, e, r, event) == [at |-> where, engine |-> e, receiver |-> r, event |-> event]
InPython == Thread("python", {}, {}, {})
Receiver(e, next) == [engine |-> e, next |-> next]
Made == {e \in Engines : emitted[e] # Unmade}

RunnerInit ==
    /\ runner = [running |-> FALSE, engine |-> {}, receiver |-> {}]
    /\ thread = [t \in PyThreads |-> InPython]
    /\ emitted = [e \in Engines |-> Unmade] /\ stopped = {}
    /\ given = [e \in Engines |-> <<>>] /\ skipped = [e \in Engines |-> {}]

Becomes(t, th) == thread' = [thread EXCEPT ![t] = th]
Goes(t, where) == Becomes(t, [thread[t] EXCEPT !.at = where])
Returns(t) == Becomes(t, InPython)

----------------------------------------------------------------------------
(* start() and stop().                                                     *)

StartBegins(t) ==
    /\ thread[t].at = "python" /\ ~runner.running /\ Engines # Made
    /\ Goes(t, "starting")
    /\ UNCHANGED <<runner, emitted, stopped, given, skipped>>

\* The port is taken, or the listener does not start.
StartFails(t) ==
    /\ thread[t].at = "starting" /\ Returns(t)
    /\ UNCHANGED <<runner, emitted, stopped, given, skipped>>

\* The listener is started before the subscription: what it sends first reaches nobody.
StartReturns(t) == \E early \in 0 .. 1, e \in Engines \ Made :
    /\ thread[t].at = "starting" /\ Returns(t)
    /\ \A f \in Engines \ Made : e <= f
    /\ emitted' = [emitted EXCEPT ![e] = early]
    /\ runner' = [running |-> TRUE, engine |-> {e}, receiver |-> {Receiver(e, early)}]
    /\ UNCHANGED <<stopped, given, skipped>>

StopBegins(t) ==
    /\ thread[t].at = "python" /\ runner.running
    /\ Becomes(t, Thread("hanging up", runner.engine, {}, {}))
    /\ UNCHANGED <<runner, emitted, stopped, given, skipped>>

\* The calls are hung up and the listener is stopped without the GIL.
EngineStops(t) ==
    /\ thread[t].at = "hanging up" /\ Goes(t, "stopping")
    /\ stopped' = stopped \union thread[t].engine
    /\ UNCHANGED <<runner, emitted, given, skipped>>

\* The slots are emptied whatever is in them by now.
StopReturns(t) ==
    /\ thread[t].at = "stopping" /\ Returns(t)
    /\ runner' = [running |-> FALSE, engine |-> {}, receiver |-> {}]
    /\ UNCHANGED <<emitted, stopped, given, skipped>>

\* Drop: all of stop() at once, when no thread uses the runner any more.
Drops ==
    /\ runner.running /\ \A t \in PyThreads : thread[t] = InPython
    /\ stopped' = stopped \union runner.engine
    /\ runner' = [running |-> FALSE, engine |-> {}, receiver |-> {}]
    /\ UNCHANGED <<thread, emitted, given, skipped>>

----------------------------------------------------------------------------
(* Calls, and events.                                                      *)

\* Every other method clones the engine, waits for it without the GIL and returns.
Uses(t) ==
    /\ thread[t].at = "python" /\ runner.engine # {}
    /\ Becomes(t, Thread("calling", runner.engine, {}, {}))
    /\ UNCHANGED <<runner, emitted, stopped, given, skipped>>

CallReturns(t) ==
    /\ thread[t].at = "calling" /\ Returns(t)
    /\ UNCHANGED <<runner, emitted, stopped, given, skipped>>

Sends(e) ==
    /\ e \in Made /\ emitted[e] < MaxEvents
    /\ emitted' = [emitted EXCEPT ![e] = @ + 1]
    /\ UNCHANGED <<runner, thread, stopped, given, skipped>>

\* A bug that would pass the tests: each call subscribes afresh (Bug #40).
MutantTakesReceiver(t) == \E r \in runner.receiver :
    /\ thread[t].at = "python"
    /\ Becomes(t, Thread("waiting", {}, {Receiver(r.engine, emitted[r.engine])}, {}))
    /\ runner' = [runner EXCEPT !.receiver = {}]
    /\ UNCHANGED <<emitted, stopped, given, skipped>>

\* next_event: the receiver leaves its slot (without one the call answers None, or an
\* error when nothing runs).
TakesReceiver(t) == \E r \in runner.receiver :
    /\ thread[t].at = "python"
    /\ Becomes(t, Thread("waiting", {}, {r}, {}))
    /\ runner' = [runner EXCEPT !.receiver = {}]
    /\ UNCHANGED <<emitted, stopped, given, skipped>>

Lags(r) == emitted[r.engine] - r.next > Backlogged

\* The next event, unless the channel has dropped it.
Receives(t) == \E r \in thread[t].receiver :
    /\ thread[t].at = "waiting" /\ r.next < emitted[r.engine] /\ ~Lags(r)
    /\ Becomes(t, Thread("returning", {}, {Receiver(r.engine, r.next + 1)}, {r.next + 1}))
    /\ UNCHANGED <<runner, emitted, stopped, given, skipped>>

\* Lagged: the receiver goes on with the oldest event that is kept.
FallsBehind(t) == \E r \in thread[t].receiver :
    LET oldest == emitted[r.engine] - Backlogged IN
    /\ thread[t].at = "waiting" /\ Lags(r)
    /\ Becomes(t, Thread("returning", {}, {Receiver(r.engine, oldest)}, {}))
    /\ skipped' = [skipped EXCEPT ![r.engine] = @ \union (r.next + 1 .. oldest)]
    /\ UNCHANGED <<runner, emitted, stopped, given>>

\* The timeout, or a channel that is closed.
NothingComes(t) ==
    /\ thread[t].at = "waiting" /\ Goes(t, "returning")
    /\ UNCHANGED <<runner, emitted, stopped, given, skipped>>

\* The receiver goes back into the slot, whatever the slot holds by now.
PutsBack(t) == \E r \in thread[t].receiver :
    /\ thread[t].at = "returning" /\ Returns(t)
    /\ runner' = [runner EXCEPT !.receiver = {r}]
    /\ given' = [given EXCEPT ![r.engine] = @ \o SetToSeq(thread[t].event)]
    /\ UNCHANGED <<emitted, stopped, skipped>>

RunnerNext ==
    \/ \E t \in PyThreads :
          \/ StartBegins(t) \/ StartFails(t) \/ StartReturns(t)
          \/ StopBegins(t) \/ EngineStops(t) \/ StopReturns(t)
          \/ Uses(t) \/ CallReturns(t)
          \/ TakesReceiver(t) \/ Receives(t) \/ FallsBehind(t) \/ NothingComes(t) \/ PutsBack(t)
    \/ Drops \/ \E e \in Engines : Sends(e)

RunnerSpec == RunnerInit /\ [][RunnerNext]_runnerVars

----------------------------------------------------------------------------
(* Properties.                                                             *)

Receivers == runner.receiver \union UNION {thread[t].receiver : t \in PyThreads}

RunnerTypeOK ==
    /\ runner.running \in BOOLEAN /\ runner.engine \subseteq Made /\ stopped \subseteq Made
    /\ \A r \in Receivers : r.engine \in Made /\ r.next \in 0 .. emitted[r.engine]

\* An engine's events reach Python once each and in order, whichever threads ask for
\* them and whatever else starts and stops meanwhile; one that is passed over is one
\* the receiver lagged behind (Bug #40).
EventsInOrder == \A e \in Engines :
    LET events == given[e]
        InHand == UNION {thread[t].event : t \in {t \in PyThreads : \E r \in thread[t].receiver : r.engine = e}}
    IN  /\ \A i, j \in DOMAIN events : i < j => events[i] < events[j]
        /\ \A r \in Receivers : (r.engine = e /\ events # <<>>) =>
              Head(events) .. r.next \subseteq ToSet(events) \union InHand \union skipped[e]

----------------------------------------------------------------------------
(* A statement of the repository's comments that the code does not keep.   *)

\* "Preventing event loss between consecutive next_event() invocations": a receiver of
\* the engine that runs is in its slot, unless a thread has it, when every engine before
\* was stopped.
RunningIsHeard == \A e \in runner.engine :
    Made \ {e} \subseteq stopped => \E r \in Receivers : r.engine = e
=============================================================================
