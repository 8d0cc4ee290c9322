---------------------------- MODULE Registration ----------------------------
(***************************************************************************)
(* The registration of one provider in SipEngine (sip/engine.rs): an       *)
(* application that registers and unregisters, one call after the other,   *)
(* the refresh tasks that register() spawns, the async lock of the         *)
(* registration they share, and a registrar that answers as it likes.      *)
(***************************************************************************)
EXTENDS Integers, FiniteSets

CONSTANTS
    RefreshTasks,  \* refresh tasks that are ever spawned
    Objects,       \* registration objects that are ever stored
    MaxRefresh     \* bound: rounds of a refresh task (TLC)

ASSUME RegistrationAssumption == MaxRefresh \in Nat

VARIABLES
    regState,    \* registration_states
    object,      \* registrations: {} or the stored object
    lock,        \* who holds the async lock of each object
    handle,      \* registration_refresh_handles: {} or a task
    refresher,   \* where each refresh task is, and the object it cloned
    regCall,     \* the call of the application that is under way
    retired      \* objects stored before

regVars == <<regState, object, lock, handle, refresher, regCall, retired>>

Unlocked == "none"
Dormant == [at |-> "unborn", object |-> {}, rounds |-> 0, aborted |-> FALSE]
Living == {"sleeping", "waiting", "asking", "answered", "retrying", "retried"}
Alive(t) == refresher[t].at \in Living /\ ~refresher[t].aborted

RegInit ==
    /\ regState = "unregistered" /\ object = {} /\ handle = {} /\ retired = {}
    /\ lock = [o \in Objects |-> Unlocked]
    /\ refresher = [t \in RefreshTasks |-> Dormant]
    /\ regCall = "idle"

\* abort() of a handle: the task ends at the await it is in; between two awaits it
\* runs on to the next one.
AbortedTasks == [t \in RefreshTasks |->
    IF t \notin handle THEN refresher[t]
    ELSE IF refresher[t].at \in {"answered", "retried"} THEN [refresher[t] EXCEPT !.aborted = TRUE]
    ELSE [refresher[t] EXCEPT !.at = IF @ \in Living THEN "ended" ELSE @]]
ReleasedBy(l, ended) == [o \in Objects |-> IF l[o] \in ended THEN Unlocked ELSE l[o]]
InRequest == {t \in handle : refresher[t].at \in {"asking", "retrying"}}

\* A bug that would pass the tests: the old refresh task is left to run.
MutantBeginRegister ==
    /\ regCall = "idle" /\ Objects \ retired # {} /\ \E t \in RefreshTasks : refresher[t] = Dormant
    /\ regState' = "registering" /\ regCall' = "registering"
    /\ UNCHANGED <<object, lock, handle, refresher, retired>>

\* register(): the refresh task of the provider is aborted first.
BeginRegister ==
    /\ regCall = "idle" /\ Objects \ retired # {} /\ \E t \in RefreshTasks : refresher[t] = Dormant
    /\ refresher' = AbortedTasks /\ lock' = ReleasedBy(lock, InRequest) /\ handle' = {}
    /\ regState' = "registering" /\ regCall' = "registering"
    /\ UNCHANGED <<object, retired>>

\* spawn_registration_refresh_task: only when the registration expires.
Spawn(expires) ==
    IF expires
    THEN LET t == CHOOSE t \in RefreshTasks : refresher[t] = Dormant
         IN handle' = {t} /\ refresher' = [refresher EXCEPT ![t].at = "sleeping"]
    ELSE UNCHANGED <<handle, refresher>>

\* The answer to REGISTER: 200 (at once or after a 423 that names Min-Expires).
Registered ==
    /\ regCall = "registering"
    /\ object' = {CHOOSE o \in Objects : o \notin retired} /\ retired' = retired \union object'
    /\ \E expires \in BOOLEAN : Spawn(expires)
    /\ regState' = "registered" /\ regCall' = "idle"
    /\ UNCHANGED lock

\* Any other status, a 423 without Min-Expires or one too many, no answer.
RegisterFails ==
    /\ regCall = "registering"
    /\ regState' = "failed" /\ regCall' = "idle"
    /\ UNCHANGED <<object, lock, handle, refresher, retired>>

\* unregister(): the state changes before the registration is looked up.
BeginUnregister ==
    /\ regCall = "idle" /\ regState' = "unregistering"
    /\ regCall' = IF object = {} THEN "idle" ELSE "unregisters"
    /\ UNCHANGED <<object, lock, handle, refresher, retired>>

AskUnregister == \E o \in object :
    /\ regCall = "unregisters" /\ lock[o] = Unlocked
    /\ lock' = [lock EXCEPT ![o] = "api"] /\ regCall' = "unregistering"
    /\ UNCHANGED <<regState, object, handle, refresher, retired>>

\* An answer, whatever its status, ends the registration.
Unregistered ==
    /\ regCall = "unregistering" /\ regCall' = "idle"
    /\ object' = {} /\ regState' = "unregistered" /\ handle' = {}
    /\ refresher' = AbortedTasks
    /\ lock' = ReleasedBy(lock, InRequest \union {"api"})
    /\ UNCHANGED retired

UnregisterFails ==
    /\ regCall = "unregistering" /\ regCall' = "idle"
    /\ lock' = ReleasedBy(lock, {"api"})
    /\ UNCHANGED <<regState, object, handle, refresher, retired>>

----------------------------------------------------------------------------
(* A refresh task.                                                         *)

At(t, where) == [refresher EXCEPT ![t].at = where]
Freed(t) == ReleasedBy(lock, {t})
FromSleep(t) == refresher[t].at = "sleeping" /\ refresher[t].rounds < MaxRefresh

\* The interval is over: the stored registration is cloned, or there is none (or
\* its provider is gone) and the task ends.
Wakes(t) ==
    /\ FromSleep(t)
    /\ refresher' = [refresher EXCEPT ![t].at = IF object = {} THEN "ended" ELSE "waiting",
                                      ![t].object = object, ![t].rounds = @ + 1]
    /\ UNCHANGED <<regState, object, lock, handle, regCall, retired>>

ShutsDown(t) ==
    /\ refresher[t].at = "sleeping" /\ refresher' = At(t, "ended")
    /\ UNCHANGED <<regState, object, lock, handle, regCall, retired>>

AsksAgain(t) == \E o \in refresher[t].object :
    /\ refresher[t].at = "waiting" /\ lock[o] = Unlocked
    /\ lock' = [lock EXCEPT ![o] = t] /\ refresher' = At(t, "asking")
    /\ UNCHANGED <<regState, object, handle, regCall, retired>>

\* The guard is dropped with the answer.
RefreshAnswered(t) ==
    /\ \/ refresher[t].at = "asking" /\ refresher' = At(t, "answered")
       \/ refresher[t].at = "retrying" /\ refresher' = At(t, "retried")
    /\ lock' = Freed(t)
    /\ UNCHANGED <<regState, object, handle, regCall, retired>>

Rests(t) == At(t, IF refresher[t].aborted THEN "ended" ELSE "sleeping")
LockFree(t) == \A o \in refresher[t].object : lock[o] = Unlocked

\* 200: the new interval is read under the lock (an aborted task ends when it has
\* to wait for it), and only a registration that does not expire sets the state.
RefreshSucceeds(t) ==
    /\ refresher[t].at = "answered" /\ (LockFree(t) \/ refresher[t].aborted)
    /\ refresher' = Rests(t)
    /\ regState' \in {regState} \union (IF LockFree(t) THEN {"registered"} ELSE {})
    /\ UNCHANGED <<object, lock, handle, regCall, retired>>

\* 423 with Min-Expires, 401 or 407: once more, under the lock.
RetriesNow(t) == \E o \in refresher[t].object :
    /\ refresher[t].at = "answered"
    /\ IF refresher[t].aborted THEN refresher' = At(t, "ended") /\ UNCHANGED lock
       ELSE /\ lock[o] = Unlocked /\ lock' = [lock EXCEPT ![o] = t]
            /\ refresher' = At(t, "retrying")
    /\ UNCHANGED <<regState, object, handle, regCall, retired>>

RetrySucceeds(t) ==
    /\ refresher[t].at = "retried" /\ refresher' = Rests(t)
    /\ regState' = "registered"
    /\ UNCHANGED <<object, lock, handle, regCall, retired>>

\* 5xx, a timeout, a transport error: the task backs off.
BacksOff(t) ==
    /\ refresher[t].at = "answered" /\ refresher' = Rests(t)
    /\ UNCHANGED <<regState, object, lock, handle, regCall, retired>>

\* Any other status, and any failure of the retry, is told and ends the task.
RefreshRefused(t) ==
    /\ refresher[t].at \in {"answered", "retried"} /\ refresher' = At(t, "ended")
    /\ regState' = "failed"
    /\ UNCHANGED <<object, lock, handle, regCall, retired>>

RegNext ==
    \/ BeginRegister \/ Registered \/ RegisterFails
    \/ BeginUnregister \/ AskUnregister \/ Unregistered \/ UnregisterFails
    \/ \E t \in RefreshTasks :
          \/ Wakes(t) \/ ShutsDown(t) \/ AsksAgain(t) \/ RefreshAnswered(t) \/ RefreshSucceeds(t)
          \/ RetriesNow(t) \/ RetrySucceeds(t) \/ BacksOff(t) \/ RefreshRefused(t)

RegSpec == RegInit /\ [][RegNext]_regVars

----------------------------------------------------------------------------
(* Properties.                                                             *)

RegTypeOK ==
    /\ regState \in {"unregistered", "registering", "registered", "failed", "unregistering"}
    /\ object \subseteq retired /\ handle \subseteq RefreshTasks
    /\ \A o \in Objects : lock[o] \in {Unlocked, "api"} \union RefreshTasks

\* A provider has one refresh task at most, however registrations, failures and
\* refreshes follow each other, and it is the one whose handle is kept, so that
\* unregister() can end it (P1-SIP-13).
OneRefresher == \A t \in RefreshTasks : Alive(t) => handle = {t}
=============================================================================
