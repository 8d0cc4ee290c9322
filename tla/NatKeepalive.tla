---------------------------- MODULE NatKeepalive ----------------------------
(***************************************************************************)
(* The NAT keepalive (nat/keepalive.rs): the task that asks the STUN       *)
(* server for the reflexive address, the threads that call                 *)
(* notify_rebinding() and notify_stable(), the two locks they share, and   *)
(* the channel of address changes.  The interval is its distance from the  *)
(* floor in steps; what halving and growing by a quarter make of it is     *)
(* left open between the bounds that the code keeps.                       *)
(***************************************************************************)
EXTENDS Naturals

CONSTANTS
    Notifiers,  \* threads that call notify_rebinding() and notify_stable()
    Stable,     \* STABLE_THRESHOLD (10)
    MinStep,    \* the configured minimum interval
    MaxStep,    \* and the maximum, which bounds the growth
    Capacity,   \* of the address change channel (4)
    Reflexive   \* reflexive addresses

ASSUME KeepaliveAssumption ==
    /\ {Stable, MinStep, MaxStep, Capacity} \subseteq Nat /\ Stable > 0 /\ MinStep <= MaxStep
    /\ Notifiers \intersect {"task", "free"} = {}  \* what else `locks` may say

VARIABLES
    ka,      \* effective_min, rebind_occurred, stable_count_since_rebind
    task,    \* the task: where it is, last_reflexive, its own stable_count
    call,    \* what each notifier is doing
    locks,   \* who holds effective_min, and who the shared count
    changes  \* notices in the channel

kaVars == <<ka, task, call, locks, changes>>

FreeLock == "free"
Threads == Notifiers \union {"task"}
Unknown == "unknown"

KaInit ==
    /\ ka = [eff |-> MinStep, rebind |-> FALSE, count |-> 0]
    /\ task = [pc |-> "sleep", last |-> Unknown, seen |-> Unknown, count |-> 0, running |-> TRUE]
    /\ call = [n \in Notifiers |-> "idle"]
    /\ locks = [eff |-> FreeLock, count |-> FreeLock]
    /\ changes = 0

Acquire(l, t) == locks[l] = FreeLock /\ locks' = [locks EXCEPT ![l] = t]
Unlock(held) == locks' = [l \in DOMAIN locks |-> IF l \in held THEN FreeLock ELSE locks[l]]

\* Half, but not below the floor of 5 s; a quarter more, up to the maximum.
Halved == {e \in 0 .. MaxStep : e < ka.eff \/ (ka.eff = 0 /\ e = 0)}
Grown == {e \in 0 .. MaxStep : e > ka.eff \/ (ka.eff = MaxStep /\ e = MaxStep)}

----------------------------------------------------------------------------
(* The task.                                                               *)

TaskAt(pc) == task.pc = pc
TaskTo(pc) == task' = [task EXCEPT !.pc = pc]

Stopped ==
    /\ TaskAt("sleep") /\ ~task.running
    /\ TaskTo("ended")
    /\ UNCHANGED <<ka, call, locks, changes>>

\* The request fails (a bare indication is sent), or is the first one.
KeepaliveFails == TaskAt("sleep") /\ task.running /\ UNCHANGED kaVars
FirstAddress(a) ==
    /\ TaskAt("sleep") /\ task.running /\ task.last = Unknown
    /\ task' = [task EXCEPT !.last = a]
    /\ UNCHANGED <<ka, call, locks, changes>>

\* The address has changed: the notice waits for room in the channel ...
AddressChanged(a) ==
    /\ TaskAt("sleep") /\ task.running /\ task.last \notin {Unknown, a}
    /\ task' = [task EXCEPT !.pc = "send", !.seen = a]
    /\ UNCHANGED <<ka, call, locks, changes>>
SendsChange ==
    /\ TaskAt("send") /\ changes < Capacity
    /\ changes' = changes + 1
    /\ TaskTo("halve")
    /\ UNCHANGED <<ka, call, locks>>
\* ... then the interval is halved under its lock, the count reset under its
\* own, and the flag set without any.
Halves ==
    /\ TaskAt("halve") /\ locks.eff = FreeLock
    /\ \E e \in Halved : ka' = [ka EXCEPT !.eff = e]
    /\ task' = [task EXCEPT !.pc = "reset", !.count = 0]
    /\ UNCHANGED <<call, locks, changes>>
Resets ==
    /\ TaskAt("reset") /\ locks.count = FreeLock
    /\ ka' = [ka EXCEPT !.count = 0]
    /\ TaskTo("flag")
    /\ UNCHANGED <<call, locks, changes>>
Flags ==
    /\ TaskAt("flag")
    /\ ka' = [ka EXCEPT !.rebind = TRUE]
    /\ task' = [task EXCEPT !.pc = "sleep", !.last = task.seen]
    /\ UNCHANGED <<call, locks, changes>>

\* The same address: counted only after a rebinding.
SameAddress ==
    /\ TaskAt("sleep") /\ task.running /\ task.last # Unknown
    /\ task' = IF ~ka.rebind THEN task
               ELSE [task EXCEPT !.count = @ + 1,
                                 !.pc = IF task.count + 1 >= Stable THEN "lockEff" ELSE "sync"]
    /\ UNCHANGED <<ka, call, locks, changes>>
Syncs ==
    /\ TaskAt("sync") /\ locks.count = FreeLock
    /\ ka' = [ka EXCEPT !.count = task.count]
    /\ TaskTo("sleep")
    /\ UNCHANGED <<call, locks, changes>>

\* Enough of them: the interval grows, under both locks, taken in the order of
\* notify_stable() (R17).
MutantLocks == <<"count", "eff">>
LockOrder == <<"eff", "count">>
LocksFirst == TaskAt("lockEff") /\ Acquire(LockOrder[1], "task") /\ TaskTo("lockCount")
              /\ UNCHANGED <<ka, call, changes>>
LocksSecond == TaskAt("lockCount") /\ Acquire(LockOrder[2], "task") /\ TaskTo("grow")
               /\ UNCHANGED <<ka, call, changes>>
Grows ==
    /\ TaskAt("grow")
    /\ \E e \in Grown : ka' = [ka EXCEPT !.eff = e, !.count = 0]
    /\ task' = [task EXCEPT !.pc = "sleep", !.count = 0]
    /\ Unlock({"eff", "count"})
    /\ UNCHANGED <<call, changes>>

----------------------------------------------------------------------------
(* The other threads.                                                      *)

CallStep(n, from, to) == call[n] = from /\ call' = [call EXCEPT ![n] = to]

\* notify_rebinding(): everything under the lock of the interval.
NotifyRebinding(n) ==
    /\ CallStep(n, "idle", "rebinding") /\ Acquire("eff", n)
    /\ \E e \in Halved : ka' = [ka EXCEPT !.eff = e, !.rebind = TRUE]
    /\ UNCHANGED <<task, changes>>
ResetsCount(n) ==
    /\ CallStep(n, "rebinding", "idle") /\ locks.count = FreeLock
    /\ ka' = [ka EXCEPT !.count = 0]
    /\ Unlock({"eff"})
    /\ UNCHANGED <<task, changes>>

\* notify_stable(): nothing before the first rebinding.
NotifyStable(n) ==
    /\ ka.rebind
    /\ CallStep(n, "idle", "stable") /\ Acquire("eff", n)
    /\ UNCHANGED <<ka, task, changes>>
Counts(n) ==
    /\ CallStep(n, "stable", "idle") /\ locks.count = FreeLock
    /\ IF ka.count + 1 >= Stable
       THEN \E e \in Grown : ka' = [ka EXCEPT !.eff = e, !.count = 0]
       ELSE ka' = [ka EXCEPT !.count = @ + 1]
    /\ Unlock({"eff"})
    /\ UNCHANGED <<task, changes>>

\* stop(); and the receiver (external) of the address changes.
StopKeepalive ==
    /\ task.running
    /\ task' = [task EXCEPT !.running = FALSE]
    /\ UNCHANGED <<ka, call, locks, changes>>
ReadsChange ==
    /\ changes > 0
    /\ changes' = changes - 1
    /\ UNCHANGED <<ka, task, call, locks>>

TaskWork == Halves \/ Resets \/ Flags \/ Syncs \/ LocksFirst \/ LocksSecond \/ Grows
CallWork(n) == ResetsCount(n) \/ Counts(n)

KaNext ==
    \/ Stopped \/ KeepaliveFails \/ SameAddress \/ SendsChange \/ TaskWork
    \/ \E a \in Reflexive : FirstAddress(a) \/ AddressChanged(a)
    \/ \E n \in Notifiers : NotifyRebinding(n) \/ NotifyStable(n) \/ CallWork(n)
    \/ StopKeepalive \/ ReadsChange

\* A thread that holds what it needs goes on.
KaSpec ==
    /\ KaInit /\ [][KaNext]_kaVars
    /\ WF_kaVars(TaskWork) /\ WF_kaVars(\E n \in Notifiers : CallWork(n))

----------------------------------------------------------------------------
(* Properties.                                                             *)

KaTypeOK ==
    /\ ka.eff \in 0 .. MaxStep /\ ka.rebind \in BOOLEAN /\ ka.count \in 0 .. Stable
    /\ task.count \in 0 .. Stable /\ task.last \in Reflexive \union {Unknown}
    /\ \A l \in DOMAIN locks : locks[l] \in Threads \union {FreeLock}
    /\ changes \in 0 .. Capacity

\* Who holds a lock has all it needs to go on: nobody keeps the interval's lock while
\* another thread has the count's, so no two of them wait for each other (R17), and a
\* lock is kept only by a thread on its way to releasing it.
HolderGoesOn ==
    \A l \in DOMAIN locks : locks[l] # FreeLock =>
        /\ locks.count \in {FreeLock, locks.eff}
        /\ locks.eff = "task" => task.pc = IF locks.count = FreeLock THEN "lockCount" ELSE "grow"
        /\ locks.eff # "task" => call[locks.eff] # "idle" /\ locks.count = FreeLock

\* The locks become free again whoever holds them, also when a thread and the task
\* want both at once (Bug #45, R17), and when nobody reads the channel.
LocksReleased ==
    (\E l \in DOMAIN locks : locks[l] # FreeLock) ~> (\A l \in DOMAIN locks : locks[l] = FreeLock)
=============================================================================
