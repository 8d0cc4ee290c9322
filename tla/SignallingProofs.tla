-------------------------- MODULE SignallingProofs --------------------------
(***************************************************************************)
(* The components around a call that keep state of their own: a provider   *)
(* has one refresh task at most, a call that is over takes no slot of its  *)
(* provider, a nonce that stays in the cache is counted up, Python gets    *)
(* the events in order, the listener's limits hold, and media goes where   *)
(* media came from.  The components share nothing; each part of this       *)
(* module is about the specification of one of them.                       *)
(***************************************************************************)
EXTENDS Registration, ProviderRouter, DigestAuth, SipRunner, SipListener, SymmetricRtp,
        FiniteSetTheorems, SequenceTheorems, TLAPS

----------------------------------------------------------------------------
(* The registration.                                                       *)

Places == {"unborn", "sleeping", "waiting", "asking", "answered", "retrying", "retried", "ended"}
Refreshers == [at : Places, object : SUBSET Objects, rounds : Nat, aborted : BOOLEAN]

\* What makes OneRefresher inductive: while a REGISTER is under way the old task has
\* been aborted and no handle is kept.
RefresherInv ==
    /\ refresher \in [RefreshTasks -> Refreshers]
    /\ object \subseteq Objects
    /\ OneRefresher
    /\ regCall = "registering" =>
         /\ handle = {} /\ Objects \ retired # {}
         /\ \E t \in RefreshTasks : refresher[t] = Dormant

\* abort() of the kept handle leaves no refresh task alive.
LEMMA AbortEndsAll ==
    ASSUME RefresherInv
    PROVE  /\ AbortedTasks \in [RefreshTasks -> Refreshers]
           /\ \A t \in RefreshTasks :
                /\ AbortedTasks[t].at \notin Living \/ AbortedTasks[t].aborted
                /\ refresher[t] = Dormant => AbortedTasks[t] = Dormant
<1> USE DEF RefresherInv
<1>1. ASSUME NEW t \in RefreshTasks
      PROVE  /\ AbortedTasks[t] \in Refreshers
             /\ AbortedTasks[t].at \notin Living \/ AbortedTasks[t].aborted
             /\ refresher[t] = Dormant => AbortedTasks[t] = Dormant
  <2>1. refresher[t] \in Refreshers  OBVIOUS
  <2>2. CASE t \notin handle
    BY <2>1, <2>2 DEF AbortedTasks, OneRefresher, Alive
  <2>3. CASE t \in handle /\ refresher[t].at \in {"answered", "retried"}
    <3>1. AbortedTasks[t] = [refresher[t] EXCEPT !.aborted = TRUE]
      BY <2>3 DEF AbortedTasks
    <3>2. refresher[t] # Dormant  BY <2>3 DEF Dormant
    <3> QED  BY <2>1, <3>1, <3>2 DEF Refreshers
  <2>4. CASE t \in handle /\ refresher[t].at \notin {"answered", "retried"}
    <3> DEFINE p == IF refresher[t].at \in Living THEN "ended" ELSE refresher[t].at
    <3>1. AbortedTasks[t] = [refresher[t] EXCEPT !.at = p]
      BY <2>4 DEF AbortedTasks
    <3>2. p \in Places \ Living /\ (refresher[t].at \notin Living => p = refresher[t].at)
      BY <2>1 DEF Refreshers, Living, Places
    <3>3. Dormant.at \notin Living  BY DEF Dormant, Living
    <3> HIDE DEF p
    <3>4. [refresher[t] EXCEPT !.at = p] \in Refreshers /\ [refresher[t] EXCEPT !.at = p].at = p
      BY <2>1, <3>2 DEF Refreshers
    <3>5. refresher[t] = Dormant => [refresher[t] EXCEPT !.at = p] = Dormant
      <4> SUFFICES ASSUME refresher[t] = Dormant
                   PROVE  [Dormant EXCEPT !.at = p] = Dormant
        OBVIOUS
      <4>1. p = "unborn"  BY <3>2, <3>3 DEF Dormant
      <4> QED  BY <4>1 DEF Dormant
    <3> QED  BY <3>1, <3>2, <3>4, <3>5
  <2> QED  BY <2>2, <2>3, <2>4
<1>2. AbortedTasks \in [RefreshTasks -> Refreshers]  BY <1>1 DEF AbortedTasks
<1> QED  BY <1>1, <1>2

\* A step of a refresh task: it moves no other task, brings none to life and touches
\* neither the handle nor what a REGISTER under way relies on.
LEMMA RefresherSteps ==
    ASSUME RefresherInv, NEW t \in RefreshTasks,
           \/ Wakes(t) \/ ShutsDown(t) \/ AsksAgain(t) \/ RefreshAnswered(t) \/ RefreshSucceeds(t)
           \/ RetriesNow(t) \/ RetrySucceeds(t) \/ BacksOff(t) \/ RefreshRefused(t)
    PROVE  RefresherInv'
<1> USE DEF RefresherInv
<1>0. refresher[t] \in Refreshers /\ UNCHANGED <<handle, regCall, object, retired>>
  BY DEF Wakes, ShutsDown, AsksAgain, RefreshAnswered, RefreshSucceeds, RetriesNow,
     RetrySucceeds, BacksOff, RefreshRefused
<1>1. /\ refresher[t].at \in Living
      /\ refresher' \in [RefreshTasks -> Refreshers]
      /\ refresher'[t].aborted = refresher[t].aborted
      /\ \A u \in RefreshTasks : u # t => refresher'[u] = refresher[u]
  <2>1. CASE Wakes(t)
    <3> DEFINE p == IF object = {} THEN "ended" ELSE "waiting"
               n == refresher[t].rounds + 1
               r == [refresher[t] EXCEPT !.at = p, !.object = object, !.rounds = n]
    <3>1. refresher' = [refresher EXCEPT ![t] = r]
      BY <2>1, Zenon DEF Wakes
    <3>2. p \in Places /\ n \in Nat /\ object \in SUBSET Objects
      BY <1>0 DEF Places, Refreshers
    <3> HIDE DEF p, n
    <3>3. r \in Refreshers /\ r.aborted = refresher[t].aborted
      BY <1>0, <3>2 DEF Refreshers
    <3>4. refresher[t].at \in Living  BY <2>1 DEF Wakes, FromSleep, Living
    <3> HIDE DEF r
    <3> QED  BY <3>1, <3>3, <3>4
  <2>2. CASE ~Wakes(t)
    <3>1. /\ refresher[t].at \in Living
          /\ \E p \in Places : refresher' = At(t, p)
      BY <2>2 DEF ShutsDown, AsksAgain, RefreshAnswered, RefreshSucceeds, RetriesNow,
         RetrySucceeds, BacksOff, RefreshRefused, Rests, Living, Places
    <3> QED  BY <1>0, <3>1 DEF At, Refreshers
  <2> QED  BY <2>1, <2>2
<1>4. \A u \in RefreshTasks : Alive(u)' => Alive(u)
  BY <1>1 DEF Alive
<1>5. \A u \in RefreshTasks : refresher[u] = Dormant => refresher'[u] = Dormant
  <2>1. Dormant.at = "unborn"  BY DEF Dormant
  <2> QED  BY <1>1, <2>1 DEF Living
<1> QED  BY <1>0, <1>1, <1>4, <1>5 DEF OneRefresher

\* The calls of the application: register() aborts the old task before it asks, spawns
\* one when it is answered, and unregister() aborts the task when it is answered.
LEMMA RegisterSteps ==
    ASSUME RefresherInv,
           \/ BeginRegister \/ Registered \/ RegisterFails
           \/ BeginUnregister \/ AskUnregister \/ Unregistered \/ UnregisterFails
    PROVE  RefresherInv'
<1> USE DEF RefresherInv
<1>1. CASE BeginRegister
  <2>1. /\ refresher' = AbortedTasks /\ handle' = {} /\ UNCHANGED <<object, retired>>
        /\ Objects \ retired # {} /\ \E t \in RefreshTasks : refresher[t] = Dormant
    BY <1>1 DEF BeginRegister
  <2>2. \A t \in RefreshTasks : ~Alive(t)'  BY <2>1, AbortEndsAll DEF Alive
  <2> QED  BY <2>1, <2>2, AbortEndsAll DEF OneRefresher
<1>2. CASE Registered
  <2>1. handle = {} /\ (\E t \in RefreshTasks : refresher[t] = Dormant) /\ Objects \ retired # {}
    BY <1>2 DEF Registered
  <2>2. object' \subseteq Objects /\ regCall' = "idle"  BY <1>2, <2>1 DEF Registered
  <2>3. \A t \in RefreshTasks : ~Alive(t)  BY <2>1 DEF OneRefresher
  <2> DEFINE new == CHOOSE t \in RefreshTasks : refresher[t] = Dormant
  <2>4. new \in RefreshTasks /\ refresher[new] = Dormant  BY <2>1
  <2>5. \/ UNCHANGED <<handle, refresher>>
        \/ handle' = {new} /\ refresher' = [refresher EXCEPT ![new].at = "sleeping"]
    BY <1>2 DEF Registered, Spawn
  <2> HIDE DEF new
  <2>6. refresher' \in [RefreshTasks -> Refreshers]
    BY <2>4, <2>5 DEF Refreshers, Places
  <2>7. \A t \in RefreshTasks : Alive(t)' => handle' = {t}
    <3> SUFFICES ASSUME NEW t \in RefreshTasks, Alive(t)' PROVE handle' = {t}  OBVIOUS
    <3>1. CASE UNCHANGED <<handle, refresher>>  BY <2>3, <3>1 DEF Alive
    <3>2. CASE handle' = {new} /\ refresher' = [refresher EXCEPT ![new].at = "sleeping"]
      <4>1. t # new => refresher'[t] = refresher[t]  BY <3>2
      <4> QED  BY <2>3, <3>2, <4>1 DEF Alive
    <3> QED  BY <2>5, <3>1, <3>2
  <2> QED  BY <2>2, <2>6, <2>7 DEF OneRefresher
<1>3. CASE Unregistered
  <2>1. refresher' = AbortedTasks /\ handle' = {} /\ regCall' = "idle" /\ object' = {}
    BY <1>3 DEF Unregistered
  <2>2. \A t \in RefreshTasks : ~Alive(t)'  BY <2>1, AbortEndsAll DEF Alive
  <2> QED  BY <2>1, <2>2, AbortEndsAll DEF OneRefresher
<1>4. CASE RegisterFails \/ BeginUnregister \/ AskUnregister \/ UnregisterFails
  <2>1. UNCHANGED <<refresher, handle, object, retired>> /\ regCall' # "registering"
    BY <1>4 DEF RegisterFails, BeginUnregister, AskUnregister, UnregisterFails
  <2> QED  BY <2>1 DEF OneRefresher, Alive
<1> QED  BY <1>1, <1>2, <1>3, <1>4

\* A provider has one refresh task at most, and it is the one whose handle is kept,
\* however registrations, failures and refreshes follow each other (P1-SIP-13).
THEOREM OneRefresherHolds == RegSpec => []OneRefresher
<1>1. RegInit => RefresherInv
  <2> SUFFICES ASSUME RegInit PROVE RefresherInv  OBVIOUS
  <2>1. Dormant \in Refreshers  BY DEF Dormant, Refreshers, Places
  <2>2. \A t \in RefreshTasks : ~Alive(t)  BY DEF RegInit, Alive, Dormant, Living
  <2> QED  BY <2>1, <2>2 DEF RegInit, RefresherInv, OneRefresher
<1>2. RefresherInv /\ [RegNext]_regVars => RefresherInv'
  <2> SUFFICES ASSUME RefresherInv, [RegNext]_regVars PROVE RefresherInv'  OBVIOUS
  <2>1. CASE UNCHANGED regVars
    BY <2>1 DEF regVars, RefresherInv, OneRefresher, Alive
  <2> QED  BY <2>1, RefresherSteps, RegisterSteps DEF RegNext
<1>3. RefresherInv => OneRefresher  BY DEF RefresherInv
<1> QED  BY <1>1, <1>2, <1>3, PTL DEF RegSpec

----------------------------------------------------------------------------
(* The provider router.                                                    *)

Routes == [at : {"new", "routed", "up", "over"}, provider : SUBSET Providers]
Statistics == [active : Nat, registered : BOOLEAN]
UpOn(p) == {c \in RoutedCalls : routed[c].at = "up" /\ p \in routed[c].provider}

\* What makes SlotsReturned inductive: a call is counted with one provider only, and
\* finitely many are up, as they start one at a time.
RoutesInv ==
    /\ routed \in [RoutedCalls -> Routes]
    /\ \A c \in RoutedCalls : \A p, q \in routed[c].provider : p = q
    /\ statistics \in [Providers -> SUBSET Statistics]
    /\ \A p \in Providers : IsFiniteSet(UpOn(p))
    /\ SlotsReturned

\* A call that starts is one more of its provider's calls, and of no other's.
LEMMA StartAddsOne ==
    ASSUME RoutesInv, NEW c \in RoutedCalls, NEW p \in routed[c].provider,
           routed[c].at = "routed", routed' = [routed EXCEPT ![c].at = "up"]
    PROVE  /\ routed' \in [RoutedCalls -> Routes]
           /\ \A q \in Providers : UpOn(q)' = IF q = p THEN UpOn(q) \cup {c} ELSE UpOn(q)
           /\ c \notin UpOn(p) /\ p \in Providers
           /\ \A d \in RoutedCalls : routed'[d].provider = routed[d].provider
<1> USE DEF RoutesInv
<1>1. /\ routed[c] \in Routes
      /\ routed'[c] = [routed[c] EXCEPT !.at = "up"]
      /\ \A d \in RoutedCalls : d # c => routed'[d] = routed[d]
  OBVIOUS
<1>2. routed'[c].at = "up" /\ routed'[c].provider = routed[c].provider /\ routed'[c] \in Routes
  BY <1>1 DEF Routes
<1>3. \A q \in Providers : q \in routed[c].provider <=> q = p
  OBVIOUS
<1>4. routed' \in [RoutedCalls -> Routes]  BY <1>1, <1>2
<1>5. \A q \in Providers : UpOn(q)' = IF q = p THEN UpOn(q) \cup {c} ELSE UpOn(q)
  <2> SUFFICES ASSUME NEW q \in Providers
               PROVE  UpOn(q)' = IF q = p THEN UpOn(q) \cup {c} ELSE UpOn(q)
    OBVIOUS
  <2>1. \A d \in RoutedCalls : d # c => (d \in UpOn(q)' <=> d \in UpOn(q))
    BY <1>1 DEF UpOn
  <2>2. c \in UpOn(q)' <=> q = p  BY <1>2, <1>3 DEF UpOn
  <2>3. c \notin UpOn(q)  BY DEF UpOn
  <2>4. UpOn(q) \subseteq RoutedCalls /\ UpOn(q)' \subseteq RoutedCalls  BY DEF UpOn
  <2>5. CASE q = p
    <3> HIDE DEF RoutesInv
    <3> QED  BY <2>1, <2>2, <2>4, <2>5
  <2>6. CASE q # p
    <3> HIDE DEF RoutesInv
    <3> QED  BY <2>1, <2>2, <2>3, <2>4, <2>6
  <2> QED  BY <2>5, <2>6
<1>6. c \notin UpOn(p) /\ p \in Providers  BY <1>1 DEF UpOn, Routes
<1> QED  BY <1>1, <1>2, <1>4, <1>5, <1>6

\* A call that ends or fails is one less of its provider's calls, and of no other's.
LEMMA EndTakesOne ==
    ASSUME RoutesInv, NEW c \in RoutedCalls, NEW p \in routed[c].provider,
           routed[c].at = "up", routed' = [routed EXCEPT ![c].at = "over"]
    PROVE  /\ routed' \in [RoutedCalls -> Routes]
           /\ \A q \in Providers : UpOn(q)' = IF q = p THEN UpOn(q) \ {c} ELSE UpOn(q)
           /\ c \in UpOn(p) /\ p \in Providers
           /\ \A d \in RoutedCalls : routed'[d].provider = routed[d].provider
<1> USE DEF RoutesInv
<1>1. /\ routed[c] \in Routes
      /\ routed'[c] = [routed[c] EXCEPT !.at = "over"]
      /\ \A d \in RoutedCalls : d # c => routed'[d] = routed[d]
  OBVIOUS
<1>2. routed'[c].at = "over" /\ routed'[c].provider = routed[c].provider /\ routed'[c] \in Routes
  BY <1>1 DEF Routes
<1>3. \A q \in Providers : q \in routed[c].provider <=> q = p
  OBVIOUS
<1>4. routed' \in [RoutedCalls -> Routes]  BY <1>1, <1>2
<1>5. \A q \in Providers : UpOn(q)' = IF q = p THEN UpOn(q) \ {c} ELSE UpOn(q)
  <2> SUFFICES ASSUME NEW q \in Providers
               PROVE  UpOn(q)' = IF q = p THEN UpOn(q) \ {c} ELSE UpOn(q)
    OBVIOUS
  <2>1. \A d \in RoutedCalls : d # c => (d \in UpOn(q)' <=> d \in UpOn(q))
    BY <1>1 DEF UpOn
  <2>2. c \notin UpOn(q)' /\ (c \in UpOn(q) <=> q = p)  BY <1>2, <1>3 DEF UpOn
  <2>3. UpOn(q) \subseteq RoutedCalls /\ UpOn(q)' \subseteq RoutedCalls  BY DEF UpOn
  <2> QED  BY <2>1, <2>2, <2>3
<1>6. c \in UpOn(p) /\ p \in Providers  BY <1>1 DEF UpOn, Routes
<1> QED  BY <1>1, <1>2, <1>4, <1>5, <1>6

\* The steps that count: one up where a call starts, one down where it ends or fails.
LEMMA CountedSteps ==
    ASSUME RoutesInv, NEW c \in RoutedCalls, CallStarted(c) \/ CallEnded(c) \/ CallFailed(c)
    PROVE  RoutesInv'
<1> USE DEF RoutesInv
<1>1. CASE CallStarted(c)
  <2> DEFINE f(s) == [s EXCEPT !.active = s.active + 1]
  <2>1. PICK p \in routed[c].provider :
          /\ routed[c].at = "routed" /\ routed' = [routed EXCEPT ![c].at = "up"]
          /\ statistics' = [statistics EXCEPT ![p] = {f(s) : s \in statistics[p]}]
    BY <1>1 DEF CallStarted, Count
  <2>2. \A s \in Statistics : f(s) \in Statistics /\ f(s).active = s.active + 1
    BY DEF Statistics
  <2> HIDE DEF f
  <2>3. /\ routed' \in [RoutedCalls -> Routes]
        /\ \A q \in Providers : UpOn(q)' = IF q = p THEN UpOn(q) \cup {c} ELSE UpOn(q)
        /\ c \notin UpOn(p) /\ p \in Providers
        /\ \A d \in RoutedCalls : routed'[d].provider = routed[d].provider
    BY <2>1, StartAddsOne
  <2>4. statistics' \in [Providers -> SUBSET Statistics]
    <3>1. statistics[p] \subseteq Statistics  BY <2>3
    <3>2. {f(s) : s \in statistics[p]} \subseteq Statistics  BY <2>2, <3>1
    <3> QED  BY <2>1, <3>2
  <2>5. /\ \A q \in Providers : IsFiniteSet(UpOn(q)')
        /\ Cardinality(UpOn(p)') = Cardinality(UpOn(p)) + 1
    BY <2>3, FS_AddElement
  <2>6. \A q \in Providers : \A s \in statistics'[q] : s.active <= Cardinality(UpOn(q)')
    <3> SUFFICES ASSUME NEW q \in Providers, NEW s \in statistics'[q]
                 PROVE  s.active <= Cardinality(UpOn(q)')
      OBVIOUS
    <3>1. CASE q # p
      BY <2>1, <2>3, <3>1 DEF SlotsReturned, UpOn
    <3>2. CASE q = p
      <4>1. PICK old \in statistics[p] : s = f(old)  BY <2>1, <2>3, <3>2
      <4>2. old \in Statistics  BY <2>3
      <4>3. old.active <= Cardinality(UpOn(p))  BY <2>3 DEF SlotsReturned, UpOn
      <4>4. Cardinality(UpOn(p)) \in Nat  BY <2>3, FS_CardinalityType
      <4>5. old.active \in Nat  BY <4>2 DEF Statistics
      <4> QED  BY <2>2, <2>5, <3>2, <4>1, <4>2, <4>3, <4>4, <4>5
    <3> QED  BY <3>1, <3>2
  <2> QED  BY <2>3, <2>4, <2>5, <2>6 DEF SlotsReturned, UpOn
<1>2. CASE CallEnded(c) \/ CallFailed(c)
  <2> DEFINE f(s) == [s EXCEPT !.active = Minus1(s.active)]
  <2>1. PICK p \in routed[c].provider :
          /\ routed[c].at = "up" /\ routed' = [routed EXCEPT ![c].at = "over"]
          /\ statistics' = [statistics EXCEPT ![p] = {f(s) : s \in statistics[p]}]
    BY <1>2 DEF CallEnded, CallFailed, Count
  <2>2. \A s \in Statistics : f(s) \in Statistics /\ f(s).active = Minus1(s.active)
    BY DEF Statistics, Minus1
  <2> HIDE DEF f
  <2>3. /\ routed' \in [RoutedCalls -> Routes]
        /\ \A q \in Providers : UpOn(q)' = IF q = p THEN UpOn(q) \ {c} ELSE UpOn(q)
        /\ c \in UpOn(p) /\ p \in Providers
        /\ \A d \in RoutedCalls : routed'[d].provider = routed[d].provider
    BY <2>1, EndTakesOne
  <2>4. statistics' \in [Providers -> SUBSET Statistics]
    <3>1. statistics[p] \subseteq Statistics  BY <2>3
    <3>2. {f(s) : s \in statistics[p]} \subseteq Statistics  BY <2>2, <3>1
    <3> QED  BY <2>1, <3>2
  <2>5. /\ \A q \in Providers : IsFiniteSet(UpOn(q)')
        /\ Cardinality(UpOn(p)') = Cardinality(UpOn(p)) - 1
    BY <2>3, FS_RemoveElement
  <2>6. \A q \in Providers : \A s \in statistics'[q] : s.active <= Cardinality(UpOn(q)')
    <3> SUFFICES ASSUME NEW q \in Providers, NEW s \in statistics'[q]
                 PROVE  s.active <= Cardinality(UpOn(q)')
      OBVIOUS
    <3>1. CASE q # p
      BY <2>1, <2>3, <3>1 DEF SlotsReturned, UpOn
    <3>2. CASE q = p
      <4>1. PICK old \in statistics[p] : s = f(old)  BY <2>1, <2>3, <3>2
      <4>2. old \in Statistics  BY <2>3
      <4>3. old.active <= Cardinality(UpOn(p))  BY <2>3 DEF SlotsReturned, UpOn
      <4>4. Cardinality(UpOn(p)) \in Nat /\ Cardinality(UpOn(p)') \in Nat
        BY <2>3, <2>5, FS_CardinalityType
      <4>5. old.active \in Nat  BY <4>2 DEF Statistics
      <4> QED  BY <2>2, <2>5, <3>2, <4>1, <4>2, <4>3, <4>4, <4>5 DEF Minus1
    <3> QED  BY <3>1, <3>2
  <2> QED  BY <2>3, <2>4, <2>5, <2>6 DEF SlotsReturned, UpOn
<1> QED  BY <1>1, <1>2

\* The steps that count nothing: a call is routed, a provider comes or goes (with it its
\* statistics, anew with none), and a registration is noted.
LEMMA UncountedSteps ==
    ASSUME RoutesInv,
           \/ \E p \in Providers : AddProvider(p) \/ RemoveProvider(p) \/ ProviderChanged(p) \/ SetRegistered(p)
           \/ \E c \in RoutedCalls : Route(c) \/ RouteWithFallback(c)
    PROVE  RoutesInv'
<1> USE DEF RoutesInv
<1>1. ASSUME NEW p \in Providers,
             AddProvider(p) \/ RemoveProvider(p) \/ ProviderChanged(p) \/ SetRegistered(p)
      PROVE  RoutesInv'
  <2>1. /\ UNCHANGED routed
        /\ statistics' \in [Providers -> SUBSET Statistics]
        /\ \A q \in Providers : \A s \in statistics'[q] :
              s.active = 0 \/ \E old \in statistics[q] : s.active = old.active
    <3>1. CASE AddProvider(p)  BY <3>1 DEF AddProvider
    <3>2. CASE RemoveProvider(p)  BY <3>2 DEF RemoveProvider
    <3>3. CASE ProviderChanged(p)
      <4>1. NoStats \in Statistics /\ NoStats.active = 0  BY DEF NoStats, Statistics
      <4>2. UNCHANGED statistics \/ statistics' = [statistics EXCEPT ![p] = {NoStats}]
        BY <3>3 DEF ProviderChanged
      <4> QED  BY <3>3, <4>1, <4>2 DEF ProviderChanged
    <3>4. CASE SetRegistered(p)
      <4>1. PICK up \in BOOLEAN :
              statistics' = [statistics EXCEPT ![p] = {[s EXCEPT !.registered = up] : s \in statistics[p]}]
        BY <3>4 DEF SetRegistered, Count
      <4> DEFINE f(s) == [s EXCEPT !.registered = up]
      <4>2. \A s \in Statistics : f(s) \in Statistics /\ f(s).active = s.active
        BY DEF Statistics
      <4>3. statistics' = [statistics EXCEPT ![p] = {f(s) : s \in statistics[p]}]
        BY <4>1
      <4> HIDE DEF f
      <4>4. statistics[p] \subseteq Statistics  OBVIOUS
      <4> QED  BY <3>4, <4>2, <4>3, <4>4 DEF SetRegistered
    <3> QED  BY <1>1, <3>1, <3>2, <3>3, <3>4
  <2>2. \A q \in Providers : UpOn(q)' = UpOn(q)  BY <2>1 DEF UpOn
  <2>3. \A q \in Providers : Cardinality(UpOn(q)) \in Nat  BY FS_CardinalityType
  <2>4. \A q \in Providers : \A s \in statistics'[q] : s.active <= Cardinality(UpOn(q))
    <3> SUFFICES ASSUME NEW q \in Providers, NEW s \in statistics'[q]
                 PROVE  s.active <= Cardinality(UpOn(q))
      OBVIOUS
    <3>1. \A old \in statistics[q] : old.active <= Cardinality(UpOn(q))
      BY DEF SlotsReturned, UpOn
    <3> QED  BY <2>1, <2>3, <3>1
  <2> QED  BY <2>1, <2>2, <2>4 DEF SlotsReturned, UpOn
<1>2. ASSUME NEW c \in RoutedCalls, Route(c) \/ RouteWithFallback(c)
      PROVE  RoutesInv'
  <2>1. PICK p \in Providers :
          /\ routed[c].at = "new" /\ routed' = [routed EXCEPT ![c] = [at |-> "routed", provider |-> {p}]]
          /\ UNCHANGED statistics
    BY <1>2 DEF Route, RouteWithFallback, Best, Candidates
  <2>2. /\ routed'[c] = [at |-> "routed", provider |-> {p}]
        /\ \A d \in RoutedCalls : d # c => routed'[d] = routed[d]
    BY <2>1
  <2>3. routed' \in [RoutedCalls -> Routes]  BY <2>1 DEF Routes
  <2>4. \A q \in Providers : UpOn(q)' = UpOn(q)  BY <2>1, <2>2 DEF UpOn
  <2>5. \A d \in RoutedCalls : \A a, b \in routed'[d].provider : a = b
    BY <2>2
  <2> QED  BY <2>1, <2>3, <2>4, <2>5 DEF SlotsReturned, UpOn
<1> QED  BY <1>1, <1>2

\* A provider is counted as no busier than it is, so calls that are over do not shut it
\* out of routing, whatever fails and whichever provider comes and goes (P1-PROVIDER-1).
THEOREM SlotsReturnedHolds == RouterSpec => []SlotsReturned
<1>1. RouterInit => RoutesInv
  <2> SUFFICES ASSUME RouterInit PROVE RoutesInv  OBVIOUS
  <2>1. \A p \in Providers : UpOn(p) = {} /\ statistics[p] = {}  BY DEF RouterInit, UpOn
  <2>2. \A p \in Providers : IsFiniteSet(UpOn(p))  BY <2>1, FS_EmptySet
  <2>3. routed \in [RoutedCalls -> Routes]  BY DEF RouterInit, Routes
  <2> QED  BY <2>1, <2>2, <2>3 DEF RouterInit, RoutesInv, SlotsReturned
<1>2. RoutesInv /\ [RouterNext]_routerVars => RoutesInv'
  <2> SUFFICES ASSUME RoutesInv, [RouterNext]_routerVars PROVE RoutesInv'  OBVIOUS
  <2>1. CASE UNCHANGED routerVars
    BY <2>1 DEF routerVars, RoutesInv, SlotsReturned, UpOn
  <2> QED  BY <2>1, CountedSteps, UncountedSteps DEF RouterNext
<1>3. RoutesInv => SlotsReturned  BY DEF RoutesInv
<1> QED  BY <1>1, <1>2, <1>3, PTL DEF RouterSpec

----------------------------------------------------------------------------
(* The nonce cache.                                                        *)

Caches == [nonce : SUBSET Nonces, kind : SUBSET Kinds, nc : Nat, age : Nat]
Built == [nonce : Nonces, kind : Kinds, nc : Nat, life : Nat, stale : BOOLEAN, cached : BOOLEAN]

\* Header i is of a challenge with the nonce and kind, not taken from the cache.
Challenged(i, nonce, kind) ==
    ~headers[i].cached /\ headers[i].nonce = nonce /\ headers[i].kind = kind

\* What the cache and the headers built so far say of each other: the cache holds the
\* nonce of the last header, what came with it unless it came as stale, and the count of
\* those headers of this use of the nonce that have one.
InCacheInv ==
    LET n == Len(headers)
    IN  /\ headers # <<>> /\ cache.nonce = {headers[n].nonce} /\ headers[n].life = life
        /\ \E kind \in Kinds :
              /\ cache.kind = {kind}
              /\ \E i \in 1 .. n : \/ Challenged(i, headers[n].nonce, kind)
                                   \/ OneUse(i, n) /\ headers[i].stale
        /\ \A i \in 1 .. n : OneUse(i, n) /\ Counts(i) => headers[i].nc <= cache.nc
        /\ cache.nc # 0 => \E i \in 1 .. n : OneUse(i, n) /\ Counts(i) /\ headers[i].nc = cache.nc

HeaderInv ==
    /\ cache \in Caches /\ headers \in Seq(Built) /\ life \in Nat
    /\ \A i \in DOMAIN headers :
          headers[i].life <= life /\ (cache.nonce = {} => headers[i].life < life)
    /\ cache.nonce # {} => InCacheInv
    /\ CountsOnce

\* The cache keeps the nonce of a challenge: it goes on counting.
Keeps(o) == cache.nonce = {o.nonce} /\ ~Expired(cache) /\ ~o.stale
Step(o) == IF o.kind \in WithQop THEN 1 ELSE 0

\* The cache after a challenge was taken in and counted.
LEMMA CountedUpIs ==
    ASSUME HeaderInv, NEW o \in Challenges, NEW cached, Authorized(o, cached)
    PROVE  /\ cache' \in Caches /\ cache'.nonce = {o.nonce}
           /\ Keeps(o) => cache'.nc = cache.nc + Step(o) /\ cache'.kind = cache.kind /\ life' = life
           /\ ~Keeps(o) => /\ cache'.nc = Step(o)
                           /\ cache'.kind = {o.kind} \/ (o.stale /\ cache'.kind = cache.kind /\ InCacheInv)
                           /\ headers # <<>> => \/ headers[Len(headers)].nonce # o.nonce
                                                \/ headers[Len(headers)].life # life'
           /\ life' \in Nat /\ life' >= life
<1> DEFINE c == Unexpired(cache)
           u == Updated(c, o)
           n == IF o.kind \in WithQop THEN u.nc + 1 ELSE u.nc
<1>1. /\ cache \in Caches /\ life \in Nat /\ (cache.nonce # {} => InCacheInv)
      /\ headers \in Seq(Built)
      /\ \A i \in DOMAIN headers :
            headers[i].life <= life /\ (cache.nonce = {} => headers[i].life < life)
  BY DEF HeaderInv
<1>2. o.nonce \in Nonces /\ o.kind \in Kinds /\ o.stale \in BOOLEAN  BY DEF Challenges
<1>3. /\ Expired(cache) => c = EmptyCache
      /\ ~Expired(cache) => c = cache
  BY DEF Unexpired
<1>4. c \in Caches  BY <1>1, <1>3 DEF EmptyCache, Caches
<1>5. /\ cache' = [u EXCEPT !.nc = n]
      /\ life' = IF Expired(cache) \/ Replaces(cache, o) THEN life + 1 ELSE life
  BY DEF Authorized, CountedUp
<1>6. life' \in Nat /\ life' >= life  BY <1>1, <1>5
<1>7. EmptyCache.nonce = {}  BY DEF EmptyCache
<1> HIDE DEF c
<1>8. ASSUME u \in Caches
      PROVE  /\ cache' \in Caches /\ cache'.nonce = u.nonce /\ cache'.kind = u.kind
             /\ cache'.nc = u.nc + Step(o)
  <2>1. u.nc \in Nat  BY <1>8 DEF Caches
  <2>2. n \in Nat /\ n = u.nc + Step(o)  BY <2>1 DEF Step
  <2> HIDE DEF u, n
  <2> QED  BY <1>5, <1>8, <2>2 DEF Caches
<1>9. headers # <<>> => /\ Len(headers) \in DOMAIN headers /\ headers[Len(headers)] \in Built
                        /\ headers[Len(headers)].life \in Nat
  <2>1. headers # <<>> => Len(headers) \in DOMAIN headers /\ headers[Len(headers)] \in Built
    BY <1>1
  <2> QED  BY <2>1 DEF Built
<1>10. CASE Replaces(c, o)
  <2>1. u = [c EXCEPT !.nonce = {o.nonce}, !.nc = 0, !.age = 0]  BY <1>10 DEF Updated
  <2> HIDE DEF u
  <2>2. u \in Caches  BY <1>2, <1>4, <2>1 DEF Caches
  <2>3. u.nonce = {o.nonce} /\ u.nc = 0 /\ u.kind = c.kind  BY <1>4, <2>1 DEF Caches
  <2>4. c = cache /\ o.stale /\ cache.nonce # {}  BY <1>3, <1>7, <1>10 DEF Replaces
  <2>5. ~Keeps(o) /\ life' = life + 1 /\ InCacheInv
    BY <1>1, <1>5, <2>4 DEF Keeps, Replaces
  <2>6. headers # <<>> => headers[Len(headers)].life # life'  BY <1>1, <1>9, <2>5
  <2>7. cache'.nc = Step(o)  BY <1>8, <2>2, <2>3 DEF Step
  <2> QED  BY <1>6, <1>8, <2>2, <2>3, <2>4, <2>5, <2>6, <2>7
<1>11. CASE ~Replaces(c, o) /\ c.nonce = {o.nonce}
  <2>1. u = c  BY <1>11 DEF Updated
  <2>2. c = cache /\ ~o.stale /\ ~Expired(cache) /\ Keeps(o)
    BY <1>2, <1>3, <1>7, <1>11 DEF Replaces, Keeps
  <2>3. life' = life  BY <1>5, <2>2 DEF Replaces
  <2> QED  BY <1>4, <1>6, <1>8, <1>11, <2>1, <2>2, <2>3
<1>12. CASE ~Replaces(c, o) /\ c.nonce # {o.nonce}
  <2>1. u = [nonce |-> {o.nonce}, kind |-> {o.kind}, nc |-> 0, age |-> 0]  BY <1>12 DEF Updated
  <2> HIDE DEF u
  <2>2. u \in Caches /\ u.nonce = {o.nonce} /\ u.nc = 0 /\ u.kind = {o.kind}
    BY <1>2, <2>1 DEF Caches
  <2>3. ~Keeps(o)  BY <1>3, <1>12 DEF Keeps
  <2>4. cache'.nc = Step(o)  BY <1>8, <2>2 DEF Step
  <2>5. ASSUME headers # <<>>
        PROVE  headers[Len(headers)].nonce # o.nonce \/ headers[Len(headers)].life # life'
    <3>1. CASE Expired(cache)
      BY <1>1, <1>5, <1>9, <2>5, <3>1
    <3>2. CASE cache.nonce = {}
      BY <1>1, <1>6, <1>9, <2>5, <3>2
    <3>3. CASE ~Expired(cache) /\ cache.nonce # {}
      BY <1>1, <1>3, <1>12, <3>3 DEF InCacheInv
    <3> QED  BY <3>1, <3>2, <3>3
  <2> QED  BY <1>6, <1>8, <2>2, <2>3, <2>4, <2>5
<1> QED  BY <1>10, <1>11, <1>12

\* One more header, built from a challenge or from the cache.
LEMMA BuiltOnce ==
    ASSUME HeaderInv, NEW o \in Challenges, NEW cached \in BOOLEAN, Authorized(o, cached),
           cached => Keeps(o) /\ cache.kind = {o.kind}
    PROVE  HeaderInv'
<1> DEFINE h == Header(o, cached)
<1>0. PICK n \in Nat : n = Len(headers)
  BY DEF HeaderInv
<1>1. /\ cache' \in Caches /\ cache'.nonce = {o.nonce}
      /\ Keeps(o) => cache'.nc = cache.nc + Step(o) /\ cache'.kind = cache.kind /\ life' = life
      /\ ~Keeps(o) => /\ cache'.nc = Step(o)
                      /\ cache'.kind = {o.kind} \/ (o.stale /\ cache'.kind = cache.kind /\ InCacheInv)
                      /\ headers # <<>> => headers[n].nonce # o.nonce \/ headers[n].life # life'
      /\ life' \in Nat /\ life' >= life
  BY <1>0, CountedUpIs
<1>2. /\ headers \in Seq(Built) /\ n \in Nat /\ DOMAIN headers = 1 .. n /\ life \in Nat
      /\ cache.nc \in Nat /\ cache'.nc \in Nat /\ CountsOnce
      /\ \A i \in 1 .. n : headers[i].life <= life
      /\ Keeps(o) => InCacheInv
  <2>1. /\ headers \in Seq(Built) /\ life \in Nat /\ cache \in Caches /\ CountsOnce
        /\ \A i \in DOMAIN headers : headers[i].life <= life
        /\ cache.nonce # {} => InCacheInv
    BY DEF HeaderInv
  <2>2. cache.nc \in Nat /\ cache'.nc \in Nat  BY <1>1, <2>1 DEF Caches
  <2>3. Keeps(o) => InCacheInv  BY <2>1 DEF Keeps
  <2> QED  BY <1>0, <2>1, <2>2, <2>3
<1>3. o.nonce \in Nonces /\ o.kind \in Kinds /\ o.stale \in BOOLEAN  BY DEF Challenges
<1>4. /\ h \in Built /\ h.nonce = o.nonce /\ h.kind = o.kind /\ h.nc = cache'.nc /\ h.life = life'
      /\ h.stale = o.stale /\ h.cached = cached
  BY <1>1, <1>2, <1>3 DEF Header, Built
<1> HIDE DEF h
<1>5. headers' = Append(headers, h)  BY DEF Authorized, h
<1>6. /\ headers' \in Seq(Built) /\ Len(headers') = n + 1 /\ DOMAIN headers' = 1 .. n + 1
      /\ headers'[n + 1] = h /\ \A i \in 1 .. n : headers'[i] = headers[i]
  BY <1>0, <1>2, <1>4, <1>5
<1>7. \A i \in 1 .. n + 1 : i = n + 1 \/ i \in 1 .. n  BY <1>2
<1>8. \A i \in 1 .. n : headers[i].nc \in Nat /\ headers[i].life \in Nat
  <2>1. \A i \in 1 .. n : headers[i] \in Built  BY <1>2
  <2> QED  BY <2>1 DEF Built
\* The uses of the nonces before are as they were, and the new header goes on with the
\* last of them or begins another.
<1>9. \A i \in 1 .. n, j \in 1 .. n : OneUse(i, j)' <=> OneUse(i, j)
  <2> TAKE i \in 1 .. n, j \in 1 .. n
  <2>1. \A k \in i .. j : headers'[k] = headers[k]  BY <1>2, <1>6
  <2>2. headers'[j] = headers[j]  BY <1>6
  <2> QED  BY <2>1, <2>2 DEF OneUse
<1>10. OneUse(n + 1, n + 1)'
  <2>1. \A k \in n + 1 .. n + 1 : k = n + 1  BY <1>2
  <2> QED  BY <2>1 DEF OneUse
<1>11. ASSUME Keeps(o) PROVE \A i \in 1 .. n : OneUse(i, n + 1)' <=> OneUse(i, n)
  <2>1. headers[n].nonce = o.nonce /\ headers[n].life = life' /\ n >= 1
    <3>1. headers # <<>> /\ {o.nonce} = {headers[n].nonce} /\ headers[n].life = life
      BY <1>0, <1>2, <1>11 DEF InCacheInv, Keeps
    <3>2. n >= 1  BY <1>2, <3>1
    <3> QED  BY <1>1, <1>11, <3>1, <3>2
  <2> TAKE i \in 1 .. n
  <2>2. /\ \A k \in i .. n : k \in i .. n + 1 /\ headers'[k] = headers[k]
        /\ \A k \in i .. n + 1 : k = n + 1 \/ k \in i .. n
    BY <1>2, <1>6
  <2>3. headers'[n + 1].nonce = headers[n].nonce /\ headers'[n + 1].life = headers[n].life
    BY <1>4, <1>6, <2>1
  <2> QED  BY <2>2, <2>3 DEF OneUse
<1>12. ASSUME ~Keeps(o) PROVE \A i \in 1 .. n : ~OneUse(i, n + 1)'
  <2> TAKE i \in 1 .. n
  <2>1. n \in 1 .. n /\ n \in i .. n + 1 /\ headers # <<>> /\ headers'[n] = headers[n]
    BY <1>0, <1>2, <1>6
  <2>2. headers'[n].nonce # headers'[n + 1].nonce \/ headers'[n].life # headers'[n + 1].life
    BY <1>1, <1>4, <1>6, <1>12, <2>1
  <2> QED  BY <2>1, <2>2 DEF OneUse
<1>13. /\ \A i \in 1 .. n : Counts(i)' = Counts(i)
       /\ Counts(n + 1)' <=> o.kind \in WithQop
       /\ \A i \in 1 .. n, nonce \in Nonces, kind \in Kinds :
             Challenged(i, nonce, kind)' <=> Challenged(i, nonce, kind)
  BY <1>4, <1>6 DEF Counts, Challenged
<1>14. Step(o) \in {0, 1} /\ (o.kind \in WithQop <=> Step(o) = 1)  BY DEF Step
\* What counts in the new header's use has reached the count before.
<1>15. \A i \in 1 .. n : OneUse(i, n + 1)' /\ Counts(i)' =>
           headers'[i].nc + Step(o) <= cache'.nc
  <2>1. CASE Keeps(o)
    <3> TAKE i \in 1 .. n
    <3>1. OneUse(i, n)' /\ Counts(i)' => headers[i].nc <= cache.nc
      BY <1>0, <1>2, <1>9, <1>13, <2>1 DEF InCacheInv
    <3>2. OneUse(i, n + 1)' /\ Counts(i)' => headers[i].nc <= cache.nc
      BY <1>0, <1>2, <1>11, <1>13, <2>1 DEF InCacheInv
    <3> QED  BY <1>1, <1>2, <1>6, <1>8, <1>14, <2>1, <3>2
  <2>2. CASE ~Keeps(o)  BY <1>12, <2>2
  <2> QED  BY <2>1, <2>2
<1>16. ASSUME cache'.nc # Step(o)
       PROVE  \E i \in 1 .. n : OneUse(i, n + 1)' /\ Counts(i)' /\ headers'[i].nc + Step(o) = cache'.nc
  <2>1. Keeps(o) /\ cache.nc # 0  BY <1>1, <1>2, <1>14, <1>16
  <2>2. PICK i \in 1 .. n : OneUse(i, n) /\ Counts(i) /\ headers[i].nc = cache.nc
    BY <1>0, <1>2, <2>1 DEF InCacheInv
  <2> QED  BY <1>1, <1>6, <1>11, <1>13, <2>1, <2>2
<1>17. InCacheInv'
  <2>1. headers' # <<>> /\ cache'.nonce = {headers'[n + 1].nonce} /\ headers'[n + 1].life = life'
    BY <1>1, <1>2, <1>4, <1>6
  <2>2. \E kind \in Kinds :
            /\ cache'.kind = {kind}
            /\ \E i \in 1 .. n + 1 : \/ Challenged(i, headers[n + 1].nonce, kind)'
                                     \/ OneUse(i, n + 1)' /\ headers'[i].stale
    <3>1. CASE Keeps(o)
      <4>1. PICK kind \in Kinds :
                /\ cache.kind = {kind}
                /\ \E i \in 1 .. n : \/ Challenged(i, headers[n].nonce, kind)
                                     \/ OneUse(i, n) /\ headers[i].stale
        BY <1>0, <1>2, <3>1 DEF InCacheInv
      <4>2. PICK i \in 1 .. n : \/ Challenged(i, headers[n].nonce, kind)
                                \/ OneUse(i, n) /\ headers[i].stale
        BY <4>1
      <4>3. headers[n].nonce = o.nonce  BY <1>0, <1>2, <3>1 DEF InCacheInv, Keeps
      <4>4. \/ Challenged(i, headers[n + 1].nonce, kind)'
            \/ OneUse(i, n + 1)' /\ headers'[i].stale
        BY <1>4, <1>6, <1>11, <3>1, <4>2, <4>3 DEF Challenged
      <4>5. cache'.kind = {kind} /\ i \in 1 .. n + 1  BY <1>1, <1>2, <3>1, <4>1
      <4> QED  BY <4>4, <4>5
    <3>2. CASE ~Keeps(o) /\ cache'.kind = {o.kind}
      <4>1. ~cached  BY <3>2
      <4>2. Challenged(n + 1, headers[n + 1].nonce, o.kind)'  BY <1>4, <1>6, <4>1 DEF Challenged
      <4> QED  BY <1>2, <1>3, <3>2, <4>2
    <3>3. CASE ~Keeps(o) /\ o.stale /\ cache'.kind = cache.kind /\ InCacheInv
      <4>1. PICK kind \in Kinds : cache.kind = {kind}  BY <3>3 DEF InCacheInv
      <4>2. OneUse(n + 1, n + 1)' /\ headers'[n + 1].stale  BY <1>4, <1>6, <1>10, <3>3
      <4> QED  BY <1>2, <3>3, <4>1, <4>2
    <3> QED  BY <1>1, <3>1, <3>2, <3>3
  <2>3. \A i \in 1 .. n + 1 : OneUse(i, n + 1)' /\ Counts(i)' => headers'[i].nc <= cache'.nc
    <3> TAKE i \in 1 .. n + 1
    <3>1. CASE i = n + 1  BY <1>2, <1>4, <1>6, <3>1
    <3>2. CASE i \in 1 .. n  BY <1>2, <1>6, <1>8, <1>14, <1>15, <3>2
    <3> QED  BY <1>7, <3>1, <3>2
  <2>4. cache'.nc # 0 =>
            \E i \in 1 .. n + 1 : OneUse(i, n + 1)' /\ Counts(i)' /\ headers'[i].nc = cache'.nc
    <3> SUFFICES ASSUME cache'.nc # 0
                 PROVE  \E i \in 1 .. n + 1 : OneUse(i, n + 1)' /\ Counts(i)' /\ headers'[i].nc = cache'.nc
      OBVIOUS
    <3>1. CASE Step(o) = 1
      <4>1. Counts(n + 1)' /\ headers'[n + 1].nc = cache'.nc  BY <1>4, <1>6, <1>13, <1>14, <3>1
      <4> QED  BY <1>2, <1>10, <4>1
    <3>2. CASE Step(o) = 0
      <4>1. PICK i \in 1 .. n : OneUse(i, n + 1)' /\ Counts(i)' /\ headers'[i].nc + Step(o) = cache'.nc
        BY <1>16, <3>2
      <4>2. i \in 1 .. n + 1 /\ headers'[i].nc = cache'.nc  BY <1>2, <1>6, <1>8, <3>2, <4>1
      <4> QED  BY <4>1, <4>2
    <3> QED  BY <1>14, <3>1, <3>2
  <2> QED  BY <1>6, <2>1, <2>2, <2>3, <2>4 DEF InCacheInv
<1>18. CountsOnce'
  <2>1. ASSUME NEW i \in 1 .. n + 1, NEW j \in 1 .. n + 1,
               i < j, OneUse(i, j)', Counts(i)', Counts(j)'
        PROVE  headers'[i].nc < headers'[j].nc
    <3>1. i \in 1 .. n  BY <1>2, <2>1
    <3>2. CASE j \in 1 .. n
      <4>1. OneUse(i, j) /\ Counts(i) /\ Counts(j)  BY <1>9, <1>13, <2>1, <3>1, <3>2
      <4> QED  BY <1>2, <1>6, <2>1, <3>1, <3>2, <4>1 DEF CountsOnce
    <3>3. CASE j = n + 1
      <4>1. headers'[i].nc + Step(o) <= cache'.nc /\ Step(o) = 1
        BY <1>13, <1>14, <1>15, <2>1, <3>1, <3>3
      <4> QED  BY <1>2, <1>4, <1>6, <1>8, <3>1, <3>3, <4>1
    <3> QED  BY <1>7, <3>2, <3>3
  <2>2. ASSUME NEW j \in 1 .. n + 1, Counts(j)', headers'[j].nc # 1
        PROVE  \E i \in 1 .. j - 1 : OneUse(i, j)' /\ Counts(i)' /\ headers'[i].nc = headers'[j].nc - 1
    <3>1. CASE j \in 1 .. n
      <4>1. Counts(j) /\ headers[j].nc # 1  BY <1>6, <1>13, <2>2, <3>1
      <4>2. PICK i \in 1 .. j - 1 : OneUse(i, j) /\ Counts(i) /\ headers[i].nc = headers[j].nc - 1
        BY <1>2, <3>1, <4>1 DEF CountsOnce
      <4>3. i \in 1 .. n  BY <1>2, <3>1
      <4> QED  BY <1>6, <1>9, <1>13, <3>1, <4>2, <4>3
    <3>2. CASE j = n + 1
      <4>1. Step(o) = 1 /\ headers'[j].nc = cache'.nc  BY <1>4, <1>6, <1>13, <1>14, <2>2, <3>2
      <4>2. PICK i \in 1 .. n : OneUse(i, n + 1)' /\ Counts(i)' /\ headers'[i].nc + Step(o) = cache'.nc
        BY <1>16, <2>2, <4>1
      <4>3. i \in 1 .. j - 1 /\ headers'[i].nc = headers'[j].nc - 1
        BY <1>2, <1>6, <1>8, <3>2, <4>1, <4>2
      <4> QED  BY <3>2, <4>2, <4>3
    <3> QED  BY <1>7, <3>1, <3>2
  <2>3. ASSUME NEW j \in 1 .. n + 1, headers'[j].cached
        PROVE  \E i \in 1 .. j - 1 :
                  \/ /\ ~headers'[i].cached /\ headers'[i].nonce = headers'[j].nonce
                     /\ headers'[i].kind = headers'[j].kind
                  \/ OneUse(i, j)' /\ headers'[i].stale
    <3>1. CASE j \in 1 .. n
      <4>1. PICK i \in 1 .. j - 1 :
                \/ ~headers[i].cached /\ headers[i].nonce = headers[j].nonce /\ headers[i].kind = headers[j].kind
                \/ OneUse(i, j) /\ headers[i].stale
        BY <1>2, <1>6, <2>3, <3>1 DEF CountsOnce
      <4>2. i \in 1 .. n  BY <1>2, <3>1
      <4> QED  BY <1>6, <1>9, <3>1, <4>1, <4>2
    <3>2. CASE j = n + 1
      <4>1. Keeps(o) /\ cache.kind = {o.kind}  BY <1>4, <1>6, <2>3, <3>2
      <4>2. PICK i \in 1 .. n : \/ Challenged(i, headers[n].nonce, o.kind)
                                \/ OneUse(i, n) /\ headers[i].stale
        BY <1>0, <1>2, <4>1 DEF InCacheInv
      <4>3. headers[n].nonce = o.nonce  BY <1>0, <1>2, <4>1 DEF InCacheInv, Keeps
      <4>4. i \in 1 .. j - 1  BY <1>2, <3>2
      <4> QED  BY <1>4, <1>6, <1>11, <3>2, <4>1, <4>2, <4>3, <4>4 DEF Challenged
    <3> QED  BY <1>7, <3>1, <3>2
  <2> QED  BY <1>6, <2>1, <2>2, <2>3 DEF CountsOnce
<1>19. \A i \in 1 .. n + 1 : headers'[i].life <= life'
  BY <1>1, <1>2, <1>4, <1>6, <1>7, <1>8
<1> QED  BY <1>1, <1>6, <1>17, <1>18, <1>19 DEF HeaderInv

\* A cache that is emptied leaves the headers as they are.
LEMMA EmptiedInv == ASSUME HeaderInv, Emptied PROVE HeaderInv'
<1>1. cache' = EmptyCache /\ life' = life + 1 /\ headers' = headers  BY DEF Emptied
<1>2. /\ headers \in Seq(Built) /\ life \in Nat /\ CountsOnce
      /\ \A i \in DOMAIN headers : headers[i].life <= life
  BY DEF HeaderInv
<1>3. \A i \in DOMAIN headers : headers[i].life \in Nat
  <2>1. \A i \in DOMAIN headers : headers[i] \in Built  BY <1>2
  <2> QED  BY <2>1 DEF Built
<1>4. cache' \in Caches /\ cache'.nonce = {}  BY <1>1 DEF EmptyCache, Caches
<1>5. \A i \in DOMAIN headers : headers[i].life < life + 1 /\ headers[i].life <= life + 1
  BY <1>2, <1>3
<1>6. CountsOnce'  BY <1>1, <1>2 DEF CountsOnce, OneUse, Counts
<1> QED  BY <1>1, <1>2, <1>4, <1>5, <1>6 DEF HeaderInv

\* While the cache keeps a nonce, the counts sent with it are 1, 2, 3 in the order of the
\* requests; a cleared cache, an expired one and a stale challenge start again, whatever
\* the nonce is.  What is built from the cache repeats what one challenge said, unless
\* the nonce came as stale.
THEOREM CountsOnceHolds == DigestSpec => []CountsOnce
<1>1. DigestInit => HeaderInv
  BY DEF DigestInit, HeaderInv, EmptyCache, Caches, CountsOnce
<1>2. HeaderInv /\ [DigestNext]_digestVars => HeaderInv'
  <2> SUFFICES ASSUME HeaderInv, [DigestNext]_digestVars PROVE HeaderInv'  OBVIOUS
  <2>1. CASE Authorize
    <3>1. PICK o \in Challenges : Authorized(o, FALSE)  BY <2>1 DEF Authorize
    <3> QED  BY <3>1, BuiltOnce
  <2>2. CASE AuthorizeCached
    <3>1. CASE Expired(cache)  BY <2>2, <3>1, EmptiedInv DEF AuthorizeCached
    <3>2. CASE ~Expired(cache)
      <4>1. PICK n \in cache.nonce, k \in cache.kind :
                Authorized([nonce |-> n, kind |-> k, stale |-> FALSE], TRUE)
        BY <2>2, <3>2 DEF AuthorizeCached
      <4> DEFINE o == [nonce |-> n, kind |-> k, stale |-> FALSE]
      <4>2. cache \in Caches /\ InCacheInv  BY <4>1 DEF HeaderInv
      <4>3. o \in Challenges  BY <4>1, <4>2 DEF Challenges, Caches
      <4>4. cache.nonce = {n} /\ cache.kind = {k}  BY <4>1, <4>2 DEF InCacheInv
      <4>5. o.nonce = n /\ o.kind = k /\ o.stale = FALSE /\ Authorized(o, TRUE)  BY <4>1
      <4> HIDE DEF o
      <4>6. Keeps(o) /\ cache.kind = {o.kind}  BY <3>2, <4>4, <4>5 DEF Keeps
      <4> QED  BY <4>3, <4>5, <4>6, BuiltOnce
    <3> QED  BY <3>1, <3>2
  <2>3. CASE ClearCache  BY <2>3, EmptiedInv DEF ClearCache
  <2>4. CASE Age
    <3>1. /\ cache' = [cache EXCEPT !.age = @ + 1] /\ UNCHANGED <<headers, life>> /\ cache \in Caches
      BY <2>4 DEF Age, HeaderInv
    <3>2. cache' \in Caches /\ cache'.nonce = cache.nonce /\ cache'.kind = cache.kind /\ cache'.nc = cache.nc
      BY <3>1 DEF Caches
    <3> QED
      BY <3>1, <3>2 DEF HeaderInv, InCacheInv, CountsOnce, OneUse, Counts, Challenged
  <2>5. CASE UNCHANGED digestVars
    BY <2>5 DEF digestVars, HeaderInv, InCacheInv, CountsOnce, OneUse, Counts, Challenged
  <2> QED  BY <2>1, <2>2, <2>3, <2>4, <2>5 DEF DigestNext
<1>3. HeaderInv => CountsOnce  BY DEF HeaderInv
<1> QED  BY <1>1, <1>2, <1>3, PTL DEF DigestSpec

----------------------------------------------------------------------------
(* The runner of the Python bindings.                                      *)

ThreadPlaces == {"python", "starting", "hanging up", "stopping", "calling", "waiting", "returning"}
EventReceivers == [engine : Engines, next : Nat]
ThreadTypes == [at : ThreadPlaces, engine : SUBSET Engines, receiver : SUBSET EventReceivers, event : SUBSET Nat]

\* A receiver stands where the events given to Python end, but for the one its thread
\* holds; and since the first of them nothing is missing that it was not told of.
Kept(r, event) ==
    /\ r.engine \in Made /\ r.next <= emitted[r.engine]
    /\ event \subseteq {r.next} /\ (event # {} => 0 < r.next)
    /\ \A i \in DOMAIN given[r.engine] :
          given[r.engine][i] <= r.next /\ (event # {} => given[r.engine][i] < r.next)
    /\ given[r.engine] # <<>> =>
          Head(given[r.engine]) .. r.next \subseteq ToSet(given[r.engine]) \union event \union skipped[r.engine]

KeptInSlot(r) == Kept(r, {})
KeptBy(t, r) == Kept(r, thread[t].event)

\* An engine's receiver is in one place at a time.
OnePlace ==
    /\ \A r, q \in runner.receiver : r = q
    /\ \A t \in PyThreads : \A r, q \in thread[t].receiver : r = q
    /\ \A t \in PyThreads : \A r \in thread[t].receiver, q \in runner.receiver : r.engine # q.engine
    /\ \A t, u \in PyThreads : t # u =>
          \A r \in thread[t].receiver, q \in thread[u].receiver : r.engine # q.engine

RunnerTypes ==
    /\ thread \in [PyThreads -> ThreadTypes]
    /\ runner \in [running : BOOLEAN, engine : SUBSET Engines, receiver : SUBSET EventReceivers]
    /\ emitted \in [Engines -> Nat \union {Unmade}]
    /\ given \in [Engines -> Seq(Nat)] /\ skipped \in [Engines -> SUBSET Nat]
    /\ runner.engine \subseteq Made /\ stopped \subseteq Made
    /\ \A t \in PyThreads : thread[t].engine \subseteq Made

RunnerInv ==
    /\ RunnerTypes /\ OnePlace
    /\ \A t \in PyThreads : thread[t].at \notin {"waiting", "returning"} => thread[t].receiver = {}
    /\ \A t \in PyThreads : thread[t].at # "returning" => thread[t].event = {}
    /\ \A e \in Engines : \A i, j \in DOMAIN given[e] : i < j => given[e][i] < given[e][j]
    /\ \A e \in Engines : e \notin Made => given[e] = <<>>
    /\ \A r \in runner.receiver : KeptInSlot(r)
    /\ \A t \in PyThreads : \A r \in thread[t].receiver : KeptBy(t, r)

\* An event of one engine, another receiver of the runner or another thread's step
\* leaves a receiver where it stands.
LEMMA KeptOn ==
    ASSUME NEW r \in EventReceivers, NEW event, Kept(r, event),
           emitted \in [Engines -> Nat \union {Unmade}], emitted' \in [Engines -> Nat \union {Unmade}],
           \A e \in Engines : emitted[e] <= emitted'[e],
           given[r.engine] = given'[r.engine], skipped[r.engine] \subseteq skipped'[r.engine]
    PROVE  Kept(r, event)'
<1>1. r.engine \in Engines /\ r.next \in Nat  BY DEF EventReceivers
<1>2. emitted[r.engine] \in Nat /\ emitted'[r.engine] \in Nat /\ emitted[r.engine] <= emitted'[r.engine]
  BY <1>1 DEF Kept, Made, Unmade
<1>3. r.engine \in Made' /\ r.next <= emitted'[r.engine]
  BY <1>1, <1>2 DEF Kept, Made, Unmade
<1> QED  BY <1>3 DEF Kept

\* A thread that keeps the engine of its receiver, or puts none in the place of it.
LEMMA ThreadStep ==
    ASSUME RunnerInv, NEW t \in PyThreads, NEW th \in ThreadTypes,
           thread' = [thread EXCEPT ![t] = th],
           UNCHANGED <<runner, emitted, given>>,
           skipped' \in [Engines -> SUBSET Nat], \A e \in Engines : skipped[e] \subseteq skipped'[e],
           stopped' \subseteq Made, th.engine \subseteq Made,
           \A r, q \in th.receiver : r = q,
           \A r \in th.receiver : \E q \in thread[t].receiver : r.engine = q.engine,
           th.at \notin {"waiting", "returning"} => th.receiver = {},
           th.at # "returning" => th.event = {},
           \A r \in th.receiver : Kept(r, th.event)'
    PROVE  RunnerInv'
<1> USE DEF RunnerInv
<1>1. thread'[t] = th /\ \A u \in PyThreads : u # t => thread'[u] = thread[u]
  BY DEF RunnerTypes
<1>2. thread' \in [PyThreads -> ThreadTypes]  BY DEF RunnerTypes
<1>3. Made' = Made  BY DEF Made
<1>4. RunnerTypes'
  <2>1. \A u \in PyThreads : thread'[u].engine \subseteq Made'  BY <1>1, <1>3 DEF RunnerTypes
  <2> QED  BY <1>2, <1>3, <2>1 DEF RunnerTypes
<1>5. OnePlace'
  <2>1. \A u \in PyThreads : \A r \in thread'[u].receiver : \E q \in thread[u].receiver : r.engine = q.engine
    BY <1>1
  <2>2. \A u \in PyThreads : \A r, q \in thread'[u].receiver : r = q  BY <1>1 DEF OnePlace
  <2>3. \A u \in PyThreads : \A r \in thread'[u].receiver, q \in runner'.receiver : r.engine # q.engine
    BY <2>1 DEF OnePlace
  <2>4. \A u, v \in PyThreads : u # v =>
          \A r \in thread'[u].receiver, q \in thread'[v].receiver : r.engine # q.engine
    BY <2>1 DEF OnePlace
  <2> QED  BY <2>2, <2>3, <2>4 DEF OnePlace
<1>6. /\ emitted \in [Engines -> Nat \union {Unmade}] /\ emitted' \in [Engines -> Nat \union {Unmade}]
      /\ \A e \in Engines : emitted[e] <= emitted'[e]
      /\ \A e \in Engines : given[e] = given'[e] /\ skipped[e] \subseteq skipped'[e]
  BY DEF RunnerTypes, Unmade
<1>7. \A r \in runner'.receiver : KeptInSlot(r)'
  <2> SUFFICES ASSUME NEW r \in runner.receiver PROVE KeptInSlot(r)'
    OBVIOUS
  <2>1. r \in EventReceivers /\ r.engine \in Engines  BY DEF RunnerTypes, EventReceivers
  <2>2. Kept(r, {})  BY DEF KeptInSlot
  <2>3. Kept(r, {})'  BY <1>6, <2>1, <2>2, KeptOn
  <2> QED  BY <2>3 DEF KeptInSlot
<1>8. \A u \in PyThreads : \A r \in thread'[u].receiver : KeptBy(u, r)'
  <2> SUFFICES ASSUME NEW u \in PyThreads, NEW r \in thread'[u].receiver
               PROVE  KeptBy(u, r)'
    OBVIOUS
  <2>1. CASE u = t  BY <1>1, <2>1 DEF KeptBy, Kept
  <2>2. CASE u # t
    <3>1. thread'[u] = thread[u] /\ thread[u] \in ThreadTypes  BY <1>1, <2>2 DEF RunnerTypes
    <3>2. r \in EventReceivers /\ r.engine \in Engines /\ KeptBy(u, r)
      BY <3>1 DEF ThreadTypes, EventReceivers
    <3>3. PICK event : event = thread[u].event  OBVIOUS
    <3>4. Kept(r, event)  BY <3>2, <3>3 DEF KeptBy, Kept
    <3>5. Kept(r, event)'  BY <1>6, <3>2, <3>4, KeptOn
    <3> QED  BY <3>1, <3>3, <3>5 DEF KeptBy, Kept
  <2> QED  BY <2>1, <2>2
<1>9. /\ \A u \in PyThreads : thread'[u].at \notin {"waiting", "returning"} => thread'[u].receiver = {}
      /\ \A u \in PyThreads : thread'[u].at # "returning" => thread'[u].event = {}
  BY <1>1
<1> QED  BY <1>3, <1>4, <1>5, <1>7, <1>8, <1>9

\* start(), stop() and the calls, for a thread that holds no receiver.
LEMMA IdleSteps ==
    ASSUME RunnerInv, NEW t \in PyThreads,
           \/ StartBegins(t) \/ StartFails(t) \/ StopBegins(t)
           \/ EngineStops(t) \/ Uses(t) \/ CallReturns(t)
    PROVE  RunnerInv'
<1>1. /\ thread \in [PyThreads -> ThreadTypes] /\ thread[t] \in ThreadTypes
      /\ runner.engine \subseteq Made /\ runner.engine \in SUBSET Engines /\ stopped \subseteq Made
      /\ thread[t].engine \subseteq Made /\ skipped \in [Engines -> SUBSET Nat]
  BY DEF RunnerInv, RunnerTypes
<1>2. /\ thread[t].at \notin {"waiting", "returning"}
      /\ UNCHANGED <<runner, emitted, given, skipped>>
  BY DEF StartBegins, StartFails, StopBegins, EngineStops, Uses, CallReturns
<1>3. thread[t].receiver = {} /\ thread[t].event = {}  BY <1>2 DEF RunnerInv
<1>4. stopped' \subseteq Made
  BY <1>1 DEF StartBegins, StartFails, StopBegins, EngineStops, Uses, CallReturns
<1>5. PICK new \in ThreadTypes :
          /\ thread' = [thread EXCEPT ![t] = new]
          /\ new.at \notin {"waiting", "returning"} /\ new.receiver = {} /\ new.event = {}
          /\ new.engine \subseteq Made
  <2>1. CASE \E where \in {"starting", "stopping"} : Goes(t, where)
    <3>1. PICK where \in {"starting", "stopping"} : Goes(t, where)  BY <2>1
    <3> DEFINE new == [thread[t] EXCEPT !.at = where]
    <3>2. new \in ThreadTypes  BY <1>1 DEF ThreadTypes, ThreadPlaces
    <3>3. new.at = where /\ new.receiver = {} /\ new.event = {} /\ new.engine = thread[t].engine
      BY <1>1, <1>3 DEF ThreadTypes
    <3>4. thread' = [thread EXCEPT ![t] = new]  BY <3>1 DEF Goes, Becomes
    <3> HIDE DEF new
    <3> QED  BY <1>1, <3>2, <3>3, <3>4
  <2>2. CASE \E where \in {"python", "hanging up", "calling"}, e \in {{}, runner.engine} :
                Becomes(t, Thread(where, e, {}, {}))
    <3>1. PICK where \in {"python", "hanging up", "calling"}, e \in {{}, runner.engine} :
                Becomes(t, Thread(where, e, {}, {}))
      BY <2>2
    <3> DEFINE new == Thread(where, e, {}, {})
    <3>2. new \in ThreadTypes /\ thread' = [thread EXCEPT ![t] = new]
      BY <1>1, <3>1 DEF Becomes, Thread, ThreadTypes, ThreadPlaces
    <3>3. new.at = where /\ new.receiver = {} /\ new.event = {} /\ new.engine = e
      BY DEF Thread
    <3> HIDE DEF new
    <3> QED  BY <1>1, <3>2, <3>3
  <2> QED
    BY <2>1, <2>2 DEF StartBegins, StartFails, StopBegins, EngineStops, Uses, CallReturns, Returns, InPython
<1> QED  BY <1>1, <1>2, <1>4, <1>5, ThreadStep

\* The event, the lag or the timeout of a thread that has the receiver.
LEMMA WaitingSteps ==
    ASSUME RunnerInv, NEW t \in PyThreads,
           Receives(t) \/ FallsBehind(t) \/ NothingComes(t)
    PROVE  RunnerInv'
<1> USE RunnerAssumption
<1>1. /\ thread \in [PyThreads -> ThreadTypes] /\ thread[t] \in ThreadTypes /\ stopped \subseteq Made
      /\ thread[t].engine \subseteq Made /\ skipped \in [Engines -> SUBSET Nat]
      /\ emitted \in [Engines -> Nat \union {Unmade}]
      /\ \A r, q \in thread[t].receiver : r = q
  BY DEF RunnerInv, RunnerTypes, OnePlace
<1>2. thread[t].at = "waiting" /\ thread[t].event = {} /\ UNCHANGED <<runner, emitted, given, stopped>>
  BY DEF Receives, FallsBehind, NothingComes, RunnerInv
<1>3. ASSUME NEW r \in thread[t].receiver
      PROVE  /\ r \in EventReceivers /\ r.engine \in Engines /\ r.next \in Nat
             /\ r.engine \in Made /\ r.next <= emitted[r.engine] /\ emitted[r.engine] \in Nat
             /\ \A i \in DOMAIN given[r.engine] :
                   given[r.engine][i] \in Nat /\ given[r.engine][i] <= r.next
             /\ given[r.engine] # <<>> =>
                  Head(given[r.engine]) .. r.next \subseteq ToSet(given[r.engine]) \union skipped[r.engine]
             /\ given[r.engine] \in Seq(Nat) /\ skipped[r.engine] \subseteq Nat
  BY <1>1, <1>2, <1>3 DEF RunnerInv, RunnerTypes, KeptBy, Kept, ThreadTypes, EventReceivers, Made, Unmade
<1>4. ASSUME Receives(t) PROVE RunnerInv'
  <2>1. PICK r \in thread[t].receiver :
          /\ r.next < emitted[r.engine] /\ UNCHANGED skipped
          /\ Becomes(t, Thread("returning", {}, {Receiver(r.engine, r.next + 1)}, {r.next + 1}))
    BY <1>4 DEF Receives
  <2> DEFINE new == Thread("returning", {}, {Receiver(r.engine, r.next + 1)}, {r.next + 1})
  <2>2. thread' = [thread EXCEPT ![t] = new]  BY <2>1 DEF Becomes
  <2>3. Receiver(r.engine, r.next + 1) \in EventReceivers
    BY <1>3 DEF Receiver, EventReceivers
  <2>4. new \in ThreadTypes
    <3>1. {Receiver(r.engine, r.next + 1)} \in SUBSET EventReceivers /\ {r.next + 1} \in SUBSET Nat
      BY <1>3, <2>3
    <3> QED  BY <3>1 DEF Thread, ThreadTypes, ThreadPlaces
  <2>5. Kept(Receiver(r.engine, r.next + 1), {r.next + 1})'
    <3> DEFINE q == Receiver(r.engine, r.next + 1)
    <3>1. q.engine = r.engine /\ q.next = r.next + 1  BY DEF Receiver
    <3> HIDE DEF q
    <3>2. r.engine \in Made' /\ q.next <= emitted'[q.engine] /\ 0 < q.next
      BY <1>2, <1>3, <2>1, <3>1 DEF Made
    <3>3. \A i \in DOMAIN given[r.engine] : given[r.engine][i] <= q.next /\ given[r.engine][i] < q.next
      <4>1. \A i \in DOMAIN given[r.engine] : given[r.engine][i] \in Nat /\ given[r.engine][i] <= r.next
        BY <1>3
      <4> QED  BY <1>3, <3>1, <4>1
    <3>4. given[r.engine] # <<>> =>
            Head(given[r.engine]) .. q.next \subseteq
              ToSet(given[r.engine]) \union {q.next} \union skipped[r.engine]
      <4> SUFFICES ASSUME given[r.engine] # <<>>, NEW n \in Head(given[r.engine]) .. q.next
                   PROVE  n \in ToSet(given[r.engine]) \union {q.next} \union skipped[r.engine]
        OBVIOUS
      <4>1. Head(given[r.engine]) \in Nat  BY <1>3
      <4>2. n = q.next \/ n \in Head(given[r.engine]) .. r.next  BY <1>3, <3>1, <4>1
      <4> QED  BY <1>3, <4>2
    <3>5. Kept(q, {q.next})'  BY <1>2, <2>1, <3>1, <3>2, <3>3, <3>4 DEF Kept
    <3> QED  BY <3>1, <3>5 DEF q
  <2>6. PICK th \in ThreadTypes : th = new  BY <2>4
  <2>7. Receiver(r.engine, r.next + 1).engine = r.engine  BY DEF Receiver
  <2>8. th.receiver = {Receiver(r.engine, r.next + 1)} /\ th.event = {r.next + 1} /\ th.at = "returning"
        /\ th.engine = {}
    BY <2>6 DEF Thread
  <2>9. \A q \in th.receiver : Kept(q, th.event)'  BY <2>5, <2>8
  <2>10. \A e \in Engines : skipped[e] \subseteq skipped'[e]  BY <2>1
  <2>11. \A p, q \in th.receiver : p = q  BY <2>8
  <2>12. \A p \in th.receiver : \E q \in thread[t].receiver : p.engine = q.engine  BY <2>7, <2>8
  <2> HIDE DEF new
  <2> QED  BY <1>1, <1>2, <2>1, <2>2, <2>6, <2>8, <2>9, <2>10, <2>11, <2>12, ThreadStep
<1>5. ASSUME FallsBehind(t) PROVE RunnerInv'
  <2>1. PICK r \in thread[t].receiver :
          /\ Lags(r)
          /\ Becomes(t, Thread("returning", {}, {Receiver(r.engine, emitted[r.engine] - Backlogged)}, {}))
          /\ skipped' = [skipped EXCEPT ![r.engine] =
                           @ \union (r.next + 1 .. emitted[r.engine] - Backlogged)]
    BY <1>5 DEF FallsBehind
  <2>0. PICK q : q = Receiver(r.engine, emitted[r.engine] - Backlogged)  OBVIOUS
  <2>2. q.engine = r.engine /\ q.next = emitted[r.engine] - Backlogged  BY <2>0 DEF Receiver
  <2>3. q.next \in Nat /\ r.next < q.next /\ q.next <= emitted[r.engine]
    BY <1>3, <2>1, <2>2 DEF Lags
  <2>4. q \in EventReceivers  BY <1>3, <2>0, <2>2, <2>3 DEF Receiver, EventReceivers
  <2> DEFINE new == Thread("returning", {}, {q}, {})
  <2>5. thread' = [thread EXCEPT ![t] = new]  BY <2>0, <2>1 DEF Becomes
  <2>6. new \in ThreadTypes  BY <1>1, <2>4 DEF Thread, ThreadTypes, ThreadPlaces
  <2>7. /\ skipped' \in [Engines -> SUBSET Nat]
        /\ skipped'[r.engine] = skipped[r.engine] \union (r.next + 1 .. q.next)
        /\ \A e \in Engines : skipped[e] \subseteq skipped'[e]
    <3>1. r.next + 1 .. q.next \subseteq Nat  BY <1>3, <2>3
    <3>2. skipped' = [skipped EXCEPT ![r.engine] = skipped[r.engine] \union (r.next + 1 .. q.next)]
      BY <2>1, <2>2
    <3> QED  BY <1>1, <1>3, <3>1, <3>2
  <2>8. Kept(q, {})'
    <3>1. r.engine \in Made'  BY <1>2, <1>3 DEF Made
    <3>2. \A i \in DOMAIN given[r.engine] : given[r.engine][i] <= q.next
      <4>1. \A i \in DOMAIN given[r.engine] : given[r.engine][i] \in Nat /\ given[r.engine][i] <= r.next
        BY <1>3
      <4>2. emitted[r.engine] \in Nat /\ r.next \in Nat  BY <1>3
      <4> QED  BY <2>3, <4>1, <4>2
    <3>3. given[r.engine] # <<>> =>
            Head(given[r.engine]) .. q.next \subseteq ToSet(given[r.engine]) \union skipped'[r.engine]
      <4> SUFFICES ASSUME given[r.engine] # <<>>, NEW n \in Head(given[r.engine]) .. q.next
                   PROVE  n \in ToSet(given[r.engine]) \union skipped'[r.engine]
        OBVIOUS
      <4>1. Head(given[r.engine]) \in Nat  BY <1>3
      <4>2. n \in r.next + 1 .. q.next \/ n \in Head(given[r.engine]) .. r.next
        BY <1>3, <2>3, <4>1
      <4> QED  BY <1>3, <2>7, <4>2
    <3>4. q.engine \in Made' /\ q.next <= emitted'[q.engine]  BY <1>2, <2>2, <2>3, <3>1
    <3>5. \A i \in DOMAIN given'[q.engine] : given'[q.engine][i] <= q.next
      BY <1>2, <2>2, <3>2
    <3>6. given'[q.engine] # <<>> =>
            Head(given'[q.engine]) .. q.next \subseteq ToSet(given'[q.engine]) \union {} \union skipped'[q.engine]
      <4>1. given' = given  BY <1>2
      <4> QED  BY <2>2, <3>3, <4>1
    <3>7. {} \subseteq {q.next} /\ ({} # {} => 0 < q.next)  OBVIOUS
    <3>8. \A i \in DOMAIN given'[q.engine] :
             given'[q.engine][i] <= q.next /\ ({} # {} => given'[q.engine][i] < q.next)
      BY <3>5
    <3> QED  BY <3>4, <3>6, <3>7, <3>8 DEF Kept
  <2>9. PICK th \in ThreadTypes : th = new  BY <2>6
  <2>10. th.receiver = {q} /\ th.event = {} /\ th.at = "returning" /\ th.engine = {}
    BY <2>9 DEF Thread
  <2>11. \A p \in th.receiver : Kept(p, th.event)'  BY <2>8, <2>10 DEF Kept
  <2>12. \A p, o \in th.receiver : p = o  BY <2>10
  <2>13. \A p \in th.receiver : \E o \in thread[t].receiver : p.engine = o.engine  BY <2>2, <2>10
  <2> HIDE DEF new
  <2> QED  BY <1>1, <1>2, <2>5, <2>7, <2>9, <2>10, <2>11, <2>12, <2>13, ThreadStep
<1>6. ASSUME NothingComes(t) PROVE RunnerInv'
  <2> DEFINE new == [thread[t] EXCEPT !.at = "returning"]
  <2>1. thread' = [thread EXCEPT ![t] = new] /\ UNCHANGED skipped
    BY <1>6 DEF NothingComes, Goes, Becomes
  <2>2. new \in ThreadTypes  BY <1>1 DEF ThreadTypes, ThreadPlaces
  <2>3. PICK th \in ThreadTypes : th = new  BY <2>2
  <2>4. th.receiver = thread[t].receiver /\ th.event = {} /\ th.at = "returning" /\ th.engine = thread[t].engine
    BY <1>1, <1>2, <2>3 DEF ThreadTypes
  <2>5. \A q \in th.receiver : Kept(q, th.event)'
    <3> SUFFICES ASSUME NEW q \in th.receiver PROVE Kept(q, {})'  BY <2>4 DEF Kept
    <3>1. KeptBy(t, q)  BY <2>4 DEF RunnerInv
    <3>2. Kept(q, {})  BY <1>2, <3>1 DEF KeptBy
    <3> QED  BY <1>2, <2>1, <3>2 DEF Kept, Made
  <2>6. \A p \in th.receiver : \E q \in thread[t].receiver : p.engine = q.engine  BY <2>4
  <2>7. \A e \in Engines : skipped[e] \subseteq skipped'[e]  BY <2>1
  <2>8. \A p, q \in th.receiver : p = q  BY <1>1, <2>4
  <2> HIDE DEF new
  <2> QED  BY <1>1, <1>2, <2>1, <2>3, <2>4, <2>5, <2>6, <2>7, <2>8, ThreadStep
<1> QED  BY <1>4, <1>5, <1>6

\* A thread gives Python the event it holds, if any.
LEMMA AtMostOneAsSeq ==
    /\ SetToSeq({}) = <<>>
    /\ \A n : SetToSeq({n}) = <<n>>
<1>1. SetToSeq({}) = <<>>
  <2>1. Cardinality({}) = 0  BY FS_EmptySet
  <2>2. \A f \in [1 .. 0 -> {}] : f = <<>>  OBVIOUS
  <2>3. <<>> \in [1 .. 0 -> {}] /\ IsInjective(<<>>)  BY DEF IsInjective
  <2> QED  BY <2>1, <2>2, <2>3 DEF SetToSeq
<1>2. ASSUME NEW n PROVE SetToSeq({n}) = <<n>>
  <2>1. Cardinality({n}) = 1  BY FS_Singleton
  <2>2. \A f \in [1 .. 1 -> {n}] : f = <<n>>  OBVIOUS
  <2>3. <<n>> \in [1 .. 1 -> {n}] /\ IsInjective(<<n>>)  BY DEF IsInjective
  <2> QED  BY <2>1, <2>2, <2>3 DEF SetToSeq
<1> QED  BY <1>1, <1>2

\* A new engine, whose receiver goes into the slot.
LEMMA StartSteps ==
    ASSUME RunnerInv, NEW t \in PyThreads, StartReturns(t)
    PROVE  RunnerInv'
<1>1. PICK early \in 0 .. 1, e \in Engines \ Made :
          /\ thread[t].at = "starting"
          /\ thread' = [thread EXCEPT ![t] = InPython]
          /\ emitted' = [emitted EXCEPT ![e] = early]
          /\ runner' = [running |-> TRUE, engine |-> {e}, receiver |-> {Receiver(e, early)}]
          /\ UNCHANGED <<stopped, given, skipped>>
  BY DEF StartReturns, Returns, Becomes
<1>2. RunnerTypes  BY DEF RunnerInv
<1>3. InPython \in ThreadTypes /\ InPython.receiver = {} /\ InPython.event = {} /\ InPython.at = "python"
      /\ InPython.engine = {}
  BY DEF InPython, Thread, ThreadTypes, ThreadPlaces
<1>4. /\ thread' \in [PyThreads -> ThreadTypes] /\ thread'[t] = InPython
      /\ \A u \in PyThreads : u # t => thread'[u] = thread[u]
  BY <1>1, <1>2, <1>3 DEF RunnerTypes
<1>5. /\ emitted' \in [Engines -> Nat \union {Unmade}] /\ emitted'[e] = early
      /\ \A f \in Engines : emitted[f] <= emitted'[f]
      /\ Made' = Made \union {e}
  <2>1. emitted[e] = Unmade  BY <1>1 DEF Made
  <2>2. emitted \in [Engines -> Nat \union {-1}] /\ early \in Nat /\ e \in Engines
    BY <1>1, <1>2 DEF RunnerTypes, Unmade
  <2>3. \A f \in Engines : emitted'[f] = IF f = e THEN early ELSE emitted[f]  BY <1>1, <2>2
  <2>4. emitted' \in [Engines -> Nat \union {-1}]  BY <1>1, <2>2
  <2>5. \A f \in Engines : emitted[f] <= emitted'[f]  BY <2>1, <2>2, <2>3 DEF Unmade
  <2>6. \A f \in Engines : f \in Made' <=> (f \in Made \/ f = e)  BY <2>2, <2>3 DEF Made, Unmade
  <2>7. Made' \subseteq Engines /\ Made \subseteq Engines  BY DEF Made
  <2> QED  BY <2>2, <2>3, <2>4, <2>5, <2>6, <2>7 DEF Unmade
<1>6. PICK q \in EventReceivers : q = Receiver(e, early) /\ q.engine = e /\ q.next = early
  <2> DEFINE new == Receiver(e, early)
  <2>1. new \in EventReceivers /\ new.engine = e /\ new.next = early
    BY <1>1 DEF Receiver, EventReceivers
  <2> QED  BY <2>1
<1>7. runner'.receiver = {q} /\ runner'.engine = {e}  BY <1>1, <1>6
<1>8. RunnerTypes'
  <2>1. runner' \in [running : BOOLEAN, engine : SUBSET Engines, receiver : SUBSET EventReceivers]
    BY <1>1, <1>6
  <2>2. \A u \in PyThreads : thread'[u].engine \subseteq Made'
    BY <1>2, <1>3, <1>4, <1>5 DEF RunnerTypes
  <2> QED  BY <1>1, <1>2, <1>4, <1>5, <1>7, <2>1, <2>2 DEF RunnerTypes
<1>9. \A u \in PyThreads : \A r \in thread'[u].receiver :
         u # t /\ r \in thread[u].receiver /\ r.engine \in Made /\ KeptBy(u, r)
  BY <1>3, <1>4 DEF RunnerInv, KeptBy, Kept
<1>10. OnePlace'
  <2>1. OnePlace  BY DEF RunnerInv
  <2>2. \A u \in PyThreads : \A r \in thread'[u].receiver, p \in runner'.receiver : r.engine # p.engine
    BY <1>1, <1>6, <1>7, <1>9
  <2> QED  BY <1>7, <1>9, <2>1, <2>2 DEF OnePlace
<1>11. \A r \in runner'.receiver : KeptInSlot(r)'
  <2>1. given'[e] = <<>>  BY <1>1 DEF RunnerInv
  <2> QED  BY <1>5, <1>6, <1>7, <2>1 DEF KeptInSlot, Kept
<1>12. \A u \in PyThreads : \A r \in thread'[u].receiver : KeptBy(u, r)'
  <2> SUFFICES ASSUME NEW u \in PyThreads, NEW r \in thread'[u].receiver PROVE KeptBy(u, r)'
    OBVIOUS
  <2>1. u # t /\ r \in thread[u].receiver /\ thread'[u] = thread[u] /\ KeptBy(u, r)  BY <1>4, <1>9
  <2>2. r \in EventReceivers  BY <1>2, <2>1 DEF RunnerTypes, ThreadTypes
  <2>3. PICK event : event = thread[u].event  OBVIOUS
  <2>4. Kept(r, event)  BY <2>1, <2>3 DEF KeptBy, Kept
  <2>5. Kept(r, event)'  BY <1>1, <1>2, <1>5, <2>2, <2>4, KeptOn DEF RunnerTypes
  <2> QED  BY <2>1, <2>3, <2>5 DEF KeptBy, Kept
<1>13. /\ \A u \in PyThreads : thread'[u].at \notin {"waiting", "returning"} => thread'[u].receiver = {}
       /\ \A u \in PyThreads : thread'[u].at # "returning" => thread'[u].event = {}
       /\ \A f \in Engines : \A i, j \in DOMAIN given'[f] : i < j => given'[f][i] < given'[f][j]
       /\ \A f \in Engines : f \notin Made' => given'[f] = <<>>
  BY <1>1, <1>3, <1>4, <1>5 DEF RunnerInv
<1> QED  BY <1>8, <1>10, <1>11, <1>12, <1>13 DEF RunnerInv

\* The slots are emptied; a receiver that was there is gone for good.
LEMMA StopSteps ==
    ASSUME RunnerInv, (\E t \in PyThreads : StopReturns(t)) \/ Drops
    PROVE  RunnerInv'
<1>1. /\ runner' = [running |-> FALSE, engine |-> {}, receiver |-> {}]
      /\ UNCHANGED <<emitted, given, skipped>>
      /\ stopped' \subseteq Made
  BY DEF StopReturns, Drops, RunnerInv, RunnerTypes
<1>2. /\ thread' \in [PyThreads -> ThreadTypes]
      /\ \A u \in PyThreads : thread'[u] \in {thread[u], InPython}
  <2>1. InPython \in ThreadTypes  BY DEF InPython, Thread, ThreadTypes, ThreadPlaces
  <2> QED  BY <2>1 DEF StopReturns, Drops, Returns, Becomes, RunnerInv, RunnerTypes
<1>3. /\ InPython.receiver = {} /\ InPython.event = {} /\ InPython.at = "python" /\ InPython.engine = {}
  BY DEF InPython, Thread
<1>4. \A u \in PyThreads : thread'[u].receiver # {} => thread'[u] = thread[u]  BY <1>2, <1>3
<1>5. Made' = Made  BY <1>1 DEF Made
<1>6. RunnerTypes'
  <2>1. \A u \in PyThreads : thread'[u].engine \subseteq Made'
    BY <1>2, <1>3, <1>5 DEF RunnerInv, RunnerTypes
  <2>2. runner' \in [running : BOOLEAN, engine : SUBSET Engines, receiver : SUBSET EventReceivers]
        /\ runner'.engine = {}
    BY <1>1
  <2> QED  BY <1>1, <1>2, <1>5, <2>1, <2>2 DEF RunnerInv, RunnerTypes
<1>7. OnePlace'
  <2>1. runner'.receiver = {}  BY <1>1
  <2> QED  BY <1>4, <2>1 DEF RunnerInv, OnePlace
<1>8. \A u \in PyThreads : \A r \in thread'[u].receiver : KeptBy(u, r)'
  BY <1>1, <1>4, <1>5 DEF RunnerInv, KeptBy, Kept
<1> QED  BY <1>1, <1>2, <1>3, <1>5, <1>6, <1>7, <1>8 DEF RunnerInv

\* The receiver goes from the slot to the thread that asks.
LEMMA TakeSteps ==
    ASSUME RunnerInv, NEW t \in PyThreads, TakesReceiver(t)
    PROVE  RunnerInv'
<1>1. PICK q \in runner.receiver :
          /\ thread[t].at = "python"
          /\ thread' = [thread EXCEPT ![t] = Thread("waiting", {}, {q}, {})]
          /\ runner' = [runner EXCEPT !.receiver = {}]
          /\ UNCHANGED <<emitted, stopped, given, skipped>>
  BY DEF TakesReceiver, Becomes
<1>2. RunnerTypes /\ OnePlace /\ q \in EventReceivers /\ KeptInSlot(q)
  BY DEF RunnerInv, RunnerTypes
<1>3. PICK th \in ThreadTypes :
          /\ th = Thread("waiting", {}, {q}, {})
          /\ th.at = "waiting" /\ th.engine = {} /\ th.receiver = {q} /\ th.event = {}
  <2> DEFINE new == Thread("waiting", {}, {q}, {})
  <2>1. {q} \in SUBSET EventReceivers  BY <1>2
  <2>2. new \in ThreadTypes /\ new.at = "waiting" /\ new.engine = {} /\ new.receiver = {q} /\ new.event = {}
    BY <2>1 DEF Thread, ThreadTypes, ThreadPlaces
  <2> HIDE DEF new
  <2>3. new = Thread("waiting", {}, {q}, {})  BY DEF new
  <2> QED  BY <2>2, <2>3
<1>4. /\ thread' \in [PyThreads -> ThreadTypes] /\ thread'[t] = th
      /\ \A u \in PyThreads : u # t => thread'[u] = thread[u]
  BY <1>1, <1>2, <1>3 DEF RunnerTypes
<1>5. Made' = Made /\ runner'.receiver = {} /\ runner'.engine = runner.engine
      /\ runner' \in [running : BOOLEAN, engine : SUBSET Engines, receiver : SUBSET EventReceivers]
  BY <1>1, <1>2 DEF Made, RunnerTypes
<1>6. RunnerTypes'
  <2>1. \A u \in PyThreads : thread'[u].engine \subseteq Made'
    BY <1>2, <1>3, <1>4, <1>5 DEF RunnerTypes
  <2> QED  BY <1>1, <1>2, <1>4, <1>5, <2>1 DEF RunnerTypes
<1>7. \A u \in PyThreads : \A r \in thread'[u].receiver :
         \/ u = t /\ r = q
         \/ u # t /\ r \in thread[u].receiver /\ r.engine # q.engine
  BY <1>1, <1>2, <1>3, <1>4 DEF OnePlace
<1>8. OnePlace'
  <2>1. \A u \in PyThreads : \A r, p \in thread'[u].receiver : r = p
    BY <1>2, <1>7 DEF OnePlace
  <2>2. \A u, v \in PyThreads : u # v =>
          \A r \in thread'[u].receiver, p \in thread'[v].receiver : r.engine # p.engine
    <3> SUFFICES ASSUME NEW u \in PyThreads, NEW v \in PyThreads, u # v,
                        NEW r \in thread'[u].receiver, NEW p \in thread'[v].receiver
                 PROVE  r.engine # p.engine
      OBVIOUS
    <3>1. CASE u = t  BY <1>7, <3>1
    <3>2. CASE v = t  BY <1>7, <3>2
    <3>3. CASE u # t /\ v # t
      <4>1. r \in thread[u].receiver /\ p \in thread[v].receiver  BY <1>7, <3>3
      <4> QED  BY <1>2, <4>1 DEF OnePlace
    <3> QED  BY <3>1, <3>2, <3>3
  <2> QED  BY <1>5, <2>1, <2>2 DEF OnePlace
<1>9. \A u \in PyThreads : \A r \in thread'[u].receiver : KeptBy(u, r)'
  <2> SUFFICES ASSUME NEW u \in PyThreads, NEW r \in thread'[u].receiver PROVE KeptBy(u, r)'
    OBVIOUS
  <2>1. CASE u = t
    <3>1. r = q /\ thread'[u].event = {}  BY <1>3, <1>4, <1>7, <2>1
    <3>2. Kept(q, {})  BY <1>2 DEF KeptInSlot
    <3>3. Kept(q, {})'  BY <1>1, <1>5, <3>2 DEF Kept
    <3> QED  BY <3>1, <3>3 DEF KeptBy, Kept
  <2>2. CASE u # t
    <3>1. thread'[u] = thread[u] /\ KeptBy(u, r)  BY <1>4, <2>2 DEF RunnerInv
    <3> QED  BY <1>1, <1>5, <3>1 DEF KeptBy, Kept
  <2> QED  BY <2>1, <2>2
<1>10. /\ \A u \in PyThreads : thread'[u].at \notin {"waiting", "returning"} => thread'[u].receiver = {}
       /\ \A u \in PyThreads : thread'[u].at # "returning" => thread'[u].event = {}
  BY <1>3, <1>4 DEF RunnerInv
<1> QED  BY <1>1, <1>5, <1>6, <1>8, <1>9, <1>10 DEF RunnerInv

\* The receiver goes back into the slot, and what its thread holds to Python.
LEMMA PutSteps ==
    ASSUME RunnerInv, NEW t \in PyThreads, PutsBack(t)
    PROVE  RunnerInv'
<1>1. PICK q \in thread[t].receiver :
          /\ thread' = [thread EXCEPT ![t] = InPython]
          /\ runner' = [runner EXCEPT !.receiver = {q}]
          /\ given' = [given EXCEPT ![q.engine] = given[q.engine] \o SetToSeq(thread[t].event)]
          /\ UNCHANGED <<emitted, stopped, skipped>>
  BY DEF PutsBack, Returns, Becomes
<1>2. RunnerTypes /\ OnePlace /\ q \in EventReceivers /\ KeptBy(t, q)
  BY DEF RunnerInv, RunnerTypes, ThreadTypes
<1>3. InPython \in ThreadTypes /\ InPython.receiver = {} /\ InPython.event = {} /\ InPython.at = "python"
      /\ InPython.engine = {}
  BY DEF InPython, Thread, ThreadTypes, ThreadPlaces
<1>4. /\ thread' \in [PyThreads -> ThreadTypes] /\ thread'[t] = InPython
      /\ \A u \in PyThreads : u # t => thread'[u] = thread[u]
  BY <1>1, <1>2, <1>3 DEF RunnerTypes
<1>5. /\ Made' = Made /\ runner'.receiver = {q} /\ runner'.engine = runner.engine
      /\ runner' \in [running : BOOLEAN, engine : SUBSET Engines, receiver : SUBSET EventReceivers]
  BY <1>1, <1>2 DEF Made, RunnerTypes
<1> DEFINE e == q.engine
           old == given[e]
           new == given'[e]
<1>6. e \in Engines /\ q.next \in Nat /\ old \in Seq(Nat) /\ skipped[e] \subseteq Nat
  BY <1>2 DEF EventReceivers, RunnerTypes
<1>7. PICK event \in {{}, {q.next}} : event = thread[t].event
  BY <1>2 DEF KeptBy, Kept
<1>8. Kept(q, event)  BY <1>2, <1>7 DEF KeptBy, Kept
<1>9. \/ event = {} /\ new = old
      \/ event = {q.next} /\ new = Append(old, q.next)
  <2>1. new = old \o SetToSeq(event)  BY <1>1, <1>2, <1>6, <1>7 DEF RunnerTypes
  <2>2. old \o <<>> = old /\ old \o <<q.next>> = Append(old, q.next)  BY <1>6
  <2> QED  BY <1>7, <2>1, <2>2, AtMostOneAsSeq
<1>10. /\ given' \in [Engines -> Seq(Nat)]
       /\ \A f \in Engines : f # e => given'[f] = given[f]
  <2>1. new \in Seq(Nat)  
    <3>1. Append(old, q.next) \in Seq(Nat)  BY <1>6
    <3> HIDE DEF old, new
    <3> QED  BY <1>6, <1>9, <3>1
  <2>2. given' = [given EXCEPT ![e] = new]  BY <1>1, <1>2, <1>6 DEF RunnerTypes
  <2> QED  BY <1>2, <2>1, <2>2 DEF RunnerTypes
<1>11. /\ \A i, j \in DOMAIN new : i < j => new[i] < new[j]
       /\ Kept(q, {})'
  <2>1. \A i, j \in DOMAIN old : i < j => old[i] < old[j]  BY <1>6 DEF RunnerInv
  <2>2. \A i \in DOMAIN old : old[i] \in Nat /\ old[i] <= q.next /\ (event # {} => old[i] < q.next)
    BY <1>6, <1>8 DEF Kept
  <2>3. old # <<>> => Head(old) .. q.next \subseteq ToSet(old) \union event \union skipped[e]
    BY <1>8 DEF Kept
  <2>4. e \in Made' /\ q.next <= emitted'[e]  BY <1>1, <1>5, <1>8 DEF Kept
  <2>5. /\ \A i, j \in DOMAIN new : i < j => new[i] < new[j]
        /\ \A i \in DOMAIN new : new[i] <= q.next
        /\ new # <<>> => Head(new) .. q.next \subseteq ToSet(new) \union skipped[e]
    <3>1. CASE event = {} /\ new = old  BY <2>1, <2>2, <2>3, <3>1
    <3>2. CASE event = {q.next} /\ new = Append(old, q.next)
      <4>1. /\ DOMAIN new = 1 .. (Len(old) + 1) /\ DOMAIN old = 1 .. Len(old) /\ Len(old) \in Nat
            /\ new[Len(old) + 1] = q.next /\ \A i \in 1 .. Len(old) : new[i] = old[i]
        BY <1>6, <3>2
      <4>2. \A i \in DOMAIN new :
              \/ i \in DOMAIN old /\ new[i] = old[i]
              \/ i = Len(old) + 1 /\ new[i] = q.next
        BY <4>1
      <4>3. \A i, j \in DOMAIN new : i < j => new[i] < new[j]
        <5> SUFFICES ASSUME NEW i \in DOMAIN new, NEW j \in DOMAIN new, i < j PROVE new[i] < new[j]
          OBVIOUS
        <5>1. i \in DOMAIN old /\ new[i] = old[i]  BY <4>1, <4>2
        <5> QED  BY <2>1, <2>2, <3>2, <4>2, <5>1
      <4>4. \A i \in DOMAIN new : new[i] <= q.next
        <5> SUFFICES ASSUME NEW i \in DOMAIN new PROVE new[i] <= q.next
          OBVIOUS
        <5> QED  BY <1>6, <2>2, <4>2
      <4>5. ToSet(new) = ToSet(old) \union {q.next}
        <5>1. \A i \in DOMAIN old : i \in DOMAIN new /\ new[i] = old[i]  BY <4>1
        <5>2. Len(old) + 1 \in DOMAIN new  BY <4>1
        <5> QED  BY <4>1, <4>2, <5>1, <5>2 DEF ToSet
      <4>6. Head(new) = IF old = <<>> THEN q.next ELSE Head(old)
        BY <1>6, <3>2, <4>1
      <4>7. old = <<>> => Head(new) .. q.next = {q.next}  BY <1>6, <4>6
      <4> QED  BY <2>3, <3>2, <4>3, <4>4, <4>5, <4>6, <4>7
    <3> QED  BY <1>9, <3>1, <3>2
  <2>6. skipped'[e] = skipped[e]  BY <1>1
  <2> HIDE DEF new
  <2>7. Kept(q, {})'
    <3>1. \A i \in DOMAIN given'[q.engine] : given'[q.engine][i] <= q.next  BY <2>5 DEF new
    <3>2. given'[q.engine] # <<>> =>
            Head(given'[q.engine]) .. q.next \subseteq ToSet(given'[q.engine]) \union {} \union skipped'[q.engine]
      BY <2>5, <2>6 DEF new
    <3> QED  BY <2>4, <3>1, <3>2 DEF Kept
  <2> QED  BY <2>5, <2>7
<1> HIDE DEF new, old
<1>12. RunnerTypes'
  <2>1. \A u \in PyThreads : thread'[u].engine \subseteq Made'
    BY <1>2, <1>3, <1>4, <1>5 DEF RunnerTypes
  <2> QED  BY <1>1, <1>2, <1>4, <1>5, <1>10, <2>1 DEF RunnerTypes
<1>13. \A u \in PyThreads : \A r \in thread'[u].receiver :
         u # t /\ r \in thread[u].receiver /\ r.engine # e /\ thread'[u] = thread[u]
  BY <1>2, <1>3, <1>4 DEF OnePlace
<1>14. OnePlace'
  <2>1. \A u, v \in PyThreads : u # v =>
          \A r \in thread'[u].receiver, p \in thread'[v].receiver : r.engine # p.engine
    BY <1>2, <1>13 DEF OnePlace
  <2>2. \A u \in PyThreads : \A r, p \in thread'[u].receiver : r = p  BY <1>2, <1>13 DEF OnePlace
  <2>3. \A u \in PyThreads : \A r \in thread'[u].receiver, p \in runner'.receiver : r.engine # p.engine
    BY <1>5, <1>13
  <2> QED  BY <1>5, <2>1, <2>2, <2>3 DEF OnePlace
<1>15. \A u \in PyThreads : \A r \in thread'[u].receiver : KeptBy(u, r)'
  <2> SUFFICES ASSUME NEW u \in PyThreads, NEW r \in thread'[u].receiver PROVE KeptBy(u, r)'
    OBVIOUS
  <2>1. r \in thread[u].receiver /\ r.engine # e /\ thread'[u] = thread[u]  BY <1>13
  <2>2. KeptBy(u, r) /\ r.engine \in Engines
    BY <1>2, <2>1 DEF RunnerInv, RunnerTypes, ThreadTypes, EventReceivers
  <2>3. given'[r.engine] = given[r.engine]  BY <1>10, <2>1, <2>2
  <2> QED  BY <1>1, <1>5, <2>1, <2>2, <2>3 DEF KeptBy, Kept
<1>16. /\ \A u \in PyThreads : thread'[u].at \notin {"waiting", "returning"} => thread'[u].receiver = {}
       /\ \A u \in PyThreads : thread'[u].at # "returning" => thread'[u].event = {}
  BY <1>3, <1>4 DEF RunnerInv
<1>17. /\ \A f \in Engines : \A i, j \in DOMAIN given'[f] : i < j => given'[f][i] < given'[f][j]
       /\ \A f \in Engines : f \notin Made' => given'[f] = <<>>
  <2>1. e \in Made  BY <1>8 DEF Kept
  <2> QED  BY <1>5, <1>10, <1>11, <2>1 DEF RunnerInv, new
<1>18. \A r \in runner'.receiver : KeptInSlot(r)'
  BY <1>5, <1>11 DEF KeptInSlot
<1> QED  BY <1>12, <1>14, <1>15, <1>16, <1>17, <1>18 DEF RunnerInv

\* An engine emits an event.
LEMMA SendSteps ==
    ASSUME RunnerInv, NEW e \in Engines, Sends(e)
    PROVE  RunnerInv'
<1>1. /\ emitted' = [emitted EXCEPT ![e] = emitted[e] + 1] /\ e \in Made
      /\ UNCHANGED <<runner, thread, stopped, given, skipped>>
  BY DEF Sends
<1>2. RunnerTypes  BY DEF RunnerInv
<1>3. emitted \in [Engines -> Nat \union {-1}] /\ emitted[e] \in Nat
  BY <1>1, <1>2 DEF RunnerTypes, Made, Unmade
<1>4. \A f \in Engines : emitted'[f] = IF f = e THEN emitted[e] + 1 ELSE emitted[f]
  BY <1>1, <1>3
<1>5. /\ emitted' \in [Engines -> Nat \union {Unmade}]
      /\ \A f \in Engines : emitted[f] <= emitted'[f]
  BY <1>1, <1>3, <1>4 DEF Unmade
<1>6. Made' = Made
  <2>1. \A f \in Engines : f \in Made' <=> f \in Made  BY <1>3, <1>4 DEF Made, Unmade
  <2>2. Made \subseteq Engines /\ Made' \subseteq Engines  BY DEF Made
  <2> QED  BY <2>1, <2>2
<1>7. RunnerTypes'  BY <1>1, <1>2, <1>5, <1>6 DEF RunnerTypes
<1>8. OnePlace'  BY <1>1 DEF RunnerInv, OnePlace
<1>9. \A r \in runner'.receiver : KeptInSlot(r)'
  <2> SUFFICES ASSUME NEW r \in runner.receiver PROVE KeptInSlot(r)'  BY <1>1
  <2>1. r \in EventReceivers /\ Kept(r, {})  BY <1>2 DEF RunnerInv, RunnerTypes, KeptInSlot
  <2>2. Kept(r, {})'  BY <1>1, <1>2, <1>5, <2>1, KeptOn DEF RunnerTypes
  <2> QED  BY <2>2 DEF KeptInSlot
<1>10. \A u \in PyThreads : \A r \in thread'[u].receiver : KeptBy(u, r)'
  <2> SUFFICES ASSUME NEW u \in PyThreads, NEW r \in thread[u].receiver PROVE KeptBy(u, r)'  BY <1>1
  <2>1. r \in EventReceivers /\ KeptBy(u, r)  BY <1>2 DEF RunnerInv, RunnerTypes, ThreadTypes
  <2>2. PICK event : event = thread[u].event  OBVIOUS
  <2>3. Kept(r, event)  BY <2>1, <2>2 DEF KeptBy, Kept
  <2>4. Kept(r, event)'  BY <1>1, <1>2, <1>5, <2>1, <2>3, KeptOn DEF RunnerTypes
  <2> QED  BY <1>1, <2>2, <2>4 DEF KeptBy, Kept
<1> QED  BY <1>1, <1>6, <1>7, <1>8, <1>9, <1>10 DEF RunnerInv

\* Events reach Python in the order they were emitted, once each, and none is missing
\* that a receiver was not told of, whichever threads ask and whatever is started and
\* stopped in between.
THEOREM EventsInOrderHolds == RunnerSpec => []EventsInOrder
<1>1. RunnerInit => RunnerInv
  <2> SUFFICES ASSUME RunnerInit PROVE RunnerInv  OBVIOUS
  <2>1. /\ InPython \in ThreadTypes /\ InPython.receiver = {} /\ InPython.event = {}
        /\ InPython.at = "python" /\ InPython.engine = {}
    BY DEF InPython, Thread, ThreadTypes, ThreadPlaces
  <2>2. RunnerTypes  BY <2>1 DEF RunnerInit, RunnerTypes
  <2>3. OnePlace  BY <2>1 DEF RunnerInit, OnePlace
  <2> QED  BY <2>1, <2>2, <2>3 DEF RunnerInit, RunnerInv
<1>2. RunnerInv /\ [RunnerNext]_runnerVars => RunnerInv'
  <2> SUFFICES ASSUME RunnerInv, [RunnerNext]_runnerVars PROVE RunnerInv'  OBVIOUS
  <2>1. CASE UNCHANGED runnerVars
    BY <2>1 DEF runnerVars, RunnerInv, RunnerTypes, OnePlace, Made, KeptInSlot, KeptBy, Kept
  <2>2. CASE RunnerNext
    BY <2>2, IdleSteps, WaitingSteps, StartSteps, StopSteps, TakeSteps, PutSteps, SendSteps DEF RunnerNext
  <2> QED  BY <2>1, <2>2
<1>3. RunnerInv => EventsInOrder
  <2> SUFFICES ASSUME RunnerInv, NEW e \in Engines
               PROVE  /\ \A i, j \in DOMAIN given[e] : i < j => given[e][i] < given[e][j]
                      /\ \A r \in Receivers : (r.engine = e /\ given[e] # <<>>) =>
                            Head(given[e]) .. r.next \subseteq ToSet(given[e]) \union
                              (UNION {thread[t].event : t \in {t \in PyThreads : \E q \in thread[t].receiver : q.engine = e}})
                              \union skipped[e]
    BY DEF EventsInOrder
  <2> DEFINE InHand == UNION {thread[t].event : t \in {t \in PyThreads : \E r \in thread[t].receiver : r.engine = e}}
  <2>1. ASSUME NEW r \in Receivers, r.engine = e, given[e] # <<>>
        PROVE  Head(given[e]) .. r.next \subseteq ToSet(given[e]) \union InHand \union skipped[e]
    <3>1. CASE r \in runner.receiver
      BY <2>1, <3>1 DEF RunnerInv, KeptInSlot, Kept
    <3>2. CASE \E t \in PyThreads : r \in thread[t].receiver
      <4>1. PICK t \in PyThreads : r \in thread[t].receiver  BY <3>2
      <4>2. thread[t].event \subseteq InHand  BY <2>1, <4>1
      <4>3. Head(given[e]) .. r.next \subseteq ToSet(given[e]) \union thread[t].event \union skipped[e]
        BY <2>1, <4>1 DEF RunnerInv, KeptBy, Kept
      <4> QED  BY <4>2, <4>3
    <3> QED  BY <3>1, <3>2 DEF Receivers
  <2> QED  BY <2>1 DEF RunnerInv
<1> QED  BY <1>1, <1>2, <1>3, PTL DEF RunnerSpec

----------------------------------------------------------------------------
(* The listener.                                                           *)

Calls == [id : CallIds \union Outbound, inbound : BOOLEAN, key : Nat]
Invites == [id : CallIds, at : {"trying", "setup"}]

\* The stamps kept are those of the last INVITEs admitted; whatever was forgotten is a
\* second old.
Forgotten(k) ==
    /\ request_timestamps = SubSeq(admitted, k + 1, Len(admitted))
    /\ \A i \in 1 .. k : clock - admitted[i] >= Second

RateInv ==
    /\ clock \in Nat /\ admitted \in Seq(Nat)
    /\ \A i \in DOMAIN admitted : admitted[i] <= clock
    /\ \A i, j \in DOMAIN admitted : i <= j => admitted[i] <= admitted[j]
    /\ \E k \in 0 .. Len(admitted) : Forgotten(k)
    /\ \A i, j \in DOMAIN admitted : j >= i + MaxRate => admitted[j] - admitted[i] >= Second

\* The listener handles one INVITE at a time: what it saw when it looked at the
\* Call-ID and at max_calls still holds when it stores the session.
CallInv ==
    /\ inbox \in Seq(Requests)
    /\ sessions \subseteq Calls /\ IsFiniteSet(sessions)
    /\ handling \subseteq Invites /\ \A h, g \in handling : h = g
    /\ \A s, r \in Inbound : s.id = r.id => s = r
    /\ MaxCalls > 0 => Cardinality(Inbound) <= MaxCalls
    /\ \A h \in handling : h.at = "setup" =>
          ~Known(h.id) /\ (MaxCalls > 0 => Cardinality(Inbound) < MaxCalls)

\* A set of positions that has, with each, all those before it is a beginning.
LEMMA Beginning ==
    ASSUME NEW n \in Nat, NEW S \in SUBSET (1 .. n), \A i \in S : 1 .. i \subseteq S
    PROVE  Cardinality(S) \in 0 .. n /\ S = 1 .. Cardinality(S)
<1>1. IsFiniteSet(1 .. n) /\ Cardinality(1 .. n) = n  BY FS_Interval
<1>2. IsFiniteSet(S) /\ Cardinality(S) <= n  BY <1>1, FS_Subset
<1>3. Cardinality(S) \in Nat  BY <1>2, FS_CardinalityType
<1>4. ASSUME NEW i \in S PROVE i <= Cardinality(S)
  <2>1. Cardinality(1 .. i) = i  BY FS_Interval
  <2>2. Cardinality(1 .. i) <= Cardinality(S)  BY <1>2, FS_Subset
  <2> QED  BY <2>1, <2>2
<1>5. ASSUME NEW j \in 1 .. n, j \notin S PROVE j > Cardinality(S)
  <2>1. \A i \in S : j \notin 1 .. i  BY <1>5
  <2>2. S \subseteq 1 .. (j - 1)  BY <2>1
  <2>3. IsFiniteSet(1 .. (j - 1)) /\ Cardinality(1 .. (j - 1)) = j - 1  BY FS_Interval
  <2>4. Cardinality(S) <= j - 1  BY <2>2, <2>3, FS_Subset
  <2> QED  BY <1>3, <2>4
<1>6. Cardinality(S) \in 0 .. n  BY <1>2, <1>3
<1> DEFINE m == Cardinality(S)
<1> HIDE DEF m
<1>7. m \in Nat /\ (\A i \in S : i <= m) /\ (\A j \in 1 .. n : j \notin S => j > m) /\ m <= n
  BY <1>2, <1>3, <1>4, <1>5 DEF m
<1>8. \A i \in S : i \in 1 .. m  BY <1>7
<1>9. \A i \in 1 .. m : i \in S  BY <1>7
<1>10. S = 1 .. m  BY <1>8, <1>9
<1> QED  BY <1>6, <1>10 DEF m

\* What is left of a sequence without its beginning.
LEMMA Remains ==
    ASSUME NEW s \in Seq(Nat), NEW m \in 0 .. Len(s)
    PROVE  /\ SubSeq(s, m + 1, Len(s)) \in Seq(Nat)
           /\ Len(SubSeq(s, m + 1, Len(s))) = Len(s) - m
           /\ \A i \in 1 .. (Len(s) - m) : SubSeq(s, m + 1, Len(s))[i] = s[m + i]
<1> DEFINE n == Len(s)
<1>1. n \in Nat /\ m \in Nat /\ m <= n /\ \A i \in 1 .. n : s[i] \in Nat  OBVIOUS
<1> HIDE DEF n
<1>2. \A i \in (m + 1) .. n : s[i] \in Nat  BY <1>1
<1> DEFINE a == SubSeq(s, m + 1, n)
<1>3. /\ a \in Seq(Nat) /\ Len(a) = IF m + 1 <= n THEN n - (m + 1) + 1 ELSE 0
      /\ \A i \in 1 .. n - (m + 1) + 1 : a[i] = s[(m + 1) + i - 1]
  BY <1>1, <1>2, SubSeqProperties
<1> HIDE DEF a
<1>4. Len(a) = n - m  BY <1>1, <1>3
<1>5. \A i \in 1 .. (n - m) : a[i] = s[m + i]
  <2> SUFFICES ASSUME NEW i \in 1 .. (n - m) PROVE a[i] = s[m + i]  OBVIOUS
  <2>1. i \in 1 .. n - (m + 1) + 1 /\ (m + 1) + i - 1 = m + i  BY <1>1
  <2> QED  BY <1>3, <2>1
<1> QED  BY <1>3, <1>4, <1>5 DEF a, n

\* What retain() leaves of the stamps.
LEMMA RetainedIs ==
    ASSUME RateInv
    PROVE  \E k \in 0 .. Len(admitted) :
             /\ Retained = SubSeq(admitted, k + 1, Len(admitted))
             /\ \A i \in 1 .. k : clock - admitted[i] >= Second
<1> USE ListenerAssumption
<1>1. PICK k \in 0 .. Len(admitted) : Forgotten(k)  BY DEF RateInv
<1> DEFINE n == Len(admitted)
           stale == {i \in DOMAIN request_timestamps : clock - request_timestamps[i] >= Second}
<1>2. /\ admitted \in Seq(Nat) /\ n \in Nat /\ clock \in Nat /\ k \in Nat /\ k <= n
      /\ \A i \in 1 .. n : admitted[i] \in Nat
      /\ \A i, j \in 1 .. n : i <= j => admitted[i] <= admitted[j]
  BY DEF RateInv
<1>3. /\ request_timestamps \in Seq(Nat) /\ Len(request_timestamps) = n - k
      /\ \A i \in 1 .. (n - k) : request_timestamps[i] = admitted[k + i]
  BY <1>1, <1>2, Remains DEF Forgotten
<1>4. stale \subseteq 1 .. (n - k) /\ n - k \in Nat
  <2>1. DOMAIN request_timestamps = 1 .. (n - k)  BY <1>3
  <2> QED  BY <1>2, <2>1
<1>5. \A i \in stale : 1 .. i \subseteq stale
  <2> SUFFICES ASSUME NEW i \in stale, NEW j \in 1 .. i PROVE j \in stale
    OBVIOUS
  <2>1. j \in 1 .. (n - k) /\ k + j \in 1 .. n /\ k + i \in 1 .. n /\ k + j <= k + i
    <3>1. i \in 1 .. (n - k) /\ n \in Nat /\ k \in Nat /\ k <= n  BY <1>2, <1>4
    <3> HIDE DEF n, stale
    <3> QED  BY <3>1
  <2>2. admitted[k + j] <= admitted[k + i]  BY <1>2, <2>1
  <2>3. clock - admitted[k + i] >= Second  BY <1>3, <1>4
  <2>4. clock - admitted[k + j] >= Second  
    <3>1. admitted[k + j] \in Nat /\ admitted[k + i] \in Nat /\ clock \in Nat /\ Second \in Nat
      BY <1>2, <2>1
    <3> QED  BY <2>2, <2>3, <3>1
  <2> QED  BY <1>3, <2>1, <2>4
<1>6. PICK m \in 0 .. (n - k) : m = Cardinality(stale) /\ stale = 1 .. m
  BY <1>4, <1>5, Beginning
<1> HIDE DEF stale
<1>7. Retained = SubSeq(request_timestamps, m + 1, n - k)
  BY <1>3, <1>6 DEF Retained, SinceStale, stale
<1>8. SubSeq(request_timestamps, m + 1, n - k) = SubSeq(admitted, k + m + 1, n)
  <2> DEFINE a == SubSeq(request_timestamps, m + 1, n - k)
             b == SubSeq(admitted, k + m + 1, n)
  <2>1. a \in Seq(Nat) /\ Len(a) = (n - k) - m /\ \A i \in 1 .. ((n - k) - m) : a[i] = request_timestamps[m + i]
    <3>1. request_timestamps \in Seq(Nat) /\ Len(request_timestamps) = n - k /\ m \in 0 .. Len(request_timestamps)
      BY <1>3
    <3> HIDE DEF n
    <3> QED  BY <3>1, Remains
  <2>2. b \in Seq(Nat) /\ Len(b) = n - (k + m) /\ \A i \in 1 .. (n - (k + m)) : b[i] = admitted[k + m + i]
    <3>1. k + m \in 0 .. n  BY <1>2
    <3> QED  BY <1>2, <3>1, Remains
  <2> HIDE DEF a, b
  <2>3. \A i \in 1 .. ((n - k) - m) : a[i] = b[i]
    <3> SUFFICES ASSUME NEW i \in 1 .. ((n - k) - m) PROVE a[i] = b[i]
      OBVIOUS
    <3>1. m + i \in 1 .. (n - k) /\ k + (m + i) = k + m + i /\ i \in 1 .. (n - (k + m))  BY <1>2
    <3> QED  BY <1>3, <2>1, <2>2, <3>1
  <2>4. Len(a) = Len(b)  BY <1>2, <2>1, <2>2
  <2>5. a = b  BY <2>1, <2>2, <2>3, <2>4, SeqEqual
  <2> QED  BY <2>5 DEF a, b
<1>9. \A i \in 1 .. (k + m) : clock - admitted[i] >= Second
  <2> SUFFICES ASSUME NEW i \in 1 .. (k + m) PROVE clock - admitted[i] >= Second
    OBVIOUS
  <2>1. CASE i <= k  BY <1>1, <1>2, <2>1 DEF Forgotten
  <2>2. CASE i > k
    <3>1. i - k \in 1 .. m /\ k + (i - k) = i  BY <1>2, <2>2
    <3>2. i - k \in 1 .. (n - k) /\ clock - request_timestamps[i - k] >= Second
      BY <1>6, <3>1 DEF stale
    <3> QED  BY <1>3, <3>1, <3>2
  <2> QED  BY <1>2, <2>1, <2>2
<1>10. k + m \in 0 .. n  BY <1>2
<1> QED  BY <1>7, <1>8, <1>9, <1>10

\* One more admission: as many as MaxRate before it, the INVITE admitted then is forgotten.
LEMMA RateSteps ==
    ASSUME RateInv, ListenNext
    PROVE  RateInv'
<1> USE ListenerAssumption
<1> DEFINE n == Len(admitted)
<1>1. /\ admitted \in Seq(Nat) /\ n \in Nat /\ clock \in Nat
      /\ \A i \in 1 .. n : admitted[i] \in Nat /\ admitted[i] <= clock
      /\ \A i, j \in 1 .. n : i <= j => admitted[i] <= admitted[j]
      /\ \A i, j \in 1 .. n : j >= i + MaxRate => admitted[j] - admitted[i] >= Second
      /\ MaxRate \in Nat /\ MaxRate > 0 /\ Second \in Nat
  <2>1. MaxRate \in Nat /\ MaxRate > 0 /\ Second \in Nat  OBVIOUS
  <2>2. admitted \in Seq(Nat) /\ clock \in Nat  BY DEF RateInv
  <2>3. n \in Nat /\ DOMAIN admitted = 1 .. n /\ \A i \in 1 .. n : admitted[i] \in Nat  BY <2>2
  <2> QED  BY <2>1, <2>2, <2>3 DEF RateInv
<1>2. CASE UNCHANGED <<request_timestamps, admitted, clock>>
  BY <1>2 DEF RateInv, Forgotten
<1>3. CASE ListenTick
  <2>1. clock' = clock + 1 /\ UNCHANGED <<request_timestamps, admitted>>  BY <1>3 DEF ListenTick
  <2>2. PICK k \in 0 .. n : Forgotten(k)  BY DEF RateInv
  <2>3. \A i \in 1 .. k : clock' - admitted[i] >= Second
    <3> SUFFICES ASSUME NEW i \in 1 .. k PROVE clock' - admitted[i] >= Second
      OBVIOUS
    <3>1. clock - admitted[i] >= Second /\ i \in 1 .. n  BY <1>1, <2>2 DEF Forgotten
    <3>2. admitted[i] \in Nat  BY <1>1, <3>1
    <3> QED  BY <1>1, <2>1, <3>1, <3>2
  <2>4. Forgotten(k)'  BY <2>1, <2>2, <2>3 DEF Forgotten
  <2>5. \A i \in DOMAIN admitted' : admitted'[i] <= clock'
    <3> SUFFICES ASSUME NEW i \in 1 .. n PROVE admitted[i] <= clock + 1
      BY <1>1, <2>1
    <3> QED  BY <1>1
  <2> QED  BY <1>1, <2>1, <2>2, <2>4, <2>5 DEF RateInv
<1>4. CASE CheckInvite /\ ~UNCHANGED <<request_timestamps, admitted, clock>>
  <2>1. /\ request_timestamps' = IF WithinRate THEN Append(Retained, clock) ELSE Retained
        /\ admitted' = IF WithinRate THEN Append(admitted, clock) ELSE admitted
        /\ clock' = clock
    BY <1>4 DEF CheckInvite
  <2>2. PICK k \in 0 .. n :
          /\ Retained = SubSeq(admitted, k + 1, n)
          /\ \A i \in 1 .. k : clock - admitted[i] >= Second
    BY RetainedIs
  <2>3. /\ Retained \in Seq(Nat) /\ Len(Retained) = n - k
        /\ \A i \in 1 .. (n - k) : Retained[i] = admitted[k + i]
    BY <1>1, <2>2, Remains
  <2>4. CASE ~WithinRate
    <3>1. Forgotten(k)'  BY <2>1, <2>2, <2>4 DEF Forgotten
    <3> QED  BY <2>1, <2>4, <3>1 DEF RateInv
  <2>5. CASE WithinRate
    <3> DEFINE new == Append(admitted, clock)
    <3>1. /\ new \in Seq(Nat) /\ Len(new) = n + 1 /\ DOMAIN new = 1 .. (n + 1)
          /\ new[n + 1] = clock /\ \A i \in 1 .. n : new[i] = admitted[i]
      BY <1>1
    <3>2. n - k < MaxRate  BY <2>3, <2>5 DEF WithinRate
    <3> HIDE DEF new
    <3>3. admitted' = new /\ request_timestamps' = Append(Retained, clock) /\ clock' = clock
      BY <2>1, <2>5 DEF new
    <3>4. \A i \in DOMAIN new : new[i] \in Nat /\ new[i] <= clock
      <4> SUFFICES ASSUME NEW i \in DOMAIN new PROVE new[i] \in Nat /\ new[i] <= clock
        OBVIOUS
      <4>1. CASE i = n + 1  BY <1>1, <3>1, <4>1
      <4>2. CASE i # n + 1
        <5>1. i \in 1 .. n  BY <1>1, <3>1, <4>2
        <5> QED  BY <1>1, <3>1, <5>1
      <4> QED  BY <4>1, <4>2
    <3>5. \A i, j \in DOMAIN new : i <= j => new[i] <= new[j]
      <4> SUFFICES ASSUME NEW i \in DOMAIN new, NEW j \in DOMAIN new, i <= j PROVE new[i] <= new[j]
        OBVIOUS
      <4>1. CASE j = n + 1  BY <3>1, <3>4, <4>1
      <4>2. CASE j # n + 1
        <5>1. i \in 1 .. n /\ j \in 1 .. n  BY <1>1, <3>1, <4>2
        <5> QED  BY <1>1, <3>1, <5>1
      <4> QED  BY <4>1, <4>2
    <3>6. \A i, j \in DOMAIN new : j >= i + MaxRate => new[j] - new[i] >= Second
      <4> SUFFICES ASSUME NEW i \in DOMAIN new, NEW j \in DOMAIN new, j >= i + MaxRate
                   PROVE  new[j] - new[i] >= Second
        OBVIOUS
      <4>1. i \in 1 .. n /\ new[i] = admitted[i]
        <5>1. i \in 1 .. (n + 1) /\ j \in 1 .. (n + 1)  BY <3>1
        <5>2. i \in 1 .. n  BY <1>1, <5>1
        <5> QED  BY <3>1, <5>2
      <4>2. CASE j = n + 1
        <5>1. i \in 1 .. k  BY <1>1, <3>2, <4>1, <4>2
        <5> QED  BY <2>2, <3>1, <4>1, <4>2, <5>1
      <4>3. CASE j # n + 1
        <5>1. j \in 1 .. n /\ new[j] = admitted[j]  BY <3>1, <4>3
        <5> QED  BY <1>1, <4>1, <5>1
      <4> QED  BY <4>2, <4>3
    <3>7. Append(Retained, clock) = SubSeq(new, k + 1, n + 1)
      <4> DEFINE a == Append(Retained, clock)
                 b == SubSeq(new, k + 1, n + 1)
      <4>1. a \in Seq(Nat) /\ Len(a) = n - k + 1 /\ a[n - k + 1] = clock
            /\ \A i \in 1 .. (n - k) : a[i] = admitted[k + i]
        <5>1. a \in Seq(Nat) /\ Len(a) = Len(Retained) + 1 /\ a[Len(Retained) + 1] = clock
              /\ \A i \in 1 .. Len(Retained) : a[i] = Retained[i]
          BY <1>1, <2>3
        <5> QED  BY <2>3, <5>1
      <4>2. b \in Seq(Nat) /\ Len(b) = n + 1 - k /\ \A i \in 1 .. (n + 1 - k) : b[i] = new[k + i]
        <5>1. k \in 0 .. Len(new) /\ n + 1 = Len(new)  BY <1>1, <3>1
        <5> QED  BY <3>1, <5>1, Remains
      <4> HIDE DEF a, b
      <4>3. \A i \in 1 .. (n - k + 1) : a[i] = b[i]
        <5> SUFFICES ASSUME NEW i \in 1 .. (n - k + 1) PROVE a[i] = b[i]
          OBVIOUS
        <5>1. CASE i = n - k + 1
          <6>1. k + i = n + 1 /\ i \in 1 .. (n + 1 - k)  BY <1>1, <5>1
          <6> QED  BY <3>1, <4>1, <4>2, <5>1, <6>1
        <5>2. CASE i # n - k + 1
          <6>1. i \in 1 .. (n - k) /\ k + i \in 1 .. n /\ i \in 1 .. (n + 1 - k)  BY <1>1, <5>2
          <6> QED  BY <3>1, <4>1, <4>2, <6>1
        <5> QED  BY <5>1, <5>2
      <4>4. Len(a) = Len(b)  BY <1>1, <4>1, <4>2
      <4>5. a = b  BY <4>1, <4>2, <4>3, <4>4, SeqEqual
      <4> QED  BY <4>5 DEF a, b
    <3>8. \A i \in 1 .. k : clock - new[i] >= Second
      <4> SUFFICES ASSUME NEW i \in 1 .. k PROVE clock - new[i] >= Second
        OBVIOUS
      <4>1. i \in 1 .. n  BY <1>1
      <4> QED  BY <2>2, <3>1, <4>1
    <3>9. Forgotten(k)'  BY <3>1, <3>3, <3>7, <3>8 DEF Forgotten
    <3>10. k \in 0 .. Len(new)  BY <1>1, <3>1
    <3> QED  BY <1>1, <3>1, <3>3, <3>4, <3>5, <3>6, <3>9, <3>10 DEF RateInv
  <2> QED  BY <2>4, <2>5
<1>5. ListenTick \/ CheckInvite \/ UNCHANGED <<request_timestamps, admitted, clock>>
  BY DEF ListenNext, RequestArrives, TakeRequest, StoreSession, RefuseInvite, PlaceCall, CallOver, Pinged, StopListener
<1> QED  BY <1>2, <1>3, <1>4, <1>5

\* The sessions of incoming calls are some of all sessions.
LEMMA InboundFinite ==
    ASSUME IsFiniteSet(sessions)
    PROVE  /\ IsFiniteSet(Inbound) /\ Cardinality(Inbound) \in Nat /\ Cardinality(sessions) \in Nat
           /\ Cardinality(Inbound) <= Cardinality(sessions)
<1>1. Inbound \subseteq sessions  BY DEF Inbound
<1> QED  BY <1>1, FS_Subset, FS_CardinalityType

\* No session is added while the listener works on an INVITE but outbound ones.
LEMMA CallSteps ==
    ASSUME RateInv, CallInv, ListenNext
    PROVE  CallInv'
<1> USE ListenerAssumption
<1>1. /\ sessions \subseteq Calls /\ IsFiniteSet(sessions) /\ handling \subseteq Invites
      /\ inbox \in Seq(Requests) /\ \A h, g \in handling : h = g
      /\ \A h \in handling : h.id \in CallIds /\ h.at \in {"trying", "setup"}
  BY DEF CallInv, Invites
<1>2. CASE UNCHANGED <<sessions, handling>>
  <2>1. inbox' \in Seq(Requests)
    <3>1. \/ UNCHANGED inbox
          \/ \E r \in Requests : inbox' = Append(inbox, r)
          \/ inbox # <<>> /\ inbox' = Tail(inbox)
      BY DEF ListenNext, RequestArrives, TakeRequest, CheckInvite, StoreSession, RefuseInvite,
             PlaceCall, CallOver, Pinged, ListenTick, StopListener
    <3>2. ASSUME NEW r \in Requests, inbox' = Append(inbox, r) PROVE inbox' \in Seq(Requests)
      BY <1>1, <3>2, AppendProperties
    <3>3. CASE inbox # <<>> /\ inbox' = Tail(inbox)  BY <1>1, <3>3, HeadTailProperties
    <3>4. CASE UNCHANGED inbox  BY <1>1, <3>4
    <3> QED  BY <3>1, <3>2, <3>3, <3>4
  <2> QED  BY <1>2, <2>1 DEF CallInv, Inbound, Known
<1>3. CASE TakeRequest \/ RefuseInvite
  <2>1. UNCHANGED sessions /\ handling' \subseteq Invites /\ inbox' \in Seq(Requests)
        /\ (\A h, g \in handling' : h = g) /\ \A h \in handling' : h.at # "setup"
    <3>1. CASE RefuseInvite  BY <1>1, <3>1 DEF RefuseInvite
    <3>2. CASE TakeRequest
      <4>1. /\ UNCHANGED sessions /\ inbox # <<>> /\ inbox' = Tail(inbox)
            /\ handling' = IF Head(inbox) \in CallIds THEN {[id |-> Head(inbox), at |-> "trying"]} ELSE {}
        BY <3>2 DEF TakeRequest
      <4>2. inbox' \in Seq(Requests)  BY <1>1, <4>1
      <4>3. handling' \subseteq Invites  BY <4>1 DEF Invites
      <4>4. \A h \in handling' : h = [id |-> Head(inbox), at |-> "trying"]  BY <4>1
      <4> QED  BY <4>1, <4>2, <4>3, <4>4
    <3> QED  BY <1>3, <3>1, <3>2
  <2> QED  BY <1>1, <2>1 DEF CallInv, Inbound, Known
<1>4. CASE CheckInvite
  <2>1. PICK h \in handling :
          /\ h.at = "trying" /\ UNCHANGED <<inbox, sessions>>
          /\ \/ handling' = {}
             \/ /\ ~Known(h.id) /\ (MaxCalls > 0 => Cardinality(sessions) < MaxCalls)
                /\ handling' = {[h EXCEPT !.at = "setup"]}
    BY <1>4 DEF CheckInvite
  <2>2. CASE handling' = {}  BY <1>1, <2>1, <2>2 DEF CallInv, Inbound
  <2>3. CASE /\ ~Known(h.id) /\ (MaxCalls > 0 => Cardinality(sessions) < MaxCalls)
             /\ handling' = {[h EXCEPT !.at = "setup"]}
    <3>1. PICK g \in Invites : g = [h EXCEPT !.at = "setup"] /\ g.id = h.id
      <4> DEFINE new == [h EXCEPT !.at = "setup"]
      <4>1. new \in Invites /\ new.id = h.id  BY <1>1 DEF Invites
      <4> QED  BY <4>1
    <3>2. handling' = {g}  BY <2>3, <3>1
    <3>3. MaxCalls > 0 => Cardinality(Inbound) < MaxCalls  BY <1>1, <2>3, InboundFinite
    <3>4. Inbound' = Inbound  BY <2>1 DEF Inbound
    <3>5. ~Known(g.id)'  BY <2>3, <3>1, <3>4 DEF Known
    <3> QED  BY <1>1, <2>1, <3>2, <3>3, <3>4, <3>5 DEF CallInv
  <2> QED  BY <2>1, <2>2, <2>3
<1>5. CASE StoreSession
  <2>1. PICK h \in handling :
          /\ h.at = "setup" /\ handling' = {} /\ UNCHANGED <<inbox, admitted>>
          /\ sessions' = sessions \union {NewSession(h.id, TRUE, Len(admitted))}
    BY <1>5 DEF StoreSession
  <2> DEFINE new == NewSession(h.id, TRUE, Len(admitted))
  <2>2. new.id = h.id /\ new.inbound = TRUE  BY DEF NewSession
  <2>3. PICK s : s = new /\ s.id = h.id /\ s.inbound = TRUE  BY <2>2
  <2>4. ~Known(h.id) /\ (MaxCalls > 0 => Cardinality(Inbound) < MaxCalls)  BY <2>1 DEF CallInv
  <2>5. sessions' = sessions \union {s} /\ Inbound' = Inbound \union {s} /\ s \notin Inbound
    BY <2>1, <2>3, <2>4 DEF Inbound, Known
  <2>6. IsFiniteSet(sessions')  BY <1>1, <2>5, FS_AddElement
  <2>7. MaxCalls > 0 => Cardinality(Inbound') <= MaxCalls
    <3>1. IsFiniteSet(Inbound) /\ Cardinality(Inbound) \in Nat  BY <1>1, InboundFinite
    <3>2. Cardinality(Inbound') = Cardinality(Inbound) + 1  BY <2>5, <3>1, FS_AddElement
    <3> QED  BY <2>4, <3>1, <3>2
  <2>8. \A r, q \in Inbound' : r.id = q.id => r = q
    <3>1. \A r \in Inbound : r.id # s.id  BY <2>3, <2>4 DEF Known
    <3>2. \A r, q \in Inbound : r.id = q.id => r = q  BY DEF CallInv
    <3> QED  BY <2>5, <3>1, <3>2
  <2>9. sessions' \subseteq Calls
    <3>1. Len(admitted) \in Nat  BY <1>5 DEF RateInv
    <3>2. s \in Calls  BY <1>1, <2>3, <3>1 DEF NewSession, Calls
    <3> QED  BY <1>1, <2>5, <3>2
  <2> QED  BY <1>1, <2>1, <2>6, <2>7, <2>8, <2>9 DEF CallInv
<1>6. CASE \E c \in Outbound : PlaceCall(c)
  <2>1. PICK c \in Outbound :
          /\ sessions' = sessions \union {NewSession(c, FALSE, 0)} /\ UNCHANGED <<inbox, handling>>
    BY <1>6 DEF PlaceCall
  <2>2. NewSession(c, FALSE, 0) \in Calls /\ NewSession(c, FALSE, 0).inbound = FALSE
    BY DEF NewSession, Calls
  <2>3. IsFiniteSet(sessions') /\ sessions' \subseteq Calls  BY <1>1, <2>1, <2>2, FS_AddElement
  <2>4. Inbound' = Inbound  BY <2>1, <2>2 DEF Inbound
  <2> QED  BY <1>1, <2>1, <2>3, <2>4 DEF CallInv, Known
<1>7. CASE \E s \in sessions : CallOver(s)
  <2>1. sessions' \subseteq sessions /\ UNCHANGED <<inbox, handling>>  BY <1>7 DEF CallOver
  <2>2. Inbound' \subseteq Inbound  BY <2>1 DEF Inbound
  <2>3. IsFiniteSet(sessions')  BY <1>1, <2>1, FS_Subset
  <2>4. IsFiniteSet(Inbound) /\ Cardinality(Inbound) \in Nat  BY <1>1, InboundFinite
  <2>5. Cardinality(Inbound') <= Cardinality(Inbound) /\ Cardinality(Inbound') \in Nat
    BY <2>2, <2>4, FS_Subset, FS_CardinalityType
  <2>6. \A h \in handling' : h.at = "setup" =>
          ~Known(h.id)' /\ (MaxCalls > 0 => Cardinality(Inbound') < MaxCalls)
    BY <2>1, <2>2, <2>4, <2>5 DEF CallInv, Known
  <2>7. MaxCalls > 0 => Cardinality(Inbound') <= MaxCalls  BY <2>4, <2>5 DEF CallInv
  <2> QED  BY <1>1, <2>1, <2>2, <2>3, <2>6, <2>7 DEF CallInv
<1>8. \/ UNCHANGED <<sessions, handling>> \/ TakeRequest \/ RefuseInvite \/ CheckInvite \/ StoreSession
      \/ (\E c \in Outbound : PlaceCall(c)) \/ (\E s \in sessions : CallOver(s))
  BY DEF ListenNext, RequestArrives, Pinged, ListenTick, StopListener
<1> QED  BY <1>2, <1>3, <1>4, <1>5, <1>6, <1>7, <1>8

\* Limits hold and no Call-ID has two sessions, however the listener's steps, the calls
\* the application places and the ends of calls come together; and no second has more
\* INVITEs than the rate allows.
THEOREM AdmissionHolds == ListenSpec => []Admission
<1> DEFINE Inv == RateInv /\ CallInv
<1>1. ListenInit => Inv
  <2> SUFFICES ASSUME ListenInit PROVE Inv  OBVIOUS
  <2> USE ListenerAssumption
  <2>1. RateInv
    <3>1. clock = 0 /\ admitted = <<>> /\ request_timestamps = <<>>  BY DEF ListenInit
    <3>2. Len(admitted) = 0 /\ SubSeq(admitted, 0 + 1, 0) = <<>>
      BY <3>1, SubSeqEmpty
    <3>3. Forgotten(0)  BY <3>1, <3>2 DEF Forgotten
    <3> QED  BY <3>1, <3>2, <3>3 DEF RateInv
  <2>2. CallInv
    <3>1. inbox = <<>> /\ handling = {} /\ sessions = {}  BY DEF ListenInit
    <3>2. IsFiniteSet({}) /\ Cardinality({}) = 0 /\ Inbound = {}  BY <3>1, FS_EmptySet DEF Inbound
    <3> QED  BY <3>1, <3>2 DEF CallInv
  <2> QED  BY <2>1, <2>2
<1>2. Inv /\ [ListenNext]_listenVars => Inv'
  <2> SUFFICES ASSUME Inv, [ListenNext]_listenVars PROVE Inv'  OBVIOUS
  <2>1. CASE UNCHANGED listenVars
    BY <2>1 DEF listenVars, RateInv, Forgotten, CallInv, Inbound, Known
  <2> QED  BY <2>1, RateSteps, CallSteps
<1>3. Inv => Admission  BY DEF RateInv, CallInv, Admission
<1> QED  BY <1>1, <1>2, <1>3, PTL DEF ListenSpec

----------------------------------------------------------------------------
(* The address that media is sent to.                                      *)

Addresses == Sources \union {Nowhere}
Learners == [configured : Addresses, mode : {"Once", "Always", "Disabled"}, learned : Addresses,
             candidate : Addresses, tally : Nat, window : Nat, ssrc : SymSsrcs \union {Nowhere},
             switches : Seq(Nat), locked : BOOLEAN]
OldestFirst(ages) == \A i, j \in DOMAIN ages : i <= j => ages[i] >= ages[j]

\* What makes RedirectedWithCause inductive: the tally never counts more than the
\* candidate has sent, and while the address is not locked the changes made are the ones
\* that the rate limit has on record.
CauseInv ==
    /\ sym \in Learners /\ sent \in [Sources -> Nat] /\ moves \in Seq(Nat)
    /\ sym.learned # Nowhere => sent[sym.learned] >= SwitchThreshold
    /\ sym.candidate # Nowhere =>
         sent[sym.candidate] >= SwitchThreshold \/ sent[sym.candidate] >= sym.tally
    /\ OldestFirst(sym.switches) /\ OldestFirst(moves)
    /\ Len(moves) <= MaxSwitches
    /\ ~sym.locked => moves = Recent(sym.switches)

\* record_switch drops the beginning of its record: what is older than the window.
LEMMA RecentIs ==
    ASSUME NEW s \in Seq(Nat), OldestFirst(s)
    PROVE  \E k \in 0 .. Len(s) :
             /\ Recent(s) = SubSeq(s, k + 1, Len(s))
             /\ \A i \in 1 .. Len(s) : s[i] > SwitchWindow <=> i <= k
<1> DEFINE n == Len(s)
           outside == {i \in DOMAIN s : s[i] > SwitchWindow}
<1>1. n \in Nat /\ DOMAIN s = 1 .. n /\ SwitchWindow \in Nat /\ \A i \in 1 .. n : s[i] \in Nat
  BY SymAssumption
<1>2. outside \in SUBSET (1 .. n) /\ \A i \in 1 .. n : i \in outside <=> s[i] > SwitchWindow  BY <1>1
<1>3. \A i \in outside : 1 .. i \subseteq outside
  <2> SUFFICES ASSUME NEW i \in outside, NEW j \in 1 .. i PROVE j \in outside
    OBVIOUS
  <2>1. i \in 1 .. n /\ j \in 1 .. n /\ j <= i  BY <1>1, <1>2
  <2>2. s[j] >= s[i] /\ s[i] > SwitchWindow  BY <1>1, <1>2, <2>1 DEF OldestFirst
  <2>3. s[j] > SwitchWindow  BY <1>1, <2>1, <2>2
  <2> QED  BY <1>2, <2>1, <2>3
<1>4. PICK k \in 0 .. n : k = Cardinality(outside) /\ outside = 1 .. k
  <2> HIDE DEF outside, n
  <2> QED  BY <1>1, <1>2, <1>3, Beginning
<1>5. Recent(s) = SubSeq(s, k + 1, n)  BY <1>4 DEF Recent
<1>6. \A i \in 1 .. n : s[i] > SwitchWindow <=> i <= k
  <2> HIDE DEF outside
  <2> SUFFICES ASSUME NEW i \in 1 .. n PROVE s[i] > SwitchWindow <=> i <= k
    OBVIOUS
  <2>1. i \in 1 .. k <=> i <= k  BY <1>1, <1>4
  <2> QED  BY <1>2, <1>4, <2>1
<1> QED  BY <1>4, <1>5, <1>6

\* The record after that has no age past the window, and its order.
LEMMA RecentKeeps ==
    ASSUME NEW s \in Seq(Nat), OldestFirst(s)
    PROVE  /\ Recent(s) \in Seq(Nat) /\ Len(Recent(s)) <= Len(s) /\ OldestFirst(Recent(s))
           /\ \A i \in DOMAIN Recent(s) : Recent(s)[i] <= SwitchWindow
<1>1. PICK k \in 0 .. Len(s) : /\ Recent(s) = SubSeq(s, k + 1, Len(s))
                               /\ \A i \in 1 .. Len(s) : s[i] > SwitchWindow <=> i <= k
  BY RecentIs
<1> DEFINE n == Len(s)
           r == Recent(s)
<1>2. n \in Nat /\ k \in Nat /\ k <= n /\ DOMAIN s = 1 .. n /\ \A i \in 1 .. n : s[i] \in Nat
  OBVIOUS
<1>3. r \in Seq(Nat) /\ Len(r) = n - k /\ \A i \in 1 .. (n - k) : r[i] = s[k + i]
  BY <1>1, Remains
<1> HIDE DEF r, n
<1>4. DOMAIN r = 1 .. (n - k)  BY <1>3
<1>5. ASSUME NEW i \in 1 .. (n - k) PROVE k + i \in 1 .. n /\ ~(k + i <= k)  BY <1>2
<1>6. \A i \in 1 .. (n - k) : r[i] <= SwitchWindow
  <2> SUFFICES ASSUME NEW i \in 1 .. (n - k) PROVE r[i] <= SwitchWindow
    OBVIOUS
  <2>1. k + i \in 1 .. n /\ ~(s[k + i] > SwitchWindow)  BY <1>1, <1>5 DEF n
  <2>2. s[k + i] \in Nat /\ SwitchWindow \in Nat /\ r[i] = s[k + i]  BY <1>2, <1>3, <2>1, SymAssumption
  <2> QED  BY <2>1, <2>2
<1>7. \A i, j \in 1 .. (n - k) : i <= j => r[i] >= r[j]
  <2> SUFFICES ASSUME NEW i \in 1 .. (n - k), NEW j \in 1 .. (n - k), i <= j PROVE r[i] >= r[j]
    OBVIOUS
  <2>1. k + i \in 1 .. n /\ k + j \in 1 .. n /\ k + i <= k + j  BY <1>2
  <2>2. s[k + i] >= s[k + j]  BY <1>2, <2>1 DEF OldestFirst
  <2> QED  BY <1>3, <2>2
<1>8. n - k <= n  BY <1>2
<1> QED  BY <1>3, <1>4, <1>6, <1>7, <1>8 DEF OldestFirst, r, n

\* Nothing is dropped from a record that lies within the window.
LEMMA RecentStays ==
    ASSUME NEW s \in Seq(Nat), OldestFirst(s), \A i \in DOMAIN s : s[i] <= SwitchWindow
    PROVE  Recent(s) = s
<1>1. PICK k \in 0 .. Len(s) : /\ Recent(s) = SubSeq(s, k + 1, Len(s))
                               /\ \A i \in 1 .. Len(s) : s[i] > SwitchWindow <=> i <= k
  BY RecentIs
<1>2. k = 0
  <2>1. CASE k > 0
    <3>1. 1 \in 1 .. Len(s) /\ 1 <= k  BY <2>1
    <3>2. s[1] > SwitchWindow /\ s[1] <= SwitchWindow /\ s[1] \in Nat /\ SwitchWindow \in Nat
      BY <1>1, <3>1, SymAssumption
    <3> QED  BY <3>2
  <2> QED  BY <2>1
<1> DEFINE r == Recent(s)
<1>3. r \in Seq(Nat) /\ Len(r) = Len(s) /\ \A i \in 1 .. Len(s) : r[i] = s[i]
  <2>1. r \in Seq(Nat) /\ Len(r) = Len(s) - k /\ \A i \in 1 .. (Len(s) - k) : r[i] = s[k + i]
    BY <1>1, Remains
  <2>2. Len(s) \in Nat /\ Len(s) - k = Len(s) /\ \A i \in 1 .. Len(s) : k + i = i  BY <1>2
  <2> QED  BY <2>1, <2>2
<1> HIDE DEF r
<1>4. r = s  BY <1>3, SeqEqual
<1> QED  BY <1>4 DEF r

\* Time keeps the order, and brings nothing back.
LEMMA AgedKeeps ==
    ASSUME NEW s \in Seq(Nat), OldestFirst(s)
    PROVE  /\ Aged(s) \in Seq(Nat) /\ Len(Aged(s)) = Len(s) /\ OldestFirst(Aged(s))
           /\ \A i \in 1 .. Len(s) :
                Aged(s)[i] = IF s[i] <= SwitchWindow THEN s[i] + 1 ELSE s[i]
<1> DEFINE n == Len(s)
           a == Aged(s)
<1>1. n \in Nat /\ DOMAIN s = 1 .. n /\ SwitchWindow \in Nat /\ \A i \in 1 .. n : s[i] \in Nat
  BY SymAssumption
<1>2. /\ DOMAIN a = 1 .. n
      /\ \A i \in 1 .. n : a[i] = IF s[i] <= SwitchWindow THEN s[i] + 1 ELSE s[i]
  BY <1>1 DEF Aged
<1>3. \A i \in 1 .. n : a[i] \in Nat  BY <1>1, <1>2
<1>4. a \in [1 .. n -> Nat]
  <2>1. a = [i \in 1 .. n |-> a[i]]  BY <1>1 DEF Aged
  <2> HIDE DEF a
  <2> QED  BY <1>3, <2>1
<1>5. a \in Seq(Nat) /\ Len(a) = n
  <2> HIDE DEF a, n
  <2> QED  BY <1>1, <1>4
<1>6. \A i, j \in 1 .. n : i <= j => s[i] >= s[j]  BY <1>1 DEF OldestFirst
<1> HIDE DEF a, n
<1>7. \A i, j \in 1 .. n : i <= j => a[i] >= a[j]
  <2> SUFFICES ASSUME NEW i \in 1 .. n, NEW j \in 1 .. n, i <= j PROVE a[i] >= a[j]
    OBVIOUS
  <2>1. s[i] \in Nat /\ s[j] \in Nat /\ s[i] >= s[j]  BY <1>1, <1>6
  <2> QED  BY <1>1, <1>2, <2>1
<1> QED  BY <1>2, <1>5, <1>7 DEF a, n, OldestFirst

\* To let time pass over the record of the window, and cut it again, is to cut the whole
\* record once time has passed.
LEMMA RecentOfAged ==
    ASSUME NEW s \in Seq(Nat), OldestFirst(s)
    PROVE  Recent(Aged(Recent(s))) = Recent(Aged(s))
<1> DEFINE n == Len(s)
<1>1. n \in Nat /\ SwitchWindow \in Nat /\ \A i \in 1 .. n : s[i] \in Nat  BY SymAssumption
<1>2. PICK k \in 0 .. n : /\ Recent(s) = SubSeq(s, k + 1, n)
                          /\ \A i \in 1 .. n : s[i] > SwitchWindow <=> i <= k
  BY RecentIs
<1>3. PICK r \in Seq(Nat) : r = Recent(s) /\ OldestFirst(r) /\ Len(r) = n - k
                            /\ \A i \in 1 .. (n - k) : r[i] = s[k + i]
  <2>1. Recent(s) \in Seq(Nat) /\ OldestFirst(Recent(s))  BY RecentKeeps
  <2> QED  BY <1>2, <2>1, Remains
<1>4. PICK t \in Seq(Nat) :
        /\ t = Aged(s) /\ OldestFirst(t) /\ Len(t) = n
        /\ \A i \in 1 .. n : t[i] = IF s[i] <= SwitchWindow THEN s[i] + 1 ELSE s[i]
  BY AgedKeeps
<1>5. PICK u \in Seq(Nat) :
        /\ u = Aged(r) /\ OldestFirst(u) /\ Len(u) = n - k
        /\ \A i \in 1 .. (n - k) : u[i] = IF r[i] <= SwitchWindow THEN r[i] + 1 ELSE r[i]
  <2> DEFINE u == Aged(r)
  <2>1. /\ u \in Seq(Nat) /\ OldestFirst(u) /\ Len(u) = Len(r)
        /\ \A i \in 1 .. Len(r) : u[i] = IF r[i] <= SwitchWindow THEN r[i] + 1 ELSE r[i]
    BY <1>3, AgedKeeps
  <2> HIDE DEF u, n
  <2>2. Len(r) = n - k  BY <1>3
  <2> QED  BY <2>1, <2>2 DEF u
<1> HIDE DEF n
<1>6. \A i \in 1 .. (n - k) : k + i \in 1 .. n /\ u[i] = t[k + i]
  <2> SUFFICES ASSUME NEW i \in 1 .. (n - k) PROVE k + i \in 1 .. n /\ u[i] = t[k + i]
    OBVIOUS
  <2>1. k + i \in 1 .. n  BY <1>1
  <2> QED  BY <1>3, <1>4, <1>5, <2>1
<1>7. PICK l \in 0 .. n : /\ Recent(t) = SubSeq(t, l + 1, n)
                          /\ \A i \in 1 .. n : t[i] > SwitchWindow <=> i <= l
  BY <1>4, RecentIs
<1>8. PICK m \in 0 .. (n - k) : /\ Recent(u) = SubSeq(u, m + 1, n - k)
                                /\ \A i \in 1 .. (n - k) : u[i] > SwitchWindow <=> i <= m
  BY <1>5, RecentIs
<1>9. k <= l
  <2>1. CASE k = 0  BY <2>1
  <2>2. CASE k > 0
    <3>1. k \in 1 .. n  BY <1>1, <2>2
    <3>2. s[k] > SwitchWindow /\ s[k] \in Nat /\ t[k] = IF s[k] <= SwitchWindow THEN s[k] + 1 ELSE s[k]
      BY <1>1, <1>2, <1>4, <3>1
    <3>3. t[k] > SwitchWindow  BY <1>1, <3>2
    <3> QED  BY <1>7, <3>1, <3>3
  <2> QED  BY <2>1, <2>2
<1>10. l = k + m
  <2>1. \A i \in 1 .. (n - k) : k + i <= l <=> i <= m  BY <1>6, <1>7, <1>8
  <2>2. CASE l - k > m
    <3>1. m + 1 \in 1 .. (n - k) /\ k + (m + 1) <= l /\ ~(m + 1 <= m)  BY <1>1, <2>2
    <3> QED  BY <2>1, <3>1
  <2>3. CASE l - k < m
    <3>1. l - k + 1 \in 1 .. (n - k) /\ l - k + 1 <= m /\ ~(k + (l - k + 1) <= l)  BY <1>1, <1>9, <2>3
    <3> QED  BY <2>1, <3>1
  <2> QED  BY <1>1, <2>2, <2>3
<1> DEFINE a == Recent(t)
           b == Recent(u)
<1>11. a \in Seq(Nat) /\ Len(a) = n - l /\ \A i \in 1 .. (n - l) : a[i] = t[l + i]
  <2>1. Len(t) = n /\ l \in 0 .. Len(t)  BY <1>4
  <2> QED  BY <1>7, <2>1, Remains
<1>12. b \in Seq(Nat) /\ Len(b) = (n - k) - m /\ \A i \in 1 .. ((n - k) - m) : b[i] = u[m + i]
  <2>1. Len(u) = n - k /\ m \in 0 .. Len(u)  BY <1>5
  <2>2. b = SubSeq(u, m + 1, Len(u))  BY <1>8, <2>1
  <2> HIDE DEF b
  <2>3. b \in Seq(Nat) /\ Len(b) = Len(u) - m /\ \A i \in 1 .. (Len(u) - m) : b[i] = u[m + i]
    BY <2>1, <2>2, Remains
  <2> QED  BY <2>1, <2>3
<1> HIDE DEF a, b
<1>13. Len(a) = Len(b)  BY <1>1, <1>10, <1>11, <1>12
<1>14. \A i \in 1 .. Len(a) : a[i] = b[i]
  <2> SUFFICES ASSUME NEW i \in 1 .. (n - l) PROVE a[i] = b[i]
    BY <1>11
  <2>1. /\ i \in 1 .. ((n - k) - m) /\ m + i \in 1 .. (n - k) /\ k + (m + i) = l + i
    BY <1>1, <1>10
  <2>2. u[m + i] = t[k + (m + i)]  BY <1>6, <2>1
  <2> QED  BY <1>11, <1>12, <2>1, <2>2
<1>15. a = b  BY <1>11, <1>12, <1>13, <1>14, SeqEqual
<1> QED  BY <1>3, <1>4, <1>5, <1>15 DEF a, b

\* What a packet does to the learner: the tally goes on by one, or starts anew; the
\* address changes on a full tally only, and in Always mode on record, unless it is locked.
LEMMA PacketIs ==
    ASSUME sym \in Learners, NEW source \in Sources, NEW ssrc \in SymSsrcs,
           NEW next, next = Process(OfSsrc(sym, ssrc), source),
           NEW all, all = Append(Recent(sym.switches), 0), Recent(sym.switches) \in Seq(Nat)
    PROVE  /\ next \in Learners
           /\ \/ next.candidate = sym.candidate /\ next.tally = sym.tally
              \/ next.candidate = Nowhere /\ next.tally = 0
              \/ next.candidate = source /\ next.tally = 1
              \/ next.candidate = source /\ sym.candidate = source /\ next.tally = sym.tally + 1
           /\ \/ /\ next.learned = sym.learned
                 /\ \/ next.switches = sym.switches /\ next.locked = sym.locked
                    \/ next.switches = all /\ next.locked
              \/ /\ ~sym.locked /\ ~next.locked /\ next.learned = source /\ source # sym.learned
                 /\ next.candidate = source /\ next.tally >= SwitchThreshold
                 /\ \/ /\ next.switches = all /\ Len(all) <= MaxSwitches
                       /\ sym.learned # Nowhere /\ sym.mode = "Always"
                    \/ /\ next.switches = sym.switches
                       /\ sym.learned = Nowhere \/ sym.mode # "Always"
<1> USE SymAssumption
<1>1. /\ Nowhere \in Addresses /\ source \in Addresses /\ ssrc \in SymSsrcs \union {Nowhere}
      /\ all \in Seq(Nat) /\ Len(all) \in Nat
  <2>1. 0 \in Nat  OBVIOUS
  <2>2. all \in Seq(Nat)  BY <2>1, AppendProperties
  <2> QED  BY <2>2 DEF Addresses
<1>2. PICK o \in Learners :
        /\ o = OfSsrc(sym, ssrc)
        /\ o.learned = sym.learned /\ o.switches = sym.switches /\ o.locked = sym.locked /\ o.mode = sym.mode
        /\ \/ o.candidate = sym.candidate /\ o.tally = sym.tally
           \/ o.candidate = Nowhere /\ o.tally = 0
  <2> DEFINE o == OfSsrc(sym, ssrc)
  <2>1. CASE sym.ssrc \in {Nowhere, ssrc}
    <3>1. o = [sym EXCEPT !.ssrc = ssrc]  BY <2>1 DEF OfSsrc
    <3> QED  BY <1>1, <3>1 DEF Learners
  <2>2. CASE sym.ssrc \notin {Nowhere, ssrc}
    <3>1. o = [sym EXCEPT !.ssrc = ssrc, !.candidate = Nowhere, !.tally = 0]  BY <2>2 DEF OfSsrc
    <3> DEFINE p == [sym EXCEPT !.ssrc = ssrc]
               q == [p EXCEPT !.candidate = Nowhere]
    <3>2. /\ p \in Learners /\ p.learned = sym.learned /\ p.switches = sym.switches
          /\ p.locked = sym.locked /\ p.mode = sym.mode
      BY <1>1 DEF Learners
    <3>3. o = [q EXCEPT !.tally = 0]  BY <3>1
    <3> HIDE DEF o, p
    <3>4. /\ q \in Learners /\ q.learned = sym.learned /\ q.switches = sym.switches
          /\ q.locked = sym.locked /\ q.mode = sym.mode /\ q.candidate = Nowhere
      BY <1>1, <3>2 DEF Learners
    <3> HIDE DEF q
    <3>5. /\ o \in Learners /\ o.learned = sym.learned /\ o.switches = sym.switches
          /\ o.locked = sym.locked /\ o.mode = sym.mode /\ o.candidate = Nowhere /\ o.tally = 0
      BY <3>3, <3>4 DEF Learners
    <3> QED  BY <3>5 DEF o
  <2> QED  BY <2>1, <2>2
<1>3. CASE Ignored(o, source)
  <2>1. next = o  BY <1>2, <1>3 DEF Process
  <2> QED  BY <1>2, <2>1
<1>4. CASE ~Ignored(o, source)
  <2>1. ~o.locked /\ source # o.learned /\ (o.mode = "Once" => o.window # 0)  BY <1>4 DEF Ignored
  <2>2. PICK t \in Learners :
          /\ t = Tallied(o, source)
          /\ t.learned = o.learned /\ t.switches = o.switches /\ t.locked = o.locked
          /\ t.mode = o.mode /\ t.window = o.window /\ t.candidate = source
          /\ \/ t.tally = 1
             \/ o.candidate = source /\ t.tally = o.tally + 1
    <3> DEFINE count == IF o.candidate = source THEN o.tally + 1 ELSE 1
               t == Tallied(o, source)
    <3>1. t = [o EXCEPT !.candidate = source, !.tally = count]  BY DEF Tallied
    <3>2. count \in Nat  BY DEF Learners
    <3>3. count = 1 \/ (o.candidate = source /\ count = o.tally + 1)  OBVIOUS
    <3> HIDE DEF count
    <3> QED  BY <1>1, <3>1, <3>2, <3>3 DEF Learners
  <2>3. \/ t.tally = 1
        \/ t.tally = sym.tally + 1 /\ sym.candidate = source
    BY <1>2, <2>2 DEF Learners
  <2>4. CASE t.tally < SwitchThreshold
    <3>1. next = IF t.mode = "Once" THEN [t EXCEPT !.window = t.window - 1] ELSE t
      BY <1>2, <1>4, <2>2, <2>4 DEF Process, Learners
    <3>2. t.mode = "Once" => t.window - 1 \in Nat  BY <2>1, <2>2 DEF Learners
    <3>3. /\ next \in Learners /\ next.learned = t.learned /\ next.switches = t.switches
          /\ next.locked = t.locked /\ next.candidate = t.candidate /\ next.tally = t.tally
      BY <3>1, <3>2 DEF Learners
    <3> QED  BY <1>2, <2>2, <2>3, <3>3
  <2>5. CASE t.tally >= SwitchThreshold
    <3>1. next = Adopt(Recorded(t), source)  BY <1>2, <1>4, <2>2, <2>5 DEF Process
    <3>2. PICK q \in Learners :
            /\ q = Recorded(t) /\ q.learned = sym.learned /\ q.mode = sym.mode
            /\ q.candidate = source /\ q.tally = t.tally /\ q.window \in Nat
            /\ \/ /\ sym.learned # Nowhere /\ sym.mode = "Always"
                  /\ q.switches = all /\ q.locked = (Len(all) > MaxSwitches)
               \/ /\ sym.learned = Nowhere \/ sym.mode # "Always"
                  /\ q.switches = sym.switches /\ ~q.locked
      <4>1. CASE IsSwitch(t)
        <5>1. Recorded(t) = [t EXCEPT !.switches = all, !.locked = Len(all) > MaxSwitches]
          BY <1>2, <2>2, <4>1 DEF Recorded
        <5>2. (Len(all) > MaxSwitches) \in BOOLEAN  OBVIOUS
        <5>3. sym.learned # Nowhere /\ sym.mode = "Always"  BY <1>2, <2>2, <4>1 DEF IsSwitch
        <5> DEFINE over == Len(all) > MaxSwitches
                   q == [t EXCEPT !.switches = all, !.locked = over]
        <5>4. over \in BOOLEAN  BY <5>2
        <5> HIDE DEF over
        <5>5. /\ q \in Learners /\ q.learned = t.learned /\ q.mode = t.mode /\ q.candidate = t.candidate
              /\ q.tally = t.tally /\ q.window \in Nat /\ q.switches = all /\ q.locked = over
          BY <1>1, <5>4 DEF Learners
        <5> HIDE DEF q
        <5>6. q = Recorded(t)  BY <5>1 DEF q, over
        <5> QED  BY <1>2, <2>2, <5>3, <5>5, <5>6 DEF over
      <4>2. CASE ~IsSwitch(t)
        <5>1. Recorded(t) = t  BY <4>2 DEF Recorded
        <5>2. sym.learned = Nowhere \/ sym.mode # "Always"  BY <1>2, <2>2, <4>2 DEF IsSwitch
        <5> QED  BY <1>2, <2>1, <2>2, <5>1, <5>2 DEF Learners
      <4> QED  BY <4>1, <4>2
    <3>3. CASE q.locked
      <4>1. next = q  BY <3>1, <3>2, <3>3 DEF Adopt
      <4> QED  BY <2>3, <3>2, <3>3, <4>1
    <3>4. CASE ~q.locked
      <4> DEFINE left == IF q.mode = "Once" THEN 0 ELSE q.window
      <4>1. next = [q EXCEPT !.learned = source, !.window = left]
        BY <3>1, <3>2, <3>4 DEF Adopt
      <4>2. left \in Nat  BY <3>2
      <4> HIDE DEF left
      <4>3. /\ next \in Learners /\ next.learned = source /\ next.switches = q.switches
            /\ next.locked = q.locked /\ next.candidate = q.candidate /\ next.tally = q.tally
        BY <1>1, <4>1, <4>2 DEF Learners
      <4>4. Len(all) \in Nat /\ MaxSwitches \in Nat  BY <1>1
      <4>5. next.candidate = source /\ next.tally = t.tally /\ ~next.locked  BY <3>2, <3>4, <4>3
      <4>6. ~sym.locked /\ source # sym.learned  BY <1>2, <2>1
      <4>7. \/ /\ next.switches = all /\ Len(all) <= MaxSwitches
               /\ sym.learned # Nowhere /\ sym.mode = "Always"
            \/ /\ next.switches = sym.switches
               /\ sym.learned = Nowhere \/ sym.mode # "Always"
        <5>1. CASE q.switches = all /\ q.locked = (Len(all) > MaxSwitches)
                   /\ sym.learned # Nowhere /\ sym.mode = "Always"
          <6>1. ~(Len(all) > MaxSwitches)  BY <3>4, <5>1
          <6> QED  BY <4>3, <4>4, <5>1, <6>1
        <5>2. CASE q.switches = sym.switches /\ (sym.learned = Nowhere \/ sym.mode # "Always")
          BY <4>3, <5>2
        <5> QED  BY <3>2, <5>1, <5>2
      <4> QED  BY <2>3, <2>5, <4>3, <4>5, <4>6, <4>7
    <3> QED  BY <3>2, <3>3, <3>4 DEF Learners
  <2> QED  BY <2>2, <2>4, <2>5 DEF Learners
<1> QED  BY <1>3, <1>4

\* A packet that arrives keeps the invariant.
LEMMA IncomingSteps ==
    ASSUME CauseInv, NEW source \in Sources, NEW ssrc \in SymSsrcs, Incoming(source, ssrc)
    PROVE  CauseInv'
<1> USE SymAssumption
<1>1. /\ sym \in Learners /\ sent \in [Sources -> Nat] /\ moves \in Seq(Nat)
      /\ sym.switches \in Seq(Nat) /\ OldestFirst(sym.switches) /\ OldestFirst(moves)
      /\ Len(moves) <= MaxSwitches /\ (~sym.locked => moves = Recent(sym.switches))
      /\ sym.tally \in Nat /\ sym.learned \in Addresses /\ sym.candidate \in Addresses
      /\ SwitchThreshold \in Nat /\ MaxSwitches \in Nat /\ SwitchThreshold > 0
  BY DEF CauseInv, Learners
<1>2. PICK next : next = sym' /\ next = Process(OfSsrc(sym, ssrc), source)  BY DEF Incoming
<1>3. PICK all \in Seq(Nat) :
        /\ all = Append(Recent(sym.switches), 0) /\ OldestFirst(all) /\ Recent(all) = all
        /\ Recent(sym.switches) \in Seq(Nat)
  <2> DEFINE r == Recent(sym.switches)
             all == Append(r, 0)
  <2>1. /\ r \in Seq(Nat) /\ OldestFirst(r) /\ \A i \in DOMAIN r : r[i] <= SwitchWindow
    BY <1>1, RecentKeeps
  <2> HIDE DEF r
  <2>2. /\ all \in Seq(Nat) /\ Len(all) = Len(r) + 1 /\ all[Len(r) + 1] = 0
        /\ \A i \in 1 .. Len(r) : all[i] = r[i]
    <3>1. 0 \in Nat  OBVIOUS
    <3> QED  BY <2>1, <3>1, AppendProperties
  <2> HIDE DEF all
  <2>3. Len(r) \in Nat /\ DOMAIN r = 1 .. Len(r) /\ DOMAIN all = 1 .. (Len(r) + 1)
        /\ (\A i \in 1 .. Len(r) : r[i] \in Nat) /\ SwitchWindow \in Nat
    BY <2>1, <2>2
  <2>4. \A i \in 1 .. (Len(r) + 1) : i \in 1 .. Len(r) \/ i = Len(r) + 1  BY <2>3
  <2>5. OldestFirst(all)
    <3> SUFFICES ASSUME NEW i \in 1 .. (Len(r) + 1), NEW j \in 1 .. (Len(r) + 1), i <= j
                 PROVE  all[i] >= all[j]
      BY <2>3 DEF OldestFirst
    <3>1. CASE j = Len(r) + 1
      <4>1. all[j] = 0 /\ all[i] \in Nat  BY <2>2, <2>3, <2>4, <3>1
      <4> QED  BY <4>1
    <3>2. CASE j # Len(r) + 1
      <4>1. i \in 1 .. Len(r) /\ j \in 1 .. Len(r)  BY <2>3, <3>2
      <4>2. r[i] >= r[j]  BY <2>1, <2>3, <4>1 DEF OldestFirst
      <4> QED  BY <2>2, <4>1, <4>2
    <3> QED  BY <3>1, <3>2
  <2>6. \A i \in DOMAIN all : all[i] <= SwitchWindow
    <3> SUFFICES ASSUME NEW i \in 1 .. (Len(r) + 1) PROVE all[i] <= SwitchWindow
      BY <2>3
    <3>1. CASE i \in 1 .. Len(r)  BY <2>1, <2>2, <2>3, <3>1
    <3>2. CASE i = Len(r) + 1  BY <2>2, <2>3, <3>2
    <3> QED  BY <2>4, <3>1, <3>2
  <2>7. Recent(all) = all  BY <2>2, <2>5, <2>6, RecentStays
  <2> QED  BY <2>1, <2>2, <2>5, <2>7 DEF r, all
<1>4. /\ next \in Learners
      /\ \/ next.candidate = sym.candidate /\ next.tally = sym.tally
         \/ next.candidate = Nowhere /\ next.tally = 0
         \/ next.candidate = source /\ next.tally = 1
         \/ next.candidate = source /\ sym.candidate = source /\ next.tally = sym.tally + 1
      /\ \/ /\ next.learned = sym.learned
            /\ \/ next.switches = sym.switches /\ next.locked = sym.locked
               \/ next.switches = all /\ next.locked
         \/ /\ ~sym.locked /\ ~next.locked /\ next.learned = source /\ source # sym.learned
            /\ next.candidate = source /\ next.tally >= SwitchThreshold
            /\ \/ /\ next.switches = all /\ Len(all) <= MaxSwitches
                  /\ sym.learned # Nowhere /\ sym.mode = "Always"
               \/ /\ next.switches = sym.switches
                  /\ sym.learned = Nowhere \/ sym.mode # "Always"
  <2>1. sym \in Learners /\ Recent(sym.switches) \in Seq(Nat)  BY <1>1, <1>3
  <2>2. next = Process(OfSsrc(sym, ssrc), source) /\ all = Append(Recent(sym.switches), 0)  BY <1>2, <1>3
  <2> QED  BY <2>1, <2>2, PacketIs
<1>6. PICK m : m = moves' /\ m = IF sym.learned \notin {Nowhere, next.learned} /\ sym.mode = "Always"
                                 THEN Append(moves, 0) ELSE moves
  BY <1>2 DEF Incoming
<1>7. PICK f \in [Sources -> Nat] :
        /\ f = sent'
        /\ \A s \in Sources : s # source => f[s] = sent[s]
        /\ \/ f[source] = sent[source] + 1
           \/ f[source] = sent[source] /\ sent[source] >= SwitchThreshold
  <2> DEFINE count == IF sent[source] < SwitchThreshold THEN sent[source] + 1 ELSE sent[source]
  <2>1. sent[source] \in Nat /\ count \in Nat /\ sent' = [sent EXCEPT ![source] = count]
    BY <1>1 DEF Incoming
  <2>2. count = sent[source] + 1 \/ (count = sent[source] /\ sent[source] >= SwitchThreshold)
    BY <1>1, <2>1
  <2> HIDE DEF count
  <2>3. sent' \in [Sources -> Nat] /\ sent'[source] = count /\ \A s \in Sources : s # source => sent'[s] = sent[s]
    BY <1>1, <2>1
  <2> QED  BY <2>2, <2>3
<1>8. \A s \in Sources : f[s] \in Nat /\ sent[s] \in Nat /\ f[s] >= sent[s]
  <2> SUFFICES ASSUME NEW s \in Sources PROVE f[s] \in Nat /\ sent[s] \in Nat /\ f[s] >= sent[s]
    OBVIOUS
  <2>1. f[s] \in Nat /\ sent[s] \in Nat  BY <1>1, <1>7
  <2>2. f[s] = sent[s] \/ f[s] = sent[s] + 1  BY <1>7
  <2> QED  BY <2>1, <2>2
<1>9. next.candidate # Nowhere => f[next.candidate] >= SwitchThreshold \/ f[next.candidate] >= next.tally
  <2>1. CASE next.candidate = sym.candidate /\ next.tally = sym.tally
    <3> SUFFICES ASSUME sym.candidate # Nowhere
                 PROVE  f[sym.candidate] >= SwitchThreshold \/ f[sym.candidate] >= sym.tally
      BY <2>1
    <3>1. sym.candidate \in Sources  BY <1>1 DEF Addresses
    <3>2. sent[sym.candidate] >= SwitchThreshold \/ sent[sym.candidate] >= sym.tally  BY DEF CauseInv
    <3> QED  BY <1>1, <1>8, <3>1, <3>2
  <2>2. CASE next.candidate = source /\ next.tally = 1  BY <1>1, <1>7, <1>8, <2>2
  <2>3. CASE next.candidate = source /\ sym.candidate = source /\ next.tally = sym.tally + 1
    <3> SUFFICES ASSUME source # Nowhere PROVE f[source] >= SwitchThreshold \/ f[source] >= sym.tally + 1
      BY <2>3
    <3>1. sent[source] >= SwitchThreshold \/ sent[source] >= sym.tally  BY <2>3 DEF CauseInv
    <3> QED  BY <1>1, <1>7, <1>8, <3>1
  <2> QED  BY <1>4, <2>1, <2>2, <2>3
<1>10. next.learned # Nowhere => f[next.learned] >= SwitchThreshold
  <2>1. CASE next.learned = sym.learned
    <3> SUFFICES ASSUME sym.learned # Nowhere PROVE f[sym.learned] >= SwitchThreshold
      BY <2>1
    <3>1. sym.learned \in Sources  BY <1>1 DEF Addresses
    <3>2. sent[sym.learned] >= SwitchThreshold  BY DEF CauseInv
    <3> QED  BY <1>1, <1>8, <3>1, <3>2
  <2>2. CASE next.learned = source /\ next.candidate = source /\ next.tally >= SwitchThreshold
    <3>1. next.tally \in Nat  BY <1>4 DEF Learners
    <3> QED  BY <1>1, <1>8, <1>9, <2>2, <3>1
  <2> QED  BY <1>4, <2>1, <2>2
<1>11. /\ m \in Seq(Nat) /\ OldestFirst(m) /\ Len(m) <= MaxSwitches
       /\ next.switches \in Seq(Nat) /\ OldestFirst(next.switches)
       /\ ~next.locked => m = Recent(next.switches)
  <2>1. CASE next.learned = sym.learned
    <3>1. m = moves  BY <1>6, <2>1
    <3>2. \/ next.switches = sym.switches /\ next.locked = sym.locked
          \/ next.switches = all /\ next.locked
      BY <1>4, <2>1
    <3> QED  BY <1>1, <1>3, <3>1, <3>2
  <2>2. CASE next.learned # sym.learned
    <3>1. ~sym.locked /\ moves = Recent(sym.switches)  BY <1>1, <1>4, <2>2
    <3>2. CASE sym.learned # Nowhere /\ sym.mode = "Always"
      <4>1. next.switches = all /\ Len(all) <= MaxSwitches  BY <1>4, <2>2, <3>2
      <4>2. m = all  BY <1>3, <1>6, <2>2, <3>1, <3>2
      <4> QED  BY <1>3, <4>1, <4>2
    <3>3. CASE ~(sym.learned # Nowhere /\ sym.mode = "Always")
      <4>1. next.switches = sym.switches  BY <1>4, <2>2, <3>3
      <4>2. m = moves  BY <1>6, <3>3
      <4> QED  BY <1>1, <3>1, <4>1, <4>2
    <3> QED  BY <3>2, <3>3
  <2> QED  BY <2>1, <2>2
<1> QED  BY <1>2, <1>4, <1>6, <1>7, <1>9, <1>10, <1>11 DEF CauseInv

\* A learner at its beginning.
LEMMA CleanIs ==
    ASSUME NEW c \in Addresses, NEW mode \in {"Once", "Always", "Disabled"}
    PROVE  /\ NewSym(c, mode) \in Learners /\ ZeroSent \in [Sources -> Nat]
           /\ NewSym(c, mode).learned = Nowhere /\ NewSym(c, mode).candidate = Nowhere
           /\ NewSym(c, mode).switches = <<>> /\ <<>> \in Seq(Nat)
           /\ OldestFirst(<<>>) /\ Recent(<<>>) = <<>> /\ Len(<<>>) <= MaxSwitches
<1> USE SymAssumption
<1>1. <<>> \in Seq(Nat) /\ Len(<<>>) = 0 /\ DOMAIN <<>> = {} /\ MaxSwitches \in Nat  OBVIOUS
<1>2. OldestFirst(<<>>) /\ Recent(<<>>) = <<>>
  <2>1. OldestFirst(<<>>)  BY <1>1 DEF OldestFirst
  <2> QED  BY <1>1, <2>1, RecentStays
<1>3. LearnWindow \in Nat /\ Nowhere \in Addresses  BY DEF LearnWindow, Addresses
<1>4. /\ NewSym(c, mode) \in Learners /\ NewSym(c, mode).learned = Nowhere
      /\ NewSym(c, mode).candidate = Nowhere /\ NewSym(c, mode).switches = <<>>
  BY <1>1, <1>3 DEF NewSym, Learners
<1>5. ZeroSent \in [Sources -> Nat]  BY DEF ZeroSent
<1>6. Len(<<>>) <= MaxSwitches  BY <1>1
<1> QED  BY <1>1, <1>2, <1>4, <1>5, <1>6

\* Everything but a packet keeps the invariant.
LEMMA SettingSteps ==
    ASSUME CauseInv,
           \/ \E mode \in SymModes : SetMode(mode)
           \/ \E addr \in Sources : SetConfigured(addr)
           \/ Rearm
           \/ ResetLearning
           \/ SymTick
    PROVE  CauseInv'
<1> USE SymAssumption
<1>1. /\ sym \in Learners /\ sent \in [Sources -> Nat] /\ moves \in Seq(Nat)
      /\ sym.switches \in Seq(Nat) /\ OldestFirst(sym.switches) /\ OldestFirst(moves)
      /\ Len(moves) <= MaxSwitches /\ (~sym.locked => moves = Recent(sym.switches))
      /\ LearnWindow \in Nat /\ Nowhere \in Addresses /\ MaxSwitches \in Nat
      /\ sym.configured \in Addresses /\ sym.mode \in {"Once", "Always", "Disabled"} /\ sym.window \in Nat
  BY DEF CauseInv, Learners, LearnWindow, Addresses
<1>2. CASE \E mode \in SymModes : SetMode(mode)
  <2>1. PICK mode \in SymModes :
          sym' = [sym EXCEPT !.mode = mode, !.window = IF mode = "Disabled" THEN sym.window ELSE LearnWindow]
    BY <1>2 DEF SetMode
  <2>2. UNCHANGED <<sent, moves>>  BY <1>2 DEF SetMode
  <2> DEFINE w == IF mode = "Disabled" THEN sym.window ELSE LearnWindow
             p == [sym EXCEPT !.mode = mode]
  <2>3. w \in Nat /\ mode \in {"Once", "Always", "Disabled"}  BY <1>1
  <2>4. sym' = [p EXCEPT !.window = w]  BY <2>1
  <2> HIDE DEF w
  <2>5. /\ p \in Learners /\ p.learned = sym.learned /\ p.candidate = sym.candidate
        /\ p.tally = sym.tally /\ p.switches = sym.switches /\ p.locked = sym.locked
    BY <1>1, <2>3 DEF Learners
  <2> HIDE DEF p
  <2>6. /\ sym' \in Learners /\ sym'.learned = sym.learned /\ sym'.candidate = sym.candidate
        /\ sym'.tally = sym.tally /\ sym'.switches = sym.switches /\ sym'.locked = sym.locked
    BY <2>3, <2>4, <2>5 DEF Learners
  <2> QED  BY <2>2, <2>6 DEF CauseInv
<1>3. CASE \E addr \in Sources : SetConfigured(addr)
  <2>1. PICK addr \in Sources : sym' = [sym EXCEPT !.configured = addr] /\ UNCHANGED <<sent, moves>>
    BY <1>3 DEF SetConfigured
  <2>2. /\ sym' \in Learners /\ sym'.learned = sym.learned /\ sym'.candidate = sym.candidate
        /\ sym'.tally = sym.tally /\ sym'.switches = sym.switches /\ sym'.locked = sym.locked
    BY <1>1, <2>1 DEF Learners, Addresses
  <2> QED  BY <2>1, <2>2 DEF CauseInv
<1>4. CASE Rearm
  <2>1. /\ UNCHANGED <<sent, moves>>
        /\ sym' = [sym EXCEPT !.window = LearnWindow, !.candidate = Nowhere, !.tally = 0]
    BY <1>4 DEF Rearm
  <2> DEFINE p == [sym EXCEPT !.window = LearnWindow]
             q == [p EXCEPT !.candidate = Nowhere]
  <2>2. sym' = [q EXCEPT !.tally = 0]  BY <2>1
  <2>3. p \in Learners /\ p.learned = sym.learned /\ p.switches = sym.switches /\ p.locked = sym.locked
    BY <1>1 DEF Learners
  <2> HIDE DEF p
  <2>4. /\ q \in Learners /\ q.learned = sym.learned /\ q.switches = sym.switches /\ q.locked = sym.locked
        /\ q.candidate = Nowhere
    BY <1>1, <2>3 DEF Learners
  <2> HIDE DEF q
  <2>5. /\ sym' \in Learners /\ sym'.learned = sym.learned /\ sym'.switches = sym.switches
        /\ sym'.locked = sym.locked /\ sym'.candidate = Nowhere
    BY <2>2, <2>4 DEF Learners
  <2> QED  BY <2>1, <2>5 DEF CauseInv
<1>5. CASE ResetLearning
  <2>1. sym' = NewSym(sym.configured, sym.mode) /\ sent' = ZeroSent /\ moves' = <<>>
    BY <1>5 DEF ResetLearning
  <2>2. PICK c \in Addresses, mode \in {"Once", "Always", "Disabled"} : sym' = NewSym(c, mode)
    BY <1>1, <2>1
  <2>3. /\ sym' \in Learners /\ sent' \in [Sources -> Nat] /\ sym'.learned = Nowhere
        /\ sym'.candidate = Nowhere /\ sym'.switches = <<>> /\ moves' = <<>>
    BY <2>1, <2>2, CleanIs
  <2>4. /\ <<>> \in Seq(Nat) /\ OldestFirst(<<>>) /\ Recent(<<>>) = <<>> /\ Len(<<>>) <= MaxSwitches
    BY <2>2, CleanIs
  <2> QED  BY <2>3, <2>4 DEF CauseInv
<1>6. CASE SymTick
  <2>1. sent' = sent /\ sym' = [sym EXCEPT !.switches = Aged(sym.switches)] /\ moves' = Recent(Aged(moves))
    BY <1>6 DEF SymTick
  <2>2. PICK a \in Seq(Nat) : a = Aged(sym.switches) /\ OldestFirst(a)  BY <1>1, AgedKeeps
  <2>3. /\ sym' \in Learners /\ sym'.learned = sym.learned /\ sym'.candidate = sym.candidate
        /\ sym'.tally = sym.tally /\ sym'.switches = a /\ sym'.locked = sym.locked
    BY <1>1, <2>1, <2>2 DEF Learners
  <2>4. PICK b \in Seq(Nat) : b = Aged(moves) /\ OldestFirst(b) /\ Len(b) = Len(moves)  BY <1>1, AgedKeeps
  <2>5. PICK m \in Seq(Nat) : m = moves' /\ OldestFirst(m) /\ Len(m) <= Len(moves)
    BY <2>1, <2>4, RecentKeeps
  <2>6. ~sym.locked => m = Recent(a)  BY <1>1, <2>1, <2>2, <2>5, RecentOfAged
  <2>7. Len(m) <= MaxSwitches
    <3>1. Len(m) \in Nat /\ Len(moves) \in Nat  BY <1>1
    <3> QED  BY <1>1, <2>5, <3>1
  <2> QED  BY <2>1, <2>2, <2>3, <2>5, <2>6, <2>7 DEF CauseInv
<1> QED  BY <1>2, <1>3, <1>4, <1>5, <1>6

\* Media moves to an address that has sent as much as the threshold asks for, whatever
\* sources, SSRCs, modes and resets come in between, and in Always mode no more often in a
\* window than the limit allows.
THEOREM RedirectedWithCauseHolds == SymSpec => []RedirectedWithCause
<1> USE SymAssumption
<1>1. SymInit => CauseInv
  <2> SUFFICES ASSUME SymInit PROVE CauseInv  OBVIOUS
  <2>1. Nowhere \in Addresses  BY DEF Addresses
  <2>2. /\ sym \in Learners /\ sent \in [Sources -> Nat] /\ sym.learned = Nowhere
        /\ sym.candidate = Nowhere /\ sym.switches = <<>> /\ moves = <<>>
    BY <2>1, CleanIs DEF SymInit
  <2>3. /\ <<>> \in Seq(Nat) /\ OldestFirst(<<>>) /\ Recent(<<>>) = <<>> /\ Len(<<>>) <= MaxSwitches
    BY <2>1, CleanIs
  <2> QED  BY <2>2, <2>3 DEF CauseInv
<1>2. CauseInv /\ [SymNext]_symVars => CauseInv'
  <2> SUFFICES ASSUME CauseInv, [SymNext]_symVars PROVE CauseInv'  OBVIOUS
  <2>1. CASE UNCHANGED symVars  BY <2>1 DEF symVars, CauseInv
  <2> QED  BY <2>1, IncomingSteps, SettingSteps DEF SymNext
<1>3. CauseInv => RedirectedWithCause
  <2> SUFFICES ASSUME CauseInv PROVE RedirectedWithCause  OBVIOUS
  <2>1. moves \in Seq(Nat) /\ OldestFirst(moves) /\ Len(moves) <= MaxSwitches  BY DEF CauseInv
  <2>2. Recent(moves) \in Seq(Nat) /\ Len(Recent(moves)) <= Len(moves)  BY <2>1, RecentKeeps
  <2>3. Len(Recent(moves)) \in Nat /\ Len(moves) \in Nat /\ MaxSwitches \in Nat  BY <2>1, <2>2
  <2>4. Len(Recent(moves)) <= MaxSwitches  BY <2>1, <2>2, <2>3
  <2> QED  BY <2>4 DEF CauseInv, RedirectedWithCause
<1> QED  BY <1>1, <1>2, <1>3, PTL DEF SymSpec
=============================================================================
