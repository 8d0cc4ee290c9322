---------------------------- MODULE ProviderRouter ----------------------------
(***************************************************************************)
(* The choice of a provider for a destination: ProviderRouter (provider/   *)
(* router.rs) with its two maps, each under a lock of its own, and the     *)
(* calls that are routed.  What a provider is for the one destination of   *)
(* the model is the length of its longest matching prefix: {} when none    *)
(* matches, {0} when it has no prefixes and takes everything.              *)
(***************************************************************************)
EXTENDS Integers, FiniteSets

CONSTANTS
    Providers,    \* ids
    Configs,      \* what a provider may be added with
    RoutedCalls   \* calls, each routed, placed and ended once

VARIABLES
    providers,   \* providers: {} or the configuration
    statistics,       \* statistics: {} or active_calls and registered
    changing,    \* providers that add_provider or remove_provider is half done with
    routed       \* where each call is, and its provider

routerVars == <<providers, statistics, changing, routed>>

NoStats == [active |-> 0, registered |-> FALSE]
RouterInit ==
    /\ providers = [p \in Providers |-> {}] /\ statistics = [p \in Providers |-> {}]
    /\ changing = [p \in Providers |-> "no"]
    /\ routed = [c \in RoutedCalls |-> [at |-> "new", provider |-> {}]]

\* add_provider puts the configuration in first, remove_provider takes the statistics
\* out first: in between, under no lock, the provider has none.
AddProvider(p) == \E config \in Configs :
    /\ changing[p] = "no" /\ changing' = [changing EXCEPT ![p] = "adding"]
    /\ providers' = [providers EXCEPT ![p] = {config}]
    /\ UNCHANGED <<statistics, routed>>

RemoveProvider(p) ==
    /\ changing[p] = "no" /\ changing' = [changing EXCEPT ![p] = "removing"]
    /\ statistics' = [statistics EXCEPT ![p] = {}]
    /\ UNCHANGED <<providers, routed>>

ProviderChanged(p) ==
    /\ changing[p] # "no" /\ changing' = [changing EXCEPT ![p] = "no"]
    /\ IF changing[p] = "adding"
       THEN statistics' = [statistics EXCEPT ![p] = {NoStats}] /\ UNCHANGED providers
       ELSE providers' = [providers EXCEPT ![p] = {}] /\ UNCHANGED statistics
    /\ UNCHANGED routed

----------------------------------------------------------------------------
(* Routing.                                                                *)

\* matches, and match_length.
Matching(p) == {config \in providers[p] : config.match # {}}
Length(config) == CHOOSE n \in config.match : TRUE

HasRoom(p, config) == config.max = {} \/ \A s \in statistics[p] : \A max \in config.max : s.active < max
IsUp(p, config) == config.register => \A s \in statistics[p] : s.registered
Candidates == {p \in Providers : \E config \in Matching(p) : HasRoom(p, config) /\ IsUp(p, config)}

\* The longest match first, then the lowest priority; a map has no order among equals.
Precedes(a, b) == \/ Length(a) > Length(b)
                  \/ Length(a) = Length(b) /\ a.priority <= b.priority
Best == {p \in Candidates : \A q \in Candidates : \A a \in providers[p], b \in providers[q] : Precedes(a, b)}

\* route_with_fallback: all candidates in that order, of which the caller takes any.
RouteWithFallback(c) == \E p \in Candidates :
    /\ routed[c].at = "new" /\ routed' = [routed EXCEPT ![c] = [at |-> "routed", provider |-> {p}]]
    /\ UNCHANGED <<providers, statistics, changing>>

Route(c) == \E p \in Best :
    /\ routed[c].at = "new" /\ routed' = [routed EXCEPT ![c] = [at |-> "routed", provider |-> {p}]]
    /\ UNCHANGED <<providers, statistics, changing>>

----------------------------------------------------------------------------
(* What is counted.                                                        *)

Count(p, f(_)) == statistics' = [statistics EXCEPT ![p] = {f(s) : s \in statistics[p]}]
Minus1(n) == IF n = 0 THEN 0 ELSE n - 1

CallStarted(c) == \E p \in routed[c].provider :
    /\ routed[c].at = "routed" /\ routed' = [routed EXCEPT ![c].at = "up"]
    /\ Count(p, LAMBDA s : [s EXCEPT !.active = @ + 1])
    /\ UNCHANGED <<providers, changing>>

CallEnded(c) == \E p \in routed[c].provider :
    /\ routed[c].at = "up" /\ routed' = [routed EXCEPT ![c].at = "over"]
    /\ Count(p, LAMBDA s : [s EXCEPT !.active = Minus1(@)])
    /\ UNCHANGED <<providers, changing>>

\* A bug that would pass the tests: a call that fails is not taken off.
MutantCallFailed(c) == \E p \in routed[c].provider :
    /\ routed[c].at = "up" /\ routed' = [routed EXCEPT ![c].at = "over"]
    /\ UNCHANGED <<providers, statistics, changing>>

\* call_failed instead: the call is no longer active either (P1-PROVIDER-1).
CallFailed(c) == \E p \in routed[c].provider :
    /\ routed[c].at = "up" /\ routed' = [routed EXCEPT ![c].at = "over"]
    /\ Count(p, LAMBDA s : [s EXCEPT !.active = Minus1(@)])
    /\ UNCHANGED <<providers, changing>>

SetRegistered(p) == \E up \in BOOLEAN :
    /\ Count(p, LAMBDA s : [s EXCEPT !.registered = up])
    /\ UNCHANGED <<providers, changing, routed>>

RouterNext ==
    \/ \E p \in Providers : AddProvider(p) \/ RemoveProvider(p) \/ ProviderChanged(p) \/ SetRegistered(p)
    \/ \E c \in RoutedCalls :
          Route(c) \/ RouteWithFallback(c) \/ CallStarted(c) \/ CallEnded(c) \/ CallFailed(c)

RouterSpec == RouterInit /\ [][RouterNext]_routerVars

----------------------------------------------------------------------------
(* Properties.                                                             *)

RouterTypeOK ==
    /\ \A p \in Providers : providers[p] \subseteq Configs
    /\ \A p \in Providers : \A s \in statistics[p] : s.active \in 0 .. Cardinality(RoutedCalls)

\* A provider is full of calls that are up and of no others: however calls fail and
\* end, and however often it is removed and added anew meanwhile, it is not counted
\* as busier than it is, and so is not shut out of routing by calls that are over.
SlotsReturned == \A p \in Providers : \A s \in statistics[p] :
    s.active <= Cardinality({c \in RoutedCalls : routed[c].at = "up" /\ p \in routed[c].provider})
=============================================================================
