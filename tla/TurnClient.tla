----------------------------- MODULE TurnClient -----------------------------
(***************************************************************************)
(* The TURN client (nat/turn/client.rs): one API caller, the background    *)
(* task that refreshes the allocation, its permissions and its channel     *)
(* bindings, and the server (external) that lets each of them lapse and    *)
(* rotates its nonce.  One peer has a permission and a channel.  A request *)
(* with all its retransmissions is one exchange of at most MaxReply.       *)
(***************************************************************************)
EXTENDS Integers

CONSTANTS
    Lifetime, RefreshAt,  \* of the allocation the server grants, and 80% of it
    ItemLife,             \* of "perm" and "bind": 300 s and 600 s
    ItemRefreshAt,        \* 80% of these
    Round,                \* longest sleep of the refresh task (30 s)
    MaxReply,             \* longest exchange
    MaxStale,             \* bound: how often the server rotates its nonce
    MaxFails              \* bound: exchanges that fail for another reason

Items == {"perm", "bind"}

ASSUME TurnAssumption ==
    /\ {Lifetime, Round, MaxReply, MaxStale, MaxFails} \subseteq Nat
    /\ RefreshAt \in 1 .. Lifetime
    /\ ItemLife \in [Items -> Nat] /\ ItemRefreshAt \in [Items -> Nat \ {0}]

VARIABLES
    turn,         \* the TurnClient: state, allocation, nonce, tracked items by age
    refreshLoop,  \* the refresh task
    api,          \* the caller's exchange
    server        \* ages of what the server holds, its nonce, failures so far

turnVars == <<turn, refreshLoop, api, server>>

Gone == -1
Usable == turn.state \in {"Allocated", "ChannelBound"}
Granted == [alloc |-> 0, perm |-> Gone, bind |-> Gone]
Off == [pc |-> "off", left |-> 0, since |-> 0, due |-> 0, nonce |-> Gone, again |-> Gone, kept |-> {}]
TurnIdle == [op |-> "none", left |-> 0, since |-> 0]

TurnInit ==
    /\ turn = [state |-> "Init", has |-> FALSE, nonce |-> Gone, perm |-> Gone, bind |-> Gone]
    /\ refreshLoop = Off
    /\ api = TurnIdle
    /\ server = [held |-> [Granted EXCEPT !.alloc = Gone], nonce |-> 0, fails |-> 0]

----------------------------------------------------------------------------
(* The server.                                                             *)

\* A request made with a nonce is refused with 438 when the nonce is not the
\* server's; a refusal for another reason, a timeout and an answer that cannot
\* be used are failures.  The server acted at some time while the exchange ran.
Stale(nonce) == nonce # server.nonce
Succeeds(nonce) == ~Stale(nonce) /\ server.held.alloc # Gone
Ages(since) == 0 .. since
CountFail == server.fails < MaxFails /\ server' = [server EXCEPT !.fails = @ + 1]

Fails(nonce) == IF ~Stale(nonce) /\ ~Succeeds(nonce) THEN UNCHANGED server ELSE CountFail

ServerRotates ==
    /\ server.nonce < MaxStale
    /\ server' = [server EXCEPT !.nonce = @ + 1]
    /\ UNCHANGED <<turn, refreshLoop, api>>

----------------------------------------------------------------------------
(* The API.                                                                *)

Grants == api.op \in {"allocate2", "allocate3"} /\ ~Stale(turn.nonce) /\ server.held.alloc = Gone
Send(op) == api' = [op |-> op, left |-> MaxReply, since |-> 0]

\* allocate(): a request without credentials first.
Allocate ==
    /\ api = TurnIdle /\ ~Usable
    /\ turn' = [turn EXCEPT !.state = "Allocating"]
    /\ Send("allocate")
    /\ UNCHANGED <<refreshLoop, server>>

\* 401: realm and nonce are taken from it and the request repeated.  (A server
\* that asks for no credentials is not modelled.)
Challenged ==
    /\ api.op = "allocate"
    /\ turn' = [turn EXCEPT !.nonce = server.nonce]
    /\ Send("allocate2")
    /\ UNCHANGED <<refreshLoop, server>>

\* A 401 without them, or a success that cannot be parsed: the call returns
\* with the state still Allocating.
AllocateUnreadable ==
    /\ api.op = "allocate" \/ Grants
    /\ api' = TurnIdle
    /\ server.fails < MaxFails
    /\ server' = [server EXCEPT !.fails = @ + 1, !.held = IF api.op = "allocate" THEN @ ELSE Granted]
    /\ UNCHANGED <<turn, refreshLoop>>

\* Any other error, of which 438 is one after a 438, and the refusal of a
\* second allocation another.
AllocateFails ==
    /\ api.op \in {"allocate", "allocate2", "allocate3"}
    /\ turn' = [turn EXCEPT !.state = "Init"]
    /\ api' = TurnIdle
    /\ IF server.held.alloc # Gone \/ (api.op = "allocate3" /\ Stale(turn.nonce))
       THEN UNCHANGED server ELSE CountFail
    /\ UNCHANGED refreshLoop

Allocated(age) ==
    /\ Grants
    /\ turn' = [turn EXCEPT !.state = "Allocated", !.has = TRUE]
    /\ server' = [server EXCEPT !.held = [Granted EXCEPT !.alloc = age]]
    /\ api' = TurnIdle
    /\ refreshLoop' = [refreshLoop EXCEPT !.kept = {}]

\* 438 with a nonce: allocate() and refresh() try once more with it.
ApiStale ==
    /\ api.op \in {"allocate2", "refresh"} /\ Stale(turn.nonce)
    /\ turn' = [turn EXCEPT !.nonce = server.nonce]
    /\ Send(IF api.op = "refresh" THEN "refresh2" ELSE "allocate3")
    /\ UNCHANGED <<refreshLoop, server>>

\* create_permission(), channel_bind() and refresh().
Request(op) ==
    /\ api = TurnIdle /\ Usable
    /\ Send(op)
    /\ UNCHANGED <<turn, refreshLoop, server>>

\* deallocate() stops the task, and asks for a lifetime of zero.
Deallocate ==
    /\ api = TurnIdle /\ Usable
    /\ Send("deallocate")
    /\ refreshLoop' = Off
    /\ UNCHANGED <<turn, server>>

\* What an item is worth while the task runs and its refreshes succeed.
Care(i) == refreshLoop' = [refreshLoop EXCEPT !.kept = IF refreshLoop.pc = "off" THEN @ ELSE @ \union {i}]

\* The item is tracked as created now; channel_bind() sets the state, whatever
\* has become of it since.
ItemCreated(i, age) ==
    /\ api.op = i /\ Succeeds(turn.nonce)
    /\ turn' = [turn EXCEPT ![i] = 0, !.state = IF i = "bind" THEN "ChannelBound" ELSE @]
    /\ server' = [server EXCEPT !.held[i] = age]
    /\ Care(i)
    /\ api' = TurnIdle

Refreshed(age) ==
    /\ api.op \in {"refresh", "refresh2"} /\ Succeeds(turn.nonce)
    /\ server' = [server EXCEPT !.held.alloc = age]
    /\ api' = TurnIdle
    /\ UNCHANGED <<turn, refreshLoop>>

Deallocated ==
    /\ api.op = "deallocate" /\ Succeeds(turn.nonce)
    /\ turn' = [turn EXCEPT !.state = "Expired", !.has = FALSE]
    /\ server' = [server EXCEPT !.held = [Granted EXCEPT !.alloc = Gone]]
    /\ api' = TurnIdle
    /\ UNCHANGED refreshLoop

\* Any error; 438 is one to all but allocate() and refresh().
ApiFails ==
    /\ api.op \in Items \union {"refresh", "refresh2", "deallocate"}
    /\ api' = TurnIdle
    /\ IF Stale(turn.nonce) /\ api.op # "refresh" THEN UNCHANGED server ELSE Fails(turn.nonce)
    /\ UNCHANGED <<turn, refreshLoop>>

----------------------------------------------------------------------------
(* The refresh task.                                                       *)

\* The top of its loop: the deadline, when it has passed, is set anew; the
\* nonce is read once for all requests of the round.
AtMost(a, b) == IF a < b THEN a ELSE b
Top(t, l) ==
    IF ~t.has THEN Off
    ELSE LET due == IF l.due = 0 THEN RefreshAt ELSE l.due
         IN  [l EXCEPT !.pc = "sleep", !.left = AtMost(Round, due), !.since = 0,
                       !.due = due, !.nonce = t.nonce, !.again = Gone]

\* After a stage: the items that are due, permissions first, then the top.
MutantDue(t, i) == t[i] # Gone /\ t[i] >= ItemRefreshAt["bind"]
Due(t, i) == t[i] # Gone /\ t[i] >= ItemRefreshAt[i]
Exchange(l, pc) == [l EXCEPT !.pc = pc, !.left = MaxReply, !.since = 0, !.again = Gone]
After(t, l, stage) ==
    IF stage = "alloc" /\ Due(t, "perm") THEN Exchange(l, "perm")
    ELSE IF stage \in {"alloc", "perm"} /\ Due(t, "bind") THEN Exchange(l, "bind")
    ELSE Top(t, l)

\* start_refresh_loop(): its first deadline is set by the first round.  (A
\* second task, started while one runs, is not modelled.)
StartRefreshLoop ==
    /\ api = TurnIdle /\ refreshLoop.pc = "off" /\ turn.has
    /\ refreshLoop' = Top(turn, Off)
    /\ UNCHANGED <<turn, api, server>>

LoopWakes ==
    /\ refreshLoop.pc = "sleep" /\ refreshLoop.left = 0
    /\ refreshLoop' = IF ~Usable THEN Off
                      ELSE IF refreshLoop.due = 0 THEN Exchange(refreshLoop, "alloc")
                      ELSE After(turn, refreshLoop, "alloc")
    /\ UNCHANGED <<turn, api, server>>

Stage == [alloc |-> "alloc", alloc2 |-> "alloc", perm |-> "perm", perm2 |-> "perm",
          bind |-> "bind", bind2 |-> "bind"]
Retry == [alloc |-> "alloc2", perm |-> "perm2", bind |-> "bind2"]
Sent == IF refreshLoop.again # Gone THEN refreshLoop.again ELSE refreshLoop.nonce

LoopSucceeds(age) ==
    /\ refreshLoop.pc \in DOMAIN Stage /\ Succeeds(Sent)
    /\ LET stage == Stage[refreshLoop.pc]
           t == IF stage = "alloc" THEN turn ELSE [turn EXCEPT ![stage] = 0]
           l == [refreshLoop EXCEPT !.kept = @ \union {stage},
                                    !.due = IF stage = "alloc" THEN RefreshAt ELSE @]
       IN  /\ turn' = t
           /\ refreshLoop' = After(t, l, stage)
           /\ server' = [server EXCEPT !.held[stage] = age]
    /\ UNCHANGED api

\* 438: the nonce is shared with the API, and the request tried once more.  The
\* later stages of the round go on with the old nonce.
LoopStale ==
    /\ refreshLoop.pc \in DOMAIN Retry /\ Stale(Sent)
    /\ turn' = [turn EXCEPT !.nonce = server.nonce]
    /\ refreshLoop' = [Exchange(refreshLoop, Retry[refreshLoop.pc]) EXCEPT !.again = server.nonce]
    /\ UNCHANGED <<api, server>>

\* A failed refresh of the allocation ends the task; of an item, it waits for
\* the next round.
LoopFails ==
    /\ refreshLoop.pc \in DOMAIN Stage
    /\ IF refreshLoop.again # Gone /\ Stale(Sent) THEN UNCHANGED server ELSE Fails(Sent)
    /\ LET stage == Stage[refreshLoop.pc]
       IN  IF stage = "alloc"
           THEN turn' = [turn EXCEPT !.state = "Expired"] /\ refreshLoop' = Off
           ELSE /\ refreshLoop' = After(turn, [refreshLoop EXCEPT !.kept = @ \ {stage}], stage)
                /\ UNCHANGED turn
    /\ UNCHANGED api

StopRefreshLoop ==
    /\ api = TurnIdle /\ refreshLoop.pc # "off"
    /\ refreshLoop' = Off
    /\ UNCHANGED <<turn, api, server>>

----------------------------------------------------------------------------
Older(age, max) == IF age = Gone THEN Gone ELSE AtMost(age + 1, max)
Lapsing(age, life) == IF age = Gone \/ age + 1 >= life THEN Gone ELSE age + 1

Tick ==
    /\ refreshLoop.pc # "off" => refreshLoop.left > 0
    /\ api # TurnIdle => api.left > 0
    /\ turn' = [turn EXCEPT !.perm = Older(@, ItemRefreshAt["perm"]),
                            !.bind = Older(@, ItemRefreshAt["bind"])]
    /\ refreshLoop' = IF refreshLoop.pc = "off" THEN refreshLoop
                      ELSE [refreshLoop EXCEPT !.left = @ - 1, !.since = @ + 1, !.due = IF @ > 0 THEN @ - 1 ELSE 0]
    /\ api' = IF api = TurnIdle THEN api ELSE [api EXCEPT !.left = @ - 1, !.since = @ + 1]
    /\ LET held == server.held
       IN  server' = [server EXCEPT !.held =
             IF Lapsing(held.alloc, Lifetime) = Gone
             THEN [Granted EXCEPT !.alloc = Gone]
             ELSE [alloc |-> held.alloc + 1,
                   perm |-> Lapsing(held.perm, ItemLife["perm"]),
                   bind |-> Lapsing(held.bind, ItemLife["bind"])]]

TurnNext ==
    \/ ServerRotates \/ Tick
    \/ Allocate \/ Challenged \/ AllocateUnreadable \/ AllocateFails
    \/ \E op \in Items \union {"refresh"} : Request(op)
    \/ \E age \in Ages(api.since) :
          \/ Allocated(age) \/ Refreshed(age)
          \/ \E i \in Items : ItemCreated(i, age)
    \/ ApiStale \/ ApiFails \/ Deallocate \/ Deallocated
    \/ StartRefreshLoop \/ StopRefreshLoop
    \/ LoopWakes \/ LoopStale \/ LoopFails
    \/ \E age \in Ages(refreshLoop.since) : LoopSucceeds(age)

TurnSpec == TurnInit /\ [][TurnNext]_turnVars

----------------------------------------------------------------------------
(* Properties.                                                             *)

\* Types.  Ages stop counting when they are due; what lapsed is gone.
TurnTypeOK ==
    /\ turn.state \in {"Init", "Allocating", "Allocated", "ChannelBound", "Expired"}
    /\ turn.has \in BOOLEAN /\ turn.nonce \in Gone .. server.nonce
    /\ \A i \in Items : /\ turn[i] \in Gone .. ItemRefreshAt[i]
                        /\ server.held[i] \in Gone .. (ItemLife[i] - 1)
    /\ refreshLoop.pc \in {"off", "sleep"} \union DOMAIN Stage
    /\ refreshLoop.left \in 0 .. (Round + MaxReply) /\ refreshLoop.due \in 0 .. RefreshAt
    /\ api.left \in 0 .. MaxReply
    /\ server.held.alloc \in Gone .. (Lifetime - 1)

\* A permission or channel created, or refreshed, while the task runs does not
\* lapse at the server before the allocation does, unless a refresh of it fails
\* (Bug #33): whatever nonces go stale in the middle of a round, and however the
\* exchanges of a round delay each other, as long as one takes at most MaxReply.
ItemsKept == Usable /\ server.held.alloc # Gone => \A i \in refreshLoop.kept : server.held[i] # Gone

\* An allocation that the task has refreshed once is refreshed again before it
\* lapses ("at 80% of its lifetime"), or the state tells that it is lost.
AllocationKept == Usable /\ "alloc" \in refreshLoop.kept => server.held.alloc # Gone
=============================================================================
