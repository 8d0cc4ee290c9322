-------------------------- MODULE StunTransaction --------------------------
(***************************************************************************)
(* One STUN transaction (nat/stun/transaction.rs) and the client that      *)
(* drives it over a socket (execute_transaction of nat/stun/client.rs),    *)
(* in units of the initial retransmission timeout (500 ms).  The socket    *)
(* may be the one that carries RTP: what is not the answer is handed on,   *)
(* while the caller's buffer has room.                                     *)
(***************************************************************************)
EXTENDS Naturals

CONSTANTS
    MaxRetransmits,  \* MAX_RETRANSMITS (7)
    BufferSize,      \* capacity of non_stun_buffer
    MaxNoise         \* bound: other packets that arrive

ASSUME TxnAssumption == {MaxRetransmits, BufferSize, MaxNoise} \subseteq Nat

VARIABLES
    txn,      \* the StunTransaction, times counted down
    waited,  \* time since it was created
    handed,   \* packets in non_stun_buffer
    noise     \* packets that arrived and were not the answer

txnVars == <<txn, waited, handed, noise>>

TxnInit ==
    /\ \E skip \in BOOLEAN :
         txn = [state |-> "Waiting", at |-> 1, count |-> 0, rto |-> 1, skip_source |-> skip]
    /\ waited = 0 /\ handed = 0 /\ noise = 0

Waiting == txn.state = "Waiting"

\* What may arrive: from the server or from elsewhere; no STUN, STUN of another
\* transaction (or unreadable), or the response.
StunPackets == [from : {"server", "elsewhere"}, kind : {"media", "other", "response"}]
Accepted(p) == p.kind = "response" /\ (p.from = "server" \/ txn.skip_source)
HandedOn(p) == p.kind = "media" \/ (p.from = "elsewhere" /\ ~txn.skip_source)

Receive(p) ==
    /\ Waiting /\ Accepted(p)
    /\ txn' = [txn EXCEPT !.state = "Completed"]
    /\ UNCHANGED <<waited, handed, noise>>

ReceiveOther(p) ==
    /\ Waiting /\ ~Accepted(p) /\ noise < MaxNoise
    /\ noise' = noise + 1
    /\ handed' = IF HandedOn(p) /\ handed < BufferSize THEN handed + 1 ELSE handed
    /\ UNCHANGED <<txn, waited>>

\* poll() at a deadline: the timeout doubles with each retransmission.
Retransmit ==
    /\ Waiting /\ txn.at = 0 /\ txn.count < MaxRetransmits
    /\ txn' = [txn EXCEPT !.count = @ + 1, !.rto = 2 * @, !.at = 2 * txn.rto]
    /\ UNCHANGED <<waited, handed, noise>>

\* A bug that would pass the tests: the last retransmission is never given up on.
MutantTimeOut ==
    /\ Waiting /\ txn.at = 0 /\ txn.count > MaxRetransmits
    /\ txn' = [txn EXCEPT !.state = "TimedOut"]
    /\ UNCHANGED <<waited, handed, noise>>
TimeOut ==
    /\ Waiting /\ txn.at = 0 /\ txn.count >= MaxRetransmits
    /\ txn' = [txn EXCEPT !.state = "TimedOut"]
    /\ UNCHANGED <<waited, handed, noise>>

SocketFails ==
    /\ Waiting
    /\ txn' = [txn EXCEPT !.state = "Failed"]
    /\ UNCHANGED <<waited, handed, noise>>

TxnTick ==
    /\ Waiting /\ txn.at > 0
    /\ waited' = waited + 1
    /\ txn' = [txn EXCEPT !.at = @ - 1]
    /\ UNCHANGED <<handed, noise>>

\* What happens by itself; packets and errors come from outside.
TxnWork == Retransmit \/ TimeOut \/ TxnTick
TxnNext == TxnWork \/ SocketFails \/ (\E p \in StunPackets : Receive(p) \/ ReceiveOther(p))

TxnSpec == TxnInit /\ [][TxnNext]_txnVars /\ WF_txnVars(TxnWork)

----------------------------------------------------------------------------
(* Properties.                                                             *)

TxnTypeOK ==
    /\ txn.state \in {"Waiting", "Completed", "TimedOut", "Failed"}
    /\ txn.count \in 0 .. MaxRetransmits /\ txn.at \in 0 .. txn.rto
    /\ handed \in 0 .. BufferSize /\ noise \in 0 .. MaxNoise

\* Once time runs, the transaction ends without an answer, however busy the
\* socket is.
TransactionEnds == waited > 0 ~> ~Waiting
=============================================================================
