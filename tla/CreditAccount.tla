---------------------------- MODULE CreditAccount ----------------------------
(***************************************************************************)
(* What the wallet promises: a credit request is applied in one indivisible *)
(* step or not at all.  One step appends the ledger entry, moves the        *)
(* balance by exactly its delta and, for a superchat, records the donation; *)
(* an idempotency key is spent at most once; no balance goes below zero.    *)
(* This is the contract that WalletRepository.apply states in one call      *)
(* (aria/contexts/wallet/application/port/out/repository.py) and that       *)
(* WalletLedger implements with several SQL statements.                     *)
(***************************************************************************)
EXTENDS Integers

CONSTANTS
    Users,      \* wallet owners (user_id)
    Calls,      \* calls of apply(); a retry or a redelivery is another call
    NoKey,      \* idempotency_key = None
    request     \* what each call asks for, see Requests

(* A request: whose wallet, the signed delta, the idempotency key, and      *)
(* whether a donation row goes with it.                                     *)
Keys == {request[c].key : c \in Calls}

ASSUME RequestAssumption ==
    /\ DOMAIN request = Calls
    /\ \A c \in Calls :
        /\ request[c].user \in Users
        /\ request[c].delta \in Int \ {0}
        /\ request[c].donation \in BOOLEAN
        /\ request[c].donation => request[c].delta < 0

VARIABLES
    ledger,     \* the calls whose entry is in wallet_credit_transaction
    balance,    \* wallet_wallet.credit_balance per user
    donations   \* the calls whose row is in wallet_donation

accountVars == <<ledger, balance, donations>>

(* The unique constraint does not see NULL keys: two of them never clash.   *)
SameKey(c, d) == request[c].key # NoKey /\ request[c].key = request[d].key

Init ==
    /\ ledger = {}
    /\ balance = [u \in Users |-> 0]
    /\ donations = {}

(* The whole of apply(), as its caller sees it when it succeeds.            *)
Apply(c) ==
    /\ c \notin ledger
    /\ \A d \in ledger : ~SameKey(c, d)
    /\ balance[request[c].user] + request[c].delta >= 0
    /\ ledger' = ledger \cup {c}
    /\ balance' = [balance EXCEPT ![request[c].user] = @ + request[c].delta]
    /\ donations' = IF request[c].donation THEN donations \cup {c} ELSE donations

Next == \E c \in Calls : Apply(c)

Spec == Init /\ [][Next]_accountVars
=============================================================================
