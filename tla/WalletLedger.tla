----------------------------- MODULE WalletLedger -----------------------------
(***************************************************************************)
(* SqlModelWalletRepository.apply, statement by statement                   *)
(* (aria/contexts/wallet/adapter/outbound/persistence/repository.py).       *)
(*                                                                          *)
(* Calls of apply() run concurrently, each in a database session.  An HTTP  *)
(* request has a session of its own; the two subscribers of wallet-worker   *)
(* share one for the life of the worker (aria/workers/wallet.py).  Which    *)
(* call uses which session is the constant session, so both deployments are *)
(* instances of this module.                                                *)
(*                                                                          *)
(* PostgreSQL runs at READ COMMITTED: a statement sees what is committed    *)
(* plus its own transaction; an insert of a key that another transaction    *)
(* holds uncommitted waits, and so does an update of a row another          *)
(* transaction has updated.  A statement is atomic: method calls on one     *)
(* session do not overlap here, they only alternate.  A commit is done by   *)
(* the database before the caller hears of it, and the caller may never     *)
(* hear of it.                                                              *)
(***************************************************************************)
EXTENDS CreditAccount, FiniteSetsExt

CONSTANTS
    Sessions,   \* SQLModel sessions, each with at most one open transaction
    session     \* the session each call of apply() runs in

ASSUME SessionAssumption == session \in [Calls -> Sessions]

VARIABLES
    wallets,    \* users that have a committed wallet_wallet row
    tx,         \* the open transaction of each session
    pc          \* the next statement of each call

vars == <<accountVars, wallets, tx, pc>>

Active == {"get_wallet", "add_wallet", "insert", "update", "commit",
           "read_applied", "read_duplicate"}
Returned == {"applied", "duplicate", "insufficient", "failed"}

(* The uncommitted work of a session: inserted ledger rows, wallet rows it   *)
(* has locked by updating them, and the change it made to each balance.      *)
EmptyTx == [rows |-> {}, locked |-> {}, change |-> [u \in Users |-> 0]]

TypeOK ==
    /\ ledger \subseteq Calls
    /\ balance \in [Users -> Nat]
    /\ donations \subseteq Calls
    /\ wallets \subseteq Users
    /\ tx \in [Sessions -> [rows : SUBSET Calls, locked : SUBSET Users,
                            change : [Users -> Int]]]
    /\ pc \in [Calls -> Active \cup Returned]

WInit ==
    /\ Init
    /\ wallets = {}
    /\ tx = [s \in Sessions |-> EmptyTx]
    /\ pc = [c \in Calls |-> "get_wallet"]

-----------------------------------------------------------------------------

Owner(c) == request[c].user
Delta(c) == request[c].delta

Goto(c, label) == pc' = [pc EXCEPT ![c] = label]

(* session.commit(): everything the session has done becomes visible.        *)
CommitRows(s) ==
    /\ ledger' = ledger \cup tx[s].rows
    /\ balance' = [u \in Users |-> balance[u] + tx[s].change[u]]

(* Commit and rollback both end the transaction and release its locks.       *)
CloseTx(s) == tx' = [tx EXCEPT ![s] = EmptyTx]

(* Fault: a refusal keeps the ledger insert it should take back.             *)
RollbackKeepsRows(s) ==
    /\ CloseTx(s)
    /\ ledger' = ledger \cup tx[s].rows
    /\ UNCHANGED <<balance, donations>>
(* Fault: the exception leaves the transaction open, locks and all.          *)
RollbackForgotten(s) == UNCHANGED <<tx, accountVars>>
Rollback(s) == CloseTx(s) /\ UNCHANGED accountVars

(* What a statement of session s reads as the balance of u.                  *)
Seen(s, u) == balance[u] + tx[s].change[u]

(* Another transaction has inserted the key and not finished: an insert of   *)
(* the same key waits for it.                                                *)
KeyPending(c) ==
    \E t \in Sessions \ {session[c]} : \E d \in tx[t].rows : SameKey(c, d)

(* Fault: no unique constraint.                                               *)
KeyTakenNever(c) == FALSE
(* The unique constraint refuses the key.                                    *)
KeyTaken(c) == \E d \in ledger \cup tx[session[c]].rows : SameKey(c, d)

(* Another transaction has updated the wallet row: an update waits for it.   *)
RowLocked(c) ==
    \E t \in Sessions \ {session[c]} : Owner(c) \in tx[t].locked

(* The WHERE clause of _debit; a credit has none.                            *)
Covers(c) == Seen(session[c], Owner(c)) + Delta(c) >= 0

-----------------------------------------------------------------------------

(* _ensure_wallet, first half: session.get(WalletTable).                     *)
GetWallet(c) ==
    /\ pc[c] = "get_wallet"
    /\ Goto(c, IF Owner(c) \in wallets THEN "insert" ELSE "add_wallet")
    /\ UNCHANGED <<accountVars, wallets, tx>>

(* What the database does with the INSERT and the commit of _ensure_wallet.  *)
(* When another call inserted the row first the primary key refuses and the  *)
(* session is rolled back; either way the row exists afterwards.             *)
EnsureRow(c) ==
    /\ IF Owner(c) \in wallets
       THEN Rollback(session[c])
       ELSE /\ CommitRows(session[c])
            /\ CloseTx(session[c])
            /\ UNCHANGED donations
    /\ wallets' = wallets \cup {Owner(c)}

(* _ensure_wallet, second half.                                              *)
AddWallet(c) == pc[c] = "add_wallet" /\ EnsureRow(c) /\ Goto(c, "insert")

(* session.add(CreditTransactionTable) and flush().  The unique key is the   *)
(* only gate against a second application: on IntegrityError the call rolls  *)
(* back and goes on to read the balance as if it had been applied now.       *)
InsertEntry(c) ==
    /\ pc[c] = "insert"
    /\ ~KeyPending(c)
    /\ IF KeyTaken(c)
       THEN Rollback(session[c]) /\ Goto(c, "read_duplicate")
       ELSE /\ tx' = [tx EXCEPT ![session[c]].rows = @ \cup {c}]
            /\ Goto(c, "update")
            /\ UNCHANGED accountVars
    /\ UNCHANGED wallets

(* _debit touched no row: roll back, which also removes the ledger insert,   *)
(* and raise InsufficientCreditError.  A row that fails the WHERE clause is   *)
(* not waited for, whoever holds its lock.                                   *)
RefuseDebit(c) ==
    /\ pc[c] = "update"
    /\ ~Covers(c)
    /\ Rollback(session[c])
    /\ Goto(c, "insufficient")
    /\ UNCHANGED wallets

(* _credit, or _debit with enough balance: one UPDATE that reads and writes  *)
(* the row under its lock.                                                   *)
MoveBalance(c) ==
    /\ pc[c] = "update"
    /\ Covers(c)
    /\ ~RowLocked(c)
    /\ tx' = [tx EXCEPT ![session[c]].locked = @ \cup {Owner(c)},
                        ![session[c]].change[Owner(c)] = @ + Delta(c)]
    /\ Goto(c, "commit")
    /\ UNCHANGED <<accountVars, wallets>>

(* Fault: the donation row is committed with the insert of every entry.      *)
GiftOfAny(c) == {c}
(* The donation row that goes into the same transaction.                     *)
GiftOf(c) == IF request[c].donation THEN {c} ELSE {}

(* What the database does when the donation row, if there is one, has been   *)
(* added and the session commits.                                            *)
CommitEntry(c) ==
    /\ CommitRows(session[c])
    /\ donations' = donations \cup GiftOf(c)
    /\ CloseTx(session[c])
    /\ UNCHANGED wallets

(* session.add(DonationTable) and session.commit().                          *)
Commit(c) == pc[c] = "commit" /\ CommitEntry(c) /\ Goto(c, "read_applied")

(* balance_of: a SELECT in a transaction of its own, and the call returns.   *)
Answer(c) ==
    /\ \/ pc[c] = "read_applied" /\ Goto(c, "applied")
       \/ pc[c] = "read_duplicate" /\ Goto(c, "duplicate")
    /\ UNCHANGED <<accountVars, wallets, tx>>

(* The process or its connection dies, and no call of the session returns.   *)
(* The database rolls the open transaction back, unless a commit was on its  *)
(* way: then it may have been done, with nobody left to hear of it.          *)
Crash(s) ==
    /\ \E c \in Calls : session[c] = s /\ pc[c] \in Active
    /\ \/ Rollback(s) /\ UNCHANGED wallets
       \/ \E c \in Calls : session[c] = s /\ pc[c] = "commit" /\ CommitEntry(c)
       \/ \E c \in Calls : session[c] = s /\ pc[c] = "add_wallet" /\ EnsureRow(c)
    /\ pc' = [c \in Calls |-> IF session[c] = s /\ pc[c] \in Active
                              THEN "failed" ELSE pc[c]]

Step(c) ==
    \/ GetWallet(c)
    \/ AddWallet(c)
    \/ InsertEntry(c)
    \/ RefuseDebit(c)
    \/ MoveBalance(c)
    \/ Commit(c)
    \/ Answer(c)

WNext ==
    \/ \E c \in Calls : Step(c)
    \/ \E s \in Sessions : Crash(s)

WSpec == WInit /\ [][WNext]_vars

(* The database grants a lock to a waiting statement once it is free, and a  *)
(* running call goes on to its next statement; nothing forces a crash.       *)
FairSpec == WSpec /\ \A c \in Calls : WF_vars(Step(c))

-----------------------------------------------------------------------------

(* The balance is the materialised sum of the ledger: no interleaving of     *)
(* apply() calls, refusals, duplicates and crashes separates the two         *)
(* (repository.apply, "balance and ledger in one transaction").              *)
BalanceIsLedgerSum ==
    \A u \in Users :
        balance[u] = MapThenSumSet(LAMBDA c : Delta(c),
                                   {c \in ledger : Owner(c) = u})

(* An idempotency key is spent once, however many calls carry it at once:    *)
(* redelivered events and retried superchats never move credit twice.        *)
KeyAppliedOnce ==
    \A c, d \in ledger : SameKey(c, d) => c = d

(* A donation row exists exactly for the debits that carried one.            *)
DonationIffDebit ==
    donations = {c \in ledger : request[c].donation}

(* A caller that is told something is told the truth: an applied entry is in *)
(* the ledger, a refused one is not and never will be, and a duplicate stands *)
(* on another entry that is committed for good, never on work that is undone.  *)
(* A caller that is told nothing knows nothing: the answer may have been lost *)
(* on either side of the commit (repository.apply, :81-90 and :107-108).      *)
AnswerMatchesLedger ==
    \A c \in Calls :
        /\ pc[c] = "applied" => c \in ledger
        /\ pc[c] = "insufficient" => c \notin ledger
        /\ pc[c] = "duplicate" =>
                c \notin ledger /\ \E d \in ledger : SameKey(c, d)

(* Statement by statement, apply() implements the one-step contract.         *)
RefinesAccount == Spec

(* Key waits and row-lock waits never block each other for ever: every call  *)
(* of apply() returns.                                                       *)
EveryCallReturns == \A c \in Calls : <>(pc[c] \in Returned)
=============================================================================
