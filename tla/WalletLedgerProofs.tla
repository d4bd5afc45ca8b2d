-------------------------- MODULE WalletLedgerProofs --------------------------
(***************************************************************************)
(* Proofs about WalletLedger, for any users, calls, requests and sessions,  *)
(* as long as no two calls share a session: the deployment of the HTTP      *)
(* services.  (The shared session of wallet-worker breaks the results; the  *)
(* run wallet_worker_session shows how.)                                    *)
(*                                                                          *)
(* The safety invariants are not inductive: what a commit writes depends on *)
(* the open transaction, so IInv ties every open transaction to the program *)
(* counter of the one call it belongs to.                                   *)
(***************************************************************************)
EXTENDS WalletLedger, TLAPS, FiniteSetTheorems, WellFoundedInduction

PrivateSessions == \A c, d \in Calls : session[c] = session[d] => c = d

(* The open transaction of a call, as its program counter determines it.     *)
ChangeOf(c) == [u \in Users |-> IF u = Owner(c) THEN Delta(c) ELSE 0]
TxAt(c) ==
    IF pc[c] = "update"
    THEN [rows |-> {c}, locked |-> {}, change |-> [u \in Users |-> 0]]
    ELSE IF pc[c] = "commit"
         THEN [rows |-> {c}, locked |-> {Owner(c)}, change |-> ChangeOf(c)]
         ELSE EmptyTx

TxFollowsPc == \A c \in Calls : tx[session[c]] = TxAt(c)

(* Of the calls in the ledger some have been answered, some are about to be,  *)
(* and some died between their commit and their answer.                      *)
LedgerFollowsPc ==
    /\ \A c \in Calls : pc[c] \in {"read_applied", "applied"} => c \in ledger
    /\ \A c \in ledger : pc[c] \in {"read_applied", "applied", "failed"}

(* The calls that own their key: inserted and not rolled back.               *)
Holds(c) == pc[c] \in {"update", "commit"} \/ c \in ledger
KeyHeldOnce ==
    \A c, d \in Calls : Holds(c) /\ Holds(d) /\ SameKey(c, d) => c = d

(* At most one call is between its UPDATE and its commit on a wallet, and     *)
(* the balance it saw there still covers it.                                  *)
RowHeldOnce ==
    \A c, d \in Calls :
        pc[c] = "commit" /\ pc[d] = "commit" /\ Owner(c) = Owner(d) => c = d
StillCovered ==
    \A c \in Calls : pc[c] = "commit" => balance[Owner(c)] + Delta(c) >= 0

(* A call that was refused as a duplicate stands on another, committed entry. *)
DuplicateHasOriginal ==
    \A c \in Calls : pc[c] \in {"read_duplicate", "duplicate"} =>
        \E d \in ledger : SameKey(c, d)

IInv ==
    /\ TypeOK
    /\ TxFollowsPc
    /\ LedgerFollowsPc
    /\ KeyHeldOnce
    /\ RowHeldOnce
    /\ StillCovered
    /\ DonationIffDebit
    /\ DuplicateHasOriginal

-----------------------------------------------------------------------------

(* What the assumptions say of the request of one call.                      *)
LEMMA RequestType ==
    ASSUME NEW c \in Calls
    PROVE  /\ Owner(c) \in Users
           /\ Delta(c) \in Int
           /\ request[c].donation \in BOOLEAN
           /\ session[c] \in Sessions
BY RequestAssumption, SessionAssumption DEF Owner, Delta

LEMMA EmptyTxType ==
    EmptyTx \in [rows : SUBSET Calls, locked : SUBSET Users,
                 change : [Users -> Int]]
BY DEF EmptyTx

(* Initially no transaction is open and nothing is recorded.                 *)
LEMMA InitInv == WInit => IInv
<1> SUFFICES ASSUME WInit PROVE IInv
    OBVIOUS
<1> USE DEF WInit, Init
<1>1. TypeOK
    BY EmptyTxType DEF TypeOK, Active, Returned
<1>2. TxFollowsPc
    BY RequestType DEF TxFollowsPc, TxAt
<1>3. LedgerFollowsPc /\ KeyHeldOnce /\ RowHeldOnce /\ StillCovered
    BY DEF LedgerFollowsPc, KeyHeldOnce, Holds, RowHeldOnce, StillCovered
<1>4. DonationIffDebit /\ DuplicateHasOriginal
    BY DEF DonationIffDebit, DuplicateHasOriginal
<1> QED BY <1>1, <1>2, <1>3, <1>4 DEF IInv

(* Every action of one call moves only its own program counter.              *)
LEMMA GotoOne ==
    ASSUME NEW c \in Calls, NEW label \in Active \cup Returned,
           pc \in [Calls -> Active \cup Returned], Goto(c, label)
    PROVE  /\ pc' \in [Calls -> Active \cup Returned]
           /\ pc'[c] = label
           /\ \A d \in Calls \ {c} : pc'[d] = pc[d]
BY DEF Goto

(* Closing a transaction that is empty changes nothing.                      *)
LEMMA CloseEmpty ==
    ASSUME NEW s \in Sessions, TypeOK, tx[s] = EmptyTx, CloseTx(s)
    PROVE  tx' = tx
BY DEF TypeOK, CloseTx

(* A commit of an empty transaction records nothing.                         *)
LEMMA CommitEmpty ==
    ASSUME NEW s \in Sessions, TypeOK, tx[s] = EmptyTx, CommitRows(s)
    PROVE  ledger' = ledger /\ balance' = balance
<1>1. ledger' = ledger
    BY DEF CommitRows, EmptyTx
<1>2. \A u \in Users : balance[u] + tx[s].change[u] = balance[u]
    <2> TAKE u \in Users
    <2>1. tx[s].change[u] = 0
        BY DEF EmptyTx
    <2>2. balance[u] \in Nat
        BY DEF TypeOK
    <2> QED BY <2>1, <2>2
<1>3. balance' = balance
    BY <1>2 DEF CommitRows, TypeOK
<1> QED BY <1>1, <1>3

(* The transaction a call should have depends on its program counter only.   *)
LEMMA TxAtSame ==
    ASSUME NEW d \in Calls, pc'[d] = pc[d]
    PROVE  TxAt(d)' = TxAt(d)
BY DEF TxAt, EmptyTx, ChangeOf, Owner, Delta

(* Where a call has no open transaction.                                     *)
Quiet == {"get_wallet", "add_wallet", "insert", "read_applied", "read_duplicate"}

(* A step that changes no row and no lock, and leaves its call outside the    *)
(* transaction, preserves the invariant.                                     *)
LEMMA QuietStep ==
    ASSUME IInv, PrivateSessions, NEW c \in Calls, pc[c] \in Quiet,
           pc' \in [Calls -> Active \cup Returned],
           pc'[c] \notin {"update", "commit"},
           pc'[c] \in {"read_applied", "applied"} => c \in ledger,
           c \in ledger => pc'[c] \in {"read_applied", "applied", "failed"},
           pc'[c] \in {"read_duplicate", "duplicate"} => \E d \in ledger : SameKey(c, d),
           \A d \in Calls \ {c} : pc'[d] = pc[d],
           wallets' \subseteq Users,
           UNCHANGED <<ledger, balance, donations, tx>>
    PROVE  IInv'
<1> USE DEF IInv
<1>2. TypeOK'
    BY DEF TypeOK
<1>3. TxFollowsPc'
    BY DEF TxFollowsPc, TxAt, Owner, ChangeOf, Delta, Quiet
<1>4. LedgerFollowsPc'
    BY DEF LedgerFollowsPc, TypeOK
<1>5. KeyHeldOnce' /\ RowHeldOnce' /\ StillCovered'
    BY DEF KeyHeldOnce, Holds, RowHeldOnce, StillCovered, Owner, Delta, SameKey
<1>6. DonationIffDebit'
    BY DEF DonationIffDebit
<1>7. DuplicateHasOriginal'
    BY DEF DuplicateHasOriginal, SameKey
<1> QED BY <1>2, <1>3, <1>4, <1>5, <1>6, <1>7

(* get_wallet, add_wallet: the session has no open transaction, so its       *)
(* commit or rollback does nothing but close it.                             *)
LEMMA GetWalletInv ==
    ASSUME IInv, PrivateSessions, NEW c \in Calls, GetWallet(c)
    PROVE  IInv'
<1>1. wallets' \subseteq Users /\ UNCHANGED <<ledger, balance, donations, tx>>
    BY DEF GetWallet, accountVars, IInv, TypeOK
<1>2. PICK label \in {"insert", "add_wallet"} : Goto(c, label)
    BY DEF GetWallet
<1>3. /\ pc' \in [Calls -> Active \cup Returned]
      /\ pc'[c] = label
      /\ \A d \in Calls \ {c} : pc'[d] = pc[d]
    BY <1>2, GotoOne DEF IInv, TypeOK, Active
<1>4. pc[c] \in Quiet /\ c \notin ledger
    BY DEF GetWallet, Quiet, IInv, LedgerFollowsPc
<1> QED BY <1>1, <1>3, <1>4, QuietStep

LEMMA EnsureRowEffect ==
    ASSUME IInv, NEW c \in Calls, pc[c] = "add_wallet", EnsureRow(c)
    PROVE  UNCHANGED <<ledger, balance, donations, tx>> /\ wallets' \subseteq Users
<1>1. tx[session[c]] = EmptyTx
    BY DEF IInv, TxFollowsPc, TxAt
<1>2. TypeOK /\ session[c] \in Sessions
    BY RequestType DEF IInv
<1>3. CloseTx(session[c])
    BY DEF EnsureRow, Rollback
<1>4. tx' = tx
    BY <1>1, <1>2, <1>3, CloseEmpty
<1>5. CASE Owner(c) \in wallets
    BY <1>4, <1>5, RequestType DEF EnsureRow, Rollback, accountVars, IInv, TypeOK
<1>6. CASE Owner(c) \notin wallets
    BY <1>1, <1>2, <1>4, <1>6, CommitEmpty, RequestType DEF EnsureRow, IInv, TypeOK
<1> QED BY <1>5, <1>6

LEMMA AddWalletInv ==
    ASSUME IInv, PrivateSessions, NEW c \in Calls, AddWallet(c)
    PROVE  IInv'
<1>1. UNCHANGED <<ledger, balance, donations, tx>> /\ wallets' \subseteq Users
    BY EnsureRowEffect DEF AddWallet
<1>2. /\ pc' \in [Calls -> Active \cup Returned]
      /\ pc'[c] = "insert"
      /\ \A d \in Calls \ {c} : pc'[d] = pc[d]
    BY GotoOne DEF AddWallet, IInv, TypeOK, Active
<1>3. pc[c] \in Quiet /\ c \notin ledger
    BY DEF AddWallet, Quiet, IInv, LedgerFollowsPc
<1> QED BY <1>1, <1>2, <1>3, QuietStep

(* The answer of a call that has committed, or that met its key.             *)
LEMMA AnswerInv ==
    ASSUME IInv, PrivateSessions, NEW c \in Calls, Answer(c)
    PROVE  IInv'
<1>1. UNCHANGED <<ledger, balance, donations, tx>> /\ wallets' \subseteq Users
    BY DEF Answer, accountVars, IInv, TypeOK
<1>2. CASE pc[c] = "read_applied" /\ Goto(c, "applied")
    <2>1. /\ pc' \in [Calls -> Active \cup Returned]
          /\ pc'[c] = "applied"
          /\ \A d \in Calls \ {c} : pc'[d] = pc[d]
        BY <1>2, GotoOne DEF IInv, TypeOK, Returned
    <2>2. pc[c] \in Quiet /\ c \in ledger
        BY <1>2 DEF Quiet, IInv, LedgerFollowsPc
    <2> QED BY <1>1, <2>1, <2>2, QuietStep
<1>3. CASE pc[c] = "read_duplicate" /\ Goto(c, "duplicate")
    <2>1. /\ pc' \in [Calls -> Active \cup Returned]
          /\ pc'[c] = "duplicate"
          /\ \A d \in Calls \ {c} : pc'[d] = pc[d]
        BY <1>3, GotoOne DEF IInv, TypeOK, Returned
    <2>2. pc[c] \in Quiet /\ c \notin ledger /\ \E d \in ledger : SameKey(c, d)
        BY <1>3 DEF Quiet, IInv, LedgerFollowsPc, DuplicateHasOriginal
    <2> QED BY <1>1, <2>1, <2>2, QuietStep
<1> QED BY <1>2, <1>3 DEF Answer

(* A call that inserts its key holds it alone: whoever else holds that key   *)
(* is either committed, and the key is taken, or uncommitted, and the insert *)
(* waits.                                                                    *)
LEMMA InsertAlone ==
    ASSUME IInv, PrivateSessions, NEW c \in Calls, pc[c] = "insert",
           ~KeyPending(c), ~KeyTaken(c), NEW d \in Calls, Holds(d)
    PROVE  ~SameKey(c, d)
<1> USE DEF IInv
<1>1. CASE d \in ledger
    BY <1>1 DEF KeyTaken
<1>2. CASE pc[d] \in {"update", "commit"}
    <2>1. d \in tx[session[d]].rows
        <3>1. tx[session[d]] = TxAt(d)
            BY DEF TxFollowsPc
        <3>2. TxAt(d).rows = {d}
            BY <1>2 DEF TxAt
        <3> QED BY <3>1, <3>2
    <2>2. session[d] \in Sessions \ {session[c]}
        BY <1>2, RequestType DEF PrivateSessions
    <2> QED BY <2>1, <2>2 DEF KeyPending
<1> QED BY <1>1, <1>2 DEF Holds

LEMMA InsertEntryInv ==
    ASSUME IInv, PrivateSessions, NEW c \in Calls, InsertEntry(c)
    PROVE  IInv'
<1> USE DEF IInv
<1>0. tx[session[c]] = EmptyTx /\ session[c] \in Sessions
    BY RequestType DEF TxFollowsPc, TxAt, InsertEntry
<1>1. CASE KeyTaken(c)
    <2>1. \E d \in ledger : SameKey(c, d)
        BY <1>0, <1>1 DEF KeyTaken, EmptyTx
    <2>2. tx' = tx
        BY <1>0, <1>1, CloseEmpty DEF InsertEntry, Rollback
    <2>3. UNCHANGED <<ledger, balance, donations>> /\ wallets' \subseteq Users
        BY <1>1 DEF InsertEntry, Rollback, accountVars, TypeOK
    <2>4. /\ pc' \in [Calls -> Active \cup Returned]
          /\ pc'[c] = "read_duplicate"
          /\ \A d \in Calls \ {c} : pc'[d] = pc[d]
        BY <1>1, GotoOne DEF InsertEntry, TypeOK, Active
    <2>5. pc[c] \in Quiet /\ c \notin ledger
        BY DEF InsertEntry, Quiet, LedgerFollowsPc
    <2> QED BY <2>1, <2>2, <2>3, <2>4, <2>5, QuietStep
<1>2. CASE ~KeyTaken(c)
    <2>1. /\ pc' \in [Calls -> Active \cup Returned]
          /\ pc'[c] = "update"
          /\ \A d \in Calls \ {c} : pc'[d] = pc[d]
        BY <1>2, GotoOne DEF InsertEntry, TypeOK, Active
    <2>2. /\ UNCHANGED <<ledger, balance, donations, wallets>>
          /\ tx' = [tx EXCEPT ![session[c]].rows = @ \cup {c}]
        BY <1>2 DEF InsertEntry, accountVars
    <2>3. TypeOK'
        BY <2>1, <2>2 DEF TypeOK
    <2>4. TxFollowsPc'
        <3> SUFFICES ASSUME NEW d \in Calls
                     PROVE  tx'[session[d]] = TxAt(d)'
            BY DEF TxFollowsPc
        <3>1. CASE d = c
            <4>1. tx'[session[c]] = [EmptyTx EXCEPT !.rows = @ \cup {c}]
                BY <1>0, <2>2 DEF TypeOK
            <4>2. tx'[session[c]] =
                    [rows |-> {c}, locked |-> {}, change |-> [u \in Users |-> 0]]
                BY <4>1 DEF EmptyTx
            <4> QED BY <2>1, <3>1, <4>2 DEF TxAt
        <3>2. CASE d # c
            <4>1. session[d] # session[c] /\ session[d] \in Sessions
                BY <3>2, RequestType DEF PrivateSessions
            <4>2. tx'[session[d]] = tx[session[d]]
                BY <2>2, <4>1 DEF TypeOK
            <4> QED BY <2>1, <3>2, <4>2, TxAtSame DEF TxFollowsPc
        <3> QED BY <3>1, <3>2
    <2>5. LedgerFollowsPc'
        BY <2>1, <2>2 DEF LedgerFollowsPc, InsertEntry, TypeOK
    <2>6. KeyHeldOnce'
        <3> SUFFICES ASSUME NEW d \in Calls, NEW e \in Calls,
                            Holds(d)', Holds(e)', SameKey(d, e)
                     PROVE  d = e
            BY DEF KeyHeldOnce, SameKey
        <3>1. \A f \in Calls \ {c} : Holds(f)' => Holds(f)
            BY <2>1, <2>2 DEF Holds
        <3>2. CASE d = c \/ e = c
            BY <1>2, <3>1, <3>2, InsertAlone DEF InsertEntry, SameKey
        <3>3. CASE d # c /\ e # c
            BY <3>1, <3>3 DEF KeyHeldOnce
        <3> QED BY <3>2, <3>3
    <2>7. RowHeldOnce' /\ StillCovered'
        BY <2>1, <2>2 DEF RowHeldOnce, StillCovered, Owner, Delta
    <2>8. DonationIffDebit' /\ DuplicateHasOriginal'
        BY <2>1, <2>2 DEF DonationIffDebit, DuplicateHasOriginal, SameKey
    <2> QED BY <2>3, <2>4, <2>5, <2>6, <2>7, <2>8
<1> QED BY <1>1, <1>2

(* What a step of one session leaves of the others' transactions.            *)
LEMMA OthersKeepTx ==
    ASSUME IInv, PrivateSessions, NEW c \in Calls, NEW d \in Calls \ {c},
           pc'[d] = pc[d],
           \A s \in Sessions \ {session[c]} : tx'[s] = tx[s]
    PROVE  tx'[session[d]] = TxAt(d)'
<1>1. session[d] \in Sessions \ {session[c]}
    BY RequestType DEF PrivateSessions
<1>2. tx[session[d]] = TxAt(d)
    BY DEF IInv, TxFollowsPc
<1> QED BY <1>1, <1>2, TxAtSame

(* A call that gives up and commits nothing: its transaction ends, and every  *)
(* lock and every key it held is free again.                                 *)
LEMMA GiveUpStep ==
    ASSUME IInv, PrivateSessions, NEW c \in Calls, pc[c] \in Active,
           pc' \in [Calls -> Active \cup Returned],
           pc'[c] \in {"insufficient", "failed"},
           pc'[c] = "insufficient" => pc[c] = "update",
           \A d \in Calls \ {c} : pc'[d] = pc[d],
           Rollback(session[c]), UNCHANGED wallets
    PROVE  IInv'
<1> USE DEF IInv
<1>1. /\ UNCHANGED <<ledger, balance, donations, wallets>>
      /\ tx' = [tx EXCEPT ![session[c]] = EmptyTx]
    BY DEF Rollback, CloseTx, accountVars
<1>2. TypeOK'
    BY <1>1, EmptyTxType DEF TypeOK
<1>3. TxFollowsPc'
    <2> SUFFICES ASSUME NEW d \in Calls
                 PROVE  tx'[session[d]] = TxAt(d)'
        BY DEF TxFollowsPc
    <2>1. CASE d = c
        BY <1>1, <2>1, RequestType DEF TxAt, TypeOK, EmptyTx
    <2>2. CASE d # c
        BY <1>1, <2>2, OthersKeepTx DEF TypeOK
    <2> QED BY <2>1, <2>2
<1>4. LedgerFollowsPc'
    BY <1>1 DEF LedgerFollowsPc, TypeOK
<1>5. KeyHeldOnce' /\ RowHeldOnce' /\ StillCovered'
    BY <1>1 DEF KeyHeldOnce, Holds, RowHeldOnce, StillCovered, Owner, Delta,
                SameKey
<1>6. DonationIffDebit' /\ DuplicateHasOriginal'
    BY <1>1 DEF DonationIffDebit, DuplicateHasOriginal, SameKey
<1> QED BY <1>2, <1>3, <1>4, <1>5, <1>6

LEMMA RefuseDebitInv ==
    ASSUME IInv, PrivateSessions, NEW c \in Calls, RefuseDebit(c)
    PROVE  IInv'
BY GiveUpStep, GotoOne DEF RefuseDebit, IInv, TypeOK, Active, Returned

(* The row lock: while another call is between its UPDATE and its commit on   *)
(* this wallet, this call does not move the balance.                         *)
LEMMA MoveAlone ==
    ASSUME IInv, PrivateSessions, NEW c \in Calls, MoveBalance(c),
           NEW d \in Calls \ {c}, pc[d] = "commit"
    PROVE  Owner(d) # Owner(c)
<1>1. session[d] \in Sessions \ {session[c]}
    BY RequestType DEF PrivateSessions
<1>2. tx[session[d]] = TxAt(d)
    BY DEF IInv, TxFollowsPc
<1>3. Owner(d) \in tx[session[d]].locked
    BY <1>2 DEF TxAt
<1> QED BY <1>1, <1>3 DEF MoveBalance, RowLocked

LEMMA MoveBalanceInv ==
    ASSUME IInv, PrivateSessions, NEW c \in Calls, MoveBalance(c)
    PROVE  IInv'
<1> USE DEF IInv
<1>1. /\ pc' \in [Calls -> Active \cup Returned]
      /\ pc'[c] = "commit"
      /\ \A d \in Calls \ {c} : pc'[d] = pc[d]
    BY GotoOne DEF MoveBalance, TypeOK, Active
<1>2. UNCHANGED <<ledger, balance, donations, wallets>>
    BY DEF MoveBalance, accountVars
<1>3. /\ Owner(c) \in Users
      /\ Delta(c) \in Int
      /\ session[c] \in Sessions
    BY RequestType
<1>4. tx[session[c]] =
        [rows |-> {c}, locked |-> {}, change |-> [u \in Users |-> 0]]
    BY DEF TxFollowsPc, TxAt, MoveBalance
<1>5. tx' = [tx EXCEPT ![session[c]] =
               [rows |-> {c}, locked |-> {Owner(c)}, change |-> ChangeOf(c)]]
    <2> DEFINE t == tx[session[c]]
               zero == [u \in Users |-> 0]
    <2>1. tx' = [tx EXCEPT ![session[c]] =
                   [[t EXCEPT !.locked = t.locked \cup {Owner(c)}]
                      EXCEPT !.change = [t.change EXCEPT
                                           ![Owner(c)] = t.change[Owner(c)] + Delta(c)]]]
        BY <1>3, <1>4 DEF MoveBalance, TypeOK
    <2>2. t.rows = {c} /\ t.locked = {} /\ t.change = zero
        BY <1>4
    <2>3. [t.change EXCEPT ![Owner(c)] = t.change[Owner(c)] + Delta(c)] = ChangeOf(c)
        BY <1>3, <2>2 DEF ChangeOf
    <2>4. [[t EXCEPT !.locked = t.locked \cup {Owner(c)}] EXCEPT !.change = ChangeOf(c)]
            = [rows |-> {c}, locked |-> {Owner(c)}, change |-> ChangeOf(c)]
        <3>1. [t EXCEPT !.locked = t.locked \cup {Owner(c)}]
                = [rows |-> {c}, locked |-> {Owner(c)}, change |-> zero]
            BY <1>4
        <3> DEFINE moved == [rows |-> {c}, locked |-> {Owner(c)}, change |-> zero]
        <3>2. [moved EXCEPT !.change = ChangeOf(c)]
                = [rows |-> {c}, locked |-> {Owner(c)}, change |-> ChangeOf(c)]
            OBVIOUS
        <3> QED BY <3>1, <3>2
    <2> QED BY <2>1, <2>3, <2>4
<1>6. TypeOK'
    <2>1. ChangeOf(c) \in [Users -> Int]
        BY <1>3 DEF ChangeOf
    <2> QED BY <1>1, <1>2, <1>3, <1>5, <2>1 DEF TypeOK
<1>7. TxFollowsPc'
    <2> SUFFICES ASSUME NEW d \in Calls
                 PROVE  tx'[session[d]] = TxAt(d)'
        BY DEF TxFollowsPc
    <2>1. CASE d = c
        BY <1>1, <1>3, <1>5, <2>1 DEF TxAt, TypeOK, Owner, ChangeOf, Delta
    <2>2. CASE d # c
        BY <1>1, <1>5, <2>2, OthersKeepTx DEF TypeOK
    <2> QED BY <2>1, <2>2
<1>8. LedgerFollowsPc'
    <2>1. c \notin ledger /\ ledger \subseteq Calls
        BY DEF LedgerFollowsPc, MoveBalance, TypeOK
    <2> QED BY <1>1, <1>2, <2>1 DEF LedgerFollowsPc
<1>9. KeyHeldOnce'
    <2>1. \A d \in Calls : Holds(d)' => Holds(d)
        BY <1>1, <1>2 DEF Holds, MoveBalance
    <2> QED BY <2>1 DEF KeyHeldOnce, SameKey
<1>10. RowHeldOnce'
    BY <1>1, MoveAlone DEF RowHeldOnce, Owner
<1>11. StillCovered'
    <2>1. balance[Owner(c)] + Delta(c) >= 0
        <3>1. tx[session[c]].change[Owner(c)] = 0
            BY <1>3, <1>4
        <3>2. balance[Owner(c)] \in Nat
            BY <1>3 DEF TypeOK
        <3> QED BY <1>3, <3>1, <3>2 DEF MoveBalance, Covers, Seen
    <2> QED BY <1>1, <1>2, <2>1 DEF StillCovered, Owner, Delta
<1>12. DonationIffDebit' /\ DuplicateHasOriginal'
    BY <1>1, <1>2 DEF DonationIffDebit, DuplicateHasOriginal, SameKey
<1> QED BY <1>6, <1>7, <1>8, <1>9, <1>10, <1>11, <1>12

(* What a commit records: one entry, its delta and its donation.             *)
LEMMA CommitEffect ==
    ASSUME IInv, NEW c \in Calls, pc[c] = "commit", CommitEntry(c)
    PROVE  /\ ledger' = ledger \cup {c}
           /\ balance' = [balance EXCEPT ![Owner(c)] = @ + Delta(c)]
           /\ balance[Owner(c)] + Delta(c) >= 0
           /\ donations' = IF request[c].donation THEN donations \cup {c}
                           ELSE donations
<1>1. tx[session[c]] =
        [rows |-> {c}, locked |-> {Owner(c)}, change |-> ChangeOf(c)]
    BY DEF IInv, TxFollowsPc, TxAt
<1>2. ledger' = ledger \cup {c}
    BY <1>1 DEF CommitEntry, CommitRows
<1>3. balance' = [u \in Users |-> balance[u] + ChangeOf(c)[u]]
    BY <1>1 DEF CommitEntry, CommitRows
<1>4. balance' = [balance EXCEPT ![Owner(c)] = @ + Delta(c)]
    <2>1. \A u \in Users : balance[u] \in Nat /\ balance[u] + 0 = balance[u]
        BY DEF IInv, TypeOK
    <2>2. balance \in [Users -> Nat] /\ Owner(c) \in Users
        BY RequestType DEF IInv, TypeOK
    <2> QED BY <1>3, <2>1, <2>2 DEF ChangeOf
<1>5. balance[Owner(c)] + Delta(c) >= 0
    BY DEF IInv, StillCovered
<1> QED BY <1>2, <1>4, <1>5 DEF CommitEntry, GiftOf

(* And the invariant holds whether the caller lives to hear of it or not.     *)
LEMMA CommitStep ==
    ASSUME IInv, PrivateSessions, NEW c \in Calls, pc[c] = "commit", CommitEntry(c),
           pc' \in [Calls -> Active \cup Returned],
           pc'[c] \in {"read_applied", "failed"},
           \A d \in Calls \ {c} : pc'[d] = pc[d]
    PROVE  IInv'
<1> USE DEF IInv
<1>1. /\ pc' \in [Calls -> Active \cup Returned]
      /\ pc'[c] \in {"read_applied", "failed"}
      /\ \A d \in Calls \ {c} : pc'[d] = pc[d]
    OBVIOUS
<1>2. /\ Owner(c) \in Users
      /\ Delta(c) \in Int
      /\ session[c] \in Sessions
    BY RequestType
<1>3. /\ tx' = [tx EXCEPT ![session[c]] = EmptyTx]
      /\ wallets' = wallets
    BY DEF CommitEntry, CloseTx
<1>4. TypeOK'
    <2>1. balance' \in [Users -> Nat]
        <3>1. balance[Owner(c)] \in Nat
            BY <1>2 DEF TypeOK
        <3>2. balance[Owner(c)] + Delta(c) \in Nat
            BY <1>2, <3>1, CommitEffect
        <3> QED BY <1>2, <3>2, CommitEffect DEF TypeOK
    <2>2. ledger' \subseteq Calls /\ donations' \subseteq Calls
        BY CommitEffect, RequestType DEF TypeOK
    <2>3. tx' \in [Sessions -> [rows : SUBSET Calls, locked : SUBSET Users,
                                change : [Users -> Int]]]
        BY <1>3, EmptyTxType DEF TypeOK
    <2> QED BY <1>1, <1>3, <2>1, <2>2, <2>3 DEF TypeOK
<1>5. TxFollowsPc'
    <2> SUFFICES ASSUME NEW d \in Calls
                 PROVE  tx'[session[d]] = TxAt(d)'
        BY DEF TxFollowsPc
    <2>1. CASE d = c
        BY <1>1, <1>2, <1>3, <2>1 DEF TxAt, TypeOK, EmptyTx
    <2>2. CASE d # c
        BY <1>1, <1>3, <2>2, OthersKeepTx DEF TypeOK
    <2> QED BY <2>1, <2>2
<1>6. LedgerFollowsPc'
    BY <1>1, CommitEffect DEF LedgerFollowsPc, TypeOK
<1>7. KeyHeldOnce'
    BY <1>1, CommitEffect DEF KeyHeldOnce, Holds, SameKey, TypeOK
<1>8. RowHeldOnce'
    BY <1>1 DEF RowHeldOnce, Owner
<1>9. StillCovered'
    <2> SUFFICES ASSUME NEW d \in Calls, pc'[d] = "commit"
                 PROVE  balance'[Owner(d)] + Delta(d) >= 0
        BY DEF StillCovered, Owner, Delta
    <2>1. d # c /\ pc[d] = "commit"
        BY <1>1
    <2>2. Owner(d) # Owner(c)
        BY <2>1 DEF RowHeldOnce
    <2>3. balance'[Owner(d)] = balance[Owner(d)]
        BY <2>2, CommitEffect, RequestType DEF TypeOK
    <2> QED BY <2>1, <2>3 DEF StillCovered
<1>10. DonationIffDebit'
    BY CommitEffect, RequestType DEF DonationIffDebit
<1>11. DuplicateHasOriginal'
    BY <1>1, CommitEffect DEF DuplicateHasOriginal, SameKey
<1> QED BY <1>4, <1>5, <1>6, <1>7, <1>8, <1>9, <1>10, <1>11

LEMMA CommitInv ==
    ASSUME IInv, PrivateSessions, NEW c \in Calls, Commit(c)
    PROVE  IInv'
BY CommitStep, GotoOne DEF Commit, IInv, TypeOK, Active

(* A crash: nothing is committed, or what the call at its commit had written,  *)
(* or the wallet row and nothing else.                                       *)
LEMMA CrashInv ==
    ASSUME IInv, PrivateSessions, NEW s \in Sessions, Crash(s)
    PROVE  IInv'
<1>1. PICK c \in Calls : session[c] = s /\ pc[c] \in Active
    BY DEF Crash
<1>2. \A d \in Calls \ {c} : session[d] # s
    BY <1>1 DEF PrivateSessions
<1>3. /\ pc' \in [Calls -> Active \cup Returned]
      /\ pc'[c] = "failed"
      /\ \A d \in Calls \ {c} : pc'[d] = pc[d]
    BY <1>1, <1>2 DEF Crash, IInv, TypeOK, Returned
<1>4. CASE Rollback(s) /\ UNCHANGED wallets
    <2>1. Rollback(session[c])
        BY <1>1, <1>4
    <2>2. pc[c] \in Active /\ UNCHANGED wallets
        BY <1>1, <1>4
    <2> QED BY <1>3, <2>1, <2>2, GiveUpStep
<1>5. CASE pc[c] = "commit" /\ CommitEntry(c)
    BY <1>3, <1>5, CommitStep
<1>6. CASE pc[c] = "add_wallet" /\ EnsureRow(c)
    <2>1. UNCHANGED <<ledger, balance, donations, tx>> /\ wallets' \subseteq Users
        BY <1>6, EnsureRowEffect
    <2>2. pc[c] \in Quiet
        BY <1>6 DEF Quiet
    <2> QED BY <1>3, <2>1, <2>2, QuietStep
<1> QED BY <1>2, <1>4, <1>5, <1>6 DEF Crash

LEMMA StutterInv ==
    ASSUME IInv, UNCHANGED vars
    PROVE  IInv'
BY DEF IInv, vars, accountVars, TypeOK, TxFollowsPc, TxAt, EmptyTx, ChangeOf,
       Owner, Delta, LedgerFollowsPc, KeyHeldOnce, Holds, SameKey, RowHeldOnce,
       StillCovered, DonationIffDebit, DuplicateHasOriginal

LEMMA NextInv ==
    ASSUME IInv, PrivateSessions, [WNext]_vars
    PROVE  IInv'
<1>1. ASSUME NEW c \in Calls, Step(c) PROVE IInv'
    BY <1>1, GetWalletInv, AddWalletInv, InsertEntryInv, RefuseDebitInv,
       MoveBalanceInv, CommitInv, AnswerInv DEF Step
<1> QED BY <1>1, CrashInv, StutterInv DEF WNext

(* With a session per call, IInv holds in every reachable state.             *)
THEOREM Inductive == PrivateSessions /\ WSpec => []IInv
<1> SUFFICES ASSUME PrivateSessions PROVE WSpec => []IInv
    OBVIOUS
<1>1. IInv /\ [WNext]_vars => IInv'
    BY NextInv
<1> QED BY <1>1, InitInv, PTL DEF WSpec

-----------------------------------------------------------------------------

(* An idempotency key moves credit once, whatever calls of apply() carry it   *)
(* at the same time and wherever they stop.                                  *)
THEOREM KeysAreSpentOnce == PrivateSessions /\ WSpec => []KeyAppliedOnce
<1>1. IInv => KeyAppliedOnce
    BY DEF IInv, KeyHeldOnce, TypeOK, Holds, KeyAppliedOnce
<1> QED BY <1>1, Inductive, PTL

(* The answer a caller of apply() gets is true, and stays true: applied means *)
(* in the ledger, refused means not, and a duplicate stands on another entry  *)
(* that is committed, whoever dies before or after a commit.                 *)
THEOREM AnswersAreTrue == PrivateSessions /\ WSpec => []AnswerMatchesLedger
<1>1. IInv => AnswerMatchesLedger
    BY DEF IInv, LedgerFollowsPc, DuplicateHasOriginal, AnswerMatchesLedger
<1> QED BY <1>1, Inductive, PTL

(* Donations and the debits that paid for them are never separated.          *)
THEOREM DonationsArePaid == PrivateSessions /\ WSpec => []DonationIffDebit
<1>1. IInv => DonationIffDebit
    BY DEF IInv
<1> QED BY <1>1, Inductive, PTL

(* Types hold; in particular no balance is ever negative.                    *)
THEOREM TypeCorrect == PrivateSessions /\ WSpec => []TypeOK
<1>1. IInv => TypeOK
    BY DEF IInv
<1> QED BY <1>1, Inductive, PTL

(* Only a commit changes what the contract speaks of.                        *)
LEMMA CommitImplements ==
    ASSUME IInv, NEW c \in Calls, pc[c] = "commit", CommitEntry(c)
    PROVE  Apply(c)
<1>1. c \notin ledger
    BY DEF IInv, LedgerFollowsPc
<1>2. \A d \in ledger : ~SameKey(c, d)
    BY <1>1 DEF IInv, TypeOK, KeyHeldOnce, Holds
<1> QED BY <1>1, <1>2, CommitEffect DEF Apply, Owner, Delta

LEMMA StepImplements ==
    ASSUME IInv, NEW c \in Calls, Step(c)
    PROVE  Apply(c) \/ UNCHANGED accountVars
<1>1. CASE Commit(c)
    BY <1>1, CommitImplements DEF Commit
<1>2. CASE AddWallet(c)
    BY <1>2, EnsureRowEffect DEF AddWallet, accountVars
<1>3. CASE GetWallet(c) \/ RefuseDebit(c) \/ MoveBalance(c) \/ Answer(c)
    BY <1>3 DEF GetWallet, RefuseDebit, Rollback, MoveBalance, Answer
<1>4. CASE InsertEntry(c)
    BY <1>4 DEF InsertEntry, Rollback
<1> QED BY <1>1, <1>2, <1>3, <1>4 DEF Step

LEMMA CrashImplements ==
    ASSUME IInv, NEW s \in Sessions, Crash(s)
    PROVE  (\E c \in Calls : Apply(c)) \/ UNCHANGED accountVars
<1>1. CASE Rollback(s)
    BY <1>1 DEF Rollback
<1>2. CASE \E c \in Calls : pc[c] = "commit" /\ CommitEntry(c)
    BY <1>2, CommitImplements
<1>3. CASE \E c \in Calls : pc[c] = "add_wallet" /\ EnsureRow(c)
    BY <1>3, EnsureRowEffect DEF accountVars
<1> QED BY <1>1, <1>2, <1>3 DEF Crash

(* The statements of apply(), with the waits, refusals, duplicates, crashes   *)
(* and lost answers between them, implement the one-step contract of CreditAccount.   *)
THEOREM ApplyIsAtomic == PrivateSessions /\ WSpec => RefinesAccount
<1> SUFFICES ASSUME PrivateSessions PROVE WSpec => RefinesAccount
    OBVIOUS
<1>1. WInit => Init
    BY DEF WInit
<1>2. IInv /\ [WNext]_vars => [Next]_accountVars
    <2> SUFFICES ASSUME IInv, [WNext]_vars PROVE [Next]_accountVars
        OBVIOUS
    <2>1. CASE \E c \in Calls : Step(c)
        BY <2>1, StepImplements DEF Next
    <2>2. CASE \E s \in Sessions : Crash(s)
        BY <2>2, CrashImplements DEF Next
    <2>3. CASE UNCHANGED vars
        BY <2>3 DEF vars
    <2> QED BY <2>1, <2>2, <2>3 DEF WNext
<1>3. WSpec => []IInv
    BY Inductive
<1> QED BY <1>1, <1>2, <1>3, PTL DEF WSpec, RefinesAccount, Spec

-----------------------------------------------------------------------------
(* The sum of a set of entries.  The fold of the community module adds them   *)
(* up in an order that CHOOSE fixes for each set.  That it adds up the same    *)
(* in every order is proved here, by the least set for which it would not.    *)
Total(S) == MapThenSumSet(LAMBDA c : Delta(c), S)
First(S) == CHOOSE x \in S : TRUE
Rest(S) == S \ {First(S)}
AddsUp(g, S) == g = [s \in SUBSET S |-> IF s = {} THEN 0 ELSE Delta(First(s)) + g[Rest(s)]]

(* Induction over the naturals as a least counterexample.                      *)
LEMMA HasLeast ==
    ASSUME NEW S \in SUBSET Nat, S # {}
    PROVE  \E m \in S : \A i \in S : m <= i
<1> DEFINE R == {ss \in Nat \X Nat : ss[1] < ss[2]}
<1>1. OpToRel(<, Nat) = R
    BY Zenon DEF OpToRel
<1>2. IsWellFoundedOn(R, Nat)
    BY <1>1, NatLessThanWellFounded
<1> HIDE DEF R
<1>3. PICK m \in S : \A i \in S : ~(<<i, m>> \in R)
    BY <1>2, WFMin
<1>4. \A i, k \in Nat : i < k => <<i, k>> \in R
    BY DEF R
<1>5. ASSUME NEW i \in S PROVE m <= i
    <2>1. i \in Nat /\ m \in Nat
        OBVIOUS
    <2>2. ~(i < m)
        BY <1>3, <1>4, <2>1
    <2> QED BY <2>1, <2>2
<1> QED BY <1>5

(* And for finite sets: one of which no proper subset is among them.          *)
LEMMA HasLeastSet ==
    ASSUME NEW Sets, Sets # {}, \A S \in Sets : IsFiniteSet(S)
    PROVE  \E S \in Sets : \A T \in SUBSET S : T # S => T \notin Sets
<1> DEFINE sizes == {Cardinality(S) : S \in Sets}
<1>1. sizes \subseteq Nat /\ sizes # {}
    BY FS_CardinalityType
<1>2. PICK m \in sizes : \A i \in sizes : m <= i
    BY <1>1, HasLeast
<1>3. PICK S \in Sets : Cardinality(S) = m
    BY <1>2
<1>4. ASSUME NEW T \in SUBSET S, T # S, T \in Sets PROVE FALSE
    <2>1. Cardinality(T) <= Cardinality(S) /\ Cardinality(S) # Cardinality(T)
        BY <1>4, FS_Subset
    <2>2. Cardinality(T) \in sizes /\ Cardinality(T) \in Nat /\ Cardinality(S) \in Nat
        BY <1>1, <1>4
    <2>3. m <= Cardinality(T)
        BY <1>2, <2>2
    <2> QED BY <1>3, <2>1, <2>2, <2>3
<1> QED BY <1>4

LEMMA FirstIn ==
    ASSUME NEW S, S # {}
    PROVE  First(S) \in S /\ Rest(S) \in SUBSET S /\ Rest(S) # S
<1>1. First(S) \in S
    BY DEF First
<1> QED BY <1>1 DEF Rest

(* Two functions that add up agree wherever both are defined.                 *)
LEMMA SumsAgree ==
    ASSUME NEW S, NEW T, NEW g, NEW h, AddsUp(g, S), AddsUp(h, T),
           NEW U \in SUBSET (S \cap T), IsFiniteSet(U)
    PROVE  g[U] = h[U]
<1> SUFFICES ASSUME g[U] # h[U] PROVE FALSE
    OBVIOUS
<1> DEFINE Sets == {V \in SUBSET U : g[V] # h[V]}
<1>1. U \in Sets /\ \A V \in Sets : IsFiniteSet(V)
    BY FS_Subset
<1>2. PICK V \in Sets : \A W \in SUBSET V : W # V => W \notin Sets
    BY <1>1, HasLeastSet
<1>3. V \in SUBSET S /\ V \in SUBSET T
    OBVIOUS
<1>4. /\ g[V] = IF V = {} THEN 0 ELSE Delta(First(V)) + g[Rest(V)]
      /\ h[V] = IF V = {} THEN 0 ELSE Delta(First(V)) + h[Rest(V)]
    BY <1>3 DEF AddsUp
<1>5. CASE V = {}
    BY <1>4, <1>5
<1>6. CASE V # {}
    <2>1. Rest(V) \notin Sets /\ Rest(V) \in SUBSET U
        BY <1>2, <1>6, FirstIn
    <2> QED BY <1>4, <1>6, <2>1
<1> QED BY <1>5, <1>6

(* There is such a function for every finite set.                             *)
LEMMA SumsExist ==
    ASSUME NEW U, IsFiniteSet(U)
    PROVE  \E g : AddsUp(g, U)
<1> SUFFICES ASSUME ~ \E g : AddsUp(g, U) PROVE FALSE
    OBVIOUS
<1> DEFINE Sets == {V \in SUBSET U : ~ \E g : AddsUp(g, V)}
<1>1. U \in Sets /\ \A V \in Sets : IsFiniteSet(V)
    BY FS_Subset
<1>2. PICK V \in Sets : \A W \in SUBSET V : W # V => W \notin Sets
    BY <1>1, HasLeastSet
<1> DEFINE sum(W) == CHOOSE g : AddsUp(g, W)
           value(W) == sum(W)[W]
           total == [W \in SUBSET V |->
                        IF W = {} THEN 0 ELSE Delta(First(W)) + value(Rest(W))]
<1>3. ASSUME NEW W \in SUBSET V, W # V PROVE AddsUp(sum(W), W)
    <2>1. \E g : AddsUp(g, W)
        BY <1>2, <1>3
    <2> QED BY <2>1
<1>4. ASSUME NEW W \in SUBSET V, W # V PROVE total[W] = value(W)
    <2>1. AddsUp(sum(W), W)
        BY <1>3, <1>4
    <2>2. value(W) = IF W = {} THEN 0 ELSE Delta(First(W)) + sum(W)[Rest(W)]
        BY <2>1 DEF AddsUp
    <2>3. CASE W = {}
        BY <2>2, <2>3
    <2>4. CASE W # {}
        <3>1. Rest(W) \in SUBSET W /\ Rest(W) \in SUBSET V /\ Rest(W) # V
            BY <1>4, <2>4, FirstIn
        <3>2. AddsUp(sum(Rest(W)), Rest(W)) /\ IsFiniteSet(Rest(W))
            BY <1>1, <1>3, <3>1, FS_Subset
        <3>3. sum(W)[Rest(W)] = value(Rest(W))
            BY <2>1, <3>1, <3>2, SumsAgree
        <3> QED BY <2>2, <2>4, <3>3
    <2> QED BY <2>3, <2>4
<1> HIDE DEF value
<1>5. ASSUME NEW W \in SUBSET V, W # {} PROVE value(Rest(W)) = total[Rest(W)]
    <2>1. Rest(W) \in SUBSET V /\ Rest(W) # V
        BY <1>5, FirstIn
    <2> QED BY <1>4, <2>1
<1>6. AddsUp(total, V)
    BY <1>5 DEF AddsUp
<1> QED BY <1>2, <1>6

(* So Total adds up, one entry after the other.                               *)
LEMMA TotalStep ==
    ASSUME NEW U, IsFiniteSet(U)
    PROVE  Total(U) = IF U = {} THEN 0 ELSE Delta(First(U)) + Total(Rest(U))
<1> DEFINE sum(W) == CHOOSE g : AddsUp(g, W)
<1>1. \A W : Total(W) = sum(W)[W]
    BY DEF Total, MapThenSumSet, MapThenFoldSet, AddsUp, First, Rest
<1>2. ASSUME NEW W, IsFiniteSet(W) PROVE AddsUp(sum(W), W)
    BY <1>2, SumsExist
<1> HIDE DEF sum
<1>3. Total(U) = IF U = {} THEN 0 ELSE Delta(First(U)) + sum(U)[Rest(U)]
    BY <1>1, <1>2 DEF AddsUp
<1>4. CASE U # {}
    <2>1. Rest(U) \in SUBSET U /\ IsFiniteSet(Rest(U))
        BY <1>4, FirstIn, FS_Subset
    <2>2. sum(U)[Rest(U)] = sum(Rest(U))[Rest(U)]
        BY <1>2, <2>1, SumsAgree
    <2> QED BY <1>1, <1>3, <1>4, <2>2
<1> QED BY <1>3, <1>4

(* It is a number, and it does not matter which entry is added last.          *)
LEMMA TotalAdds ==
    ASSUME NEW U \in SUBSET Calls, IsFiniteSet(U)
    PROVE  /\ Total(U) \in Int
           /\ \A c \in U : Total(U) = Total(U \ {c}) + Delta(c)
<1> DEFINE Adds(V) == /\ Total(V) \in Int
                      /\ \A c \in V : Total(V) = Total(V \ {c}) + Delta(c)
<1> SUFFICES ASSUME ~Adds(U) PROVE FALSE
    OBVIOUS
<1> DEFINE Sets == {V \in SUBSET U : ~Adds(V)}
<1>1. U \in Sets /\ \A V \in Sets : IsFiniteSet(V)
    BY FS_Subset
<1>2. PICK V \in Sets : \A W \in SUBSET V : W # V => W \notin Sets
    BY <1>1, HasLeastSet
<1>3. V \subseteq Calls /\ \A W \in SUBSET V : W # V => Adds(W)
    BY <1>2
<1>4. IsFiniteSet(V) /\ ~Adds(V)
    BY <1>1
<1> HIDE DEF Sets
<1>5. CASE V = {}
    BY <1>4, <1>5, TotalStep
<1>6. CASE V # {}
    <2> DEFINE x == First(V)
    <2>1. /\ x \in V /\ V \ {x} \in SUBSET V /\ V \ {x} # V
          /\ Total(V) = Delta(x) + Total(V \ {x})
        BY <1>4, <1>6, FirstIn, TotalStep DEF Rest
    <2> HIDE DEF x
    <2>2. Delta(x) \in Int /\ Total(V \ {x}) \in Int
        BY <1>3, <2>1, RequestType
    <2>3. ASSUME NEW c \in V, c # x PROVE Total(V) = Total(V \ {c}) + Delta(c)
        <3>1. Total(V \ {x}) = Total((V \ {x}) \ {c}) + Delta(c)
            BY <1>3, <2>1, <2>3
        <3>2. Total(V \ {c}) = Total((V \ {c}) \ {x}) + Delta(x)
            BY <1>3, <2>1, <2>3
        <3>3. (V \ {x}) \ {c} = (V \ {c}) \ {x}
            OBVIOUS
        <3>4. Total((V \ {x}) \ {c}) \in Int /\ Delta(c) \in Int
            BY <1>3, <2>1, <2>3, RequestType
        <3>5. \A all, one, other, both, a, b \in Int :
                  all = a + one /\ one = both + b /\ other = both + a => all = other + b
            OBVIOUS
        <3>6. /\ Total(V) = Delta(x) + Total(V \ {x})
              /\ Total(V \ {c}) = Total((V \ {x}) \ {c}) + Delta(x)
            BY <2>1, <3>2, <3>3
        <3>7. Total(V) \in Int /\ Total(V \ {c}) \in Int
            BY <2>2, <3>4, <3>6
        <3> QED BY <2>2, <3>1, <3>4, <3>5, <3>6, <3>7
    <2>4. Total(V) \in Int /\ Total(V) = Total(V \ {x}) + Delta(x)
        BY <2>1, <2>2
    <2>5. \A c \in V : Total(V) = Total(V \ {c}) + Delta(c)
        BY <2>3, <2>4
    <2> QED BY <1>4, <2>4, <2>5
<1> QED BY <1>5, <1>6

(* The account as apply promises it keeps the balance at the sum.  (The        *)
(* function total stands for Total, which has no state to prime.)             *)
OfUser(u) == {c \in ledger : Owner(c) = u}
SumInv(total) ==
    /\ ledger \subseteq Calls /\ IsFiniteSet(ledger)
    /\ balance \in [Users -> Int]
    /\ \A u \in Users : balance[u] = total[OfUser(u)]

LEMMA ApplyKeepsSum ==
    ASSUME NEW total, total = [S \in SUBSET Calls |-> Total(S)],
           SumInv(total), NEW c \in Calls, Apply(c)
    PROVE  SumInv(total)'
<1>1. /\ Owner(c) \in Users /\ Delta(c) \in Int /\ c \notin ledger
      /\ ledger' = ledger \cup {c}
      /\ balance' = [balance EXCEPT ![Owner(c)] = @ + Delta(c)]
    BY RequestType DEF Apply, Owner, Delta
<1>2. ledger' \subseteq Calls /\ IsFiniteSet(ledger') /\ balance' \in [Users -> Int]
    BY <1>1, FS_AddElement DEF SumInv
<1>3. ASSUME NEW u \in Users PROVE balance'[u] = total[OfUser(u)']
    <2>1. OfUser(u)' = {d \in ledger' : Owner(d) = u}
        BY DEF OfUser, Owner
    <2>2. CASE u = Owner(c)
        <3>1. OfUser(u)' = OfUser(u) \cup {c} /\ OfUser(u)' \ {c} = OfUser(u)
            BY <1>1, <2>1, <2>2 DEF OfUser
        <3>2. OfUser(u)' \in SUBSET Calls /\ OfUser(u) \in SUBSET Calls
              /\ IsFiniteSet(OfUser(u)')
            BY <1>2, <2>1, <3>1, FS_Subset
        <3>3. Total(OfUser(u)') = Total(OfUser(u)) + Delta(c)
            BY <3>1, <3>2, TotalAdds
        <3>4. total[OfUser(u)'] = total[OfUser(u)] + Delta(c)
            BY <3>2, <3>3
        <3> QED BY <1>1, <2>2, <3>4 DEF SumInv
    <2>3. CASE u # Owner(c)
        <3>1. OfUser(u)' = OfUser(u)
            BY <1>1, <2>1, <2>3 DEF OfUser
        <3> QED BY <1>1, <2>3, <3>1 DEF SumInv
    <2> QED BY <2>2, <2>3
<1> QED BY <1>2, <1>3 DEF SumInv

(* The balance of a user is the sum of the user's entries, for any number of  *)
(* calls, statements of which interleave, are refused, repeated or broken off.*)
THEOREM BalanceMatchesLedger == PrivateSessions /\ WSpec => []BalanceIsLedgerSum
<1> PICK total : total = [S \in SUBSET Calls |-> Total(S)]
    OBVIOUS
<1>1. Init => SumInv(total)
    <2> SUFFICES ASSUME Init PROVE SumInv(total)
        OBVIOUS
    <2>1. Total({}) = 0
        BY TotalStep, FS_EmptySet
    <2>2. \A u \in Users : OfUser(u) = {}
        BY DEF Init, OfUser
    <2>3. total[{}] = 0
        BY <2>1
    <2>4. ledger = {} /\ IsFiniteSet({}) /\ balance = [u \in Users |-> 0]
        BY FS_EmptySet DEF Init
    <2>5. ledger \subseteq Calls /\ IsFiniteSet(ledger) /\ balance \in [Users -> Int]
        BY <2>4
    <2>6. \A u \in Users : balance[u] = total[OfUser(u)]
        BY <2>2, <2>3, <2>4
    <2> QED BY <2>5, <2>6 DEF SumInv
<1>2. SumInv(total) /\ [Next]_accountVars => SumInv(total)'
    <2> SUFFICES ASSUME SumInv(total), [Next]_accountVars PROVE SumInv(total)'
        OBVIOUS
    <2>1. CASE UNCHANGED accountVars
        BY <2>1 DEF accountVars, SumInv, OfUser, Owner
    <2> QED BY <2>1, ApplyKeepsSum DEF Next
<1>3. SumInv(total) => BalanceIsLedgerSum
    <2> SUFFICES ASSUME SumInv(total), NEW u \in Users PROVE balance[u] = Total(OfUser(u))
        BY DEF BalanceIsLedgerSum, Total, OfUser
    <2>1. OfUser(u) \in SUBSET Calls
        BY DEF SumInv, OfUser
    <2> QED BY <2>1 DEF SumInv
<1> QED BY <1>1, <1>2, <1>3, ApplyIsAtomic, PTL DEF RefinesAccount, Spec
=============================================================================
