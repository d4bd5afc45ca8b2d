---------------------------- MODULE CreditPipeline ----------------------------
(***************************************************************************)
(* How a payment becomes credit: the outbox relay of payments               *)
(* (payments/application/relay.py, workers/outbox.py), the two Kafka topics *)
(* keyed by user, and the wallet worker of aria                             *)
(* (contexts/wallet/adapter/inbound/worker/router.py) that applies them to  *)
(* the ledger.                                                              *)
(*                                                                          *)
(* The payments service is the one of Payments.  The ledger is the one of   *)
(* CreditAccount, which WalletLedger implements for a session used by one   *)
(* call at a time.  The two subscribers of the worker share a session: what *)
(* their calls do to each other there is modelled by its outcomes (Overlap   *)
(* and what follows it), the statements are those of WalletLedger.          *)
(*                                                                          *)
(* A broker that refuses or does not answer and a process that dies take    *)
(* one of MaxFailures, a database error one of MaxDbFailures.               *)
(***************************************************************************)
EXTENDS Payments, FiniteSets, SequencesExt

CONSTANTS
    Users,          \* wallet owners
    buyer,          \* the user of each order
    BatchSize,      \* settings.outbox_batch_size
    MaxDeliveries,  \* bound: applications of one fact the ledger can tell apart,
                    \* one more than it may hold
    MaxSpends,      \* bound: credits spent on superchats, per user
    MaxFailures,    \* bound: crashes and broker failures
    MaxDbFailures   \* bound: database errors seen by the two workers

ASSUME PipelineAssumption ==
    /\ buyer \in [Orders -> Users]
    /\ BatchSize \in Nat \ {0} /\ MaxDeliveries \in Nat \ {0, 1}
    /\ MaxSpends \in Nat /\ MaxFailures \in Nat /\ MaxDbFailures \in Nat

Kinds == {"purchase", "refund"}

(* What apply() is called with.  n tells the applications of one fact apart;  *)
(* they carry one key (purchase_idempotency_key, refund_idempotency_key).     *)
Credits == [order : Orders, kind : Kinds, n : 1..MaxDeliveries]
Spends == [user : Users, spend : 1..MaxSpends]

(* Fault: a key made anew for every message.                                  *)
KeyOfMessage(c) == <<c.order, c.kind, c.n>>
KeyOf(c) == <<c.order, c.kind>>
NoKey == <<>>

Entry(c) ==
    IF c \in Spends
    THEN [user |-> c.user, delta |-> -1, key |-> NoKey, donation |-> TRUE]
    ELSE [user |-> buyer[c.order], delta |-> IF c.kind = "purchase" THEN 1 ELSE -1,
          key |-> KeyOf(c), donation |-> FALSE]

VARIABLES
    published,  \* the outbox rows (by id) whose published_at is set
    relay,      \* the relay: where it is, and what is left of its batch
    session,    \* the relay's one database session
    topic,      \* per topic and user (the partition key): the rows sent, in order
    offset,     \* per topic and user: how many messages are acknowledged
    handled,    \* per topic and user: the next message is handled, not acknowledged
    worker,     \* the wallet worker's session
    parked,     \* the facts in the DLQ
    dropped,    \* the facts whose DLQ publish failed as well
    torn,       \* the facts of which the shared session has lost the entry or the
                \* balance change, or kept an entry that was refused
    ledger, balance, donations,
    failures,   \* crashes and broker failures so far
    dbFailures  \* database errors so far

relayVars == <<published, relay, session>>
kafkaVars == <<topic, offset, handled>>
walletVars == <<worker, parked, dropped, torn>>
ledgerVars == <<ledger, balance, donations>>
faultVars == <<failures, dbFailures>>
pipelineVars ==
    <<paymentVars, relayVars, kafkaVars, walletVars, ledgerVars, faultVars>>

Account == INSTANCE CreditAccount WITH
    Calls <- Credits \cup Spends,
    NoKey <- NoKey,
    request <- [c \in Credits \cup Spends |-> Entry(c)]

Idle == [at |-> "idle", batch |-> {}]

PipelineTypeOK ==
    /\ PaymentTypeOK
    /\ published \subseteq DOMAIN outbox
    /\ relay \in [at : {"idle", "publish", "mark"}, batch : SUBSET (DOMAIN outbox \ published)]
    /\ relay.at = "idle" <=> relay.batch = {}
    /\ session \in {"fresh", "open", "broken"}
    /\ topic \in [Kinds -> [Users -> Seq(DOMAIN outbox)]]
    /\ offset \in [Kinds -> [Users -> Nat]] /\ handled \in [Kinds -> [Users -> BOOLEAN]]
    /\ \A k \in Kinds, u \in Users :
        /\ offset[k][u] <= Len(topic[k][u])
        /\ handled[k][u] => offset[k][u] < Len(topic[k][u])
    /\ worker \in {"ok", "broken"}
    /\ parked \subseteq Fact /\ dropped \subseteq Fact /\ torn \subseteq Fact
    /\ ledger \subseteq Credits \cup Spends
    /\ balance \in [Users -> Nat] /\ donations \subseteq Spends
    /\ failures \in 0..MaxFailures /\ dbFailures \in 0..MaxDbFailures

NothingSent ==
    /\ published = {} /\ relay = Idle /\ session = "fresh"
    /\ topic = [k \in Kinds |-> [u \in Users |-> <<>>]]
    /\ offset = [k \in Kinds |-> [u \in Users |-> 0]]
    /\ handled = [k \in Kinds |-> [u \in Users |-> FALSE]]
    /\ worker = "ok" /\ parked = {} /\ dropped = {} /\ torn = {}
    /\ Account!Init

PipelineInit == PaymentInit /\ NothingSent /\ failures = 0 /\ dbFailures = 0

Fail == failures < MaxFailures /\ failures' = failures + 1 /\ UNCHANGED dbFailures
DbFail == dbFailures < MaxDbFailures /\ dbFailures' = dbFailures + 1
                                     /\ UNCHANGED failures

-----------------------------------------------------------------------------
(* The relay.                                                               *)

(* fetch_unpublished: the oldest rows not marked, at most a batch of them.    *)
Unpublished == DOMAIN outbox \ published
OldestPending ==
    {i \in Unpublished : Cardinality({j \in Unpublished : j < i}) < BatchSize}

(* The row it is at.                                                         *)
Current == Min(relay.batch)
Rest == relay.batch \ {Current}
OnWith(rows) == relay' = [at |-> IF rows = {} THEN "idle" ELSE "publish", batch |-> rows]

(* Fault: a row is marked when it is fetched, and sent afterwards.            *)
PollMarking ==
    /\ relay.at = "idle" /\ session # "broken" /\ Unpublished # {}
    /\ session' = "fresh"
    /\ OnWith({Min(Unpublished)})
    /\ published' = published \cup {Min(Unpublished)}
    /\ UNCHANGED <<paymentVars, kafkaVars, walletVars, ledgerVars, faultVars>>
(* drain_once starts.  Nothing commits after the SELECT, so the session's      *)
(* transaction stays open when there is nothing to mark.                     *)
Poll ==
    /\ relay.at = "idle" /\ session # "broken"
    /\ session' = "open"
    /\ OnWith(OldestPending)
    /\ UNCHANGED <<published, paymentVars, kafkaVars, walletVars, ledgerVars,
                   faultVars>>

Send(i) ==
    LET f == outbox[i] IN
    topic' = [topic EXCEPT ![f.kind][buyer[f.order]] = Append(@, i)]

Publish ==
    /\ relay.at = "publish"
    /\ Send(Current)
    /\ relay' = [relay EXCEPT !.at = "mark"]
    /\ UNCHANGED <<published, session, offset, handled, paymentVars, walletVars,
                   ledgerVars, faultVars>>

(* Fault: a row that fails is skipped, and the rest of the batch goes out.    *)
GiveUpSkipping == OnWith(Rest)
(* publish raised: break, the next poll starts at the same row.              *)
GiveUp == relay' = Idle

(* publish raises; the broker may have stored the message all the same.      *)
PublishFails ==
    /\ relay.at = "publish" /\ Fail
    /\ Send(Current) \/ UNCHANGED topic
    /\ GiveUp
    /\ UNCHANGED <<published, session, offset, handled, paymentVars, walletVars,
                   ledgerVars>>

(* What has been sent: the messages, and the rows they were made of.          *)
Messages ==
    UNION {UNION {{k} \X {u} \X DOMAIN topic[k][u] : u \in Users} : k \in Kinds}
SentRows == {topic[m[1]][m[2]][m[3]] : m \in Messages}

(* Fault: the whole batch is marked once it has been sent.                   *)
MarkAtEnd ==
    /\ relay.at = "mark"
    /\ published' = IF Rest = {} THEN SentRows ELSE published
    /\ OnWith(Rest)
    /\ session' = "fresh"
    /\ UNCHANGED <<paymentVars, kafkaVars, walletVars, ledgerVars, faultVars>>
(* mark_published: one row, one commit; then the next row of the batch.       *)
Mark ==
    /\ relay.at = "mark"
    /\ published' = published \cup {Current}
    /\ OnWith(Rest)
    /\ session' = "fresh"
    /\ UNCHANGED <<paymentVars, kafkaVars, walletVars, ledgerVars, faultVars>>

(* A database error in the SELECT, the UPDATE or the COMMIT.  run() logs it     *)
(* and goes on with the same session; nobody rolls it back, and a transaction *)
(* that had begun then refuses every later statement.  It had not begun only  *)
(* if no connection could be made.                                           *)
RelayDbError ==
    /\ relay.at \in {"idle", "mark"} /\ session # "broken" /\ DbFail
    /\ relay' = Idle
    /\ session' \in IF session = "open" THEN {"broken"} ELSE {"fresh", "broken"}
    /\ UNCHANGED <<published, paymentVars, kafkaVars, walletVars, ledgerVars>>

(* The relay process dies and is started again, with a new session.          *)
RelayRestarts ==
    /\ Fail
    /\ relay' = Idle /\ session' = "fresh"
    /\ UNCHANGED <<published, paymentVars, kafkaVars, walletVars, ledgerVars>>

-----------------------------------------------------------------------------
(* The wallet worker.  One subscriber per topic; within a topic the messages *)
(* of one user are handled one after another, across the two topics nothing  *)
(* orders them.                                                              *)

Waiting(k, u) == ~handled[k][u] /\ offset[k][u] < Len(topic[k][u])
NextFact(k, u) == outbox[topic[k][u][offset[k][u] + 1]]
Handled(k, u) == handled' = [handled EXCEPT ![k][u] = TRUE]

Applications(f) == {c \in ledger \cap Credits : c.order = f.order /\ c.kind = f.kind}
NewEntry(f) == [order |-> f.order, kind |-> f.kind,
                n |-> Cardinality(Applications(f)) + 1]
Duplicate(c) == \E d \in ledger : Account!SameKey(c, d)
Covered(c) == balance[Entry(c).user] + Entry(c).delta >= 0

(* consume: WalletService.grant applies the entry.                            *)
Credit(k, u) ==
    LET c == NewEntry(NextFact(k, u)) IN
    /\ Waiting(k, u) /\ worker = "ok"
    /\ Account!Apply(c)
    /\ Handled(k, u)
    /\ UNCHANGED <<topic, offset, walletVars, paymentVars, relayVars, faultVars>>

(* The key is taken: the balance is returned and nothing changes.            *)
CreditAgain(k, u) ==
    /\ Waiting(k, u) /\ worker = "ok"
    /\ Duplicate(NewEntry(NextFact(k, u)))
    /\ Handled(k, u)
    /\ UNCHANGED <<topic, offset, walletVars, paymentVars, relayVars, ledgerVars,
                   faultVars>>

(* _to_dlq: if that fails too, a log line is all that is left.                *)
ToDlq(f) ==
    \/ parked' = parked \cup {f} /\ UNCHANGED dropped
    \/ dropped' = dropped \cup {f} /\ UNCHANGED parked

(* apply() raises InsufficientCreditError.                                    *)
Refused(c) == ~Duplicate(c) /\ ~Covered(c)

(* consume swallows every failure and sends the message to the DLQ: a balance *)
(* that does not cover a refund, a session that is broken.                    *)
Park(k, u) ==
    /\ Waiting(k, u)
    /\ worker = "broken" \/ Refused(NewEntry(NextFact(k, u)))
    /\ ToDlq(NextFact(k, u))
    /\ Handled(k, u)
    /\ UNCHANGED <<topic, offset, worker, torn, paymentVars, relayVars, ledgerVars,
                   faultVars>>

-----------------------------------------------------------------------------
(* One session for two subscribers (workers/wallet.py:46).  Their calls of    *)
(* apply() run in threads and alternate on one transaction: each commits and  *)
(* rolls back what the other has written so far.                             *)

Overlap(k, u, q, v) ==
    k # q /\ Waiting(k, u) /\ Waiting(q, v) /\ worker = "ok"
BothHandled(k, u, q, v) ==
    handled' = [handled EXCEPT ![k][u] = TRUE, ![q][v] = TRUE]

(* A wallet row may be missing only where no entry is: the first calls for a   *)
(* user add it, and commit; the second of them meets it and rolls back.       *)
NoWallet(u) == \A c \in ledger : Entry(c).user # u
Applicable(c) == ~Duplicate(c) /\ Covered(c)
Moved(c) == balance' = [balance EXCEPT ![Entry(c).user] = @ + Entry(c).delta]
FactOf(c) == [order |-> c.order, kind |-> c.kind]
Tear(calls) == torn' = torn \cup {FactOf(c) : c \in calls}

(* The call for (q, v) rolls back, because its key is taken or because it is   *)
(* refused, when the one for (k, u) has inserted.  That entry is gone and, if  *)
(* the UPDATE was done, so is the balance change; the rest is committed and    *)
(* the message counts as done.  The refused entry stays where the wallet row   *)
(* of u was committed after it.                                              *)
CreditUndone(k, u, q, v) ==
    LET c == NewEntry(NextFact(k, u))
        d == NewEntry(NextFact(q, v)) IN
    /\ Overlap(k, u, q, v) /\ Applicable(c)
    /\ \/ Duplicate(d) /\ Tear({c}) /\ UNCHANGED <<ledger, parked, dropped>>
       \/ /\ Refused(d) /\ ToDlq(NextFact(q, v))
          /\ \/ Tear({c}) /\ UNCHANGED ledger
             \/ NoWallet(u) /\ Tear({c, d}) /\ ledger' = ledger \cup {d}
    /\ Moved(c) \/ UNCHANGED balance
    /\ BothHandled(k, u, q, v)
    /\ UNCHANGED <<donations, worker, topic, offset, paymentVars, relayVars, faultVars>>

(* Another user's call, refused in the end, has come between the INSERT and    *)
(* the UPDATE with a commit of its wallet row: the entry stays, the balance    *)
(* change is rolled back.  Or a commit has come between the INSERT and the     *)
(* refusal of the other call: there is nothing left to roll back.             *)
CommittedByOther(k, u, q, v) ==
    LET c == NewEntry(NextFact(k, u))
        d == NewEntry(NextFact(q, v)) IN
    /\ Overlap(k, u, q, v) /\ u # v /\ Applicable(c)
    /\ Refused(d) /\ ToDlq(NextFact(q, v))
    /\ \/ NoWallet(v) /\ ledger' = ledger \cup {c} /\ Tear({c}) /\ UNCHANGED balance
       \/ ledger' = ledger \cup {c, d} /\ Tear({d}) /\ Moved(c)
    /\ BothHandled(k, u, q, v)
    /\ UNCHANGED <<donations, worker, topic, offset, paymentVars, relayVars, faultVars>>

(* Two first calls for one user: the one that finds the wallet row there       *)
(* rolls back the entry of the other, and is applied itself; both balance      *)
(* changes are done, and come to nothing.                                    *)
WalletRace(k, q, u) ==
    LET c == NewEntry(NextFact(k, u))
        d == NewEntry(NextFact(q, u)) IN
    /\ Overlap(k, u, q, u) /\ NoWallet(u)
    /\ ledger' = ledger \cup {d} /\ Tear({c}) /\ UNCHANGED <<balance, donations>>
    /\ BothHandled(k, u, q, u)
    /\ UNCHANGED <<worker, parked, dropped, topic, offset, paymentVars, relayVars,
                   faultVars>>

(* What a call that stops for good can leave, when another one is under way    *)
(* or has ended before: its entry or its balance change without the other,     *)
(* and of a call that stops with it the entry.                               *)
PartsOf(k, u) ==
    \E q \in Kinds \ {k}, v \in Users :
        LET c == NewEntry(NextFact(k, u))
            others == IF Waiting(q, v) THEN {NewEntry(NextFact(q, v))} ELSE {} IN
        /\ Waiting(k, u) /\ worker = "ok" /\ ~Duplicate(c)
        /\ Waiting(q, v) \/ handled[q][v] \/ offset[q][v] > 0
        /\ \E kept \in SUBSET {d \in others : ~Duplicate(d)} :
            /\ \/ ledger' = ledger \cup kept \cup {c} /\ UNCHANGED balance
               \/ ledger' = ledger \cup kept /\ Covered(c) /\ Moved(c)
            /\ Tear(kept \cup {c})
        /\ UNCHANGED donations

(* A database error in apply(), before the commit, or after it when the       *)
(* balance is read: DLQ, and the session, which nobody rolls back, may be      *)
(* broken for every later message.                                           *)
WorkerDbError(k, u) ==
    /\ Waiting(k, u) /\ worker = "ok" /\ DbFail
    /\ worker' \in {"ok", "broken"}
    /\ \/ Account!Apply(NewEntry(NextFact(k, u))) /\ UNCHANGED torn
       \/ UNCHANGED <<ledgerVars, torn>>
       \/ PartsOf(k, u)
    /\ ToDlq(NextFact(k, u))
    /\ Handled(k, u)
    /\ UNCHANGED <<topic, offset, paymentVars, relayVars>>

(* Fault: acknowledged on delivery (AckPolicy.ACK_FIRST).                     *)
AckFirst(k, u) ==
    /\ offset[k][u] < Len(topic[k][u])
    /\ offset' = [offset EXCEPT ![k][u] = @ + 1]
    /\ handled' = [handled EXCEPT ![k][u] = FALSE]
    /\ UNCHANGED <<topic, walletVars, paymentVars, relayVars, ledgerVars, faultVars>>
(* AckPolicy.ACK: the offset is committed once the handler has returned.      *)
Ack(k, u) ==
    /\ handled[k][u]
    /\ offset' = [offset EXCEPT ![k][u] = @ + 1]
    /\ handled' = [handled EXCEPT ![k][u] = FALSE]
    /\ UNCHANGED <<topic, walletVars, paymentVars, relayVars, ledgerVars, faultVars>>

(* The worker dies, or loses its partitions to another one, and what it had   *)
(* not acknowledged is delivered again.                                       *)
WorkerRestarts ==
    /\ Fail
    /\ worker' = "ok"
    /\ \/ UNCHANGED <<ledgerVars, torn>>
       \/ \E k \in Kinds, u \in Users : PartsOf(k, u)
    /\ handled' = [k \in Kinds |-> [u \in Users |-> FALSE]]
    /\ UNCHANGED <<topic, offset, parked, dropped, paymentVars, relayVars>>

(* DonationService.donate: a superchat, sent without a key.                   *)
Spend(u) ==
    /\ \E s \in {c \in Spends : c.user = u} : Account!Apply(s)
    /\ UNCHANGED <<kafkaVars, walletVars, paymentVars, relayVars, faultVars>>

-----------------------------------------------------------------------------

ServiceStep ==
    PaymentNext /\ UNCHANGED <<relayVars, kafkaVars, walletVars, ledgerVars, faultVars>>

RelayStep == Poll \/ Publish \/ Mark

WorkerStep(k, u) == Credit(k, u) \/ CreditAgain(k, u) \/ Park(k, u) \/ Ack(k, u)

SharedStep ==
    \E k, q \in Kinds, u, v \in Users :
        \/ CreditUndone(k, u, q, v)
        \/ CommittedByOther(k, u, q, v)
        \/ u = v /\ WalletRace(k, q, u)

Trouble ==
    \/ PublishFails
    \/ RelayDbError
    \/ RelayRestarts
    \/ \E k \in Kinds, u \in Users : WorkerDbError(k, u)
    \/ WorkerRestarts

PipelineNext ==
    \/ ServiceStep
    \/ RelayStep
    \/ \E k \in Kinds, u \in Users : WorkerStep(k, u)
    \/ SharedStep
    \/ Trouble
    \/ \E u \in Users : Spend(u)

PipelineSpec == PipelineInit /\ [][PipelineNext]_pipelineVars

(* The relay polls on a timer and the consumer's loop takes the next message  *)
(* of each partition: both go on forever.  Nothing is assumed of users,       *)
(* requests or failures; a process that has died has been started again.      *)
Fairness ==
    /\ WF_pipelineVars(RelayStep)
    /\ \A k \in Kinds, u \in Users : WF_pipelineVars(WorkerStep(k, u))

FairPipelineSpec == PipelineSpec /\ Fairness

-----------------------------------------------------------------------------
(* Properties.                                                              *)

InLedger(o, k) == \E c \in ledger \cap Credits : c.order = o /\ c.kind = k

(* relay.py:5: no row is marked as sent that was not sent, so nothing is lost  *)
(* by being marked first.  relay.py:43: the refund of a payment is not sent    *)
(* before the purchase, whatever fails, although the rows of different         *)
(* requests can appear, and are sent, in another order than that of their ids.*)
PurchaseIsSentFirst ==
    /\ published \subseteq SentRows
    /\ \A o \in Orders : \A j \in SentRows \cap Facts(o, "refund") :
        \E i \in SentRows \cap Facts(o, "purchase") : i < j

(* relay.py:13-15, "the width of a republication is one": every failure costs *)
(* at most one message sent twice, not a batch of them.                       *)
RepublishWidthIsOne ==
    Cardinality(Messages) <= Cardinality(SentRows) + failures + dbFailures

(* wallet worker router.py:6-8: credit does not vanish silently.  A message   *)
(* that is acknowledged has its entry in the ledger, or is in the DLQ, or was *)
(* lost with the log line of a DLQ that failed as well, or was torn by the     *)
(* shared session; and that happens to no fact as long as none of the other   *)
(* kind is sent.                                                             *)
AckedIsAccountedFor ==
    /\ \A k \in Kinds, u \in Users : \A p \in 1..offset[k][u] :
        LET f == outbox[topic[k][u][p]] IN
        InLedger(f.order, f.kind) \/ f \in parked \cup dropped \cup torn
    /\ \A f \in torn : \E i \in SentRows : outbox[i].kind # f.kind

(* However often a fact is recorded, sent and delivered, it has one entry.    *)
AppliedOnce ==
    \A c, d \in ledger \cap Credits :
        c.order = d.order /\ c.kind = d.kind => c = d

(* The two services agree across their databases: credit given has been paid  *)
(* for at the gateway, credit taken back has been returned there.             *)
CreditIsBackedByMoney ==
    \A o \in Orders :
        /\ InLedger(o, "purchase") => gateway[o] # "unpaid"
        /\ InLedger(o, "refund") => gateway[o] = "cancelled"

(* domain/model.py:100, service.py:85: one key, so a user's credit is given    *)
(* before it is taken back: no refund is dealt with before its purchase.      *)
RefundAfterPurchase ==
    \A o \in Orders :
        InLedger(o, "refund") \/ [order |-> o, kind |-> "refund"] \in parked
            => InLedger(o, "purchase")

(* A confirmed payment ends as credit in the wallet, or in the DLQ where       *)
(* somebody sees it, through any crash and any failure of the broker or of a   *)
(* database, unless it leaves the relay with a session that refuses everything *)
(* (workers/outbox.py:72) and nobody restarts it, or the session of the two    *)
(* subscribers (workers/wallet.py:46) tears it.                               *)
EveryPurchaseIsCredited ==
    []<>(session # "broken") =>
        \A o \in Orders : (payment[o].status = "confirmed") ~>
            (InLedger(o, "purchase")
                \/ [order |-> o, kind |-> "purchase"] \in parked \cup dropped \cup torn)

(* workers/outbox.py:73-74: after a passing failure of the database the next   *)
(* poll recovers: every fact recorded is sent in the end.                     *)
EveryFactIsSent ==
    \A o \in Orders : (payment[o].status = "confirmed") ~>
        \E i \in SentRows : outbox[i].order = o
=============================================================================
