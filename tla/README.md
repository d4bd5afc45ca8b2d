# A specification of project-aria

project-aria runs AI personas that broadcast live. Viewers watch a room, write
comments, buy credit and pay superchats; the persona answers, reads stories and
talks to itself when nobody does. The repository holds two services,
`apps/aria` (a modular monolith, one image with four entry points: the API, the
generation worker, the idle worker and the wallet worker) and `apps/payments` (its own database, an
API and the outbox relay). They share nothing but Kafka topics.

This directory specifies the parts of that system that are concurrent or must
survive failures, checks them with TLC on small instances and proves some of the
results with TLAPS for every instance. `PROJECT.json` lists components, runs,
hazards, findings and theorems, and for every definition the lines it stands for.

## Inventory

Paths are below `src/apps/aria/src/aria` (A) and `src/apps/payments/src/payments` (P).

| Component | State | Operations | What is hard | What must hold |
|---|---|---|---|---|
| payments service (P `application/service.py`, `domain/model.py`) | `payment`, `outbox` tables | prepare, confirm, refund | the gateway is awaited between reading and writing; retries | status and outbox row together, no fact without money, refunds final |
| outbox relay (P `application/relay.py`, `workers/outbox.py`) | `published_at` | poll, publish, mark | crash between publish and mark, broker down, one Session for life | nothing lost, a refund after its purchase, one row twice per failure at most |
| credit consumer (A `contexts/wallet/adapter/inbound/worker`, `application/credit_events.py`) | Kafka offsets | consume, apply, DLQ, acknowledge | redelivery, two topics, two subscribers on one Session, DLQ down | each fact applied once, or parked, or told why not |
| wallet ledger (A `contexts/wallet`) | wallet, transaction and donation tables | grant, donate, apply | concurrent calls, unique keys, refusals, an answer lost after the commit, shared Session | balance = sum of the ledger, key once, donation with its debit |
| response slot (A `.../redis/coordinator.py`) | one Redis key per room | acquire, still_holds, release | WATCH loops, priority, TTL, death | one holder, higher overtakes, comes free again |
| generation worker (A `application/generation.py`, `inbound/worker/router.py`) | Kafka offsets, claims in Redis | consume, claim, generate, record, publish | crash, redelivery, rebalance, preemption | one reply per request, nothing unrecorded, nothing stuck |
| progress of a room (A `application/progress.py`, `workers/idle.py`) | lock, comment buffer, activity in Redis; stories | tick, advance | several workers, consuming before publishing, TTL | one reader per story, no comment lost, one voice |
| rooms (A `application/room.py`, `abandon.py`) | `chat_room` table | open, start, finish, close when abandoned | overlapping transitions, the closer | one live room per persona, forward only |
| messages and superchats (A `application/service.py`, `inbound/ws`, `inbound/http`) | a connection with its Session and its subscription; debit, activity, broadcast, candidates, request | connect, message, superchat, disconnect; the same two by HTTP | breaking off halfway, retry, a Session that refuses everything after a failed record | paid before shown before thanked, nothing charged without being shown, everybody sees their own frames |
| likes, stories (A `contexts/community`) | tables, a count cache | like, unlike, count; submit, claim | double clicks, cache against writers | one like per viewer, a cached count that is out of date only for a reason, and heals |
| ranking and supporters (A `contexts/wallet`, `contexts/community`) | donation table, one cached ranking per length | donate, rank | a cache nobody deletes, several lengths | a page was the ranking of its length at some moment |
| identity (A `contexts/identity`) | user table | register, log in | a check before an insert | one account per address |
| profiles (A `contexts/persona`) | tables, a profile cache | set style, compass, values; read | cache against writers, several rows | the list replaced as a whole, a cached profile that heals, two replacements end |
| topic selection (A `domain/topic.py`, `adapter/outbound/clustering`) | none | cluster, score, select | order of input, ties, repeated texts | a partition; the choice is the best by the definition, whatever the order |
| transcript (A `persistence/transcript.py`) | `chat_message` table | append, page | any limit, writers between pages, ids drawn before the commit | no gap, no repetition; what was heard can be read |
| inference (A `outbound/inference`) | none | generate, with a fallback | a primary that is slow and then fails | a second backend keeps superchats answered |
| tracing, configuration, HTTP schemas, streaming | - | - | - | see "Not modelled" |

How they interact: the API calls the chat service, which calls the wallet (charge)
through a port, Redis (activity, comments, broadcast) and Kafka (generation requests).
The idle worker claims stories and comments and puts requests on Kafka; the generation
worker takes them off, holds the room's slot while the model answers, records and
broadcasts. Payments writes facts to its outbox; the relay sends them to Kafka; the
wallet worker turns them into credit. Redis expires keys; nothing else in the system
tells that a process has died.

## Modules

| Module | What it is | Built on |
|---|---|---|
| `CreditAccount` | what `apply` promises: one step per call, or none | - |
| `WalletLedger` | `apply` statement by statement, in sessions | extends `CreditAccount`, refines it |
| `WalletLedgerProofs` | proofs about it | |
| `Payments` | prepare, confirm, refund, gateway | - |
| `CreditPipeline` | outbox relay, Kafka, credit consumer with its shared Session | extends `Payments`, uses an instance of `CreditAccount` |
| `CreditPipelineProofs` | proofs about it and about `Payments` | |
| `ResponseSlot` | what the coordinator promises | - |
| `RedisSlot` | the WATCH/MULTI/EXEC loops | extends `ResponseSlot`, refines it |
| `RedisSlotProofs` | proofs about it | |
| `GenerationWorker` | delivery, claim, slot, model with its fallback, record, broadcast, DLQ, the one Session | extends `ResponseSlot` |
| `GenerationWorkerProofs` | proofs about it | |
| `Progress` | the idle worker in one room | - |
| `ProgressProofs` | proofs about it | |
| `LiveRooms` | rooms and their closer | - |
| `LiveRoomsProofs` | proofs about it | |
| `Transcript` | the message table: append, pages, the cursor of a reader | - |
| `TopicSelection` | clustering, scores and the choice of a comment, with a reference definition of each | - |
| `Conversation` | what a viewer does: a connection or a request, its Session, messages, superchats, replies, the history | extends `Transcript`, `TopicSelection` |
| `ConversationProofs` | proofs about it, `Transcript` and `TopicSelection` | |
| `ReadThrough` | a cache with a TTL in front of a table: get, query, set, delete, errors swallowed | - |
| `Likes` | the like table and its count | extends `ReadThrough` |
| `Voice` | a persona's name, style, compass and list of core values | extends `ReadThrough` |
| `Supporters` | accounts, donations and the ranking at each length | extends `ReadThrough` |
| `Station` | likes, ranking, voice and accounts together, the first three each behind its cache | extends `Likes`, `Voice`, `Supporters` |
| `StationProofs` | proofs about it and the modules it extends | |

Each of them but the proofs, `CreditAccount`, `Payments`, `ResponseSlot`, `Transcript`, `TopicSelection`, `ReadThrough`, `Likes`, `Voice` and `Supporters` has an `MC...` module with the constants of its runs. Operators named after a
fault (for example `RollbackKeepsRows`, preceded by a comment `Fault: ...`) stand beside the definition they
distort: they are not used by any specification, and show for each property which
change of the code would break it.

### How state and actions correspond to the code

- A **step** is what the code does between two points where another actor can
  interfere: one SQL statement, one Redis command, one Kafka call, one await.
  Handlers are program counters over such steps (`pc`), early returns and `except` branches
  are disjuncts or branches of the step at which they happen.
- **PostgreSQL** runs at READ COMMITTED. In `WalletLedger` a session has one open
  transaction with inserted rows, locked rows and a balance change; an insert of a key
  another transaction holds waits, as does an update of a locked row. A commit, the
  SELECT of the balance after it and the answer are steps of their own, and a connection
  that is lost while a commit is under way leaves it done or not. Elsewhere a statement with
  its commit is one step, except where the code compares before it writes: a save of a room
  reads the row again and writes only the columns that differ (`ReadAgain`, `Save`).
- **Ids** are drawn in the process before anything is awaited. An outbox row has the id that its
  request drew, the relay sorts by it, and rows can become visible in another order.
- **A Session after an error** refuses every statement until it is rolled back. The
  long-lived workers open one Session for life, and neither relay, idle worker nor
  generation worker rolls it back; `RelayDbError`, `DbError` and the set `broken` of
  `GenerationWorker` are that. The wallet worker's two subscribers share one Session across
  threads. Statement by statement this is the instance `MCWalletWorker` of `WalletLedger`; in
  `CreditPipeline` it is the list of outcomes that two calls can have for each other
  (`CreditUndone`, `CommittedByOther`, `WalletRace`, `PartsOf`), and `torn` holds the facts
  that were acknowledged with their entry or their balance change lost, or refused with the
  entry kept. A WebSocket has one Session for as long as it lasts, an
  HTTP request one of its own.
- **Kafka** is a sequence per topic and user (partition key) with a consumer position;
  unacknowledged messages are delivered again. A publish that raises may have been
  carried out.
- **Redis** commands are atomic. A key with a TTL may vanish at any time, and a
  command that raises may have been carried out.
- **Time** is an action that may happen: a TTL, a silence that has lasted long enough.
- **Text, prompts, amounts** are abstracted to what matters: a credit is worth one
  unit, a comment is a model value, the model answers. In `Progress`
  the best comment is whichever; which it is, is what `TopicSelection` is about.

## Runs

| Run | Shows | Bounds | States |
|---|---|---|---|
| `wallet_apply` | balance, ledger and donations stay together, a key counts once, an answer says what was committed, `apply` implements the one-step account, every call returns | 5 calls of 2 users: grant, purchase, gift, superchat and its retry; crashes at will, before a commit, during it and before the answer | 39 thousand |
| `credit_pipeline` | status and outbox agree, money at the gateway backs every credit; nothing recorded is lost, no refund is sent before its purchase, nothing is sent twice beyond one row per failure, applied twice or acknowledged without a trace, except what the shared Session has torn; every confirmed payment becomes credit unless the Session of the relay refuses everything or that of the subscribers tears it | 2 orders of two buyers, 3 requests, 2 deliveries told apart, 1 purchase spent per buyer; from the start with every failure ahead and one request already over, and from a recorded purchase with the failures used up and two requests to come | 367 thousand |
| `redis_slot` | the WATCH loops implement the slot; the room is free in the end | 3 attempts with 3 priorities, deaths and expiry at will | 9 thousand |
| `generation` | one reply per request; who lost the slot before asking is silent, and nobody else is; superchats are answered, an error of the handler is in the DLQ or in the log of a DLQ that failed too, and leaves no claim; the queues drain | 2 superchats and 1 chat answer, 2 deliveries each, a second backend, 1 failure anywhere | 758 thousand |
| `progress` | one reader per story and none stranded by a failing call, asked for once unless Kafka's answer was unclear, no comment dropped, the lock excludes, one silence is broken once per worker and failure at most | 2 workers, 2 comments, a buffer of 1, 1 story; 1 failing call, 1 crash, 1 database error anywhere | 3.3 million |
| `live_rooms` | one live room per persona, watched rooms stay, abandoned rooms are closed | 2 rooms of one persona, 2 staff requests, a tick takes 2 | 770 thousand |
| `conversation` | pages repeat nothing and, if the reader keeps to the page size, lose nothing; what is heard can be read, replies point at what they answer, paid before shown before thanked, what is charged is shown, everybody gets their own frames, and the choice among up to three comments is the one its definition names | 1 connection with a superchat and its retries, an empty superchat, 1 question by HTTP, 1 reader who asks for 0 or 2 rows at will where a page has at most 2, 1 failure anywhere; batches of at most 3 of 7 kinds of comments | 4.8 million |
| `station` | a cached value is out of date only for a reason and heals, a ranking shown was the ranking of its length, no row stands twice (one account per address), a list of known words is replaced as a whole, two replacements come to an end | 3 requests: two writers (or readers) and a reader, of likes, donations, accounts or the voice; 1 failure anywhere | 283 thousand |

Two of everything that competes, and three where a third can meddle in the race of
two others (slot attempts, payment requests), is enough for every interleaving the properties speak of: the
properties relate pairs (two calls with one key, two readers of one story, two live
rooms), and handlers keep no counters. One or two failures suffice to reach each
error branch and to fail inside the handling of a failure; `credit_pipeline`,
`generation`, `progress`, `conversation` and `station` place them at every step. `MaxFailures`,
`MaxDbFailures`, `MaxSpends`, `MaxDeliveries`, `MaxTrouble`, `MaxCrashes` and `MaxDbErrors`
are bounds of the instances; `BatchSize`, `MaxCandidates`, `RoomsPerTick` and `MaxPageSize` are limits
the code has, made small enough to be met; `Limits` is what readers ask for, and the route refuses none. The
n-grams of `TopicSelection` are numbers, its thresholds are those of the code, and its scores are
rounded to ten-thousandths as there, with a half rounded up (floats may go either way). `credit_pipeline` checks its two starts (`TwoBuyersSpec`), both reached
by the pipeline, because all requests, failures and shared-Session outcomes from the very beginning are too many
states: the first puts failures anywhere, the second lets two subscribers meet over the longest life of a payment.
Requests arrive at most once each, which
bounds outbox, topics and queues. Deadlock is not checked where
the bounded instance comes to an end (all requests handled); the runs of which
liveness is asked check that it ends where it should.

### Runs that find a disagreement

Each checks one statement the repository makes of itself and finds a behaviour of the
code that contradicts it. Nothing fails in these runs unless it says so.

| Run | Statement | What the code does |
|---|---|---|
| `wallet_worker_session` | balance and ledger are updated in one transaction (wallet `domain/model.py:10`) | the two subscribers share one Session across threads: a purchase has inserted its row and not yet moved the balance when the refund's call commits the wallet row it adds, and the purchase's row with it |
| `refund_overtakes_purchase` | purchase and refund of a user keep their order (payments `application/service.py:85`) | they travel on two topics with two subscribers, and the refund is handled first |
| `superchat_after_crash` | a superchat is redelivered after a crash (chat worker `router.py:49`) | the claim survives the crash, so the redelivery counts as a duplicate: paid for and never answered (one crash) |
| `finished_is_final` | transitions only go forward (chat `domain/room.py:36`) | `save` writes the copy read before an await, and a finished room is live again |

### Further instances

The same modules with other constants; not among the runs, but beside them for who
works on these parts. "Holds" and "violated" are what TLC says of the properties
in the file. Type invariants are in no run: they are proved (below), so that the runs
are about behaviour.

| Configuration | Property | Result | What it shows |
|---|---|---|---|
| `MCPaymentsRefund.cfg` (with `MCCreditPipeline`) | `RefundedIsFinal` | violated | a confirm waiting for the gateway writes `confirmed` over a refund (payments `domain/model.py:23` calls refunded final) |
| `MCCreditOutage.cfg` | `EveryFactIsSent` | violated | after one database error the relay's Session is never rolled back: it polls and sends nothing, where `workers/outbox.py:73-74` expects the next poll to recover |
| `MCGenerationError.cfg` | `EveryErrorIsParked` | violated | the claim and giving it back are outside the `try`: their errors reach no DLQ |
| `MCGenerationTtl.cfg` | `PreemptedByHigher` | violated | the TTL ran out while the model answered; nobody of higher priority took the slot |
| `MCProgressFair.cfg` | `ProgressTypeOK`, `EveryStoryIsRead` | hold | 2 workers, 1 failing call; no crash and no database error |
| `MCProgressDbError.cfg` | `EveryStoryIsRead` | violated | one database error, as for the relay |
| `MCProgressTwoVoices.cfg` | `OneVoicePerSilence` | violated | the lock is given back before the room is touched, so two workers break one silence |
| `MCLiveRoomsLimit.cfg` | `EveryAbandonedRoomCloses` | violated | 2 rooms, a tick takes 1: every tick lists the same newest room |
| `MCConversationPaid.cfg` | `PaidWhileLive` | violated | a WebSocket asks once, when it connects; superchats that follow are charged in a finished room |
| `MCConversationSession.cfg` | `RecordNeverBlocksPay` | violated | a failed record is swallowed, its Session is not rolled back, and the next superchat on the connection is refused (`application/service.py:94-97` says a record must not make a superchat fail) |
| `MCConversationPages.cfg` | `ShortPageIsTheEnd` | violated | a reader asks for 3, the repository caps the page at 2, and the route takes the short page for the last one; limit 0 gets one row and does the same (add 0 to `Limits` in that file) |
| `MCStationRegister.cfg` | `DuplicateIsConflict` | violated | two registrations of one address both find none; the second is refused by the index, and `IntegrityError` is no `AriaError`: 500, where identity `application/service.py:36` means `email_taken` |
| `MCStationSplit.cfg` | `ListReplacedAtOnce` | violated | `ensure_value` commits in the middle of `set_core_values`: with a word nobody had, the deletion and a part of the list are visible, and stay if the request then fails; after losing a race for the word, the rollback brings the old rows back and the rest is added (persona `repository.py:155` says nobody sees the steps between) |

### Fairness

Weak fairness, and only of what the code repeats by itself: the loops of the relay,
the consumers and the idle worker, the next step of a handler that is running, and
Redis expiring a key that has a TTL. Nothing is assumed of users, staff, viewers or
failures. A process that has died is started again (the deployment restarts
containers); `credit_pipeline`, `generation`, `station` and `MCProgressFair.cfg` bound how
often things fail, not when. In `generation` every message can be delivered once more
than things fail, so that a redelivery is never cut off by the bound.

Two liveness properties carry a condition, because without it the code does not have
them, and an instance shows each time that it does not. `EveryPurchaseIsCredited`
supposes that the relay has a usable Session again and again (somebody restarts it:
`MCCreditOutage.cfg`) and excuses what the shared Session tears, and `AbandonedRoomCloses` that the room stays quiet and unwatched
and a tick takes all live rooms (`MCLiveRoomsLimit.cfg`). `MCProgressFair.cfg` excludes
crashes and database errors: a story that was claimed by a worker that died stays
`reading` for ever, and no code takes it back.

## Proofs

TLAPS checks the theorems below for all values of the constants that satisfy the named
assumptions, which stand in the modules they are about and which TLC evaluates in every
run: any number of users, requests, workers, rooms, rows and failures. None of the properties is
inductive as it stands. Each module of proofs therefore begins with the invariant that
is, as a conjunction of named parts, and shows for every action, and for every part it
can disturb, that the part holds afterwards. TLC checked the invariants on the
instances of the runs before they were proved.

*WalletLedger.* Assumption: `PrivateSessions`, no two calls share a session (HTTP
requests; the wallet worker violates it, and its run shows the consequence). What a commit
writes depends on what the open transaction holds. `IInv` therefore says what each open transaction
contains as a function of the program counter of the one call it belongs to
(`TxFollowsPc`), that what is in the ledger has been answered, is about to be, or died after its commit
(`LedgerFollowsPc`), that one call at a time holds a key or a row (`KeyHeldOnce`, `RowHeldOnce`), and that a
debit seen as covered is still covered at commit (`StillCovered`, because the row is
locked since). From it follow `KeyAppliedOnce`, `DonationIffDebit`,
`AnswerMatchesLedger`, `TypeOK` and, step by step, that the statements implement
`CreditAccount` (`ApplyIsAtomic`): the commit maps to the one abstract step,
everything else to a stutter, and a death to either, as the commit it interrupts was done or
not: of a call that was told nothing, nothing else is claimed. `BalanceIsLedgerSum` is then proved
of the one-step account only, and inherited through that refinement. The sum is a fold of the
community modules, a recursive function that takes entries in the order of a `CHOOSE`;
that it exists for every finite set and is the same in whatever order entries are added
(`TotalAdds`) is proved by the least set for which it would not be.

*RedisSlot.* Assumption: `SlotAssumption` (a token is never the absent key, priorities
are numbers). That a step decides on the key as it is, is not visible in the state it
acts on, so the types alone are not enough. `StillTrue` adds: what a GET has shown still
holds as long as the connection has not been marked dirty, since every change of the key
marks every watching connection. An EXEC that is carried out thus decides on the key as
it is, which is the refinement (`LoopsAreAtomic`): an attempt takes over only from a
lower priority, and `release` never frees a slot that another attempt has by then. The
contract records that an attempt has called `release`, so freeing somebody else's slot
cannot pass for an expiry.

*Payments and CreditPipeline.* Assumption: `PipelineAssumption` (an order has a buyer,
bounds are numbers). A confirm or refund saves the copy it read before it awaited the
gateway. `RequestKnows` says what of that copy can no longer become untrue: a copy with a
payment at the provider has its purchase in the outbox, and the gateway has answered what
the request goes on with. With it status and outbox agree (`PaymentInv`). The pipeline implements the service
(`PipelineRunsPayments`), so `PaymentInv` carries over; it also says that the ids of one
payment's facts are in their order, because the refund draws its id after it has read the
confirmed row. Nothing of the kind holds between payments: rows of different requests appear in another
order than that of their ids, against the comment at payments `repository.py:98-99`. What the relay keeps is
`RelayInOrder`: a refund is in a batch only with its purchase before it, and is sent only when the
purchase is marked. `ResentIsCounted`: every message beyond the rows sent has cost a failure; a row sent and not
yet marked is a debt that the next failure pays. `CreditHasItsFact` and
`HandledIsAccountedFor` follow a message into the ledger, the DLQ, its log line or `torn`, and
`TornIsNoSurprise` says that nothing is torn while all facts sent are of one kind: the
other subscriber must be at work. The restart of a relay, a redelivery or
a second copy in the topic adds no credit because the key is that of the fact (`AppliedOnce`),
and this holds on the shared Session too. What does not is that a balance is the sum of its ledger
(`wallet_worker_session`), and no theorem about the pipeline claims it.

*LiveRooms.* Assumption: `RoomsAssumption`. A save writes what its transition read
before it awaited, and of that only what differs from the row as it reads it again.
`CopyIsWhole` says of every copy under way with which end it would leave the room,
`RowIsPast` that a row read as started is not pending later, so that an update
which leaves the status out cannot revive a room nobody started, and `TickIsFresh` that the
closer looks only at rooms it has seen without viewers in this tick. Of the end of a room only
`PendingHasNoEnd` is left: a finish that commits between the two statements of a save can leave a
live room with its `closed_at`. One live room per persona rests on the index that refuses the save.

*GenerationWorker.* Assumption: `WorkerAssumption` (a superchat has priority over an
answer; an attempt is a delivery of a request). `ClaimInv`: of the
attempts for one message one owns the claim, and an attempt that is at work or has said
its reply owns it (`OneOwner`), so a redelivery is a duplicate. `SlotInv`: until it asks,
an attempt that nobody overtook has the slot, and one that was overtaken never
gets it back. `AnswerInv`, as long as nothing fails: the superchats of the topic before
its position are answered, the current one is on its way and not overtaken. A DLQ that fails
is a log line (`lost`), so `ErrorIsTold` claims the DLQ or that line.
`WorkerUsesSlot` shows that the workers use the slot as its port says.

*Progress.* Assumption: `ProgressAssumption` (finitely many workers). `InHand` ties the
status of a story to the call of the worker that has it, `OnePlanPerStory` gives it one
worker, `NoStoryIsStranded` a worker to every story that is read unless one died,
`AskedFits` bounds how often it is asked for by how often Kafka was unclear. `VoicesInv`
counts the workers that may have broken the silence and not yet touched the room
(`Untouched`): beyond them each voice has cost a failure or a crash. It needs nothing of
the lock, and so the bound holds whatever the TTL does.

*Conversation and Transcript.* Assumptions: `ConversationAssumption`,
`TranscriptAssumption` (limits are any integers). `PagesAreGapless` promises every row only to
a reader whose last limit was one the repository keeps to, because a page that was cut, or one
row for limit 0, passes for the last (`MCConversationPages.cfg`). `IdsInv`: what an id stands for, from its draw over
the append to the candidates and the replies. `OrderInv`: what a superchat has behind it at every call of its handler.
`ShownInv`: with no failure a debit is on its way, or shown and asked thanks for.
`EchoReaches` is inductive with the frame in hand. `PagesInv`: what a reader has lies at
or above its cursor, what is due below.

*TopicSelection.* Assumption: `TopicAssumption` (a batch holds comments with finitely many
n-grams and is no longer than the buffer, 50). That clustering goes through the batch comment by
comment is proved of the fold of the community modules, by the least set of positions
that has no clusters and the least prefix whose topics do not fit (`TopicsOfPrefixes`,
`TopicsFit`); `Fitting` says of a prefix that its topics divide it, that an n-gram of a
topic comes from one of its comments, and that each comment but the first shares one with an
earlier. The score is a sum of fractions that is rounded: `LengthGap` shows that two
lengths of different worth differ by more than rounding can hide, `PointsGrow` the same of two
topics, which needs the limit of 50, and `PointsBetween` that length and topic together never
outweigh a question. `SomeUnbeaten` and `BestIsUnbeaten` find the comment.

*Station.* Assumption: `StationAssumption` (requests are for one of the jobs, at most one
creates the persona, a list of core values repeats no word, as its service requires).
`PathInv` says which calls are on the way of which job. `RowsInv` concerns the replacement
of a list: what the open transactions delete and insert never clashes, neither with each other nor with
the table, whatever they still commit or roll back. `WholeInv`: as long as nobody had to create
a word, the table holds nothing or the whole list of one writer that has committed. `FreshInv`: for
every key whose value is not what the database says, somebody answers: a writer that has
not yet deleted it, a failed call or an overtaken reader that left it behind. `RankedInv`: a ranking, cached or in
hand, was that of its length after some number of donations.

| Theorem | Property | Checked also by |
|---|---|---|
| `Inductive`, `SlotInvariant`, `ConversationAlways` | inductive invariants | - |
| `TypeCorrect`, `SlotTypes`, `PipelineTypeCorrect`, `RoomsTypeCorrect`, `WorkerTypeCorrect`, `ProgressTypeCorrect`, `ConversationTypeCorrect`, `StationTypeCorrect` | the type invariants | `ProgressTypeOK` by `MCProgressFair.cfg` |
| `BalanceMatchesLedger` | `BalanceIsLedgerSum` | `wallet_apply` |
| `KeysAreSpentOnce` | `KeyAppliedOnce` | `wallet_apply` |
| `AnswersAreTrue` | `AnswerMatchesLedger` | `wallet_apply` |
| `DonationsArePaid` | `DonationIffDebit` | `wallet_apply` |
| `ApplyIsAtomic` | `RefinesAccount` | `wallet_apply` |
| `LoopsAreAtomic` | `RefinesSlot` | `redis_slot` |
| `StatusNeverLosesItsFact` | `StatusHasItsFact` | `credit_pipeline` |
| `FactsAreTrue` | `FactsBackedByGateway`, `RefundFactFollowsPurchase` and the types of `Payments` | - |
| `PipelineRunsPayments` | the pipeline implements `PaymentSpec` | - |
| `RefundIsSentSecond` | `PurchaseIsSentFirst` | `credit_pipeline` |
| `OneFailureResendsOne` | `RepublishWidthIsOne` | `credit_pipeline` |
| `NothingVanishes` | `AckedIsAccountedFor` | `credit_pipeline` |
| `EveryFactAppliedOnce` | `AppliedOnce` | `credit_pipeline` |
| `MoneyBacksCredit` | `CreditIsBackedByMoney` | `credit_pipeline` |
| `OnePersonaOneRoom` | `OneLiveRoom` | `live_rooms` |
| `WatchedRoomsStayOpen` | `ViewersKeepRoomOpen` | `live_rooms` |
| `OneReply` | `OneReplyPerRequest` | `generation` |
| `OvertakenSaysNothing` | `OvertakenIsSilent` | `generation` |
| `HeardIsOnRecord` | `HeardIsRecorded` | - |
| `SuperchatGetsAnswer` | `SuperchatIsAnswered` | `generation` |
| `FailureIsTold` | `ErrorIsTold` | `generation` |
| `WorkerUsesSlot` | the workers implement `SlotSpec` | - |
| `OneReaderPerStory` | `StoryHasOneReader` | `progress` |
| `AskedOnce` | `AskedOnceUnlessUnclear` | `progress` |
| `TakenCommentsAreWeighed` | `TakenIsWeighed` | `progress` |
| `LockIsExclusive` | `LockExcludes` | `progress` |
| `VoicesBounded` | `VoicesAreBounded` | `progress` |
| `HeardCanBeRead` | `HeardIsReadable` | `conversation` |
| `RepliesPointBack` | `ReplyPointsBack` | `conversation` |
| `PaidShownThanked` | `OrderIsKept` | `conversation` |
| `ChargedGetsShown` | `ChargedIsShown` | `conversation` |
| `OwnFramesComeBack` | `EchoReaches` | `conversation` |
| `PagesLoseNothing` | `PagesAreGapless` | `conversation` |
| `ChoiceIsAlwaysJust` | `ChoiceIsJust` | `conversation` |
| `ListsReplacedWhole` | `KnownWordsReplaceAtOnce` | `station` |
| `NothingIsTwice` | `NothingTwice` | `station` |
| `StaleIsExcused` | `StaleOnlyIfExcused` | `station` |

Only model-checked: all liveness (outside the prover's reach, as is ENABLED).

## Not modelled

- lists and histories other than the transcript: they change nothing;
- which backends the chain of inference has, and the clients that call them: configuration
  and I/O; for the worker a call answers, raises or takes too long;
- tokenising a comment into n-grams: `TopicSelection` starts from the set of n-grams;
- the outgoing half of a WebSocket: what has been aired since the subscription is what it sends;
- passwords, hashes and tokens, and what no code changes (`is_active`, `is_staff`);
- the names on the page of supporters, which are joined to the ranking: data;
- donations without a donor: the ranking leaves them out, and no code makes one;
- the text of prompts, schemas, error formatting, logging, tracing, configuration,
  authentication: no state that others depend on;
- `streaming`: empty packages;
- the real payment gateway: only a stub exists; its port is modelled;
- migrations: run by hand.

## Plan

Order of work, most important behaviour first:

1. money: `CreditAccount`, `WalletLedger`, `Payments`, `CreditPipeline` - done, ledger proved;
2. one voice per room: `ResponseSlot`, `RedisSlot`, `GenerationWorker` - done, slot proved;
3. what is said next and where: `Progress`, `LiveRooms` - done;
4. what everybody reads: `ReadThrough`, `Likes`, `Voice`, `Supporters`, `Station` - done;
5. what viewers do and see: `Transcript`, `TopicSelection`, `Conversation` - done.

6. proofs: every safety property and every refinement the runs check - done.
