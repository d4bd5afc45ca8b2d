--------------------------- MODULE GenerationWorker ---------------------------
(***************************************************************************)
(* The generation worker, for one room: GenerationConsumer                  *)
(* (aria/contexts/chat/adapter/inbound/worker/router.py) around             *)
(* ResponseGenerationService (application/generation.py).                   *)
(*                                                                          *)
(* Requests arrive on two topics.  Within a topic the messages of a room    *)
(* are one partition, handled one after another; the two topics may be      *)
(* handled by two processes.  Every delivery is an attempt of its own: it   *)
(* claims the message id, competes for the slot of the room (ResponseSlot), *)
(* generates, asks whether it still has the slot, records, broadcasts and   *)
(* frees the slot.  Between any two of these calls everything else runs.    *)
(*                                                                          *)
(* The model is a primary backend and, if one is configured, a fallback that *)
(* is asked when the primary raises (adapter/outbound/inference).  Profile,  *)
(* topic and transcript share one database session for the life of the      *)
(* process; after a statement that failed nobody rolls it back, and it then *)
(* refuses every other.                                                     *)
(*                                                                          *)
(* A process may die, or lose its partition to another one while it is      *)
(* still working; Redis, the database, Kafka or the last backend may fail.   *)
(* Each of these takes one of MaxFailures; only a DLQ that raises when it is *)
(* told of a failure costs nothing more.  A claim lives longer than any      *)
(* redelivery takes (application/port/out/dedup.py), so it does not expire. *)
(***************************************************************************)
EXTENDS ResponseSlot, Sequences, FiniteSets

CONSTANTS
    Requests,       \* message ids
    topicOf,        \* "superchat" or "response", see GenerationRequest.to_event
    Deliveries,     \* bound: deliveries of one message are numbered 1..Deliveries
    HasFallback,    \* settings.llm_fallback_enabled
    MaxFailures     \* bound: crashes, rebalances and failing calls

ASSUME WorkerAssumption ==
    /\ Deliveries \in Nat /\ MaxFailures \in Nat /\ HasFallback \in BOOLEAN
    /\ Attempts = Requests \X (1..Deliveries)
    /\ topicOf \in [Requests -> {"superchat", "response"}]
    /\ NoOne \notin Attempts
    /\ \A a, b \in Attempts :     \* MessageSource.priority
        topicOf[a[1]] = "superchat" /\ topicOf[b[1]] = "response" => priority[b] < priority[a]

Topics == {"superchat", "response"}

VARIABLES
    queue,      \* per topic: the requests published, in order
    committed,  \* per topic: the offset committed to Kafka
    position,   \* per topic: how many messages the consumer has taken
    current,    \* per topic: the attempt its consumer is busy with, or NoOne
    at,         \* the next call of each attempt
    claims,     \* message ids claimed in Redis
    broken,     \* topics whose process has a session that refuses everything
    said,       \* attempts whose reply has been broadcast
    recorded,   \* attempts whose reply is in the transcript
    unrecorded, \* attempts whose transcript append failed (a log line)
    outcome,    \* how each attempt ended
    outranked,  \* attempts whose slot a higher priority took before they asked
    timedOut,   \* attempts whose slot expired before they asked
    parked,     \* requests in the DLQ
    lost,       \* requests whose DLQ publish raised (a log line)
    failures    \* failures so far

kafkaVars == <<queue, committed, position, current>>
replyVars == <<said, recorded, unrecorded, broken>>
historyVars == <<outranked, timedOut>>
dlqVars == <<parked, lost>>
workerVars == <<slotVars, kafkaVars, at, claims, replyVars, outcome, historyVars,
                dlqVars, failures>>

Calls == {"claim", "acquire", "generate", "fallback", "check", "record", "publish", "release",
          "give_up_slot", "unclaim", "to_dlq"}

WorkerTypeOK ==
    /\ SlotTypeOK
    /\ queue \in [Topics -> Seq(Requests)]
    /\ position \in [Topics -> Nat] /\ committed \in [Topics -> Nat]
    /\ current \in [Topics -> Attempts \cup {NoOne}]
    /\ \A t \in Topics :
        /\ committed[t] <= position[t] /\ position[t] <= Len(queue[t])
        /\ current[t] # NoOne => at[current[t]] \in Calls \cup {"ended"}
    /\ at \in [Attempts -> Calls \cup {"none", "ended", "dead"}]
    /\ claims \subseteq Requests /\ parked \cup lost \subseteq Requests /\ broken \subseteq Topics
    /\ said \cup recorded \cup unrecorded \cup outranked \cup timedOut \subseteq Attempts
    /\ outcome \in [Attempts -> {"none", "duplicate", "no_slot", "preempted",
                                 "published", "failed", "escaped"}]
    /\ failures \in 0..MaxFailures

WorkerInit ==
    /\ SlotInit
    /\ queue = [t \in Topics |-> <<>>]
    /\ committed = [t \in Topics |-> 0]
    /\ position = [t \in Topics |-> 0]
    /\ current = [t \in Topics |-> NoOne]
    /\ at = [a \in Attempts |-> "none"]
    /\ claims = {} /\ parked = {} /\ lost = {} /\ failures = 0
    /\ said = {} /\ recorded = {} /\ unrecorded = {} /\ broken = {}
    /\ outranked = {} /\ timedOut = {}
    /\ outcome = [a \in Attempts |-> "none"]

Goto(a, call) == at' = [at EXCEPT ![a] = call]
End(a, how) == Goto(a, "ended") /\ outcome' = [outcome EXCEPT ![a] = how]

(* The attempts that have not yet asked whether they still hold the slot.     *)
Unasked(a) == at[a] \in {"generate", "fallback", "check"}

-----------------------------------------------------------------------------
(* Kafka.                                                                   *)

(* GenerationRequestPublisher.request, from the api or the idle worker.       *)
Request(r) ==
    /\ \A i \in DOMAIN queue[topicOf[r]] : queue[topicOf[r]][i] # r
    /\ queue' = [queue EXCEPT ![topicOf[r]] = Append(@, r)]
    /\ UNCHANGED <<slotVars, committed, position, current, at, claims, replyVars,
                   outcome, historyVars, dlqVars, failures>>

(* The consumer takes its next message.                                      *)
Deliver(t) ==
    /\ current[t] = NoOne /\ position[t] < Len(queue[t])
    /\ \E n \in 1..Deliveries :
        LET a == <<queue[t][position[t] + 1], n>> IN
        /\ at[a] = "none"
        /\ \A k \in 1..(n - 1) : at[<<a[1], k>>] # "none"
        /\ Goto(a, "claim")
        /\ current' = [current EXCEPT ![t] = a]
    /\ position' = [position EXCEPT ![t] = @ + 1]
    /\ UNCHANGED <<slotVars, queue, committed, claims, replyVars, outcome,
                   historyVars, dlqVars, failures>>

(* AckPolicy.ACK_FIRST: what has been taken is committed at some time, without *)
(* asking what has become of it.                                             *)
CommitFirst ==
    /\ committed["response"] < position["response"]
    /\ committed' = [committed EXCEPT !["response"] = position["response"]]
    /\ UNCHANGED <<slotVars, queue, position, current, at, claims, replyVars, outcome,
                   historyVars, dlqVars, failures>>

(* Fault: only a reply takes a message off its topic.                         *)
ReturnReplied(t) ==
    /\ current[t] # NoOne /\ outcome[current[t]] = "published"
    /\ current' = [current EXCEPT ![t] = NoOne]
    /\ committed' = [committed EXCEPT ![t] = position[t]]
    /\ UNCHANGED <<slotVars, queue, position, at, claims, replyVars, outcome,
                   historyVars, dlqVars, failures>>
(* AckPolicy.ACK: a superchat is committed when its handler has returned,      *)
(* however it returned.  A response request is just left.                    *)
Return(t) ==
    /\ current[t] # NoOne /\ at[current[t]] = "ended"
    /\ current' = [current EXCEPT ![t] = NoOne]
    /\ committed' = IF t = "superchat" THEN [committed EXCEPT ![t] = position[t]]
                                       ELSE committed
    /\ UNCHANGED <<slotVars, queue, position, at, claims, replyVars, outcome,
                   historyVars, dlqVars, failures>>

Fail == failures < MaxFailures /\ failures' = failures + 1

(* Another consumer continues from the committed offset.                      *)
Reassign(t) ==
    /\ position' = [position EXCEPT ![t] = committed[t]]
    /\ current' = [current EXCEPT ![t] = NoOne]
    /\ UNCHANGED <<queue, committed>>

(* The process that handles a topic dies.                                     *)
Crash(t) ==
    /\ current[t] # NoOne /\ Fail
    /\ Goto(current[t], "dead")
    /\ Reassign(t)
    /\ broken' = broken \ {t}
    /\ UNCHANGED <<slotVars, claims, said, recorded, unrecorded, outcome, historyVars,
                   dlqVars>>

(* The group rebalances: the attempt goes on where nobody waits for it.       *)
Rebalance(t) ==
    /\ current[t] # NoOne /\ Fail
    /\ Reassign(t)
    /\ UNCHANGED <<slotVars, at, claims, replyVars, outcome, historyVars, dlqVars>>

-----------------------------------------------------------------------------
(* GenerationConsumer.consume and ResponseGenerationService._handle.         *)

(* Fault: every delivery is taken for the first.                              *)
ClaimIgnored(a) ==
    /\ at[a] = "claim"
    /\ claims' = claims \cup {a[1]}
    /\ Goto(a, "acquire") /\ UNCHANGED outcome
    /\ UNCHANGED <<slotVars, kafkaVars, replyVars, historyVars, dlqVars, failures>>
(* registry.claim: SET NX.                                                   *)
Claim(a) ==
    /\ at[a] = "claim"
    /\ claims' = claims \cup {a[1]}
    /\ IF a[1] \in claims THEN End(a, "duplicate")
                          ELSE Goto(a, "acquire") /\ UNCHANGED outcome
    /\ UNCHANGED <<slotVars, kafkaVars, replyVars, historyVars, dlqVars, failures>>

(* try_acquire succeeds, and whoever had the slot is overtaken.               *)
Overtake(a) ==
    /\ Acquire(a)
    /\ outranked' = outranked \cup {b \in {holder} \ {NoOne} : Unasked(b)}

TakeSlot(a) ==
    /\ at[a] = "acquire"
    /\ Overtake(a)
    /\ Goto(a, "generate")
    /\ UNCHANGED <<kafkaVars, claims, replyVars, outcome, timedOut, dlqVars, failures>>

NoSlot(a) ==
    /\ at[a] = "acquire"
    /\ Refuse(a)
    /\ End(a, "no_slot")
    /\ UNCHANGED <<kafkaVars, claims, replyVars, historyVars, dlqVars, failures>>

(* Fault: the exception of the primary backend is not caught.                  *)
GenerateByPrimary(a) ==
    /\ at[a] = "generate"
    /\ \/ Goto(a, "check") /\ UNCHANGED outcome
       \/ Goto(a, "give_up_slot") /\ outcome' = [outcome EXCEPT ![a] = "failed"]
    /\ UNCHANGED <<slotVars, kafkaVars, claims, replyVars, historyVars, dlqVars, failures>>
(* Profile, topic and the primary backend, which answers or raises.  Reading   *)
(* the topic may fail and is swallowed; with a broken session a profile that   *)
(* is not in the cache raises.                                               *)
Generate(a) ==
    LET t == topicOf[a[1]] IN
    /\ at[a] = "generate"
    /\ \/ Goto(a, "check") /\ UNCHANGED outcome
       \/ HasFallback /\ Goto(a, "fallback") /\ UNCHANGED outcome
       \/ /\ t \in broken
          /\ Goto(a, "give_up_slot") /\ outcome' = [outcome EXCEPT ![a] = "failed"]
    /\ \/ UNCHANGED <<broken, failures>>
       \/ t \notin broken /\ Fail /\ broken' = broken \cup {t}
    /\ UNCHANGED <<slotVars, kafkaVars, claims, said, recorded, unrecorded, historyVars,
                   dlqVars>>

(* FallbackPersonaLLM: whatever the primary raised, the other one is asked.   *)
Fallback(a) ==
    /\ at[a] = "fallback"
    /\ Goto(a, "check")
    /\ UNCHANGED <<slotVars, kafkaVars, claims, replyVars, outcome, historyVars,
                   dlqVars, failures>>

(* Fault: still_holds asks whether the slot is taken, not by whom.            *)
HoldsSomebody(a) == holder # NoOne
StillHolds(a) == holder = a

Check(a) ==
    /\ at[a] = "check"
    /\ IF StillHolds(a)
       THEN Goto(a, "record") /\ UNCHANGED outcome
       ELSE Goto(a, "release") /\ outcome' = [outcome EXCEPT ![a] = "preempted"]
    /\ UNCHANGED <<slotVars, kafkaVars, claims, replyVars, historyVars, dlqVars,
                   failures>>

(* _record swallows its failure: a statement that fails, and leaves the        *)
(* session as it is; the session of an earlier failure; a text the domain     *)
(* refuses (empty, or too long).                                             *)
Record(a) ==
    LET t == topicOf[a[1]] IN
    /\ at[a] = "record"
    /\ \/ /\ t \notin broken
          /\ recorded' = recorded \cup {a} /\ UNCHANGED <<unrecorded, broken, failures>>
       \/ unrecorded' = unrecorded \cup {a} /\ UNCHANGED <<recorded, broken, failures>>
       \/ /\ t \notin broken /\ Fail
          /\ unrecorded' = unrecorded \cup {a} /\ broken' = broken \cup {t}
          /\ UNCHANGED recorded
    /\ Goto(a, "publish")
    /\ UNCHANGED <<slotVars, kafkaVars, claims, said, outcome, historyVars, dlqVars>>

Publish(a) ==
    /\ at[a] = "publish"
    /\ said' = said \cup {a}
    /\ outcome' = [outcome EXCEPT ![a] = "published"]
    /\ Goto(a, "release")
    /\ UNCHANGED <<slotVars, kafkaVars, claims, recorded, unrecorded, broken,
                   historyVars, dlqVars, failures>>

(* release in the finally block: only with the own token.                     *)
FreeSlot(a) ==
    /\ at[a] \in {"release", "give_up_slot"}
    /\ Release(a)
    /\ Goto(a, IF at[a] = "release" THEN "ended" ELSE "unclaim")
    /\ UNCHANGED <<kafkaVars, claims, replyVars, outcome, historyVars, dlqVars, failures>>

(* Fault: the claim is kept and only the DLQ is told.                         *)
UnclaimSkipped(a) ==
    /\ at[a] = "unclaim"
    /\ Goto(a, "to_dlq")
    /\ UNCHANGED <<slotVars, kafkaVars, claims, replyVars, outcome, historyVars, dlqVars,
                   failures>>
(* registry.release: the next delivery may try again.                         *)
Unclaim(a) ==
    /\ at[a] = "unclaim"
    /\ claims' = claims \ {a[1]}
    /\ Goto(a, "to_dlq")
    /\ UNCHANGED <<slotVars, kafkaVars, replyVars, outcome, historyVars, dlqVars, failures>>

(* _to_dlq swallows a publish that raises, whether the broker has stored the   *)
(* message or not.                                                           *)
ToDlq(a) ==
    /\ at[a] = "to_dlq"
    /\ \/ parked' = parked \cup {a[1]} /\ UNCHANGED lost
       \/ parked' \in {parked, parked \cup {a[1]}} /\ lost' = lost \cup {a[1]}
    /\ Goto(a, "ended")
    /\ UNCHANGED <<slotVars, kafkaVars, claims, replyVars, outcome, historyVars, failures>>

(* A call raises.  Inside handle the slot is freed and the claim is given     *)
(* back.  A call that raises may have reached the other side all the same:    *)
(* the slot is taken or freed, the reply is out.  What raises outside the try *)
(* block leaves consume.                                                     *)
Raise(a) ==
    /\ Fail
    /\ \/ /\ at[a] \in {"generate", "fallback", "check", "publish"}
          /\ Goto(a, "give_up_slot")
          /\ said' \in IF at[a] = "publish" THEN {said, said \cup {a}} ELSE {said}
          /\ broken' \in IF at[a] = "generate" THEN {broken, broken \cup {topicOf[a[1]]}}
                                               ELSE {broken}
          /\ UNCHANGED <<slotVars, claims, outranked>>
       \/ /\ at[a] \in {"release", "give_up_slot"}
          /\ Goto(a, "unclaim")
          /\ Release(a) \/ UNCHANGED slotVars
          /\ UNCHANGED <<claims, said, broken, outranked>>
       \/ /\ at[a] = "acquire"
          /\ Goto(a, "unclaim")
          /\ Overtake(a) \/ UNCHANGED <<slotVars, outranked>>
          /\ UNCHANGED <<claims, said, broken>>
       \/ /\ at[a] \in {"claim", "unclaim"}
          /\ Goto(a, "ended")
          /\ claims' \in {claims, IF at[a] = "claim" THEN claims \cup {a[1]}
                                                     ELSE claims \ {a[1]}}
          /\ UNCHANGED <<slotVars, said, broken, outranked>>
    /\ outcome' = [outcome EXCEPT ![a] = IF at[a] \in {"claim", "unclaim"} THEN "escaped"
                                                                          ELSE "failed"]
    /\ UNCHANGED <<kafkaVars, recorded, unrecorded, timedOut, dlqVars>>

(* The slot's TTL of 30 seconds runs out.                                     *)
SlotExpires ==
    /\ Expire
    /\ timedOut' = timedOut \cup {b \in {holder} : Unasked(b)}
    /\ UNCHANGED <<kafkaVars, at, claims, replyVars, outcome, outranked, dlqVars, failures>>

-----------------------------------------------------------------------------

Handle(a) ==
    \/ Claim(a)
    \/ TakeSlot(a)
    \/ NoSlot(a)
    \/ Generate(a)
    \/ Fallback(a)
    \/ Check(a)
    \/ Record(a)
    \/ Publish(a)
    \/ FreeSlot(a)
    \/ Unclaim(a)
    \/ ToDlq(a)

WorkerNext ==
    \/ \E r \in Requests : Request(r)
    \/ \E t \in Topics : Deliver(t) \/ Return(t) \/ Crash(t) \/ Rebalance(t)
    \/ CommitFirst
    \/ \E a \in Attempts : Handle(a) \/ Raise(a)
    \/ SlotExpires

WorkerSpec == WorkerInit /\ [][WorkerNext]_workerVars

(* Consumers go on, running attempts go on, and Redis expires its keys.       *)
FairWorkerSpec ==
    /\ WorkerSpec
    /\ \A t \in Topics : WF_workerVars(Deliver(t)) /\ WF_workerVars(Return(t))
    /\ \A a \in Attempts : WF_workerVars(Handle(a))
    /\ WF_workerVars(SlotExpires)

-----------------------------------------------------------------------------

(* router.py:65-68: no viewer sees two answers to one message.  Redelivery,    *)
(* rebalance and crash never cause one; only a failure after the broadcast,   *)
(* which gives the claim back, can.                                           *)
OneReplyPerRequest ==
    \A a, b \in said :
        a[1] = b[1] /\ {outcome[a], outcome[b]} \cap {"failed", "escaped"} = {} => a = b

(* coordinator.py, port: a response that lost its slot before it asked is not  *)
(* broadcast, whoever has the slot by then; and one is thrown away only if a   *)
(* higher priority took its slot or the backends took longer than the slot    *)
(* lasts.                                                                    *)
OvertakenIsSilent ==
    /\ said \cap (outranked \cup timedOut) = {}
    /\ {a \in Attempts : outcome[a] = "preempted"} \subseteq outranked \cup timedOut

(* generation.py:243: what the viewers have heard is in the history, unless    *)
(* the transcript failed with a log line; a crash does not make a reply that  *)
(* is gone after a reload.                                                   *)
HeardIsRecorded == said \subseteq recorded \cup unrecorded

(* chat service.py:6-7, a superchat must be answered, and fallback.py:3, with   *)
(* a fallback the primary backend may fail: as long as nothing else fails and *)
(* no slot times out, every superchat that has been handled got its reply,    *)
(* whatever chat and idle responses were under way.                           *)
SuperchatIsAnswered ==
    failures = 0 /\ timedOut = {} =>
        \A i \in 1..committed["superchat"] :
            \E n \in 1..Deliveries : <<queue["superchat"][i], n>> \in said

(* Every request is handled: nobody waits for the slot, a dead holder blocks   *)
(* nobody, and the queues drain.                                             *)
QueuesDrain == \A t \in Topics : <>[](position[t] = Len(queue[t]) /\ current[t] = NoOne)

(* router.py:49: a superchat is at least once - after a crash it is delivered  *)
(* again - so one that is committed, and that nobody is still working on, has  *)
(* come to an end somewhere: a reply, a refusal, an error.                    *)
SuperchatSurvivesCrash ==
    \A i \in 1..committed["superchat"] :
        LET tries == {queue["superchat"][i]} \X (1..Deliveries) IN
        (\A a \in tries : at[a] \notin Calls)
            => \E a \in tries : at[a] = "ended" /\ outcome[a] # "duplicate"

(* router.py:52: under both policies the handler swallows every exception and  *)
(* sends the message to the DLQ, or tries to.                                 *)
EveryErrorIsParked ==
    \A a \in Attempts :
        at[a] = "ended" /\ outcome[a] \in {"failed", "escaped"} => a[1] \in parked \cup lost

(* router.py:100-107, 126-127: an error inside the handler, at whatever call    *)
(* and with whatever session, has gone to the DLQ, or the DLQ has raised as    *)
(* well, before the message is done with; and no claim of the failed attempt   *)
(* stays behind to turn a redelivery away.                                    *)
ErrorIsTold ==
    \A a \in Attempts : at[a] = "ended" /\ outcome[a] = "failed" =>
        /\ a[1] \in parked \cup lost
        /\ a[1] \in claims => \E b \in {a[1]} \X (1..Deliveries) :
            /\ at[b] # "none"
            /\ at[b] = "ended" => outcome[b] \notin {"failed", "duplicate"}

(* coordinator.py:38: still_holds is False when a higher priority has taken    *)
(* the slot meanwhile.                                                       *)
PreemptedByHigher ==
    \A a \in Attempts : outcome[a] = "preempted" => a \in outranked
=============================================================================
