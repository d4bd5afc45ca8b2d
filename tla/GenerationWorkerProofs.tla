------------------------ MODULE GenerationWorkerProofs ------------------------
(***************************************************************************)
(* Proofs about GenerationWorker, for any requests, number of deliveries,   *)
(* priorities and number of failures.                                       *)
(*                                                                          *)
(* The invariant has three parts that do not need each other: who holds the *)
(* claim of a message (ClaimInv), who holds the slot while it generates     *)
(* (SlotInv), and, as long as nothing has failed, how far the superchats    *)
(* are (AnswerInv).                                                         *)
(***************************************************************************)
EXTENDS GenerationWorker, TLAPS, SequenceTheorems

(* The calls between a claim that was granted and the one that gives it back.  *)
Working == {"acquire", "generate", "fallback", "check", "record", "publish", "release",
            "give_up_slot", "unclaim"}

(* Who keeps other deliveries of its message out, and with which right.       *)
Owns(a) == at[a] \in Working \/ outcome[a] = "published"
Keeps(b) ==
    /\ at[b] \notin {"none", "claim", "to_dlq"}
    /\ at[b] = "ended" => outcome[b] \notin {"failed", "duplicate"}

OwnersClaimed == \A a \in Attempts : Owns(a) => a[1] \in claims

OneOwner == \A a, b \in Attempts : Owns(a) /\ Owns(b) /\ a[1] = b[1] => a = b

ClaimsAreKept ==
    \A a \in Attempts : a[1] \in claims => \E b \in Attempts : b[1] = a[1] /\ Keeps(b)

(* What an attempt has come to agrees with the call it is at.                *)
Fits(a) ==
    /\ at[a] \in {"none", "claim", "acquire", "generate", "fallback", "check", "record", "publish"}
        => outcome[a] = "none"
    /\ at[a] \in {"give_up_slot", "unclaim", "to_dlq"} => outcome[a] = "failed"
    /\ at[a] = "release" => outcome[a] \in {"published", "preempted"}
    /\ at[a] = "ended" /\ outcome[a] = "failed" => a[1] \in parked \cup lost
    /\ a \in said => /\ outcome[a] \in {"published", "failed", "escaped"}
                     /\ a \in recorded \cup unrecorded
    /\ at[a] = "publish" => a \in recorded \cup unrecorded

OutcomeFits == \A a \in Attempts : Fits(a)

ClaimInv == OwnersClaimed /\ OneOwner /\ ClaimsAreKept /\ OutcomeFits

(* Until it asks, an attempt that nobody has overtaken has the slot, and one   *)
(* that somebody has never gets it back.                                     *)
Overtaken == outranked \cup timedOut
HasItsSlot(a) ==
    /\ Unasked(a) /\ a \notin Overtaken => holder = a
    /\ a \in Overtaken =>
        /\ holder # a /\ a \notin said
        /\ at[a] \notin {"none", "claim", "acquire", "record", "publish"}
    /\ outcome[a] = "preempted" => a \in Overtaken

SlotInv == \A a \in Attempts : HasItsSlot(a)

(* As long as nothing has failed and no slot has expired.                    *)
Calm == failures = 0 /\ timedOut = {}

IsSuperchat(a) == topicOf[a[1]] = "superchat"
Answered(r) == \E n \in 1..Deliveries : <<r, n>> \in said

(* No process is gone, no session is broken, and whoever has the slot uses it. *)
AllIsWell ==
    /\ broken = {}
    /\ \A a \in Attempts :
        /\ at[a] \notin {"dead", "give_up_slot", "unclaim", "to_dlq"}
        /\ holder = a
            => at[a] \in {"generate", "fallback", "check", "record", "publish", "release"}

(* One superchat after the other, each the first of its message and none       *)
(* overtaken.                                                                *)
SuperchatGoesOn(a) ==
    IsSuperchat(a) =>
        /\ at[a] \in Calls => current["superchat"] = a
        /\ at[a] \in {"release", "ended"} => a \in said
        /\ a \notin outranked
        /\ at[a] = "claim" => a[1] \notin claims

ClaimedIsTaken ==
    \A r \in claims : topicOf[r] = "superchat" =>
        \E i \in 1..position["superchat"] : queue["superchat"][i] = r

CurrentIsLast ==
    current["superchat"] # NoOne =>
        /\ committed["superchat"] < position["superchat"]
        /\ queue["superchat"][position["superchat"]] = current["superchat"][1]

TakenIsAnswered ==
    \A i \in 1..position["superchat"] :
        i < position["superchat"] \/ current["superchat"] = NoOne
            => Answered(queue["superchat"][i])

Undisturbed ==
    /\ AllIsWell
    /\ \A a \in Attempts : SuperchatGoesOn(a)
    /\ ClaimedIsTaken
    /\ CurrentIsLast
    /\ TakenIsAnswered

AnswerInv == Calm => Undisturbed

(* What each topic holds.                                                    *)
QueueInv ==
    /\ \A t \in Topics : \A i, j \in DOMAIN queue[t] :
        /\ topicOf[queue[t][i]] = t
        /\ queue[t][i] = queue[t][j] => i = j
    /\ \A t \in Topics : current[t] # NoOne => topicOf[current[t][1]] = t

WorkerInv ==
    /\ WorkerTypeOK
    /\ QueueInv
    /\ ClaimInv
    /\ SlotInv
    /\ AnswerInv
-----------------------------------------------------------------------------
(* Every attempt is a delivery of a request.                                 *)

LEMMA AttemptIsDelivery ==
    /\ \A a \in Attempts : a[1] \in Requests /\ a[2] \in 1..Deliveries /\ a = <<a[1], a[2]>>
    /\ \A r \in Requests, n \in 1..Deliveries : <<r, n>> \in Attempts
    /\ \A a \in Attempts : topicOf[a[1]] \in Topics
    /\ NoOne \notin Attempts
BY WorkerAssumption DEF Topics

(* The message a consumer takes.                                             *)
LEMMA TakenIsAttempt ==
    ASSUME WorkerTypeOK, NEW t \in Topics, position[t] < Len(queue[t]), NEW n \in 1..Deliveries
    PROVE  /\ position[t] + 1 \in DOMAIN queue[t]
           /\ queue[t][position[t] + 1] \in Requests
           /\ <<queue[t][position[t] + 1], n>> \in Attempts
<1>1. queue[t] \in Seq(Requests) /\ position[t] \in Nat
    BY DEF WorkerTypeOK
<1> QED BY <1>1, AttemptIsDelivery

-----------------------------------------------------------------------------
(* Types, and what each topic holds.                                        *)

LEMMA TypeInit == WorkerInit => WorkerTypeOK /\ QueueInv
BY WorkerAssumption, SlotAssumption
   DEF WorkerInit, WorkerTypeOK, QueueInv, SlotInit, SlotTypeOK, Calls, Topics

LEMMA RequestType ==
    ASSUME WorkerTypeOK, QueueInv, NEW r \in Requests, Request(r)
    PROVE  WorkerTypeOK' /\ QueueInv'
<1> DEFINE t == topicOf[r]
<1> USE DEF Request, slotVars, replyVars, historyVars, dlqVars
<1>1. t \in Topics /\ queue[t] \in Seq(Requests) /\ queue'[t] = Append(queue[t], r)
      /\ \A u \in Topics \ {t} : queue'[u] = queue[u]
    BY WorkerAssumption DEF WorkerTypeOK, Topics
<1>2. /\ queue'[t] \in Seq(Requests) /\ Len(queue'[t]) = Len(queue[t]) + 1
      /\ DOMAIN queue'[t] = DOMAIN queue[t] \cup {Len(queue[t]) + 1}
      /\ \A i \in DOMAIN queue[t] : queue'[t][i] = queue[t][i]
      /\ queue'[t][Len(queue[t]) + 1] = r
    BY <1>1
<1>3. queue' \in [Topics -> Seq(Requests)]
    BY <1>1, <1>2 DEF WorkerTypeOK
<1>4. WorkerTypeOK'
    BY <1>1, <1>2, <1>3 DEF WorkerTypeOK, SlotTypeOK
<1>5. QueueInv'
    <2>1. ASSUME NEW u \in Topics, NEW i \in DOMAIN queue'[u], NEW j \in DOMAIN queue'[u]
          PROVE  topicOf[queue'[u][i]] = u /\ (queue'[u][i] = queue'[u][j] => i = j)
        BY <1>1, <1>2 DEF QueueInv
    <2> QED BY <2>1 DEF QueueInv
<1> QED BY <1>4, <1>5

LEMMA DeliverType ==
    ASSUME WorkerTypeOK, QueueInv, NEW t \in Topics, Deliver(t)
    PROVE  WorkerTypeOK' /\ QueueInv'
<1> USE DEF Deliver, Goto, slotVars, replyVars, historyVars, dlqVars
<1>1. PICK n \in 1..Deliveries :
        /\ at[<<queue[t][position[t] + 1], n>>] = "none"
        /\ at' = [at EXCEPT ![<<queue[t][position[t] + 1], n>>] = "claim"]
        /\ current' = [current EXCEPT ![t] = <<queue[t][position[t] + 1], n>>]
    OBVIOUS
<1> DEFINE a == <<queue[t][position[t] + 1], n>>
<1>2. a \in Attempts /\ a # NoOne /\ a[1] = queue[t][position[t] + 1]
      /\ topicOf[a[1]] = t
    BY TakenIsAttempt, AttemptIsDelivery DEF QueueInv
<1> HIDE DEF a
<1>3. /\ at' \in [Attempts -> Calls \cup {"none", "ended", "dead"}]
      /\ current' \in [Topics -> Attempts \cup {NoOne}]
      /\ \A u \in Topics : current'[u] # NoOne => at'[current'[u]] \in Calls \cup {"ended"}
    <2>1. at' = [at EXCEPT ![a] = "claim"] /\ current' = [current EXCEPT ![t] = a]
        BY <1>1 DEF a
    <2>2. "claim" \in Calls
        BY DEF Calls
    <2>3. \A u \in Topics : current[u] # NoOne => at[current[u]] \in Calls \cup {"ended"}
        BY DEF WorkerTypeOK
    <2>4. /\ at \in [Attempts -> Calls \cup {"none", "ended", "dead"}]
          /\ current \in [Topics -> Attempts \cup {NoOne}]
        BY DEF WorkerTypeOK
    <2> QED BY <1>2, <2>1, <2>2, <2>3, <2>4
<1>4. /\ position' \in [Topics -> Nat]
      /\ \A u \in Topics : committed[u] <= position'[u] /\ position'[u] <= Len(queue[u])
    BY DEF WorkerTypeOK
<1>5. WorkerTypeOK'
    BY <1>3, <1>4 DEF WorkerTypeOK, SlotTypeOK
<1>6. QueueInv'
    BY <1>1, <1>2 DEF QueueInv, WorkerTypeOK, a
<1> QED BY <1>5, <1>6

LEMMA KafkaType ==
    ASSUME WorkerTypeOK, QueueInv, NEW t \in Topics,
           CommitFirst \/ Return(t) \/ Crash(t) \/ Rebalance(t)
    PROVE  WorkerTypeOK' /\ QueueInv'
<1> USE DEF slotVars, replyVars, historyVars, dlqVars
<1>1. CASE CommitFirst
    BY <1>1 DEF CommitFirst, WorkerTypeOK, SlotTypeOK, QueueInv, Topics
<1>2. CASE Return(t)
    BY <1>2 DEF Return, WorkerTypeOK, SlotTypeOK, QueueInv
<1>3. CASE Crash(t)
    <2>1. failures' \in 0..MaxFailures
        BY <1>3, WorkerAssumption DEF Crash, Fail, WorkerTypeOK
    <2>2. /\ at' \in [Attempts -> Calls \cup {"none", "ended", "dead"}]
          /\ \A u \in Topics : current'[u] # NoOne => at'[current'[u]] \in Calls \cup {"ended"}
        <3>1. current[t] \in Attempts
            BY <1>3 DEF Crash, WorkerTypeOK
        <3>2. \A u \in Topics \ {t} : current[u] # current[t]
            BY <1>3 DEF Crash, QueueInv
        <3>3. /\ at' = [at EXCEPT ![current[t]] = "dead"]
              /\ current' = [current EXCEPT ![t] = NoOne]
            BY <1>3 DEF Crash, Reassign, Goto
        <3> QED BY <3>1, <3>2, <3>3 DEF WorkerTypeOK
    <2>3. QueueInv'
        BY <1>3 DEF Crash, Reassign, WorkerTypeOK, QueueInv
    <2> QED BY <1>3, <2>1, <2>2, <2>3 DEF Crash, Reassign, WorkerTypeOK, SlotTypeOK
<1>4. CASE Rebalance(t)
    <2>1. failures' \in 0..MaxFailures
        BY <1>4, WorkerAssumption DEF Rebalance, Fail, WorkerTypeOK
    <2> QED BY <1>4, <2>1 DEF Rebalance, Reassign, WorkerTypeOK, SlotTypeOK, QueueInv
<1> QED BY <1>1, <1>2, <1>3, <1>4

(* The slot keeps its type, whoever takes or frees it.                        *)
LEMMA SlotType ==
    ASSUME SlotTypeOK, NEW a \in Attempts, Acquire(a) \/ Refuse(a) \/ Release(a) \/ Expire
    PROVE  SlotTypeOK'
BY DEF SlotTypeOK, Acquire, Refuse, Release, Expire

LEMMA HandleType ==
    ASSUME WorkerTypeOK, QueueInv, NEW a \in Attempts, Handle(a) \/ Raise(a)
    PROVE  WorkerTypeOK' /\ QueueInv'
<1> USE DEF Goto, End
<1>1. topicOf[a[1]] \in Topics /\ a[1] \in Requests
    BY AttemptIsDelivery
<1>2. UNCHANGED kafkaVars
    BY DEF Handle, Raise, Claim, TakeSlot, NoSlot, Generate, Fallback, Check, Record, Publish,
           FreeSlot, Unclaim, ToDlq
<1>3. QueueInv'
    BY <1>2 DEF QueueInv, kafkaVars
<1>4. at[a] \in Calls
    BY DEF Calls, Handle, Raise, Claim, TakeSlot, NoSlot, Generate, Fallback, Check, Record,
           Publish, FreeSlot, Unclaim, ToDlq
<1>5. SlotTypeOK'
    <2>1. SlotTypeOK
        BY DEF WorkerTypeOK
    <2>2. Acquire(a) \/ Refuse(a) \/ Release(a) \/ UNCHANGED slotVars
        BY DEF Handle, Raise, Claim, TakeSlot, NoSlot, Generate, Fallback, Check, Record,
               Publish, FreeSlot, Unclaim, ToDlq, Overtake
    <2> QED BY <2>1, <2>2, SlotType DEF SlotTypeOK, slotVars
<1>6. failures' \in 0..MaxFailures
    BY WorkerAssumption
       DEF Handle, Raise, Claim, TakeSlot, NoSlot, Generate, Fallback, Check, Record, Publish,
           FreeSlot, Unclaim, ToDlq, WorkerTypeOK, Fail
<1>7. \E call \in Calls \cup {"ended"} : at' = [at EXCEPT ![a] = call]
    BY DEF Calls, Handle, Raise, Claim, TakeSlot, NoSlot, Generate, Fallback, Check, Record,
           Publish, FreeSlot, Unclaim, ToDlq
<1>8. \/ outcome' = outcome
      \/ \E how \in {"duplicate", "no_slot", "preempted", "published", "failed", "escaped"} :
            outcome' = [outcome EXCEPT ![a] = how]
    BY DEF Handle, Raise, Claim, TakeSlot, NoSlot, Generate, Fallback, Check, Record, Publish,
           FreeSlot, Unclaim, ToDlq
<1>9. /\ claims' \subseteq Requests /\ parked' \cup lost' \subseteq Requests /\ broken' \subseteq Topics
      /\ said' \cup recorded' \cup unrecorded' \cup outranked' \cup timedOut' \subseteq Attempts
    BY <1>1
       DEF Handle, Raise, Claim, TakeSlot, NoSlot, Generate, Fallback, Check, Record, Publish,
           FreeSlot, Unclaim, ToDlq, WorkerTypeOK, SlotTypeOK, Overtake, historyVars, replyVars, dlqVars
<1>10. /\ at' \in [Attempts -> Calls \cup {"none", "ended", "dead"}]
       /\ outcome' \in [Attempts -> {"none", "duplicate", "no_slot", "preempted",
                                    "published", "failed", "escaped"}]
       /\ \A t \in Topics : current[t] # NoOne => at'[current[t]] \in Calls \cup {"ended"}
    BY <1>4, <1>7, <1>8 DEF WorkerTypeOK
<1>11. WorkerTypeOK'
    BY <1>2, <1>5, <1>6, <1>9, <1>10 DEF WorkerTypeOK, kafkaVars
<1> QED BY <1>3, <1>11

-----------------------------------------------------------------------------
(* Who has the claim of a message.                                          *)

LEMMA ClaimInit == WorkerInit => ClaimInv
BY DEF WorkerInit, ClaimInv, OwnersClaimed, OneOwner, ClaimsAreKept, OutcomeFits, Fits, Owns,
       Working

(* Kafka brings attempts to their first call and lets them die.               *)
LEMMA KafkaClaim ==
    ASSUME WorkerTypeOK, ClaimInv, NEW t \in Topics,
           Deliver(t) \/ CommitFirst \/ Return(t) \/ Crash(t) \/ Rebalance(t)
    PROVE  ClaimInv'
<1> USE DEF Owns, Keeps, Working, Fits
<1>1. UNCHANGED <<claims, outcome, parked, lost, said, recorded, unrecorded>>
    BY DEF Deliver, CommitFirst, Return, Crash, Rebalance, replyVars, dlqVars
<1>2. CASE UNCHANGED at
    BY <1>1, <1>2 DEF ClaimInv, OwnersClaimed, OneOwner, ClaimsAreKept, OutcomeFits
<1>3. CASE \E a \in Attempts : at[a] = "none" /\ at' = [at EXCEPT ![a] = "claim"]
    <2>1. PICK a \in Attempts : at[a] = "none" /\ at' = [at EXCEPT ![a] = "claim"]
        BY <1>3
    <2>2. /\ at'[a] = "claim" /\ \A b \in Attempts \ {a} : at'[b] = at[b]
          /\ outcome[a] = "none"
        BY <2>1 DEF WorkerTypeOK, ClaimInv, OutcomeFits
    <2>3. OwnersClaimed'
        BY <1>1, <2>2 DEF ClaimInv, OwnersClaimed
    <2>4. OneOwner'
        BY <1>1, <2>2 DEF ClaimInv, OneOwner
    <2>5. ClaimsAreKept'
        BY <1>1, <2>1, <2>2 DEF ClaimInv, ClaimsAreKept
    <2>6. OutcomeFits'
        BY <1>1, <2>1, <2>2 DEF ClaimInv, OutcomeFits
    <2> QED BY <2>3, <2>4, <2>5, <2>6 DEF ClaimInv
<1>4. CASE \E a \in Attempts : at[a] # "none" /\ at' = [at EXCEPT ![a] = "dead"]
    <2>1. PICK a \in Attempts : at[a] # "none" /\ at' = [at EXCEPT ![a] = "dead"]
        BY <1>4
    <2>2. at'[a] = "dead" /\ \A b \in Attempts \ {a} : at'[b] = at[b]
        BY <2>1 DEF WorkerTypeOK
    <2>3. OwnersClaimed'
        BY <1>1, <2>2 DEF ClaimInv, OwnersClaimed
    <2>4. OneOwner'
        BY <1>1, <2>2 DEF ClaimInv, OneOwner
    <2>5. ClaimsAreKept'
        BY <1>1, <2>1, <2>2 DEF ClaimInv, ClaimsAreKept
    <2>6. OutcomeFits'
        BY <1>1, <2>1, <2>2 DEF ClaimInv, OutcomeFits
    <2> QED BY <2>3, <2>4, <2>5, <2>6 DEF ClaimInv
<1>5. CASE Deliver(t)
    <2>1. PICK n \in 1..Deliveries :
            /\ at[<<queue[t][position[t] + 1], n>>] = "none"
            /\ at' = [at EXCEPT ![<<queue[t][position[t] + 1], n>>] = "claim"]
        BY <1>5 DEF Deliver, Goto
    <2>2. <<queue[t][position[t] + 1], n>> \in Attempts
        BY <1>5, TakenIsAttempt DEF Deliver
    <2> QED BY <1>3, <2>1, <2>2
<1>6. CASE Crash(t)
    <2>1. /\ current[t] \in Attempts /\ at[current[t]] # "none"
          /\ at' = [at EXCEPT ![current[t]] = "dead"]
        BY <1>6 DEF Crash, Goto, WorkerTypeOK, Calls
    <2> QED BY <1>4, <2>1
<1> QED BY <1>2, <1>5, <1>6 DEF CommitFirst, Return, Rebalance

LEMMA RequestClaim ==
    ASSUME ClaimInv, (\E r \in Requests : Request(r)) \/ SlotExpires
    PROVE  ClaimInv'
BY DEF Request, SlotExpires, ClaimInv, OwnersClaimed, OneOwner, ClaimsAreKept, OutcomeFits, Fits,
       Owns, Keeps, Working, replyVars, dlqVars

(* A call that changes no claim, and after which the attempt keeps its right   *)
(* to one, or never gets one.                                                *)
LEMMA CallKeepsClaim ==
    ASSUME WorkerTypeOK, ClaimInv, OutcomeFits', NEW a \in Attempts,
           UNCHANGED claims,
           \A b \in Attempts \ {a} : at'[b] = at[b] /\ outcome'[b] = outcome[b],
           Owns(a)' => Owns(a),
           Keeps(a) => Keeps(a)'
    PROVE  ClaimInv'
<1>1. /\ \A b \in Attempts : Owns(b)' => Owns(b)
      /\ \A b \in Attempts : Keeps(b) => Keeps(b)'
    BY DEF Owns, Keeps
<1>2. OwnersClaimed'
    BY <1>1 DEF ClaimInv, OwnersClaimed
<1>3. OneOwner'
    BY <1>1 DEF ClaimInv, OneOwner
<1>4. ClaimsAreKept'
    BY <1>1 DEF ClaimInv, ClaimsAreKept
<1> QED BY <1>2, <1>3, <1>4 DEF ClaimInv

(* Every call leaves the other attempts where they are.                       *)
LEMMA OthersStay ==
    ASSUME WorkerTypeOK, NEW a \in Attempts, Handle(a) \/ Raise(a)
    PROVE  /\ \A b \in Attempts \ {a} : at'[b] = at[b] /\ outcome'[b] = outcome[b]
           /\ UNCHANGED kafkaVars
           /\ recorded \subseteq recorded' /\ unrecorded \subseteq unrecorded'
           /\ parked \cup lost \subseteq parked' \cup lost'
           /\ said' \subseteq said \cup {a} /\ said \subseteq said'
BY DEF WorkerTypeOK, Goto, End, Handle, Raise, Claim, TakeSlot, NoSlot, Generate, Fallback,
       Check, Record, Publish, FreeSlot, Unclaim, ToDlq, replyVars, dlqVars

LEMMA HandleOutcome ==
    ASSUME WorkerTypeOK, ClaimInv, NEW a \in Attempts, Handle(a) \/ Raise(a)
    PROVE  OutcomeFits'
<1>1. ASSUME NEW b \in Attempts, b # a
      PROVE  Fits(b)'
    BY <1>1, OthersStay DEF ClaimInv, OutcomeFits, Fits
<1>2. Fits(a)'
    <2>1. Fits(a) /\ at[a] \in Calls
        BY DEF Calls, ClaimInv, OutcomeFits, Handle, Raise, Claim, TakeSlot, NoSlot, Generate,
               Fallback, Check, Record, Publish, FreeSlot, Unclaim, ToDlq
    <2> USE DEF WorkerTypeOK, Fits, Goto, End, replyVars
    <2>2. CASE Claim(a) \/ TakeSlot(a) \/ NoSlot(a)
        BY <2>1, <2>2 DEF Claim, TakeSlot, NoSlot
    <2>3. CASE Generate(a) \/ Fallback(a) \/ Check(a)
        BY <2>1, <2>3 DEF Generate, Fallback, Check
    <2>4. CASE Record(a) \/ Publish(a)
        BY <2>1, <2>4 DEF Record, Publish
    <2>5. CASE FreeSlot(a) \/ Unclaim(a) \/ ToDlq(a)
        BY <2>1, <2>5 DEF FreeSlot, Unclaim, ToDlq
    <2>6. CASE Raise(a)
        <3>1. CASE at[a] \in {"claim", "unclaim"}
            BY <2>1, <2>6, <3>1 DEF Raise
        <3>2. CASE at[a] \notin {"claim", "unclaim"}
            BY <2>1, <2>6, <3>2 DEF Raise
        <3> QED BY <3>1, <3>2
    <2> QED BY <2>2, <2>3, <2>4, <2>5, <2>6 DEF Handle
<1> QED BY <1>1, <1>2 DEF OutcomeFits

LEMMA HandleClaim ==
    ASSUME WorkerTypeOK, ClaimInv, NEW a \in Attempts, Handle(a) \/ Raise(a)
    PROVE  ClaimInv'
<1> USE DEF Owns, Keeps, Working
<1>1. OutcomeFits' /\ (\A b \in Attempts \ {a} : at'[b] = at[b] /\ outcome'[b] = outcome[b])
    BY HandleOutcome, OthersStay
<1>2. Fits(a)
    BY DEF ClaimInv, OutcomeFits
<1> USE DEF Goto, End
<1>3. CASE Claim(a) /\ a[1] \notin claims
    <2>1. /\ at'[a] = "acquire" /\ outcome'[a] = "none"
          /\ claims' = claims \cup {a[1]}
        BY <1>2, <1>3 DEF Claim, WorkerTypeOK, Fits
    <2>2. OwnersClaimed'
        BY <1>1, <2>1 DEF ClaimInv, OwnersClaimed
    <2>3. OneOwner'
        BY <1>1, <1>3, <2>1 DEF ClaimInv, OwnersClaimed, OneOwner
    <2>4. ClaimsAreKept'
        <3>1. ASSUME NEW b \in Attempts, b[1] \in claims'
              PROVE  \E c \in Attempts : c[1] = b[1] /\ Keeps(c)'
            <4>1. CASE b[1] = a[1]
                BY <2>1, <4>1
            <4>2. CASE b[1] # a[1]
                <5>1. PICK c \in Attempts : c[1] = b[1] /\ Keeps(c)
                    BY <2>1, <3>1, <4>2 DEF ClaimInv, ClaimsAreKept
                <5> QED BY <1>1, <4>2, <5>1
            <4> QED BY <4>1, <4>2
        <3> QED BY <3>1 DEF ClaimsAreKept
    <2> QED BY <1>1, <2>2, <2>3, <2>4 DEF ClaimInv
<1>4. CASE Claim(a) /\ a[1] \in claims
    <2>1. /\ at'[a] = "ended" /\ outcome'[a] = "duplicate" /\ claims' = claims
          /\ at[a] = "claim"
        BY <1>4 DEF Claim, WorkerTypeOK
    <2> QED BY <1>1, <2>1, CallKeepsClaim
<1>5. CASE TakeSlot(a) \/ NoSlot(a)
    <2>1. /\ claims' = claims
          /\ at[a] = "acquire"
          /\ \/ at'[a] = "generate"
             \/ at'[a] = "ended" /\ outcome'[a] = "no_slot"
        BY <1>2, <1>5 DEF TakeSlot, NoSlot, WorkerTypeOK, Fits
    <2> QED BY <1>1, <2>1, CallKeepsClaim
<1>6. CASE Generate(a) \/ Fallback(a) \/ Check(a)
    <2>1. /\ claims' = claims
          /\ at[a] \in Working /\ at'[a] \in Working
        BY <1>2, <1>6 DEF Generate, Fallback, Check, WorkerTypeOK, Fits
    <2> QED BY <1>1, <2>1, CallKeepsClaim
<1>7. CASE Record(a) \/ Publish(a)
    <2>1. /\ claims' = claims
          /\ at[a] \in Working /\ at'[a] \in Working
        BY <1>2, <1>7 DEF Record, Publish, WorkerTypeOK, Fits
    <2> QED BY <1>1, <2>1, CallKeepsClaim
<1>8. CASE FreeSlot(a) \/ ToDlq(a)
    <2>1. /\ claims' = claims
          /\ \/ at[a] \in Working /\ at'[a] = "unclaim"
             \/ at[a] = "release" /\ at'[a] = "ended"
                /\ outcome'[a] \in {"published", "preempted"}
             \/ at[a] = "to_dlq" /\ at'[a] = "ended" /\ outcome'[a] = "failed"
        BY <1>2, <1>8 DEF FreeSlot, ToDlq, WorkerTypeOK, Fits
    <2> QED BY <1>1, <2>1, CallKeepsClaim
<1>9. ASSUME at[a] = "unclaim", claims' = claims \ {a[1]},
             at'[a] \in {"to_dlq", "ended"}, outcome'[a] \in {"failed", "escaped"}
      PROVE  ClaimInv'
    <2>1. OwnersClaimed'
        BY <1>1, <1>9 DEF ClaimInv, OwnersClaimed, OneOwner
    <2>2. OneOwner'
        BY <1>1, <1>9 DEF ClaimInv, OneOwner
    <2>3. ClaimsAreKept'
        <3>1. ASSUME NEW b \in Attempts, b[1] \in claims'
              PROVE  \E c \in Attempts : c[1] = b[1] /\ Keeps(c)'
            <4>1. PICK c \in Attempts : c[1] = b[1] /\ Keeps(c)
                BY <1>9, <3>1 DEF ClaimInv, ClaimsAreKept
            <4> QED BY <1>1, <1>9, <3>1, <4>1
        <3> QED BY <3>1 DEF ClaimsAreKept
    <2> QED BY <1>1, <2>1, <2>2, <2>3 DEF ClaimInv
<1>10. CASE Unclaim(a)
    BY <1>2, <1>9, <1>10 DEF Unclaim, WorkerTypeOK, Fits
<1>11. CASE Raise(a)
    <2>1. CASE at[a] = "claim"
        <3>1. /\ at'[a] = "ended" /\ outcome'[a] = "escaped"
              /\ claims' \in {claims, claims \cup {a[1]}}
            BY <1>11, <2>1 DEF Raise, WorkerTypeOK
        <3>2. OwnersClaimed'
            BY <1>1, <3>1 DEF ClaimInv, OwnersClaimed
        <3>3. OneOwner'
            BY <1>1, <3>1 DEF ClaimInv, OneOwner
        <3>4. ClaimsAreKept'
            <4>1. ASSUME NEW b \in Attempts, b[1] \in claims'
                  PROVE  \E c \in Attempts : c[1] = b[1] /\ Keeps(c)'
                <5>1. CASE b[1] = a[1]
                    BY <3>1, <5>1
                <5>2. CASE b[1] # a[1]
                    <6>1. PICK c \in Attempts : c[1] = b[1] /\ Keeps(c)
                        BY <3>1, <4>1, <5>2 DEF ClaimInv, ClaimsAreKept
                    <6> QED BY <1>1, <5>2, <6>1
                <5> QED BY <5>1, <5>2
            <4> QED BY <4>1 DEF ClaimsAreKept
        <3> QED BY <1>1, <3>2, <3>3, <3>4 DEF ClaimInv
    <2>2. CASE at[a] = "unclaim"
        <3>1. /\ at'[a] = "ended" /\ outcome'[a] = "escaped"
              /\ claims' \in {claims, claims \ {a[1]}}
            BY <1>11, <2>2 DEF Raise, WorkerTypeOK
        <3>2. CASE claims' = claims
            BY <1>1, <2>2, <3>1, <3>2, CallKeepsClaim
        <3> QED BY <1>9, <2>2, <3>1, <3>2
    <2>3. CASE at[a] \notin {"claim", "unclaim"}
        <3>1. /\ at'[a] \in {"give_up_slot", "unclaim"} /\ outcome'[a] = "failed"
              /\ claims' = claims /\ at[a] \in Working
            BY <1>11, <2>3 DEF Raise, WorkerTypeOK
        <3> QED BY <1>1, <3>1, CallKeepsClaim
    <2> QED BY <2>1, <2>2, <2>3
<1> QED BY <1>3, <1>4, <1>5, <1>6, <1>7, <1>8, <1>10, <1>11 DEF Handle

-----------------------------------------------------------------------------
(* Who has the slot.                                                        *)

LEMMA SlotInvInit == WorkerInit => SlotInv
BY DEF WorkerInit, SlotInv, HasItsSlot, Unasked, Overtaken, Owns

LEMMA KafkaSlot ==
    ASSUME WorkerTypeOK, SlotInv, NEW t \in Topics,
           Deliver(t) \/ CommitFirst \/ Return(t) \/ Crash(t) \/ Rebalance(t)
    PROVE  SlotInv'
<1> USE DEF HasItsSlot, Unasked, Overtaken
<1>1. UNCHANGED <<holder, said, outcome, outranked, timedOut>>
    BY DEF Deliver, CommitFirst, Return, Crash, Rebalance, replyVars, slotVars, historyVars
<1>2. CASE UNCHANGED at
    BY <1>1, <1>2 DEF SlotInv
<1>3. CASE Deliver(t)
    <2>1. PICK n \in 1..Deliveries :
            /\ at[<<queue[t][position[t] + 1], n>>] = "none"
            /\ at' = [at EXCEPT ![<<queue[t][position[t] + 1], n>>] = "claim"]
        BY <1>3 DEF Deliver, Goto
    <2>2. PICK a \in Attempts : at[a] = "none" /\ at' = [at EXCEPT ![a] = "claim"]
        BY <1>3, <2>1, TakenIsAttempt DEF Deliver
    <2> QED BY <1>1, <2>2 DEF SlotInv, WorkerTypeOK
<1>4. CASE Crash(t)
    <2>1. PICK a \in Attempts : at' = [at EXCEPT ![a] = "dead"]
        BY <1>4 DEF Crash, Goto, WorkerTypeOK
    <2> QED BY <1>1, <2>1 DEF SlotInv, WorkerTypeOK
<1> QED BY <1>2, <1>3, <1>4 DEF CommitFirst, Return, Rebalance

LEMMA RequestSlot ==
    ASSUME WorkerTypeOK, SlotInv, OutcomeFits,
           (\E r \in Requests : Request(r)) \/ SlotExpires
    PROVE  SlotInv'
<1> USE DEF HasItsSlot, Unasked, Overtaken
<1>1. CASE \E r \in Requests : Request(r)
    BY <1>1 DEF Request, SlotInv, replyVars, slotVars, historyVars
<1>2. CASE SlotExpires
    BY <1>2, WorkerAssumption
       DEF SlotExpires, Expire, SlotInv, OutcomeFits, Fits, replyVars, WorkerTypeOK,
                SlotTypeOK
<1> QED BY <1>1, <1>2

LEMMA HandleSlot ==
    ASSUME WorkerTypeOK, SlotInv, OutcomeFits, NEW a \in Attempts, Handle(a) \/ Raise(a)
    PROVE  SlotInv'
<1> USE DEF HasItsSlot, Unasked, Overtaken
<1>1. /\ \A b \in Attempts \ {a} : at'[b] = at[b] /\ outcome'[b] = outcome[b]
      /\ said' \subseteq said \cup {a}
      /\ a # NoOne
    BY OthersStay, WorkerAssumption
<1>2. HasItsSlot(a) /\ Fits(a) /\ at[a] \in Calls
    BY DEF SlotInv, OutcomeFits, Calls, Handle, Raise, Claim, TakeSlot, NoSlot, Generate,
           Fallback, Check, Record, Publish, FreeSlot, Unclaim, ToDlq
<1> USE DEF Goto, End, WorkerTypeOK, slotVars, replyVars, historyVars, dlqVars
(* The slot goes to a.                                                       *)
<1>3. CASE Overtake(a) /\ at[a] = "acquire" /\ at'[a] \in {"generate", "unclaim"}
           /\ outcome'[a] \in {"none", "failed"} /\ UNCHANGED <<said, timedOut>>
    <2>1. ASSUME NEW b \in Attempts, b # a PROVE HasItsSlot(b)'
        BY <1>1, <1>3, <2>1, WorkerAssumption
           DEF SlotInv, OutcomeFits, Fits, Overtake, Acquire, SlotTypeOK
    <2>2. HasItsSlot(a)'
        BY <1>1, <1>2, <1>3 DEF Overtake, Acquire, Fits
    <2> QED BY <2>1, <2>2 DEF SlotInv
(* The slot stays, or a gives it back.                                       *)
<1>4. CASE UNCHANGED historyVars /\ (Release(a) \/ UNCHANGED holder)
    <2>1. ASSUME NEW b \in Attempts, b # a PROVE HasItsSlot(b)'
        BY <1>1, <1>4, <2>1, WorkerAssumption DEF SlotInv, Release, SlotTypeOK
    <2>2. CASE HasItsSlot(a)'
        BY <2>1, <2>2 DEF SlotInv
    <2>3. CASE Claim(a) \/ NoSlot(a)
        BY <1>1, <1>2, <2>2, <2>3 DEF Claim, NoSlot, Refuse, Fits
    <2>4. CASE Generate(a) \/ Fallback(a)
        BY <1>1, <1>2, <2>2, <2>4 DEF Generate, Fallback, Fits
    <2>5. CASE Check(a)
        BY <1>1, <1>2, <2>2, <2>5 DEF Check, StillHolds, Fits
    <2>6. CASE Record(a) \/ Publish(a)
        BY <1>1, <1>2, <2>2, <2>6 DEF Record, Publish, Fits
    <2>7. CASE FreeSlot(a) \/ Unclaim(a) \/ ToDlq(a)
        BY <1>1, <1>2, <1>4, <2>2, <2>7 DEF FreeSlot, Unclaim, ToDlq, Release, Fits
    <2>8. CASE Raise(a)
        <3>1. /\ at'[a] \in {"give_up_slot", "unclaim", "ended"}
              /\ outcome'[a] \in {"failed", "escaped"}
              /\ a \in said' => a \in said \/ at[a] = "publish"
              /\ at'[a] = "ended" => at[a] \in {"claim", "unclaim"}
            BY <2>8 DEF Raise
        <3>2. /\ a \in Overtaken' => a \in Overtaken
              /\ holder # a => holder' # a
            BY <1>1, <1>4 DEF Release
        <3>3. HasItsSlot(a)'
            BY <1>2, <3>1, <3>2
        <3> QED BY <2>2, <3>3
    <2>9. CASE TakeSlot(a)
        BY <1>2, <1>3, <2>9 DEF TakeSlot, Fits
    <2> QED BY <2>3, <2>4, <2>5, <2>6, <2>7, <2>8, <2>9 DEF Handle
<1>5. CASE Handle(a)
    BY <1>2, <1>3, <1>4, <1>5
       DEF Handle, Claim, TakeSlot, NoSlot, Generate, Fallback, Check, Record, Publish,
           FreeSlot, Unclaim, ToDlq, Refuse, Fits
<1>6. CASE Raise(a)
    BY <1>2, <1>3, <1>4, <1>6 DEF Raise
<1> QED BY <1>5, <1>6

-----------------------------------------------------------------------------
(* How far the superchats are, as long as nothing fails.                     *)

LEMMA AnswerInit == WorkerInit => AnswerInv
BY WorkerAssumption
   DEF WorkerInit, SlotInit, AnswerInv, Undisturbed, AllIsWell, SuperchatGoesOn, ClaimedIsTaken,
       CurrentIsLast, TakenIsAnswered, Topics, Calls

LEMMA RequestAnswer ==
    ASSUME WorkerTypeOK, AnswerInv, NEW r \in Requests, Request(r)
    PROVE  AnswerInv'
<1> SUFFICES ASSUME Calm' PROVE Undisturbed'
    BY DEF AnswerInv
<1> USE DEF Request, slotVars, replyVars, historyVars, dlqVars
<1>1. Undisturbed
    BY DEF AnswerInv, Calm
<1>2. /\ position["superchat"] \in 0..Len(queue["superchat"])
      /\ \A i \in 1..position["superchat"] : queue'["superchat"][i] = queue["superchat"][i]
    <2>1. /\ queue["superchat"] \in Seq(Requests) /\ queue \in [Topics -> Seq(Requests)]
          /\ position["superchat"] \in 0..Len(queue["superchat"])
        BY DEF WorkerTypeOK, Topics
    <2>2. queue'["superchat"] \in {queue["superchat"], Append(queue["superchat"], r)}
        BY <2>1 DEF Topics
    <2> QED BY <2>1, <2>2
<1>3. AllIsWell' /\ \A a \in Attempts : SuperchatGoesOn(a)'
    BY <1>1 DEF Undisturbed, AllIsWell, SuperchatGoesOn, IsSuperchat
<1>4. ClaimedIsTaken' /\ TakenIsAnswered'
    BY <1>1, <1>2 DEF Undisturbed, ClaimedIsTaken, TakenIsAnswered, Answered
<1>5. CurrentIsLast'
    BY <1>1, <1>2 DEF Undisturbed, CurrentIsLast, WorkerTypeOK, Topics
<1> QED BY <1>3, <1>4, <1>5 DEF Undisturbed

LEMMA DeliverAnswer ==
    ASSUME WorkerTypeOK, QueueInv, AnswerInv, NEW t \in Topics, Deliver(t)
    PROVE  AnswerInv'
<1> SUFFICES ASSUME Calm' PROVE Undisturbed'
    BY DEF AnswerInv
<1>1. Undisturbed /\ UNCHANGED <<queue, committed, claims, said, outranked, broken, holder>>
    BY DEF AnswerInv, Calm, Deliver, slotVars, replyVars, historyVars
<1>2. PICK a \in Attempts :
        /\ a[1] = queue[t][position[t] + 1] /\ topicOf[a[1]] = t
        /\ at[a] = "none" /\ at' = [at EXCEPT ![a] = "claim"]
        /\ current' = [current EXCEPT ![t] = a]
    <2>1. PICK n \in 1..Deliveries :
            /\ at[<<queue[t][position[t] + 1], n>>] = "none"
            /\ at' = [at EXCEPT ![<<queue[t][position[t] + 1], n>>] = "claim"]
            /\ current' = [current EXCEPT ![t] = <<queue[t][position[t] + 1], n>>]
        BY DEF Deliver, Goto
    <2> QED BY <2>1, TakenIsAttempt DEF Deliver, QueueInv
<1>3. /\ at'[a] = "claim" /\ \A b \in Attempts \ {a} : at'[b] = at[b]
      /\ current'[t] = a /\ \A u \in Topics \ {t} : current'[u] = current[u]
      /\ position'[t] = position[t] + 1 /\ \A u \in Topics \ {t} : position'[u] = position[u]
      /\ current[t] = NoOne /\ position[t] + 1 \in DOMAIN queue[t] /\ a # NoOne
      /\ committed[t] \in Nat /\ position[t] \in Nat /\ committed[t] <= position[t]
    BY <1>2, TakenIsAttempt, WorkerAssumption DEF Deliver, WorkerTypeOK
<1>4. AllIsWell'
    BY <1>1, <1>2, <1>3 DEF Undisturbed, AllIsWell
<1>5. CASE t = "response"
    <2>1. \A b \in Attempts : SuperchatGoesOn(b)'
        BY <1>1, <1>2, <1>3, <1>5 DEF Undisturbed, SuperchatGoesOn, IsSuperchat, Topics
    <2>2. ClaimedIsTaken' /\ CurrentIsLast' /\ TakenIsAnswered'
        BY <1>1, <1>3, <1>5
           DEF Undisturbed, ClaimedIsTaken, CurrentIsLast, TakenIsAnswered, Answered, Topics
    <2> QED BY <1>4, <2>1, <2>2 DEF Undisturbed
<1>6. CASE t = "superchat"
    <2>1. a[1] \notin claims
        <3>1. SUFFICES ASSUME a[1] \in claims PROVE FALSE
            OBVIOUS
        <3>2. PICK i \in 1..position[t] : queue[t][i] = a[1]
            BY <1>1, <1>2, <1>6, <3>1 DEF Undisturbed, ClaimedIsTaken
        <3>3. i \in DOMAIN queue[t] /\ i # position[t] + 1
            BY <1>3 DEF WorkerTypeOK
        <3> QED BY <1>2, <1>3, <3>2, <3>3 DEF QueueInv
    <2>2. \A b \in Attempts : SuperchatGoesOn(b)'
        <3>1. \A b \in Attempts : IsSuperchat(b) => at[b] \notin Calls
            BY <1>1, <1>3, <1>6, WorkerAssumption DEF Undisturbed, SuperchatGoesOn
        <3> QED BY <1>1, <1>2, <1>3, <1>6, <2>1, <3>1
                DEF Undisturbed, SuperchatGoesOn, IsSuperchat, Calls
    <2>3. ClaimedIsTaken'
        BY <1>1, <1>3, <1>6 DEF Undisturbed, ClaimedIsTaken
    <2>4. CurrentIsLast'
        BY <1>1, <1>2, <1>3, <1>6 DEF CurrentIsLast
    <2>5. TakenIsAnswered'
        BY <1>1, <1>3, <1>6 DEF Undisturbed, TakenIsAnswered, Answered
    <2> QED BY <1>4, <2>2, <2>3, <2>4, <2>5 DEF Undisturbed
<1> QED BY <1>5, <1>6 DEF Topics

LEMMA ReturnAnswer ==
    ASSUME WorkerTypeOK, QueueInv, AnswerInv, NEW t \in Topics, CommitFirst \/ Return(t)
    PROVE  AnswerInv'
<1> SUFFICES ASSUME Calm' PROVE Undisturbed'
    BY DEF AnswerInv
<1>1. /\ Undisturbed
      /\ UNCHANGED <<queue, position, at, claims, said, outranked, broken, holder>>
    BY DEF AnswerInv, Calm, CommitFirst, Return, slotVars, replyVars, historyVars
<1>2. AllIsWell' /\ ClaimedIsTaken'
    BY <1>1 DEF Undisturbed, AllIsWell, ClaimedIsTaken
<1>3. CASE current'["superchat"] = current["superchat"]
          /\ committed'["superchat"] = committed["superchat"]
    BY <1>1, <1>2, <1>3
       DEF Undisturbed, SuperchatGoesOn, IsSuperchat, CurrentIsLast, TakenIsAnswered, Answered
<1>4. CASE Return("superchat")
    <2> DEFINE a == current["superchat"]
    <2>1. /\ a \in Attempts /\ IsSuperchat(a) /\ at[a] = "ended"
          /\ current'["superchat"] = NoOne
        BY <1>4 DEF IsSuperchat, QueueInv, Return, WorkerTypeOK, Topics
    <2>2. Answered(queue["superchat"][position["superchat"]])
        <3>1. queue["superchat"][position["superchat"]] = a[1] /\ a \in said
            BY <1>1, <1>4, <2>1 DEF Undisturbed, SuperchatGoesOn, CurrentIsLast, Return
        <3> QED BY <2>1, <3>1, AttemptIsDelivery DEF Answered
    <2>3. \A b \in Attempts : SuperchatGoesOn(b)'
        BY <1>1, <2>1 DEF Undisturbed, SuperchatGoesOn, IsSuperchat, Calls
    <2>4. CurrentIsLast'
        BY <2>1 DEF CurrentIsLast
    <2>5. TakenIsAnswered'
        <3>1. position["superchat"] \in Nat
            BY DEF WorkerTypeOK, Topics
        <3> QED BY <1>1, <2>2, <3>1 DEF Undisturbed, TakenIsAnswered, Answered
    <2> QED BY <1>2, <2>3, <2>4, <2>5 DEF Undisturbed
<1> QED BY <1>3, <1>4 DEF CommitFirst, Return, Topics, WorkerTypeOK

(* What a call has to keep, when Kafka has no part in it.                      *)
LEMMA CallKeepsAnswers ==
    ASSUME Undisturbed, AllIsWell', UNCHANGED kafkaVars, said \subseteq said',
           \A a \in Attempts : SuperchatGoesOn(a)', ClaimedIsTaken'
    PROVE  Undisturbed'
BY DEF Undisturbed, kafkaVars, CurrentIsLast, TakenIsAnswered, Answered

(* A superchat that asks for the slot is never refused, and one that has the   *)
(* slot is not overtaken: only chat answers are under way beside it.          *)
LEMMA SuperchatPrevails ==
    ASSUME Undisturbed, WorkerTypeOK, NEW a \in Attempts, NEW b \in Attempts,
           at[a] = "acquire", holder = b
    PROVE  /\ IsSuperchat(a) => FreeFor(a, holder)
           /\ FreeFor(a, holder) => ~IsSuperchat(b)
<1>1. at[b] \in Calls /\ at[a] \in Calls /\ a # b
    BY DEF Undisturbed, AllIsWell, Calls
<1>2. ~(IsSuperchat(a) /\ IsSuperchat(b))
    BY <1>1 DEF Undisturbed, SuperchatGoesOn
<1>3. topicOf[a[1]] \in Topics /\ topicOf[b[1]] \in Topics
    BY AttemptIsDelivery
<1>4. priority[a] \in Nat /\ priority[b] \in Nat
    BY SlotAssumption
<1>5. /\ IsSuperchat(a) /\ ~IsSuperchat(b) => priority[b] < priority[a]
      /\ IsSuperchat(b) /\ ~IsSuperchat(a) => priority[a] < priority[b]
    BY <1>3, WorkerAssumption DEF IsSuperchat, Topics
<1> QED BY <1>2, <1>4, <1>5, WorkerAssumption DEF FreeFor

LEMMA HandleAnswer ==
    ASSUME WorkerTypeOK, SlotInv, AnswerInv, NEW a \in Attempts, Handle(a) \/ Raise(a)
    PROVE  AnswerInv'
<1> SUFFICES ASSUME Calm' PROVE Undisturbed'
    BY DEF AnswerInv
<1>1. Handle(a) /\ Calm /\ Undisturbed /\ failures' = failures
    BY DEF WorkerTypeOK, AnswerInv, Calm, Handle, Raise, Fail, Claim, TakeSlot, NoSlot, Generate,
           Fallback, Check, Record, Publish, FreeSlot, Unclaim, ToDlq, historyVars
<1>2. /\ \A b \in Attempts \ {a} : at'[b] = at[b]
      /\ UNCHANGED kafkaVars
      /\ said \subseteq said'
    BY OthersStay
<1>3. a # NoOne /\ SuperchatGoesOn(a) /\ HasItsSlot(a)
    BY <1>1, WorkerAssumption DEF Undisturbed, SlotInv
<1> USE DEF Goto, End, slotVars, replyVars, historyVars, dlqVars, kafkaVars
<1>4. CASE Claim(a)
    <2>1. AllIsWell'
        BY <1>1, <1>2, <1>4 DEF Undisturbed, AllIsWell, Claim, WorkerTypeOK
    <2>2. \A b \in Attempts : SuperchatGoesOn(b)'
        <3>1. SuperchatGoesOn(a)'
            BY <1>3, <1>4 DEF SuperchatGoesOn, Claim, WorkerTypeOK, Calls
        <3>2. ASSUME NEW b \in Attempts, b # a PROVE SuperchatGoesOn(b)'
            <4>1. SuperchatGoesOn(b) /\ at'[b] = at[b]
                BY <1>1, <1>2, <3>2 DEF Undisturbed
            <4>2. IsSuperchat(b) /\ at[b] = "claim" => ~IsSuperchat(a)
                BY <1>3, <1>4, <3>2, <4>1 DEF SuperchatGoesOn, Claim, Calls
            <4> QED BY <1>4, <4>1, <4>2 DEF SuperchatGoesOn, IsSuperchat, Claim
        <3> QED BY <3>1, <3>2
    <2>3. ClaimedIsTaken'
        <3>1. IsSuperchat(a) => \E i \in 1..position["superchat"] : queue["superchat"][i] = a[1]
            <4>1. position["superchat"] \in Nat /\ committed["superchat"] \in Nat
                BY DEF WorkerTypeOK, Topics
            <4> QED BY <1>1, <1>3, <1>4, <4>1
                    DEF SuperchatGoesOn, Undisturbed, CurrentIsLast, Claim, Calls
        <3> QED BY <1>1, <1>4, <3>1 DEF Undisturbed, ClaimedIsTaken, IsSuperchat, Claim
    <2> QED BY <1>1, <1>2, <2>1, <2>2, <2>3, CallKeepsAnswers
<1>5. CASE UNCHANGED <<claims, outranked, broken>>
           /\ (holder' = holder \/ holder' = NoOne)
           /\ at[a] \in Calls /\ at'[a] \in Calls \cup {"ended"} /\ at'[a] # "claim"
           /\ at'[a] \notin {"dead", "give_up_slot", "unclaim", "to_dlq"}
           /\ (holder' = a => at'[a] \in {"generate", "fallback", "check", "record", "publish",
                                         "release"})
           /\ (IsSuperchat(a) /\ at'[a] \in {"release", "ended"} => a \in said')
    <2>1. AllIsWell'
        BY <1>1, <1>2, <1>5, WorkerAssumption DEF Undisturbed, AllIsWell
    <2>2. \A b \in Attempts : SuperchatGoesOn(b)'
        <3>1. SuperchatGoesOn(a)'
            BY <1>2, <1>3, <1>5 DEF SuperchatGoesOn, IsSuperchat
        <3>2. ASSUME NEW b \in Attempts, b # a PROVE SuperchatGoesOn(b)'
            BY <1>1, <1>2, <1>5, <3>2 DEF Undisturbed, SuperchatGoesOn, IsSuperchat
        <3> QED BY <3>1, <3>2
    <2>3. ClaimedIsTaken'
        BY <1>1, <1>2, <1>5 DEF Undisturbed, ClaimedIsTaken
    <2> QED BY <1>1, <1>2, <2>1, <2>2, <2>3, CallKeepsAnswers
<1>6. CASE TakeSlot(a)
    <2>1. holder' = a /\ at'[a] = "generate" /\ at[a] = "acquire" /\ FreeFor(a, holder)
          /\ UNCHANGED <<claims, broken, said>>
        BY <1>6 DEF TakeSlot, Overtake, Acquire, WorkerTypeOK
    <2>2. AllIsWell'
        BY <1>1, <1>2, <2>1 DEF Undisturbed, AllIsWell
    <2>3. \A b \in Attempts : b \in outranked' => b \in outranked \/ ~IsSuperchat(b)
        BY <1>1, <1>6, <2>1, SuperchatPrevails DEF TakeSlot, Overtake
    <2>4. \A b \in Attempts : SuperchatGoesOn(b)'
        BY <1>1, <1>2, <2>1, <2>3 DEF Undisturbed, SuperchatGoesOn, IsSuperchat, Calls
    <2>5. ClaimedIsTaken'
        BY <1>1, <1>2, <2>1 DEF Undisturbed, ClaimedIsTaken
    <2> QED BY <1>1, <1>2, <2>2, <2>4, <2>5, CallKeepsAnswers
<1>7. CASE NoSlot(a)
    <2>1. ~IsSuperchat(a)
        BY <1>1, <1>7, SuperchatPrevails DEF NoSlot, Refuse, FreeFor, WorkerTypeOK, SlotTypeOK
    <2>2. holder # a
        BY <1>1, <1>7 DEF Undisturbed, AllIsWell, NoSlot
    <2> QED BY <1>5, <1>7, <2>1, <2>2 DEF NoSlot, Refuse, WorkerTypeOK, Calls
<1>8. CASE Generate(a) \/ Fallback(a)
    <2>1. broken = {} /\ failures \in Nat /\ topicOf[a[1]] \notin broken
        BY <1>1, WorkerAssumption DEF Undisturbed, AllIsWell, WorkerTypeOK
    <2> QED BY <1>1, <1>5, <1>8, <2>1 DEF Generate, Fallback, Fail, WorkerTypeOK, Calls
<1>9. CASE Check(a)
    <2>1. IsSuperchat(a) => holder = a
        BY <1>1, <1>3, <1>9
           DEF Check, SuperchatGoesOn, HasItsSlot, Overtaken, Unasked, Calm
    <2> QED BY <1>5, <1>9, <2>1 DEF Check, StillHolds, WorkerTypeOK, Calls
<1>10. CASE Record(a) \/ Publish(a)
    <2>1. failures \in Nat
        BY WorkerAssumption DEF WorkerTypeOK
    <2> QED BY <1>1, <1>5, <1>10, <2>1 DEF Record, Publish, Fail, WorkerTypeOK, Calls
<1>11. CASE FreeSlot(a)
    <2>1. at[a] = "release"
        BY <1>1, <1>11 DEF Undisturbed, AllIsWell, FreeSlot
    <2>2. at'[a] = "ended" /\ holder' \in {holder, NoOne} /\ holder' # a
          /\ UNCHANGED <<claims, outranked, broken, said>>
        BY <1>3, <1>11, <2>1 DEF FreeSlot, Release, WorkerTypeOK
    <2>3. IsSuperchat(a) => a \in said
        BY <1>3, <2>1 DEF SuperchatGoesOn
    <2> QED BY <1>5, <2>1, <2>2, <2>3 DEF Calls
<1>12. ~Unclaim(a) /\ ~ToDlq(a)
    BY <1>1 DEF Undisturbed, AllIsWell, Unclaim, ToDlq
<1> QED BY <1>1, <1>4, <1>6, <1>7, <1>8, <1>9, <1>10, <1>11, <1>12 DEF Handle

LEMMA FaultAnswer ==
    ASSUME WorkerTypeOK, AnswerInv, NEW t \in Topics, Crash(t) \/ Rebalance(t) \/ SlotExpires
    PROVE  AnswerInv'
<1> SUFFICES ASSUME Calm' PROVE Undisturbed'
    BY DEF AnswerInv
<1>1. SlotExpires /\ Calm
    BY DEF WorkerTypeOK, Calm, Crash, Rebalance, Fail, SlotExpires
<1>2. Undisturbed
    BY <1>1 DEF AnswerInv
<1> USE DEF SlotExpires, Expire, replyVars
<1>3. AllIsWell'
    BY <1>1, <1>2, WorkerAssumption DEF Undisturbed, AllIsWell
<1>4. (\A a \in Attempts : SuperchatGoesOn(a)') /\ ClaimedIsTaken'
    BY <1>1, <1>2 DEF Undisturbed, SuperchatGoesOn, IsSuperchat, ClaimedIsTaken, kafkaVars
<1> QED BY <1>1, <1>2, <1>3, <1>4, CallKeepsAnswers

-----------------------------------------------------------------------------

LEMMA WorkerInitInv == WorkerInit => WorkerInv
BY TypeInit, ClaimInit, SlotInvInit, AnswerInit DEF WorkerInv

LEMMA WorkerNextInv == WorkerInv /\ [WorkerNext]_workerVars => WorkerInv'
<1> SUFFICES ASSUME WorkerInv, [WorkerNext]_workerVars PROVE WorkerInv'
    OBVIOUS
<1>1. WorkerTypeOK /\ QueueInv /\ ClaimInv /\ OutcomeFits /\ SlotInv /\ AnswerInv
    BY DEF WorkerInv, ClaimInv
<1>2. CASE \E r \in Requests : Request(r)
    BY <1>1, <1>2, RequestType, RequestClaim, RequestSlot, RequestAnswer DEF WorkerInv
<1>3. CASE \E t \in Topics : Deliver(t)
    BY <1>1, <1>3, DeliverType, KafkaClaim, KafkaSlot, DeliverAnswer DEF WorkerInv
<1>4. CASE \E t \in Topics : CommitFirst \/ Return(t)
    BY <1>1, <1>4, KafkaType, KafkaClaim, KafkaSlot, ReturnAnswer DEF WorkerInv
<1>5. CASE \E t \in Topics : Crash(t) \/ Rebalance(t)
    BY <1>1, <1>5, KafkaType, KafkaClaim, KafkaSlot, FaultAnswer DEF WorkerInv
<1>6. CASE \E a \in Attempts : Handle(a) \/ Raise(a)
    BY <1>1, <1>6, HandleType, HandleClaim, HandleSlot, HandleAnswer DEF WorkerInv
<1>7. CASE SlotExpires
    <2>1. WorkerTypeOK' /\ QueueInv'
        BY <1>1, <1>7, WorkerAssumption
           DEF SlotExpires, Expire, WorkerTypeOK, SlotTypeOK, QueueInv, kafkaVars, replyVars, dlqVars
    <2>2. ClaimInv' /\ SlotInv'
        BY <1>1, <1>7, RequestClaim, RequestSlot
    <2>3. AnswerInv'
        BY <1>1, <1>7, FaultAnswer DEF Topics
    <2> QED BY <2>1, <2>2, <2>3 DEF WorkerInv
<1>8. CASE UNCHANGED workerVars
    <2> USE <1>1, <1>8 DEF workerVars, slotVars, kafkaVars, replyVars, historyVars, dlqVars
    <2>1. WorkerTypeOK' /\ QueueInv'
        BY DEF WorkerTypeOK, SlotTypeOK, QueueInv
    <2>2. ClaimInv'
        BY DEF ClaimInv, OwnersClaimed, OneOwner, ClaimsAreKept, OutcomeFits, Fits, Owns, Keeps
    <2>3. SlotInv'
        BY DEF SlotInv, HasItsSlot, Unasked, Overtaken
    <2>4. AnswerInv'
        BY DEF AnswerInv, Calm, Undisturbed, AllIsWell, SuperchatGoesOn, IsSuperchat,
               ClaimedIsTaken, CurrentIsLast, TakenIsAnswered, Answered
    <2> QED BY <2>1, <2>2, <2>3, <2>4 DEF WorkerInv
<1>9. (\E t \in Topics : TRUE) /\ (WorkerNext \/ UNCHANGED workerVars)
    BY DEF Topics
<1> QED BY <1>2, <1>3, <1>4, <1>5, <1>6, <1>7, <1>8, <1>9 DEF WorkerNext

LEMMA WorkerAlways == WorkerSpec => []WorkerInv
BY WorkerInitInv, WorkerNextInv, PTL DEF WorkerSpec

(* No crash, rebalance or redelivery gives an attempt a value it cannot have,  *)
(* commits more than was taken or takes more than was published.             *)
THEOREM WorkerTypeCorrect == WorkerSpec => []WorkerTypeOK
<1>1. WorkerInv => WorkerTypeOK
    BY DEF WorkerInv
<1> QED BY <1>1, WorkerAlways, PTL

(* However often a request is delivered: no two replies to it are broadcast,   *)
(* except by an attempt that failed after the broadcast.                     *)
THEOREM OneReply == WorkerSpec => []OneReplyPerRequest
<1>1. WorkerInv => OneReplyPerRequest
    BY DEF WorkerInv, ClaimInv, OneOwner, OutcomeFits, Fits, OneReplyPerRequest, Owns,
           WorkerTypeOK
<1> QED BY <1>1, WorkerAlways, PTL

(* A response whose slot was taken or ran out before it asked is silent, and   *)
(* only such a one is thrown away.                                           *)
THEOREM OvertakenSaysNothing == WorkerSpec => []OvertakenIsSilent
<1>1. WorkerInv => OvertakenIsSilent
    BY DEF WorkerInv, SlotInv, HasItsSlot, Overtaken, OvertakenIsSilent, WorkerTypeOK
<1> QED BY <1>1, WorkerAlways, PTL

(* No reply is heard that is not in the transcript or in the log.              *)
THEOREM HeardIsOnRecord == WorkerSpec => []HeardIsRecorded
<1>1. WorkerInv => HeardIsRecorded
    BY DEF WorkerInv, ClaimInv, OutcomeFits, Fits, HeardIsRecorded, WorkerTypeOK
<1> QED BY <1>1, WorkerAlways, PTL

(* With nothing failing, every superchat that is committed was answered.       *)
THEOREM SuperchatGetsAnswer == WorkerSpec => []SuperchatIsAnswered
<1>1. WorkerInv => SuperchatIsAnswered
    <2> SUFFICES ASSUME WorkerInv, Calm, NEW i \in 1..committed["superchat"]
                 PROVE  Answered(queue["superchat"][i])
        BY DEF SuperchatIsAnswered, Calm, Answered
    <2>1. /\ committed["superchat"] \in Nat /\ position["superchat"] \in Nat
          /\ committed["superchat"] <= position["superchat"]
        BY DEF WorkerInv, WorkerTypeOK, Topics
    <2>2. CurrentIsLast /\ TakenIsAnswered
        BY DEF WorkerInv, AnswerInv, Undisturbed
    <2> QED BY <2>1, <2>2 DEF CurrentIsLast, TakenIsAnswered
<1> QED BY <1>1, WorkerAlways, PTL

(* An error inside the handler has been told to the DLQ, or the DLQ has raised *)
(* as well, and the claim that is there, if there is one, is that of an        *)
(* attempt which did not fail.                                               *)
THEOREM FailureIsTold == WorkerSpec => []ErrorIsTold
<1>1. WorkerInv => ErrorIsTold
    <2> SUFFICES ASSUME WorkerInv, NEW a \in Attempts, at[a] = "ended", outcome[a] = "failed"
                 PROVE  /\ a[1] \in parked \cup lost
                        /\ a[1] \in claims => \E b \in {a[1]} \X (1..Deliveries) :
                             /\ at[b] # "none"
                             /\ at[b] = "ended" => outcome[b] \notin {"failed", "duplicate"}
        BY DEF ErrorIsTold
    <2>1. a[1] \in parked \cup lost
        BY DEF WorkerInv, ClaimInv, OutcomeFits, Fits
    <2>2. ASSUME a[1] \in claims
          PROVE  \E b \in {a[1]} \X (1..Deliveries) :
                    at[b] # "none" /\ (at[b] = "ended" => outcome[b] \notin {"failed", "duplicate"})
        <3>1. PICK b \in Attempts : b[1] = a[1] /\ Keeps(b)
            BY <2>2 DEF WorkerInv, ClaimInv, ClaimsAreKept
        <3>2. b \in {a[1]} \X (1..Deliveries)
            BY <3>1, AttemptIsDelivery
        <3> QED BY <3>1, <3>2 DEF Keeps
    <2> QED BY <2>1, <2>2
<1> QED BY <1>1, WorkerAlways, PTL

(* Every step of a worker is a step of the slot as ResponseCoordinator         *)
(* promises it, or none.                                                     *)
THEOREM WorkerUsesSlot == WorkerSpec => SlotSpec
<1>1. WorkerInit => SlotInit
    BY DEF WorkerInit
<1>2. [WorkerNext]_workerVars => [SlotNext]_slotVars
    <2> SUFFICES ASSUME [WorkerNext]_workerVars PROVE [SlotNext]_slotVars
        OBVIOUS
    <2>1. CASE \E r \in Requests : Request(r)
        BY <2>1 DEF Request
    <2>2. CASE \E t \in Topics : Deliver(t) \/ Return(t) \/ Crash(t) \/ Rebalance(t)
        BY <2>2 DEF Deliver, Return, Crash, Rebalance
    <2>3. CASE \E a \in Attempts : Handle(a) \/ Raise(a)
        BY <2>3 DEF Handle, Raise, Claim, TakeSlot, NoSlot, Generate, Fallback, Check, Record,
                    Publish, FreeSlot, Unclaim, ToDlq, Overtake, SlotNext
    <2>4. CASE SlotExpires \/ CommitFirst \/ UNCHANGED workerVars
        BY <2>4 DEF SlotExpires, CommitFirst, SlotNext, workerVars
    <2> QED BY <2>1, <2>2, <2>3, <2>4 DEF WorkerNext
<1> QED BY <1>1, <1>2, PTL DEF WorkerSpec, SlotSpec
=============================================================================
