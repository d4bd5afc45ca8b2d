---------------------------- MODULE ProgressProofs ----------------------------
(***************************************************************************)
(* Proofs about Progress, for any finite set of workers, any comments and   *)
(* stories, and any number of failing calls, crashes and database errors.   *)
(***************************************************************************)
EXTENDS Progress, TLAPS, FiniteSetTheorems, SequenceTheorems

(* What the board says of the story a worker has in hand.  Whose session is    *)
(* broken does not get far.                                                  *)
InHand(w) ==
    /\ plan[w] \in Stories =>
        /\ pc[w] \in {"publish", "mark_done"} => status[plan[w]] = "reading"
        /\ pc[w] \in {"unlock", "touch"} => status[plan[w]] = "done"
        /\ pc[w] = "release" =>
            status[plan[w]] = "reading" \/ (status[plan[w]] = "done" /\ w \in broken)
        /\ pc[w] = "publish" => asked[plan[w]] <= unclear[plan[w]]
        /\ pc[w] = "mark_done" => asked[plan[w]] > 0
        /\ pc[w] = "release" /\ w \notin broken => asked[plan[w]] <= unclear[plan[w]]
    /\ w \in broken => pc[w] \in {"idle", "release"} \/ (pc[w] = "unlock" /\ plan[w] = "none")

OnePlanPerStory == \A v, w \in Workers : v # w /\ plan[v] \in Stories => plan[v] # plan[w]

NoStoryIsStranded ==
    crashes + dbErrors = 0 =>
        /\ broken = {}
        /\ \A s \in Stories : status[s] = "reading" => \E w \in Workers : plan[w] = s

AskedFits(s) ==
    /\ asked[s] <= 1 + unclear[s]
    /\ status[s] = "pending" \/ status[s] = "absent" => asked[s] <= unclear[s]
    /\ status[s] = "done" => asked[s] > 0

StoriesInv ==
    /\ \A w \in Workers : InHand(w)
    /\ OnePlanPerStory
    /\ NoStoryIsStranded
    /\ \A s \in Stories : AskedFits(s)

(* Whoever is inside has set the lock.                                       *)
LockInv == ~overrun => \A w \in Workers : Inside(w) => lock = w

(* Workers that may have spoken and not yet touched the room; one with a       *)
(* broken session never will.                                                *)
Untouched ==
    broken \cup {w \in Workers : pc[w] \in {"mark_done", "unlock", "touch"} /\ plan[w] # "none"}
VoicesInv == unprompted <= Cardinality(Untouched) + troubles + crashes

ProgressInv ==
    /\ ProgressTypeOK
    /\ StoriesInv
    /\ TakenIsWeighed
    /\ LockInv
    /\ VoicesInv

-----------------------------------------------------------------------------
(* Facts about the board.                                                   *)

(* Min returns the least member of a set of positions.                       *)
LEMMA MinIsLeast ==
    ASSUME NEW S \in SUBSET Nat, S # {}
    PROVE  Min(S) \in S /\ \A i \in S : Min(S) <= i
<1> DEFINE R == {ss \in Nat \X Nat : ss[1] < ss[2]}
<1>1. OpToRel(<, Nat) = R
    BY Zenon DEF OpToRel
<1>2. IsWellFoundedOn(R, Nat)
    BY <1>1, NatLessThanWellFounded
<1> HIDE DEF R
<1>3. PICK m \in S : \A i \in S : ~(<<i, m>> \in R)
    BY <1>2, WFMin
<1>4. \A i, k \in Nat : i < k => <<i, k>> \in R
    BY DEF R
<1>5. ASSUME NEW i \in S PROVE m <= i
    <2>1. i \in Nat /\ m \in Nat
        OBVIOUS
    <2>2. ~(i < m)
        BY <1>3, <1>4, <2>1
    <2> QED BY <2>1, <2>2
<1> QED BY <1>5 DEF Min

(* Who claims a story claims one that waits.                                 *)
LEMMA OldestWaits ==
    ASSUME ProgressTypeOK, Waiting # {}
    PROVE  Oldest \in Stories /\ status[Oldest] = "pending"
<1>1. board \in Seq(Stories) /\ Waiting \in SUBSET Nat
    BY DEF ProgressTypeOK, Waiting
<1>2. Min(Waiting) \in Waiting
    BY <1>1, MinIsLeast
<1> QED BY <1>1, <1>2 DEF Waiting, Oldest

(* The buffer keeps the newest MaxCandidates comments.                        *)
LEMMA BufferIsBounded ==
    ASSUME ProgressTypeOK, NEW c \in unlisted, AddCandidate(c)
    PROVE  /\ candidates' \in Seq(Comments) /\ Len(candidates') <= MaxCandidates
           /\ ToSet(candidates') \subseteq ToSet(candidates) \cup {c}
<1> DEFINE longer == Append(candidates, c)
<1>1. /\ candidates \in Seq(Comments) /\ c \in Comments /\ Len(candidates) <= MaxCandidates
      /\ MaxCandidates \in Nat
    BY ProgressAssumption DEF ProgressTypeOK
<1>2. /\ longer \in Seq(Comments) /\ Len(longer) = Len(candidates) + 1
      /\ \A i \in DOMAIN longer : longer[i] \in ToSet(candidates) \cup {c}
    BY <1>1 DEF ToSet
<1>3. candidates' = IF Len(longer) > MaxCandidates THEN Tail(longer) ELSE longer
    BY DEF AddCandidate
<1> HIDE DEF longer
<1>4. CASE Len(longer) > MaxCandidates
    <2>1. /\ Tail(longer) \in Seq(Comments) /\ Len(Tail(longer)) = Len(longer) - 1
          /\ \A i \in 1..Len(Tail(longer)) : Tail(longer)[i] = longer[i + 1]
        BY <1>1, <1>2, HeadTailProperties
    <2>2. \A i \in DOMAIN candidates' : candidates'[i] \in ToSet(candidates) \cup {c}
        BY <1>2, <1>3, <1>4, <2>1
    <2> QED BY <1>1, <1>2, <1>3, <1>4, <2>1, <2>2 DEF ToSet
<1>5. CASE ~(Len(longer) > MaxCandidates)
    BY <1>1, <1>2, <1>3, <1>5 DEF ToSet
<1> QED BY <1>4, <1>5

-----------------------------------------------------------------------------
(* Types.                                                                   *)

(* A step of a worker moves nobody else.                                      *)
LEMMA ActsOnItself ==
    ASSUME ProgressTypeOK, NEW w \in Workers, Advance(w) \/ Raise(w) \/ DbError(w) \/ Crash(w)
    PROVE  /\ pc' \in [Workers -> Labels] /\ plan' \in [Workers -> Plans]
           /\ batch' \in [Workers -> SUBSET Comments]
           /\ broken' \subseteq Workers
           /\ \A v \in Workers \ {w} :
                pc'[v] = pc[v] /\ plan'[v] = plan[v] /\ batch'[v] = batch[v]
                /\ (v \in broken <=> v \in broken')
<1> USE DEF Goto, Planned, workerVars, roomVars, boardVars, failureVars
<1>1. /\ pc \in [Workers -> Labels] /\ plan \in [Workers -> Plans]
      /\ batch \in [Workers -> SUBSET Comments] /\ broken \subseteq Workers
      /\ ToSet(candidates) \subseteq Comments
      /\ Waiting # {} => Oldest \in Stories
    BY OldestWaits DEF ProgressTypeOK
<1>2. {"none", "comment", "talk"} \cup Stories \subseteq Plans
    BY DEF Plans
<1> HIDE DEF Plans
<1>3. CASE Begin(w) \/ AcquireLock(w) \/ Audience(w) \/ IsIdle(w)
    BY <1>1, <1>3 DEF Begin, AcquireLock, Audience, IsIdle, Labels
<1>4. CASE TakeAll(w) \/ Claim(w)
    BY <1>1, <1>2, <1>4 DEF TakeAll, Claim, Labels
<1>5. CASE Publish(w) \/ MarkDone(w) \/ Release(w)
    BY <1>1, <1>2, <1>5 DEF Publish, MarkDone, Release, Labels
<1>6. CASE Unlock(w) \/ Touch(w) \/ SessionRefuses(w)
    BY <1>1, <1>2, <1>6 DEF Unlock, Touch, SessionRefuses, Labels
<1>7. CASE Raise(w)
    BY <1>1, <1>2, <1>7 DEF Raise, Labels
<1>8. CASE DbError(w) \/ Crash(w)
    BY <1>1, <1>2, <1>8 DEF DbError, Crash, Labels
<1> QED BY <1>3, <1>4, <1>5, <1>6, <1>7, <1>8 DEF Advance

LEMMA TypeInit == ProgressInit => ProgressTypeOK
<1> SUFFICES ASSUME ProgressInit PROVE ProgressTypeOK
    OBVIOUS
<1> USE ProgressAssumption DEF ProgressInit
<1>1. ToSet(candidates) = {} /\ candidates \in Seq(Comments) /\ Len(candidates) = 0
    BY DEF ToSet
<1>2. /\ pc \in [Workers -> Labels] /\ plan \in [Workers -> Plans]
      /\ batch \in [Workers -> SUBSET Comments]
    BY DEF Labels, Plans
<1>3. /\ MaxCandidates \in Nat /\ MaxTrouble \in Nat /\ MaxCrashes \in Nat /\ MaxDbErrors \in Nat
    OBVIOUS
<1>4. /\ asked \in [Stories -> Nat] /\ unclear \in [Stories -> Nat]
      /\ \A s \in Stories : unclear[s] <= asked[s]
    OBVIOUS
<1>5. \A w \in Workers : pc[w] = "idle" /\ plan[w] = "none" /\ batch[w] = {}
    OBVIOUS
<1>6. /\ board \in Seq(Stories) /\ status \in [Stories -> {"absent", "pending", "reading", "done"}]
    OBVIOUS
<1>7. /\ lock \in Workers \cup {NoWorker} /\ broken \subseteq Workers
      /\ unlisted \cup taken \cup weighed \subseteq written /\ written \subseteq Comments
      /\ overrun \in BOOLEAN /\ quiet \in BOOLEAN /\ viewers \in BOOLEAN /\ busy \in BOOLEAN
    OBVIOUS
<1>8. /\ unprompted \in Nat
      /\ troubles \in 0..MaxTrouble /\ crashes \in 0..MaxCrashes /\ dbErrors \in 0..MaxDbErrors
    BY <1>3
<1> HIDE DEF ProgressInit
<1> QED BY <1>1, <1>2, <1>3, <1>4, <1>5, <1>6, <1>7, <1>8 DEF ProgressTypeOK

(* What a step of a worker may write elsewhere.                               *)
LEMMA ActsOnRoom ==
    ASSUME ProgressTypeOK, NEW w \in Workers, Advance(w) \/ Raise(w) \/ DbError(w) \/ Crash(w)
    PROVE  /\ lock' \in Workers \cup {NoWorker}
           /\ candidates' \in {candidates, <<>>}
           /\ taken' \subseteq taken \cup ToSet(candidates) /\ weighed' \subseteq weighed \cup batch[w]
           /\ UNCHANGED <<overrun, written, unlisted, viewers, busy, board>>
           /\ quiet' \in BOOLEAN
           /\ status' \in [Stories -> {"absent", "pending", "reading", "done"}]
           /\ asked' \in [Stories -> Nat] /\ unclear' \in [Stories -> Nat]
           /\ \A s \in Stories : unclear'[s] <= asked'[s]
           /\ unprompted' \in Nat
           /\ troubles' \in 0..MaxTrouble /\ crashes' \in 0..MaxCrashes
           /\ dbErrors' \in 0..MaxDbErrors
<1> USE DEF workerVars, roomVars, boardVars, failureVars, bufferVars, lockVars, airVars, saidVars
<1> USE ProgressAssumption
<1>1. CASE Advance(w)
    <2>1. CASE Begin(w) \/ AcquireLock(w) \/ Audience(w) \/ IsIdle(w) \/ Unlock(w) \/ SessionRefuses(w)
        BY <2>1 DEF ProgressTypeOK, Begin, AcquireLock, Audience, IsIdle, Unlock, SessionRefuses
    <2>2. CASE TakeAll(w)
        BY <2>2 DEF ProgressTypeOK, TakeAll, TakeOut
    <2>3. CASE Claim(w) \/ MarkDone(w) \/ Release(w)
        BY <2>3, OldestWaits DEF ProgressTypeOK, Claim, MarkDone, Release
    <2>4. CASE Publish(w)
        BY <2>4 DEF ProgressTypeOK, Publish, Published
    <2>5. CASE Touch(w)
        BY <2>5 DEF ProgressTypeOK, Touch, Touched
    <2> QED BY <1>1, <2>1, <2>2, <2>3, <2>4, <2>5 DEF Advance
<1>2. CASE Raise(w)
    <2>1. troubles' \in 0..MaxTrouble
        BY <1>2 DEF ProgressTypeOK, Raise
    <2>2. /\ lock' \in Workers \cup {NoWorker}
          /\ candidates' \in {candidates, <<>>}
          /\ taken' \subseteq taken \cup ToSet(candidates)
          /\ quiet' \in BOOLEAN
        BY <1>2 DEF ProgressTypeOK, Raise, TakeOut, Touched
    <2>3. /\ weighed' \subseteq weighed \cup batch[w]
          /\ unprompted' \in Nat
        BY <1>2 DEF ProgressTypeOK, Raise, Published, Touched
    <2>4. /\ asked' \in [Stories -> Nat] /\ unclear' \in [Stories -> Nat]
          /\ \A s \in Stories : unclear'[s] <= asked'[s]
        <3>1. CASE UNCHANGED <<asked, unclear>>
            BY <3>1 DEF ProgressTypeOK
        <3>2. CASE /\ plan[w] \in Stories
                   /\ asked' = [asked EXCEPT ![plan[w]] = @ + 1]
                   /\ unclear' = [unclear EXCEPT ![plan[w]] = @ + 1]
            BY <3>2 DEF ProgressTypeOK
        <3> QED BY <1>2, <3>1, <3>2 DEF Raise, Published
    <2>5. /\ UNCHANGED <<overrun, written, unlisted, viewers, busy, board, status, crashes, dbErrors>>
        BY <1>2 DEF Raise, TakeOut
    <2> QED BY <2>1, <2>2, <2>3, <2>4, <2>5 DEF ProgressTypeOK
<1>3. CASE DbError(w)
    <2>1. status' \in [Stories -> {"absent", "pending", "reading", "done"}]
        BY <1>3, OldestWaits DEF ProgressTypeOK, DbError
    <2> QED BY <1>3, <2>1 DEF ProgressTypeOK, DbError
<1>4. CASE Crash(w)
    BY <1>4 DEF ProgressTypeOK, Crash
<1> QED BY <1>1, <1>2, <1>3, <1>4

LEMMA WorkerType ==
    ASSUME ProgressTypeOK, NEW w \in Workers, Advance(w) \/ Raise(w) \/ DbError(w) \/ Crash(w)
    PROVE  ProgressTypeOK'
<1> DEFINE Fits(v) ==
        /\ plan[v] # "none" => pc[v] \in {"publish", "mark_done", "release", "unlock", "touch"}
        /\ pc[v] = "publish" => plan[v] # "none"
        /\ pc[v] \in {"mark_done", "release"} => plan[v] \in Stories
        /\ batch[v] # {} => pc[v] = "publish" /\ plan[v] = "comment"
        /\ batch[v] \subseteq written
<1>1. /\ ToSet(<<>>) = {} /\ <<>> \in Seq(Comments) /\ Len(<<>>) = 0
      /\ MaxCandidates \in Nat
    BY ProgressAssumption DEF ToSet
<1>2. \A v \in Workers : Fits(v)
    BY DEF ProgressTypeOK
<1>3. written' = written
    BY ActsOnRoom
<1>4. Fits(w)'
    <2> USE DEF Goto, Planned, workerVars, roomVars, boardVars, failureVars
    <2>1. /\ pc \in [Workers -> Labels] /\ plan \in [Workers -> Plans]
          /\ batch \in [Workers -> SUBSET Comments]
          /\ ToSet(candidates) \subseteq written
        BY DEF ProgressTypeOK
    <2>2. candidates # <<>> \/ ToSet(candidates) = {}
        BY <1>1
    <2> HIDE DEF Plans, Labels
    <2>3. CASE Begin(w) \/ AcquireLock(w) \/ Audience(w) \/ IsIdle(w)
        BY <1>2, <1>3, <2>1, <2>3 DEF Begin, AcquireLock, Audience, IsIdle
    <2>4. CASE TakeAll(w)
        BY <1>2, <1>3, <2>1, <2>2, <2>4 DEF TakeAll
    <2>9. CASE Claim(w)
        <3>1. Waiting # {} => Oldest \in Stories
            BY OldestWaits
        <3>2. pc'[w] = "publish" /\ plan'[w] \in Stories \cup {"talk"} /\ batch'[w] = {}
            BY <1>2, <2>1, <2>9, <3>1 DEF Claim
        <3> QED BY <3>2, ProgressAssumption
    <2>5. CASE Publish(w) \/ MarkDone(w) \/ Release(w)
        BY <1>2, <1>3, <2>1, <2>5, ProgressAssumption DEF Publish, MarkDone, Release
    <2>6. CASE Unlock(w) \/ Touch(w) \/ SessionRefuses(w)
        BY <1>2, <1>3, <2>1, <2>6 DEF Unlock, Touch, SessionRefuses
    <2>7. CASE Raise(w)
        BY <1>2, <1>3, <2>1, <2>7, ProgressAssumption DEF Raise
    <2>8. CASE DbError(w) \/ Crash(w)
        BY <1>2, <1>3, <2>1, <2>8 DEF DbError, Crash
    <2> QED BY <2>3, <2>4, <2>5, <2>6, <2>7, <2>8, <2>9 DEF Advance
<1>5. \A v \in Workers : Fits(v)'
    BY <1>2, <1>3, <1>4, ActsOnItself
<1> HIDE DEF Fits
<1>6. /\ candidates' \in Seq(Comments) /\ Len(candidates') <= MaxCandidates
      /\ ToSet(candidates') \subseteq written'
    <2>1. candidates' = candidates \/ candidates' = <<>>
        BY ActsOnRoom
    <2>2. CASE candidates' = candidates
        BY <1>3, <2>2 DEF ProgressTypeOK
    <2>3. CASE candidates' = <<>>
        BY <1>1, <2>3
    <2> QED BY <2>1, <2>2, <2>3
<1>7. /\ unlisted' \cup taken' \cup weighed' \subseteq written'
    BY <1>2, <1>3, ActsOnRoom DEF ProgressTypeOK, Fits
<1>8. /\ written' \subseteq Comments /\ board' \in Seq(Stories)
      /\ overrun' \in BOOLEAN /\ viewers' \in BOOLEAN /\ busy' \in BOOLEAN
    BY ActsOnRoom DEF ProgressTypeOK
<1> QED BY <1>5, <1>6, <1>7, <1>8, ActsOnItself, ActsOnRoom DEF ProgressTypeOK, Fits

LEMMA RoomType ==
    ASSUME ProgressTypeOK, LockExpires \/ RoomStep
    PROVE  ProgressTypeOK'
<1> USE DEF workerVars, roomVars, boardVars, failureVars, bufferVars, lockVars, airVars, saidVars,
            Touched
<1>1. CASE LockExpires
    BY <1>1 DEF LockExpires, ProgressTypeOK
<1>2. CASE \E c \in Comments : Say(c)
    <2>1. PICK c \in Comments : Say(c)
        BY <1>2
    <2>2. /\ written' = written \cup {c} /\ unlisted' = unlisted \cup {c}
          /\ UNCHANGED <<workerVars, lockVars, candidates, taken, viewers, busy, boardVars,
                         asked, unclear, weighed, failureVars>>
          /\ quiet' \in BOOLEAN /\ unprompted' \in Nat
        BY <2>1 DEF Say
    <2>3. /\ written' \subseteq Comments /\ unlisted' \cup taken' \cup weighed' \subseteq written'
          /\ ToSet(candidates) \subseteq written'
          /\ \A w \in Workers : batch[w] \subseteq written'
        BY <2>1, <2>2 DEF ProgressTypeOK
    <2> QED BY <2>2, <2>3 DEF ProgressTypeOK
<1>3. CASE \E c \in Comments : AddCandidate(c)
    <2>1. PICK c \in Comments : c \in unlisted /\ AddCandidate(c)
        BY <1>3 DEF AddCandidate
    <2>2. c \in written /\ unlisted' \subseteq unlisted
        BY <2>1 DEF AddCandidate, ProgressTypeOK
    <2>3. /\ candidates' \in Seq(Comments) /\ Len(candidates') <= MaxCandidates
          /\ ToSet(candidates') \subseteq ToSet(candidates) \cup {c}
        BY <2>1, BufferIsBounded
    <2>4. UNCHANGED <<workerVars, lockVars, written, taken, airVars, boardVars,
                      saidVars, failureVars>>
        BY <2>1 DEF AddCandidate
    <2>5. ToSet(candidates) \cup {c} \subseteq written
        BY <2>2 DEF ProgressTypeOK
    <2> QED BY <2>2, <2>3, <2>4, <2>5 DEF ProgressTypeOK
<1>4. CASE CandidatesExpire
    <2>1. /\ ToSet(<<>>) = {} /\ <<>> \in Seq(Comments) /\ Len(<<>>) = 0
          /\ MaxCandidates \in Nat
        BY ProgressAssumption DEF ToSet
    <2> QED BY <1>4, <2>1 DEF CandidatesExpire, ProgressTypeOK
<1>5. CASE \E s \in Stories : Submit(s)
    <2>1. PICK s \in Stories : Submit(s)
        BY <1>5
    <2>2. /\ board' \in Seq(Stories)
          /\ status' \in [Stories -> {"absent", "pending", "reading", "done"}]
        BY <2>1 DEF Submit, ProgressTypeOK
    <2> QED BY <2>1, <2>2 DEF Submit, ProgressTypeOK
<1>6. CASE TimePasses \/ ViewersChange \/ SlotChanges
    BY <1>6 DEF TimePasses, ViewersChange, SlotChanges, ProgressTypeOK
<1> QED BY <1>1, <1>2, <1>3, <1>4, <1>5, <1>6 DEF RoomStep

-----------------------------------------------------------------------------
(* The stories.                                                             *)

(* What a step of w has to respect: it leaves the stories of the others alone, *)
(* takes one that waits, and gives one up that is no longer being read; a      *)
(* story is stranded only by a failing statement.                            *)
StoryStep(w) ==
    /\ \A s \in Stories \ {plan[w], plan'[w]} :
        /\ asked'[s] = asked[s] /\ unclear'[s] = unclear[s]
        /\ \/ status'[s] = status[s]
           \/ status[s] = "pending" /\ status'[s] = "reading" /\ crashes' + dbErrors' # 0
    /\ \A s \in Stories \cap {plan[w], plan'[w]} : AskedFits(s)'
    /\ InHand(w)'
    /\ plan'[w] \in Stories => plan'[w] = plan[w] \/ status[plan'[w]] = "pending"
    /\ crashes' + dbErrors' = 0 =>
        /\ crashes + dbErrors = 0 /\ broken' \subseteq broken
        /\ plan[w] \in Stories => plan'[w] = plan[w] \/ status'[plan[w]] # "reading"

LEMMA StoriesKeep ==
    ASSUME ProgressTypeOK, StoriesInv, NEW w \in Workers, StoryStep(w),
           Advance(w) \/ Raise(w) \/ DbError(w) \/ Crash(w)
    PROVE  StoriesInv'
<1> USE DEF StoriesInv, StoryStep
<1>1. \A v \in Workers \ {w} : pc'[v] = pc[v] /\ plan'[v] = plan[v]
                               /\ (v \in broken <=> v \in broken')
    BY ActsOnItself
<1>2. ASSUME NEW v \in Workers \ {w}, plan[v] \in Stories
      PROVE  plan[v] # plan[w] /\ plan[v] # plan'[w] /\ status[plan[v]] # "pending"
    <2>1. status[plan[v]] # "pending"
        <3>1. pc[v] \in {"publish", "mark_done", "release", "unlock", "touch"}
            BY <1>2, ProgressAssumption DEF ProgressTypeOK
        <3>2. InHand(v)
            OBVIOUS
        <3> HIDE DEF StoriesInv, StoryStep
        <3> QED BY <1>2, <3>1, <3>2 DEF InHand
    <2>2. plan[v] # plan[w]
        BY <1>2 DEF OnePlanPerStory
    <2> QED BY <1>2, <2>1, <2>2
<1>3. \A v \in Workers : InHand(v)'
    <2>1. ASSUME NEW v \in Workers \ {w} PROVE InHand(v)'
        <3>1. InHand(v)
            OBVIOUS
        <3>2. plan[v] \in Stories =>
                /\ status'[plan[v]] = status[plan[v]] /\ asked'[plan[v]] = asked[plan[v]]
                /\ unclear'[plan[v]] = unclear[plan[v]]
            BY <1>2
        <3> HIDE DEF StoriesInv, StoryStep
        <3> QED BY <1>1, <3>1, <3>2 DEF InHand
    <2> QED BY <2>1
<1>4. OnePlanPerStory'
    BY <1>1, <1>2 DEF OnePlanPerStory
<1>5. NoStoryIsStranded'
    <2> SUFFICES ASSUME crashes' + dbErrors' = 0
                 PROVE  /\ broken' = {}
                        /\ \A s \in Stories : status'[s] = "reading" =>
                                \E v \in Workers : plan'[v] = s
        BY DEF NoStoryIsStranded
    <2>1. /\ broken' = {}
          /\ \A s \in Stories : status[s] = "reading" => \E v \in Workers : plan[v] = s
        BY DEF NoStoryIsStranded
    <2>2. ASSUME NEW s \in Stories, status'[s] = "reading"
          PROVE  \E v \in Workers : plan'[v] = s
        <3>1. CASE s = plan'[w]
            BY <3>1
        <3>2. CASE s # plan'[w]
            <4>1. s # plan[w] /\ status[s] = "reading"
                BY <2>2, <3>2
            <4>2. PICK v \in Workers : plan[v] = s
                BY <2>1, <4>1
            <4> QED BY <1>1, <4>1, <4>2
        <3> QED BY <3>1, <3>2
    <2> QED BY <2>1, <2>2
<1>6. \A s \in Stories : AskedFits(s)'
    <2>1. ASSUME NEW s \in Stories, s \notin {plan[w], plan'[w]} PROVE AskedFits(s)'
        <3>1. AskedFits(s)
            OBVIOUS
        <3>2. /\ asked'[s] = asked[s] /\ unclear'[s] = unclear[s]
              /\ status'[s] = status[s] \/ (status[s] = "pending" /\ status'[s] = "reading")
            BY <2>1
        <3> QED BY <3>1, <3>2 DEF AskedFits
    <2> QED BY <2>1
<1> QED BY <1>3, <1>4, <1>5, <1>6

LEMMA StoriesInit == ProgressInit => StoriesInv
BY ProgressAssumption
   DEF ProgressInit, StoriesInv, InHand, OnePlanPerStory, NoStoryIsStranded, AskedFits

LEMMA RoomStories ==
    ASSUME ProgressTypeOK, StoriesInv, LockExpires \/ RoomStep
    PROVE  StoriesInv'
<1> USE DEF workerVars, roomVars, boardVars, failureVars, bufferVars, lockVars, airVars, saidVars,
            Touched
<1>1. CASE UNCHANGED <<pc, plan, broken, status, asked, unclear, crashes, dbErrors>>
    BY <1>1 DEF StoriesInv, InHand, OnePlanPerStory, NoStoryIsStranded, AskedFits
<1>2. CASE \E s \in Stories : Submit(s)
    <2>1. PICK s \in Stories : Submit(s)
        BY <1>2
    <2>2. /\ status[s] = "absent" /\ status'[s] = "pending"
          /\ \A r \in Stories \ {s} : status'[r] = status[r]
          /\ UNCHANGED <<pc, plan, broken, asked, unclear, crashes, dbErrors>>
        BY <2>1 DEF Submit, ProgressTypeOK
    <2>3. \A w \in Workers : plan[w] # s
        <3>1. ASSUME NEW w \in Workers, plan[w] = s PROVE FALSE
            <4>1. pc[w] \in {"publish", "mark_done", "release", "unlock", "touch"}
                BY <3>1, ProgressAssumption DEF ProgressTypeOK
            <4> QED BY <2>2, <3>1, <4>1 DEF StoriesInv, InHand
        <3> QED BY <3>1
    <2>4. \A w \in Workers : InHand(w)'
        BY <2>2, <2>3 DEF StoriesInv, InHand
    <2>5. OnePlanPerStory' /\ NoStoryIsStranded' /\ \A r \in Stories : AskedFits(r)'
        BY <2>2 DEF StoriesInv, OnePlanPerStory, NoStoryIsStranded, AskedFits
    <2> QED BY <2>4, <2>5 DEF StoriesInv
<1> QED BY <1>1, <1>2 DEF LockExpires, RoomStep, Say, AddCandidate, CandidatesExpire, TimePasses,
                          ViewersChange, SlotChanges

LEMMA WorkerStories ==
    ASSUME ProgressTypeOK, StoriesInv, NEW w \in Workers,
           Advance(w) \/ Raise(w) \/ DbError(w) \/ Crash(w)
    PROVE  StoriesInv'
<1> USE DEF Goto, Planned, workerVars, roomVars, boardVars, failureVars, bufferVars, lockVars,
            airVars, saidVars
<1>1. /\ pc \in [Workers -> Labels] /\ plan \in [Workers -> Plans] /\ broken \subseteq Workers
      /\ status \in [Stories -> {"absent", "pending", "reading", "done"}]
      /\ asked \in [Stories -> Nat] /\ unclear \in [Stories -> Nat]
      /\ crashes \in Nat /\ dbErrors \in Nat
    BY ProgressAssumption DEF ProgressTypeOK
<1>2. InHand(w) /\ (\A s \in Stories : AskedFits(s)) /\ (crashes + dbErrors = 0 => broken = {})
    BY DEF StoriesInv, NoStoryIsStranded
<1>3. /\ plan[w] \in Stories => pc[w] \in {"publish", "mark_done", "release", "unlock", "touch"}
      /\ pc[w] \in {"mark_done", "release"} => plan[w] \in Stories
      /\ "none" \notin Stories /\ "talk" \notin Stories /\ "comment" \notin Stories
    BY ProgressAssumption DEF ProgressTypeOK
<1> USE DEF StoryStep, InHand, AskedFits
<1> HIDE DEF Plans, Labels
<1>4. SUFFICES StoryStep(w)
    BY StoriesKeep
<1>5. CASE Begin(w) \/ AcquireLock(w) \/ Audience(w) \/ IsIdle(w)
    BY <1>1, <1>2, <1>3, <1>5 DEF Begin, AcquireLock, Audience, IsIdle
<1>6. CASE TakeAll(w)
    BY <1>1, <1>2, <1>3, <1>6 DEF TakeAll
<1>7. CASE Claim(w)
    BY <1>1, <1>2, <1>3, <1>7, OldestWaits DEF Claim
<1>8. CASE Publish(w)
    BY <1>1, <1>2, <1>3, <1>8 DEF Publish, Published
<1>9. CASE MarkDone(w) \/ Release(w)
    BY <1>1, <1>2, <1>3, <1>9 DEF MarkDone, Release
<1>10. CASE Unlock(w) \/ Touch(w) \/ SessionRefuses(w)
    BY <1>1, <1>2, <1>3, <1>10 DEF Unlock, Touch, SessionRefuses
<1>11. CASE Raise(w)
    <2>1. CASE pc[w] # "publish"
        BY <1>1, <1>2, <1>3, <1>11, <2>1 DEF Raise
    <2>2. CASE pc[w] = "publish"
        BY <1>1, <1>2, <1>3, <1>11, <2>2 DEF Raise, Published
    <2> QED BY <2>1, <2>2
<1>12. CASE DbError(w)
    <2>1. CASE pc[w] = "idle"
        BY <1>1, <1>2, <1>3, <1>12, <2>1 DEF DbError
    <2>2. CASE pc[w] = "claim"
        <3>1. plan[w] \notin Stories /\ plan'[w] = "none" /\ pc'[w] = "unlock" /\ dbErrors' = dbErrors + 1
              /\ UNCHANGED <<asked, unclear, crashes>>
            BY <1>1, <1>3, <1>12, <2>2 DEF DbError
        <3>2. \A s \in Stories :
                \/ status'[s] = status[s]
                \/ status[s] = "pending" /\ status'[s] = "reading"
            BY <1>1, <1>12, <2>2, OldestWaits DEF DbError
        <3> QED BY <1>1, <1>2, <1>3, <2>2, <3>1, <3>2
    <2>3. CASE pc[w] = "mark_done"
        BY <1>1, <1>2, <1>3, <1>12, <2>3 DEF DbError
    <2>4. CASE pc[w] = "release"
        BY <1>1, <1>2, <1>3, <1>12, <2>4 DEF DbError
    <2> QED BY <1>12, <2>1, <2>2, <2>3, <2>4 DEF DbError
<1>13. CASE Crash(w)
    BY <1>1, <1>2, <1>3, <1>13 DEF Crash
<1> QED BY <1>5, <1>6, <1>7, <1>8, <1>9, <1>10, <1>11, <1>12, <1>13 DEF Advance

-----------------------------------------------------------------------------
(* The comments.                                                            *)

LEMMA CommentsStep ==
    ASSUME ProgressTypeOK, TakenIsWeighed, [ProgressNext]_progressVars
    PROVE  TakenIsWeighed'
<1> SUFFICES ASSUME troubles' + crashes' = 0
             PROVE  taken' \subseteq weighed' \cup UNION {batch'[w] : w \in Workers}
    BY DEF TakenIsWeighed
<1> USE DEF workerVars, roomVars, boardVars, failureVars, bufferVars, lockVars, airVars, saidVars,
            Goto, Planned, Touched
<1>1. troubles \in Nat /\ crashes \in Nat
    BY ProgressAssumption DEF ProgressTypeOK
<1>2. CASE UNCHANGED <<taken, weighed, batch, troubles, crashes>>
    BY <1>2 DEF TakenIsWeighed
<1>3. CASE \E w \in Workers : Advance(w)
    <2>1. PICK w \in Workers : Advance(w)
        BY <1>3
    <2>2. /\ troubles + crashes = 0 /\ batch \in [Workers -> SUBSET Comments]
          /\ batch[w] # {} => pc[w] = "publish"
          /\ \A v \in Workers \ {w} : batch'[v] = batch[v]
          /\ taken \subseteq weighed \cup UNION {batch[v] : v \in Workers}
        BY <2>1, ActsOnItself
           DEF ProgressTypeOK, TakenIsWeighed, Advance, Begin, AcquireLock, TakeAll, Audience, IsIdle,
               Claim, Publish, MarkDone, Release, Unlock, Touch, SessionRefuses
    <2>3. /\ taken' \subseteq taken \cup batch'[w]
          /\ batch[w] \subseteq weighed' \cup batch'[w]
          /\ weighed \subseteq weighed'
        <3>1. CASE TakeAll(w)
            BY <2>2, <3>1 DEF TakeAll, TakeOut
        <3>2. CASE Publish(w)
            BY <2>2, <3>2 DEF Publish, Published
        <3>3. CASE UNCHANGED <<taken, weighed>> /\ pc[w] # "publish"
            BY <2>2, <3>3
        <3> QED BY <2>1, <3>1, <3>2, <3>3
                DEF Advance, Begin, AcquireLock, Audience, IsIdle, Claim, MarkDone, Release, Unlock,
                    Touch, SessionRefuses
    <2>4. \A v \in Workers : batch[v] \subseteq weighed' \cup UNION {batch'[u] : u \in Workers}
        BY <2>2, <2>3
    <2> QED BY <2>2, <2>3, <2>4
<1>4. ASSUME NEW w \in Workers, Raise(w) \/ Crash(w) PROVE FALSE
    BY <1>1, <1>4 DEF Raise, Crash
<1> QED BY <1>2, <1>3, <1>4
        DEF ProgressNext, DbError, LockExpires, RoomStep, Say, AddCandidate, CandidatesExpire, Submit,
            TimePasses, ViewersChange, SlotChanges, progressVars

-----------------------------------------------------------------------------
(* The lock.                                                                *)

LEMMA LockStep ==
    ASSUME ProgressTypeOK, LockInv, [ProgressNext]_progressVars
    PROVE  LockInv'
<1> USE DEF workerVars, roomVars, boardVars, failureVars, bufferVars, lockVars, airVars, saidVars,
            Goto, Planned, Touched, Inside
<1>1. NoWorker \notin Workers /\ pc \in [Workers -> Labels] /\ lock \in Workers \cup {NoWorker}
    BY ProgressAssumption DEF ProgressTypeOK
<1> HIDE DEF Labels
<1>2. CASE UNCHANGED <<overrun, lock, pc>>
    BY <1>2 DEF LockInv
<1>3. ASSUME NEW w \in Workers, Advance(w) \/ Raise(w) \/ DbError(w) \/ Crash(w)
      PROVE  LockInv'
    <2>1. overrun' = overrun /\ \A v \in Workers \ {w} : pc'[v] = pc[v]
        BY <1>3, ActsOnItself, ActsOnRoom
    (* Whoever is inside stays there, or leaves; outside nobody frees the lock.  *)
    <2>2. \/ lock' = lock /\ (Inside(w)' => Inside(w))
          \/ lock = NoWorker /\ lock' = w
          \/ Inside(w) /\ lock' = NoWorker /\ ~Inside(w)'
        <3>1. CASE Begin(w) \/ AcquireLock(w) \/ TakeAll(w) \/ Audience(w) \/ IsIdle(w) \/ Claim(w)
            BY <1>1, <3>1 DEF Begin, AcquireLock, TakeAll, TakeOut, Audience, IsIdle, Claim
        <3>2. CASE Publish(w) \/ MarkDone(w) \/ Release(w) \/ Unlock(w) \/ Touch(w)
                   \/ SessionRefuses(w)
            BY <1>1, <3>2 DEF Publish, MarkDone, Release, Unlock, Touch, SessionRefuses
        <3>3. CASE Raise(w)
            BY <1>1, <3>3 DEF Raise, TakeOut
        <3>4. CASE DbError(w) \/ Crash(w)
            BY <1>1, <3>4 DEF DbError, Crash
        <3> QED BY <1>3, <3>1, <3>2, <3>3, <3>4 DEF Advance
    <2> QED BY <1>1, <2>1, <2>2 DEF LockInv
<1>4. CASE LockExpires
    BY <1>1, <1>4 DEF LockExpires, LockInv
<1> QED BY <1>2, <1>3, <1>4
        DEF ProgressNext, RoomStep, Say, AddCandidate, CandidatesExpire, Submit, TimePasses,
            ViewersChange, SlotChanges, progressVars

-----------------------------------------------------------------------------
(* The voices.                                                              *)

LEMMA CountWorkers ==
    ASSUME NEW S \in SUBSET Workers, NEW T \in SUBSET Workers, NEW w \in Workers
    PROVE  /\ Cardinality(S) \in Nat /\ Cardinality(T) \in Nat
           /\ S \subseteq T => Cardinality(S) <= Cardinality(T)
           /\ w \notin S /\ S \cup {w} \subseteq T => Cardinality(S) + 1 <= Cardinality(T)
           /\ S \subseteq T \cup {w} => Cardinality(S) <= Cardinality(T) + 1
<1>1. IsFiniteSet(S) /\ IsFiniteSet(T)
    BY FS_Subset, ProgressAssumption
<1>2. Cardinality(S) \in Nat /\ Cardinality(T) \in Nat
    BY <1>1, FS_CardinalityType
<1>3. S \subseteq T => Cardinality(S) <= Cardinality(T)
    BY <1>1, FS_Subset
<1>4. w \notin S /\ S \cup {w} \subseteq T => Cardinality(S) + 1 <= Cardinality(T)
    <2>1. w \notin S => Cardinality(S \cup {w}) = Cardinality(S) + 1
        BY <1>1, FS_AddElement
    <2>2. S \cup {w} \subseteq T => Cardinality(S \cup {w}) <= Cardinality(T)
        BY <1>1, FS_Subset
    <2> QED BY <2>1, <2>2
<1>5. S \subseteq T \cup {w} => Cardinality(S) <= Cardinality(T) + 1
    <2>1. IsFiniteSet(T \cup {w}) /\ Cardinality(T \cup {w}) \in {Cardinality(T), Cardinality(T) + 1}
        BY <1>1, FS_AddElement
    <2>2. S \subseteq T \cup {w} => Cardinality(S) <= Cardinality(T \cup {w})
        BY <2>1, FS_Subset
    <2> QED BY <1>2, <2>1, <2>2
<1> QED BY <1>2, <1>3, <1>4, <1>5

LEMMA VoicesStep ==
    ASSUME ProgressTypeOK, ProgressTypeOK', StoriesInv, VoicesInv, [ProgressNext]_progressVars
    PROVE  VoicesInv'
<1> USE DEF workerVars, roomVars, boardVars, failureVars, bufferVars, lockVars, airVars, saidVars,
            Goto, Planned, Touched
<1>1. /\ Untouched \in SUBSET Workers /\ Untouched' \in SUBSET Workers
      /\ unprompted \in Nat /\ troubles \in Nat /\ crashes \in Nat
      /\ unprompted' \in Nat /\ troubles' \in Nat /\ crashes' \in Nat
    BY ProgressAssumption DEF ProgressTypeOK, Untouched
<1>2. Cardinality(Untouched) \in Nat /\ Cardinality(Untouched') \in Nat
    <2>1. CASE Workers = {}
        BY <1>1, <2>1, FS_EmptySet
    <2> QED BY <1>1, <2>1, CountWorkers
<1>3. CASE unprompted' = 0
    BY <1>1, <1>2, <1>3 DEF VoicesInv
<1>4. CASE UNCHANGED <<broken, pc, plan, troubles, crashes, unprompted>>
    BY <1>4 DEF VoicesInv, Untouched
<1>5. ASSUME NEW w \in Workers, Advance(w) \/ Raise(w) \/ DbError(w) \/ Crash(w),
             unprompted' # 0
      PROVE  VoicesInv'
    <2>1. \A v \in Workers \ {w} : v \in Untouched <=> v \in Untouched'
        BY <1>5, ActsOnItself DEF Untouched
    <2>2. InHand(w) /\ (pc[w] \in {"publish", "claim"} => w \notin Untouched)
        BY DEF StoriesInv, InHand, Untouched
    <2>3. \/ /\ w \in Untouched => w \in Untouched'
             /\ unprompted' = unprompted /\ troubles' = troubles /\ crashes' = crashes
          \/ /\ w \notin Untouched /\ w \in Untouched' /\ unprompted' \in {unprompted, unprompted + 1}
             /\ troubles' = troubles /\ crashes' = crashes
          \/ /\ unprompted' = unprompted \/ (unprompted' = unprompted + 1 /\ w \notin Untouched)
             /\ \/ troubles' = troubles + 1 /\ crashes' = crashes
                \/ troubles' = troubles /\ crashes' = crashes + 1
        <3>1. /\ pc \in [Workers -> Labels] /\ plan \in [Workers -> Plans] /\ broken \subseteq Workers
              /\ plan[w] # "none" => pc[w] \in {"publish", "mark_done", "release", "unlock", "touch"}
              /\ pc[w] \in {"mark_done", "release"} => plan[w] \in Stories
              /\ "none" \notin Stories
            BY ProgressAssumption DEF ProgressTypeOK
        <3> HIDE DEF Labels, Plans
        <3>2. CASE Begin(w) \/ AcquireLock(w) \/ TakeAll(w) \/ Audience(w) \/ IsIdle(w) \/ Claim(w)
            BY <3>1, <3>2 DEF Untouched, Begin, AcquireLock, TakeAll, Audience, IsIdle, Claim
        <3>3. CASE Publish(w)
            <4>1. /\ pc'[w] \in {"mark_done", "unlock"} /\ plan'[w] = plan[w] /\ pc[w] = "publish"
                  /\ broken' = broken /\ troubles' = troubles /\ crashes' = crashes
                  /\ unprompted' \in {unprompted, unprompted + 1}
                BY <3>1, <3>3 DEF Publish, Published
            <4>2. plan[w] # "none"
                BY <3>3 DEF ProgressTypeOK, Publish
            <4> QED BY <2>2, <4>1, <4>2 DEF Untouched
        <3>4. CASE MarkDone(w) \/ Release(w) \/ Unlock(w) \/ SessionRefuses(w)
            BY <3>1, <3>4 DEF Untouched, MarkDone, Release, Unlock, SessionRefuses
        <3>5. CASE Touch(w)
            BY <1>5, <3>5 DEF Touch
        <3>6. CASE Raise(w)
            BY <1>1, <1>5, <2>2, <3>6 DEF Raise, Published
        <3>7. CASE DbError(w)
            <4>1. /\ broken' = broken \cup {w} /\ unprompted' = unprompted
                  /\ troubles' = troubles /\ crashes' = crashes
                BY <3>7 DEF DbError
            <4> QED BY <4>1 DEF Untouched
        <3>8. CASE Crash(w)
            BY <1>1, <3>8 DEF Crash
        <3> QED BY <1>5, <3>2, <3>3, <3>4, <3>5, <3>6, <3>7, <3>8 DEF Advance
    <2>4. /\ Untouched \subseteq Untouched' \cup {w}
          /\ (w \in Untouched => w \in Untouched') => Untouched \subseteq Untouched'
        BY <1>1, <2>1
    <2> DEFINE S == Untouched
               T == Untouched'
    <2>5. /\ S \subseteq T => Cardinality(S) <= Cardinality(T)
          /\ w \notin S /\ S \cup {w} \subseteq T => Cardinality(S) + 1 <= Cardinality(T)
          /\ S \subseteq T \cup {w} => Cardinality(S) <= Cardinality(T) + 1
        BY <1>1, CountWorkers
    <2>6. unprompted <= Cardinality(S) + troubles + crashes
        BY DEF VoicesInv
    <2>7. unprompted' <= Cardinality(T) + troubles' + crashes'
        <3>1. Cardinality(S) \in Nat /\ Cardinality(T) \in Nat
            BY <1>2
        <3>2. /\ w \in S => (w \in T => Cardinality(S) <= Cardinality(T))
              /\ w \notin S => Cardinality(S) <= Cardinality(T)
              /\ w \notin S /\ w \in T => Cardinality(S) + 1 <= Cardinality(T)
              /\ Cardinality(S) <= Cardinality(T) + 1
            BY <2>4, <2>5
        <3>3. \/ /\ w \in S => w \in T
                 /\ unprompted' = unprompted /\ troubles' = troubles /\ crashes' = crashes
              \/ /\ w \notin S /\ w \in T /\ unprompted' \in {unprompted, unprompted + 1}
                 /\ troubles' = troubles /\ crashes' = crashes
              \/ /\ unprompted' = unprompted \/ (unprompted' = unprompted + 1 /\ w \notin S)
                 /\ \/ troubles' = troubles + 1 /\ crashes' = crashes
                    \/ troubles' = troubles /\ crashes' = crashes + 1
            BY <2>3
        <3>4. PICK n \in Nat, m \in Nat : n = Cardinality(S) /\ m = Cardinality(T)
            BY <3>1
        <3>5. /\ unprompted <= n + troubles + crashes
              /\ \/ n <= m /\ unprompted' = unprompted /\ troubles' = troubles /\ crashes' = crashes
                 \/ /\ n + 1 <= m /\ unprompted' \in {unprompted, unprompted + 1}
                    /\ troubles' = troubles /\ crashes' = crashes
                 \/ /\ \/ unprompted' = unprompted /\ n <= m + 1
                       \/ unprompted' = unprompted + 1 /\ n <= m
                    /\ \/ troubles' = troubles + 1 /\ crashes' = crashes
                       \/ troubles' = troubles /\ crashes' = crashes + 1
            BY <2>6, <3>2, <3>3, <3>4
        <3>6. unprompted' <= m + troubles' + crashes'
            <4>0. unprompted <= n + troubles + crashes
                BY <3>5
            <4>1. CASE /\ n <= m /\ unprompted' = unprompted
                       /\ troubles' = troubles /\ crashes' = crashes
                BY <1>1, <3>4, <4>0, <4>1
            <4>2. CASE /\ n + 1 <= m /\ unprompted' \in {unprompted, unprompted + 1}
                       /\ troubles' = troubles /\ crashes' = crashes
                BY <1>1, <3>4, <4>0, <4>2
            <4>3. CASE /\ (unprompted' = unprompted /\ n <= m + 1)
                            \/ (unprompted' = unprompted + 1 /\ n <= m)
                       /\ troubles' = troubles + 1 /\ crashes' = crashes
                BY <1>1, <3>4, <4>0, <4>3
            <4>4. CASE /\ (unprompted' = unprompted /\ n <= m + 1)
                            \/ (unprompted' = unprompted + 1 /\ n <= m)
                       /\ troubles' = troubles /\ crashes' = crashes + 1
                BY <1>1, <3>4, <4>0, <4>4
            <4> QED BY <3>5, <4>1, <4>2, <4>3, <4>4
        <3> QED BY <3>4, <3>6
    <2> QED BY <2>7 DEF VoicesInv
<1> QED BY <1>3, <1>4, <1>5
        DEF ProgressNext, LockExpires, RoomStep, Say, AddCandidate, CandidatesExpire, Submit, TimePasses,
            ViewersChange, SlotChanges, progressVars

-----------------------------------------------------------------------------
(* The invariant and what follows from it.                                   *)

LEMMA InitInv == ProgressInit => ProgressInv
<1> SUFFICES ASSUME ProgressInit PROVE ProgressInv
    OBVIOUS
<1>1. TakenIsWeighed /\ LockInv
    BY DEF ProgressInit, TakenIsWeighed, LockInv, Inside
<1>2. VoicesInv
    <2>1. Untouched = {}
        BY DEF ProgressInit, Untouched
    <2> QED BY <2>1, FS_EmptySet DEF VoicesInv, ProgressInit
<1> QED BY <1>1, <1>2, TypeInit, StoriesInit DEF ProgressInv

LEMMA NextInv == ProgressInv /\ [ProgressNext]_progressVars => ProgressInv'
<1> SUFFICES ASSUME ProgressInv, [ProgressNext]_progressVars PROVE ProgressInv'
    OBVIOUS
<1>1. /\ ProgressTypeOK /\ StoriesInv /\ TakenIsWeighed /\ LockInv /\ VoicesInv
    BY DEF ProgressInv
<1>2. ProgressTypeOK' /\ StoriesInv'
    <2>1. CASE \E w \in Workers : Advance(w) \/ Raise(w) \/ DbError(w) \/ Crash(w)
        BY <1>1, <2>1, WorkerType, WorkerStories
    <2>2. CASE LockExpires \/ RoomStep
        BY <1>1, <2>2, RoomType, RoomStories
    <2>3. CASE UNCHANGED progressVars
        <3>1. ProgressTypeOK'
            BY <1>1, <2>3 DEF ProgressTypeOK, progressVars, workerVars, roomVars, boardVars, saidVars,
                              failureVars, bufferVars, lockVars, airVars
        <3>2. StoriesInv'
            BY <1>1, <2>3 DEF StoriesInv, InHand, OnePlanPerStory, NoStoryIsStranded, AskedFits,
                              progressVars, workerVars, boardVars, saidVars, failureVars
        <3> QED BY <3>1, <3>2
    <2> QED BY <2>1, <2>2, <2>3 DEF ProgressNext
<1>3. TakenIsWeighed' /\ LockInv'
    BY <1>1, CommentsStep, LockStep
<1>4. VoicesInv'
    BY <1>1, <1>2, VoicesStep
<1> QED BY <1>2, <1>3, <1>4 DEF ProgressInv

LEMMA ProgressAlways == ProgressSpec => []ProgressInv
BY InitInv, NextInv, PTL DEF ProgressSpec

(* Every state is well typed: what a worker has in hand fits the call it is     *)
(* at, the buffer stays within MaxCandidates, and no failure is counted beyond  *)
(* its bound.                                                                *)
THEOREM ProgressTypeCorrect == ProgressSpec => []ProgressTypeOK
<1>1. ProgressInv => ProgressTypeOK
    BY DEF ProgressInv
<1> QED BY <1>1, ProgressAlways, PTL

(* Two workers never read the same story, not even after the lock expired       *)
(* under one of them: a story is claimed only while it waits, and the statement  *)
(* that claims it is the one that takes it off the board.  While no worker dies *)
(* and the database works, a story being read is in somebody's hands.          *)
THEOREM OneReaderPerStory == ProgressSpec => []StoryHasOneReader
<1>1. ProgressInv => StoryHasOneReader
    BY DEF ProgressInv, StoriesInv, OnePlanPerStory, NoStoryIsStranded, StoryHasOneReader
<1> QED BY <1>1, ProgressAlways, PTL

(* A story goes back to the board only when its request may have been lost, so  *)
(* it is asked for at most once more than Kafka has been unclear about, and it   *)
(* is done only when asked for.                                               *)
THEOREM AskedOnce == ProgressSpec => []AskedOnceUnlessUnclear
<1>1. ProgressInv => AskedOnceUnlessUnclear
    BY DEF ProgressInv, StoriesInv, AskedFits, AskedOnceUnlessUnclear
<1> QED BY <1>1, ProgressAlways, PTL

(* Comments leave the buffer before anything is decided, and still none that     *)
(* was taken goes unweighed while no call fails and no worker dies.            *)
THEOREM TakenCommentsAreWeighed == ProgressSpec => []TakenIsWeighed
<1>1. ProgressInv => TakenIsWeighed
    BY DEF ProgressInv
<1> QED BY <1>1, ProgressAlways, PTL

(* The lock excludes while its TTL covers its holder, although whoever leaves    *)
(* deletes the key without asking whose it is: until the lock first expires     *)
(* under a holder, the one who leaves is the one who has set it.               *)
THEOREM LockIsExclusive == ProgressSpec => []LockExcludes
<1>1. ProgressInv => LockExcludes
    BY DEF ProgressInv, LockInv, LockExcludes
<1> QED BY <1>1, ProgressAlways, PTL

(* One silence is broken at most once by each worker, and once more for every    *)
(* call that fails and every worker that dies, even when the lock has expired    *)
(* under somebody: who spoke is inside or about to touch the room.             *)
THEOREM VoicesBounded == ProgressSpec => []VoicesAreBounded
<1>1. ProgressInv => VoicesAreBounded
    <2> SUFFICES ASSUME ProgressInv PROVE VoicesAreBounded
        OBVIOUS
    <2>1. /\ Untouched \subseteq Workers /\ unprompted \in Nat /\ troubles \in Nat /\ crashes \in Nat
        BY ProgressAssumption DEF ProgressInv, ProgressTypeOK, Untouched
    <2>2. IsFiniteSet(Workers) /\ IsFiniteSet(Untouched)
        BY <2>1, FS_Subset, ProgressAssumption
    <2>3. /\ Cardinality(Untouched) \in Nat /\ Cardinality(Workers) \in Nat
          /\ Cardinality(Untouched) <= Cardinality(Workers)
        BY <2>1, <2>2, FS_Subset, FS_CardinalityType
    <2> QED BY <2>1, <2>3 DEF VoicesAreBounded, VoicesInv, ProgressInv
<1> QED BY <1>1, ProgressAlways, PTL
=============================================================================
