------------------------------- MODULE Progress -------------------------------
(***************************************************************************)
(* The idle worker's ProgressService, for one live room                     *)
(* (aria/contexts/chat/application/progress.py, workers/idle.py): what the   *)
(* persona says next.                                                       *)
(*                                                                          *)
(* Every tick a worker that finds nobody answering takes the room's lock,   *)
(* picks a comment, else - when there are viewers and the room has been     *)
(* quiet - the oldest story of the board, else small talk, publishes the    *)
(* request, gives the lock back and touches the room.  Taking comments and  *)
(* claiming a story consume them, before anything has been published.       *)
(*                                                                          *)
(* Several workers may run.  Each call to Redis, Kafka or the database is a *)
(* step; viewers come, go and write between any two of them.  A worker      *)
(* keeps one Session for life: nothing rolls it back, so after one error it *)
(* refuses every statement (see RelayDbError of CreditPipeline).            *)
(***************************************************************************)
EXTENDS Naturals, Sequences, FiniteSets, SequencesExt

CONSTANTS
    Workers,        \* processes of the idle worker
    NoWorker,
    Comments,       \* bound: the comments viewers write
    Stories,        \* bound: the stories viewers submit
    MaxCandidates,  \* _MAX_CANDIDATES of the buffer
    MaxTrouble,     \* bound: failing calls to Redis or Kafka
    MaxCrashes,     \* bound: deaths of a worker
    MaxDbErrors     \* bound: failing statements

ASSUME ProgressAssumption ==
    /\ NoWorker \notin Workers
    /\ Stories \cap {"none", "comment", "talk"} = {}
    /\ IsFiniteSet(Workers)
    /\ {MaxCandidates, MaxTrouble, MaxCrashes, MaxDbErrors} \subseteq Nat

VARIABLES
    pc,         \* the next call of each worker
    plan,       \* what each worker is about to say
    batch,      \* the comments each worker has taken, and not yet weighed
    broken,     \* workers whose session refuses every statement
    lock,       \* who set the lock; the key itself holds "1", whoever set it
    overrun,    \* the lock once expired under a worker that was using it
    candidates, \* the buffer, a list in Redis
    quiet,      \* is_idle: the last touch is long enough ago
    viewers,    \* somebody subscribes to the room's channel
    busy,       \* is_busy: the response slot is held
    written,    \* the comments written
    unlisted,   \* comments that are broadcast and not yet candidates
    taken,      \* comments that a worker has taken out of the buffer
    board,      \* the stories submitted, in order of created_at
    status,     \* the status column of each story
    asked,      \* per story: requests that reached Kafka
    unclear,    \* per story: requests that did, although publish raised
    weighed,    \* comments that were among the choice of a request published
    unprompted, \* stories and small talk published since the last touch
    troubles, crashes, dbErrors     \* failures so far

failureVars == <<troubles, crashes, dbErrors>>
bufferVars == <<candidates, written, unlisted, taken>>
lockVars == <<lock, overrun>>
airVars == <<quiet, viewers, busy>>
roomVars == <<lockVars, bufferVars, airVars>>
boardVars == <<board, status>>
saidVars == <<asked, unclear, weighed, unprompted>>
workerVars == <<pc, plan, batch, broken>>
progressVars == <<workerVars, roomVars, boardVars, saidVars, failureVars>>

Plans == {"none", "comment", "talk"} \cup Stories

Labels == {"idle", "lock", "take", "audience", "quiet", "claim", "publish", "mark_done",
           "release", "unlock", "touch"}

ProgressTypeOK ==
    /\ pc \in [Workers -> Labels] /\ plan \in [Workers -> Plans]
    /\ batch \in [Workers -> SUBSET Comments]
    /\ lock \in Workers \cup {NoWorker}
    /\ broken \subseteq Workers
    /\ candidates \in Seq(Comments) /\ Len(candidates) <= MaxCandidates
    /\ unlisted \cup taken \cup weighed \subseteq written /\ written \subseteq Comments
    /\ ToSet(candidates) \subseteq written
    /\ board \in Seq(Stories)
    /\ status \in [Stories -> {"absent", "pending", "reading", "done"}]
    /\ \A w \in Workers :
        /\ plan[w] # "none" => pc[w] \in {"publish", "mark_done", "release", "unlock", "touch"}
        /\ pc[w] = "publish" => plan[w] # "none"
        /\ pc[w] \in {"mark_done", "release"} => plan[w] \in Stories
        /\ batch[w] # {} => pc[w] = "publish" /\ plan[w] = "comment"
        /\ batch[w] \subseteq written
    /\ overrun \in BOOLEAN /\ quiet \in BOOLEAN /\ viewers \in BOOLEAN /\ busy \in BOOLEAN
    /\ asked \in [Stories -> Nat] /\ unclear \in [Stories -> Nat]
    /\ \A s \in Stories : unclear[s] <= asked[s]
    /\ unprompted \in Nat
    /\ troubles \in 0..MaxTrouble /\ crashes \in 0..MaxCrashes /\ dbErrors \in 0..MaxDbErrors

ProgressInit ==
    /\ pc = [w \in Workers |-> "idle"]
    /\ plan = [w \in Workers |-> "none"]
    /\ batch = [w \in Workers |-> {}]
    /\ broken = {} /\ lock = NoWorker /\ overrun = FALSE
    /\ candidates = <<>> /\ written = {} /\ unlisted = {} /\ taken = {} /\ weighed = {}
    /\ quiet = TRUE /\ viewers = FALSE /\ busy = FALSE
    /\ board = <<>>
    /\ status = [s \in Stories |-> "absent"]
    /\ asked = [s \in Stories |-> 0] /\ unclear = [s \in Stories |-> 0]
    /\ unprompted = 0
    /\ troubles = 0 /\ crashes = 0 /\ dbErrors = 0

Goto(w, label) == pc' = [pc EXCEPT ![w] = label]
Planned(w, what) == plan' = [plan EXCEPT ![w] = what]

(* Activity: the room is not quiet, and what is said next is an answer to it. *)
Touched == quiet' = FALSE /\ unprompted' = 0

-----------------------------------------------------------------------------
(* ProgressService.advance.                                                  *)

(* tick and is_busy: the session lists the room, nobody is answering.         *)
Begin(w) ==
    /\ pc[w] = "idle" /\ w \notin broken
    /\ ~busy
    /\ Goto(w, "lock")
    /\ UNCHANGED <<plan, batch, broken, roomVars, boardVars, saidVars, failureVars>>

(* Fault: who is refused passes through the finally branch as well.           *)
AcquireInTry(w) ==
    /\ pc[w] = "lock"
    /\ IF lock = NoWorker THEN lock' = w /\ Goto(w, "take")
                          ELSE UNCHANGED lock /\ Goto(w, "unlock")
    /\ UNCHANGED <<plan, batch, broken, overrun, bufferVars, airVars, boardVars,
                   saidVars, failureVars>>
(* SET NX.                                                                   *)
AcquireLock(w) ==
    /\ pc[w] = "lock"
    /\ IF lock = NoWorker THEN lock' = w /\ Goto(w, "take")
                          ELSE UNCHANGED lock /\ Goto(w, "idle")
    /\ UNCHANGED <<plan, batch, broken, overrun, bufferVars, airVars, boardVars,
                   saidVars, failureVars>>

TakeOut ==
    /\ candidates' = <<>>
    /\ taken' = taken \cup ToSet(candidates)
    /\ UNCHANGED <<written, unlisted>>

(* Fault: the choice among the comments comes after the question for viewers. *)
TakeAllFirst(w) ==
    /\ pc[w] = "take"
    /\ TakeOut
    /\ batch' = [batch EXCEPT ![w] = ToSet(candidates)]
    /\ Goto(w, "audience") /\ UNCHANGED plan
    /\ UNCHANGED <<broken, lockVars, airVars, boardVars, saidVars, failureVars>>
(* LPOP of all there is.  Whenever there are comments, one of them is best.   *)
TakeAll(w) ==
    /\ pc[w] = "take"
    /\ TakeOut
    /\ batch' = [batch EXCEPT ![w] = ToSet(candidates)]
    /\ IF candidates # <<>> THEN Goto(w, "publish") /\ Planned(w, "comment")
                            ELSE Goto(w, "audience") /\ UNCHANGED plan
    /\ UNCHANGED <<broken, lockVars, airVars, boardVars, saidVars, failureVars>>

Audience(w) ==
    /\ pc[w] = "audience"
    /\ Goto(w, IF viewers THEN "quiet" ELSE "unlock")
    /\ UNCHANGED <<plan, batch, broken, roomVars, boardVars, saidVars, failureVars>>

IsIdle(w) ==
    /\ pc[w] = "quiet"
    /\ Goto(w, IF quiet THEN "claim" ELSE "unlock")
    /\ UNCHANGED <<plan, batch, broken, roomVars, boardVars, saidVars, failureVars>>

(* The positions on the board of the stories that wait, and the first of them. *)
Waiting == {i \in DOMAIN board : status[board[i]] = "pending"}
Oldest == board[Min(Waiting)]

(* Fault: the row is selected, and left as it is until the story is done.     *)
ClaimPeek(w) ==
    /\ pc[w] = "claim"
    /\ Planned(w, IF Waiting = {} THEN "talk" ELSE Oldest)
    /\ Goto(w, "publish")
    /\ UNCHANGED <<batch, broken, roomVars, boardVars, saidVars, failureVars>>
(* SELECT ... FOR UPDATE SKIP LOCKED and the UPDATE in one transaction.       *)
Claim(w) ==
    /\ pc[w] = "claim" /\ w \notin broken
    /\ IF Waiting = {}
       THEN Planned(w, "talk") /\ UNCHANGED status
       ELSE /\ Planned(w, Oldest)
            /\ status' = [status EXCEPT ![Oldest] = "reading"]
    /\ Goto(w, "publish")
    /\ UNCHANGED <<batch, broken, roomVars, board, saidVars, failureVars>>

(* The request of w is in Kafka.                                             *)
Published(w) ==
    /\ asked' = IF plan[w] \in Stories THEN [asked EXCEPT ![plan[w]] = @ + 1] ELSE asked
    /\ weighed' = weighed \cup batch[w]
    /\ unprompted' = IF plan[w] = "comment" THEN unprompted ELSE unprompted + 1

Publish(w) ==
    /\ pc[w] = "publish"
    /\ Published(w)
    /\ batch' = [batch EXCEPT ![w] = {}]
    /\ Goto(w, IF plan[w] \in Stories THEN "mark_done" ELSE "unlock")
    /\ UNCHANGED <<plan, broken, roomVars, boardVars, unclear, failureVars>>

MarkDone(w) ==
    /\ pc[w] = "mark_done" /\ w \notin broken
    /\ status' = [status EXCEPT ![plan[w]] = "done"]
    /\ Goto(w, "unlock")
    /\ UNCHANGED <<plan, batch, broken, roomVars, board, saidVars, failureVars>>

(* The except branch: only a story that is still being read goes back.        *)
Release(w) ==
    /\ pc[w] = "release" /\ w \notin broken
    /\ status' = [status EXCEPT ![plan[w]] = IF @ = "reading" THEN "pending" ELSE @]
    /\ Planned(w, "none")
    /\ Goto(w, "unlock")
    /\ UNCHANGED <<batch, broken, roomVars, board, saidVars, failureVars>>

(* Fault: the room is not touched.                                            *)
UnlockUntouched(w) ==
    /\ pc[w] = "unlock"
    /\ lock' = NoWorker
    /\ Goto(w, "idle") /\ Planned(w, "none")
    /\ batch' = [batch EXCEPT ![w] = {}]
    /\ UNCHANGED <<broken, overrun, bufferVars, airVars, boardVars, saidVars, failureVars>>
(* The finally branch: DEL, whoever set the key.  Without a plan, or after an  *)
(* exception, that is the end of the tick.                                   *)
Unlock(w) ==
    /\ pc[w] = "unlock"
    /\ lock' = NoWorker
    /\ Goto(w, IF plan[w] = "none" THEN "idle" ELSE "touch")
    /\ batch' = [batch EXCEPT ![w] = {}]
    /\ UNCHANGED <<plan, broken, overrun, bufferVars, airVars, boardVars, saidVars,
                   failureVars>>

Touch(w) ==
    /\ pc[w] = "touch"
    /\ Touched
    /\ Planned(w, "none") /\ Goto(w, "idle")
    /\ UNCHANGED <<batch, broken, lockVars, bufferVars, viewers, busy, boardVars,
                   asked, unclear, weighed, failureVars>>

-----------------------------------------------------------------------------
(* Failures.                                                                 *)

(* Redis or Kafka raises.  The command may have been carried out all the      *)
(* same.  An exception inside the try block frees the lock, one outside ends  *)
(* the tick.                                                                 *)
Raise(w) ==
    /\ troubles < MaxTrouble /\ troubles' = troubles + 1
    /\ \/ /\ pc[w] = "lock"
          /\ lock' \in {lock, IF lock = NoWorker THEN w ELSE lock}
          /\ Goto(w, "idle")
          /\ UNCHANGED <<plan, batch, bufferVars, quiet, saidVars>>
       \/ /\ pc[w] = "take"
          /\ Goto(w, "unlock")
          /\ TakeOut \/ UNCHANGED bufferVars
          /\ UNCHANGED <<plan, batch, lock, quiet, saidVars>>
       \/ /\ pc[w] \in {"audience", "quiet"}
          /\ Goto(w, "unlock")
          /\ UNCHANGED <<plan, batch, lock, bufferVars, quiet, saidVars>>
       \/ /\ pc[w] = "publish"
          /\ IF plan[w] \in Stories THEN Goto(w, "release") /\ UNCHANGED plan
                                  ELSE Goto(w, "unlock") /\ Planned(w, "none")
          /\ batch' = [batch EXCEPT ![w] = {}]
          /\ \/ UNCHANGED saidVars
             \/ /\ Published(w)
                /\ unclear' = IF plan[w] \in Stories THEN [unclear EXCEPT ![plan[w]] = @ + 1]
                                                   ELSE unclear
          /\ UNCHANGED <<lock, bufferVars, quiet>>
       \/ /\ pc[w] = "unlock"
          /\ lock' \in {lock, NoWorker}
          /\ Goto(w, "idle") /\ Planned(w, "none")
          /\ batch' = [batch EXCEPT ![w] = {}]
          /\ UNCHANGED <<bufferVars, quiet, saidVars>>
       \/ /\ pc[w] = "touch"
          /\ Goto(w, "idle") /\ Planned(w, "none")
          /\ \/ Touched
             \/ UNCHANGED <<quiet, unprompted>>
          /\ UNCHANGED <<batch, lock, bufferVars, asked, unclear, weighed>>
    /\ UNCHANGED <<broken, overrun, viewers, busy, boardVars, crashes, dbErrors>>

(* A statement fails, its transaction may be committed all the same.  The     *)
(* session stays unusable, so the release in the except branch fails as well; *)
(* a story claimed by a call that raised is not known to the except branch.   *)
DbError(w) ==
    /\ w \notin broken /\ dbErrors < MaxDbErrors
    /\ dbErrors' = dbErrors + 1
    /\ broken' = broken \cup {w}
    /\ \/ pc[w] = "idle" /\ UNCHANGED <<pc, boardVars>>
       \/ /\ pc[w] = "claim" /\ Goto(w, "unlock")
          /\ \/ UNCHANGED status
             \/ Waiting # {} /\ status' = [status EXCEPT ![Oldest] = "reading"]
       \/ /\ pc[w] = "mark_done" /\ Goto(w, "release")
          /\ status' \in {status, [status EXCEPT ![plan[w]] = "done"]}
       \/ /\ pc[w] = "release" /\ Goto(w, "unlock")
          /\ status' \in {status, [status EXCEPT ![plan[w]] = "pending"]}
    /\ Planned(w, IF pc[w] = "mark_done" THEN plan[w] ELSE "none")
    /\ UNCHANGED <<batch, roomVars, board, saidVars, troubles, crashes>>

(* What meets a session that does not work raises.                           *)
SessionRefuses(w) ==
    /\ w \in broken /\ pc[w] \in {"claim", "mark_done", "release"}
    /\ Goto(w, IF pc[w] = "mark_done" THEN "release" ELSE "unlock")
    /\ Planned(w, IF pc[w] = "mark_done" THEN plan[w] ELSE "none")
    /\ UNCHANGED <<batch, broken, roomVars, boardVars, saidVars, failureVars>>

(* The process dies and is started again.                                    *)
Crash(w) ==
    /\ crashes < MaxCrashes /\ crashes' = crashes + 1
    /\ pc[w] # "idle"
    /\ Goto(w, "idle") /\ Planned(w, "none")
    /\ batch' = [batch EXCEPT ![w] = {}]
    /\ broken' = broken \ {w}
    /\ UNCHANGED <<roomVars, boardVars, saidVars, troubles, dbErrors>>

(* Between the lock and its release.                                          *)
Inside(w) == pc[w] \notin {"idle", "lock", "touch"}

(* The TTL of the lock.                                                      *)
LockExpires ==
    /\ lock # NoWorker
    /\ lock' = NoWorker
    /\ overrun' = (overrun \/ lock \in {w \in Workers : Inside(w)})
    /\ UNCHANGED <<workerVars, bufferVars, airVars, boardVars, saidVars, failureVars>>

-----------------------------------------------------------------------------
(* The room.                                                                 *)

(* handle_user_message: the room is touched, later the comment is a candidate. *)
Say(c) ==
    /\ c \notin written
    /\ written' = written \cup {c} /\ unlisted' = unlisted \cup {c}
    /\ Touched
    /\ UNCHANGED <<workerVars, lockVars, candidates, taken, viewers, busy,
                   boardVars, asked, unclear, weighed, failureVars>>

(* RPUSH and LTRIM: the newest MaxCandidates stay.                           *)
AddCandidate(c) ==
    /\ c \in unlisted
    /\ unlisted' = unlisted \ {c}
    /\ LET longer == Append(candidates, c) IN
       candidates' = IF Len(longer) > MaxCandidates THEN Tail(longer) ELSE longer
    /\ UNCHANGED <<workerVars, lockVars, written, taken, airVars, boardVars,
                   saidVars, failureVars>>

(* The TTL of the buffer.                                                    *)
CandidatesExpire ==
    /\ candidates # <<>>
    /\ candidates' = <<>>
    /\ UNCHANGED <<workerVars, lockVars, written, unlisted, taken, airVars,
                   boardVars, saidVars, failureVars>>

(* StoryService.submit.                                                      *)
Submit(s) ==
    /\ status[s] = "absent"
    /\ board' = Append(board, s)
    /\ status' = [status EXCEPT ![s] = "pending"]
    /\ UNCHANGED <<workerVars, roomVars, saidVars, failureVars>>

TimePasses ==
    /\ ~quiet /\ quiet' = TRUE
    /\ UNCHANGED <<workerVars, lockVars, bufferVars, viewers, busy, boardVars,
                   saidVars, failureVars>>

ViewersChange ==
    /\ viewers' = ~viewers
    /\ UNCHANGED <<workerVars, lockVars, bufferVars, quiet, busy, boardVars,
                   saidVars, failureVars>>

SlotChanges ==
    /\ busy' = ~busy
    /\ UNCHANGED <<workerVars, lockVars, bufferVars, quiet, viewers, boardVars,
                   saidVars, failureVars>>

Advance(w) ==
    \/ Begin(w)
    \/ AcquireLock(w)
    \/ TakeAll(w)
    \/ Audience(w)
    \/ IsIdle(w)
    \/ Claim(w)
    \/ Publish(w)
    \/ MarkDone(w)
    \/ Release(w)
    \/ Unlock(w)
    \/ Touch(w)
    \/ SessionRefuses(w)

RoomStep ==
    \/ \E c \in Comments : Say(c) \/ AddCandidate(c)
    \/ CandidatesExpire
    \/ \E s \in Stories : Submit(s)
    \/ TimePasses
    \/ ViewersChange
    \/ SlotChanges

ProgressNext ==
    \/ \E w \in Workers : Advance(w) \/ Raise(w) \/ DbError(w) \/ Crash(w)
    \/ LockExpires
    \/ RoomStep

ProgressSpec == ProgressInit /\ [][ProgressNext]_progressVars

(* The loop ticks on, silence grows, and Redis expires the lock.             *)
FairProgressSpec ==
    /\ ProgressSpec
    /\ \A w \in Workers : WF_progressVars(Advance(w))
    /\ WF_progressVars(TimePasses)
    /\ WF_progressVars(LockExpires)

-----------------------------------------------------------------------------

(* story_feed.py:43, port: instances never read the same story at once, even   *)
(* when a lock has expired under its holder and the next one takes over; and   *)
(* a story that is marked as being read is being read, unless a worker died or *)
(* a statement failed, so no failing call to Redis or Kafka strands one.      *)
StoryHasOneReader ==
    /\ \A v, w \in Workers : v # w /\ plan[v] \in Stories => plan[v] # plan[w]
    /\ crashes + dbErrors = 0 =>
        \A s \in Stories : status[s] = "reading" => \E w \in Workers : plan[w] = s

(* progress.py:138, :147-151: a story goes back to the board only when its     *)
(* request may not have got out, so it is asked for twice only if Kafka took a *)
(* request and reported an error, and it is done only if it was asked for.    *)
AskedOnceUnlessUnclear ==
    \A s \in Stories :
        /\ asked[s] <= 1 + unclear[s]
        /\ status[s] = "done" => asked[s] > 0

(* progress.py:112-114: comments are taken irrevocably, so whatever the room,  *)
(* the viewers, other workers and the database do meanwhile, those that were   *)
(* taken are among the choice of a request.  Only a failing call or a crash    *)
(* loses them.                                                               *)
TakenIsWeighed ==
    troubles + crashes = 0 => taken \subseteq weighed \cup UNION {batch[w] : w \in Workers}

(* port idle_lock.py: one worker at a time advances the room, as long as the   *)
(* TTL covers it, although release deletes the key whoever has set it.        *)
LockExcludes ==
    ~overrun => \A v, w \in Workers : Inside(v) /\ Inside(w) => v = w

(* progress.py:155-159: the room is touched after the lock is given back, so   *)
(* the next worker may find it still quiet; but a worker speaks once more into *)
(* the same silence only if it died or a call failed before it touched the    *)
(* room, even when the lock has expired under somebody.                       *)
VoicesAreBounded == unprompted <= Cardinality(Workers) + troubles + crashes

(* With viewers who stay and nobody else answering, a story that waits is read. *)
EveryStoryIsRead ==
    <>[](viewers /\ ~busy)
        => \A s \in Stories : status[s] = "pending" ~> status[s] = "done"

(* adapter idle_lock.py:3-4: of two workers that pick the same room at once     *)
(* only one gets through - so one silence is broken once, while the TTL of     *)
(* the lock covers what the workers do.                                       *)
OneVoicePerSilence == ~overrun => unprompted <= 1
=============================================================================
