-------------------------------- MODULE Likes --------------------------------
(***************************************************************************)
(* Likes (aria/contexts/community: LikeService, SqlModelLikeRepository and   *)
(* the cache before it).  Putting and deleting a like both look first and    *)
(* then write, in two statements; the unique index decides between two that *)
(* both found nothing.                                                      *)
(***************************************************************************)
EXTENDS ReadThrough

CONSTANT Users

VARIABLE likes  \* the rows of LikeTable per user

Count == SumFunctionOnSet(likes, Users)

LikesInit == likes = [u \in Users |-> 0]

(* UniqueConstraint(persona_id, user_id).                                     *)
LikeTaken(u) == likes[u] > 0

(* count_by_persona, after a miss.                                           *)
CountRows(r) ==
    /\ pc[r] = "query" /\ job[r].op = "count"
    /\ fetched' = [fetched EXCEPT ![r] = Count]
    /\ Goto(r, "set")
    /\ UNCHANGED <<job, dirty, cacheVars, failures, likes>>

(* exists, and the select of remove.  Without anything to do the key is        *)
(* deleted all the same.                                                     *)
LookForLike(r) ==
    /\ pc[r] = "table" /\ job[r].op \in {"like", "unlike"}
    /\ Goto(r, IF (likes[job[r].user] > 0) = (job[r].op = "like") THEN "invalidate" ELSE "write")
    /\ UNCHANGED <<job, fetched, dirty, cacheVars, failures, likes>>

(* Fault: the write goes past the decorator.                                 *)
AddLikeUncached(r) ==
    LET u == job[r].user IN
    /\ pc[r] = "write" /\ job[r].op = "like"
    /\ likes' = [likes EXCEPT ![u] = IF LikeTaken(u) THEN @ ELSE @ + 1]
    /\ Goto(r, "over")
    /\ UNCHANGED <<job, fetched, dirty, cacheVars, failures>>
(* INSERT and COMMIT; IntegrityError means that the like is there.            *)
AddLike(r) ==
    LET u == job[r].user IN
    /\ pc[r] = "write" /\ job[r].op = "like"
    /\ likes' = [likes EXCEPT ![u] = IF LikeTaken(u) THEN @ ELSE @ + 1]
    /\ dirty' = [dirty EXCEPT ![r] = ~LikeTaken(u)]
    /\ Goto(r, "invalidate")
    /\ UNCHANGED <<job, fetched, cacheVars, failures>>

(* DELETE of the row that was found, and COMMIT; a row that is gone is none    *)
(* of its business.                                                          *)
RemoveLike(r) ==
    LET u == job[r].user IN
    /\ pc[r] = "write" /\ job[r].op = "unlike"
    /\ likes' = [likes EXCEPT ![u] = IF @ > 0 THEN @ - 1 ELSE @]
    /\ dirty' = [dirty EXCEPT ![r] = likes[u] > 0]
    /\ Goto(r, "invalidate")
    /\ UNCHANGED <<job, fetched, cacheVars, failures>>

LikeStep(r) == CountRows(r) \/ LookForLike(r) \/ AddLike(r) \/ RemoveLike(r)

=============================================================================
