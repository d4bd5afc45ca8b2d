------------------------------ MODULE ReadThrough ------------------------------
(***************************************************************************)
(* The cache in front of a repository, as the like count, the donation      *)
(* ranking and the persona profile have it                                  *)
(* (aria/contexts: community/adapter/outbound/cache/like_count.py,           *)
(* wallet/adapter/outbound/cache/donation_ranking.py,                       *)
(* persona/adapter/outbound/cache/profile.py).                              *)
(*                                                                          *)
(* A read asks Redis, on a miss the database, and stores what it found with *)
(* a TTL.  A write commits to the database and then deletes the key; the    *)
(* ranking, and the name of a persona, are written without deleting it.     *)
(* Every error of Redis is swallowed.  Requests run in processes of their   *)
(* own, so each call to Redis or the database is a step.                    *)
(*                                                                          *)
(* What is in the database, and what a request reads and writes there, is   *)
(* in the modules that extend this one.                                     *)
(***************************************************************************)
EXTENDS Naturals, Sequences, FiniteSets, FiniteSetsExt, SequencesExt

CONSTANTS
    Requests,       \* calls of the API and of the generation worker
    Workloads,      \* bound: what each of them asks for, functions to records
    Keys,           \* what is cached: tuples, as the keys are put together
    None,           \* no key; no persona
    Damaged,        \* a value that cannot be parsed
    MaxFailures     \* bound: failing calls to Redis, requests that die

ASSUME ReadThroughAssumption == None # Damaged /\ MaxFailures \in Nat

VARIABLES
    job,        \* what each request is for
    pc,         \* its next call
    fetched,    \* what it has read from the database, or answers from the cache
    dirty,      \* it has committed a change, and the key is not deleted yet
    cache,
    excused,    \* keys whose value is out of date for a reason named below
    failures

cacheVars == <<cache, excused>>
requestVars == <<pc, fetched, dirty>>
readThroughVars == <<job, requestVars, cacheVars, failures>>

(* Fault: one key for rankings of all lengths.                                *)
KeyOfAnyLimit(j) == CASE j.op \in {"count", "like", "unlike"} -> <<"likes">>
                      [] j.op = "rank" -> <<"ranking", 1>>
                      [] j.op \in {"donate", "register", "login"} -> <<>>
                      [] OTHER -> <<"profile">>
(* The key that a request reads, or has to delete, if there is one.           *)
KeyOf(j) == CASE j.op \in {"count", "like", "unlike"} -> <<"likes">>
              [] j.op = "rank" -> <<"ranking", j.limit>>
              [] j.op \in {"donate", "register", "login"} -> <<>>
              [] OTHER -> <<"profile">>

ReadThroughInit ==
    /\ job \in Workloads
    /\ pc = [r \in Requests |-> IF job[r].op \in {"count", "rank", "profile"} THEN "get" ELSE "table"]
    /\ fetched = [r \in Requests |-> None]
    /\ dirty = [r \in Requests |-> FALSE]
    /\ excused = {}
    /\ failures = 0

Goto(r, label) == pc' = [pc EXCEPT ![r] = label]
Key(r) == KeyOf(job[r])
Fail == failures < MaxFailures /\ failures' = failures + 1

(* SET, with what the database says now: a value that was true when it was    *)
(* read and is not any more stays for the TTL.                               *)
Put(k, value, truth) ==
    /\ cache' = [cache EXCEPT ![k] = value]
    /\ excused' = IF value = truth THEN excused \ {k} ELSE excused \cup {k}

Drop(k) == cache' = [cache EXCEPT ![k] = None] /\ excused' = excused \ {k}

-----------------------------------------------------------------------------
(* _get.  A value that cannot be parsed is deleted first.                     *)
Get(r) ==
    /\ pc[r] = "get"
    /\ Goto(r, CASE cache[Key(r)] = None -> "query"
                 [] cache[Key(r)] = Damaged -> "discard"
                 [] OTHER -> "over")
    /\ fetched' = [fetched EXCEPT ![r] = IF cache[Key(r)] = Damaged THEN None ELSE cache[Key(r)]]
    /\ UNCHANGED <<job, dirty, cacheVars, failures>>

Discard(r) ==
    /\ pc[r] = "discard"
    /\ Drop(Key(r))
    /\ Goto(r, "query")
    /\ UNCHANGED <<job, fetched, dirty, failures>>

(* _set.                                                                     *)
Set(r, truth) ==
    /\ pc[r] = "set"
    /\ Put(Key(r), fetched[r], truth)
    /\ Goto(r, "over")
    /\ UNCHANGED <<job, fetched, dirty, failures>>

(* _invalidate, invalidate.                                                  *)
Invalidate(r) ==
    /\ pc[r] = "invalidate"
    /\ Drop(Key(r))
    /\ dirty' = [dirty EXCEPT ![r] = FALSE]
    /\ Goto(r, "over")
    /\ UNCHANGED <<job, fetched, failures>>

(* A request that ends without deleting the key it has outdated.              *)
LeaveBehind(r) ==
    /\ excused' = IF dirty[r] THEN excused \cup {Key(r)} ELSE excused
    /\ dirty' = [dirty EXCEPT ![r] = FALSE]

(* RedisError, with the command carried out or not; the caller goes on.       *)
RedisError(r, truth) ==
    /\ Fail
    /\ \/ pc[r] \in {"get", "discard"} /\ Goto(r, "query") /\ UNCHANGED <<dirty, cacheVars>>
       \/ pc[r] = "discard" /\ Goto(r, "query") /\ Drop(Key(r)) /\ UNCHANGED dirty
       \/ /\ pc[r] = "set" /\ Goto(r, "over") /\ UNCHANGED dirty
          /\ UNCHANGED cacheVars \/ Put(Key(r), fetched[r], truth)
       \/ /\ pc[r] = "invalidate" /\ Goto(r, "over")
          /\ \/ LeaveBehind(r) /\ UNCHANGED cache
             \/ Drop(Key(r)) /\ dirty' = [dirty EXCEPT ![r] = FALSE]
    /\ UNCHANGED <<job, fetched>>

(* Fault: SET without ex.                                                    *)
ExpireNever(k) == FALSE /\ UNCHANGED readThroughVars
Expire(k) ==
    /\ cache[k] # None
    /\ Drop(k)
    /\ UNCHANGED <<job, requestVars, failures>>

=============================================================================
