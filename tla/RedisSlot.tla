------------------------------- MODULE RedisSlot -------------------------------
(***************************************************************************)
(* RedisResponseCoordinator, command by command                             *)
(* (aria/contexts/chat/adapter/outbound/redis/coordinator.py).              *)
(*                                                                          *)
(* try_acquire and release each WATCH the key, GET it, decide, and write in *)
(* a MULTI/EXEC that Redis refuses when the key was touched since the       *)
(* WATCH; then they start again.  Redis marks a watching connection dirty   *)
(* when the key is written, deleted or expires (redis 7).                   *)
(***************************************************************************)
EXTENDS ResponseSlot

VARIABLES
    pc,     \* the next command of each attempt
    dirty   \* the key was touched since its last WATCH

redisVars == <<slotVars, pc, dirty>>

(* "generating" stands for all that happens between the two calls.           *)
Labels == {"watch", "get", "exec", "generating", "watch_release", "get_release",
           "exec_release", "ended", "dead"}

(* From the grant to the last command of release.                            *)
Holding == {"generating", "watch_release", "get_release", "exec_release"}

RedisTypeOK ==
    /\ SlotTypeOK
    /\ pc \in [Attempts -> Labels]
    /\ dirty \in [Attempts -> BOOLEAN]
    /\ \A a \in Attempts :
        /\ pc[a] \in {"watch", "get", "exec"} => answer[a] = "none"
        /\ pc[a] \in Holding => answer[a] = "granted"

RedisInit ==
    /\ SlotInit
    /\ pc = [a \in Attempts |-> "watch"]
    /\ dirty = [a \in Attempts |-> FALSE]

Goto(a, label) == pc' = [pc EXCEPT ![a] = label]

(* Every connection that is watching the key is dirty from now on.           *)
Touch == dirty' = [b \in Attempts |-> TRUE]

Watch(a, from, to) ==
    /\ pc[a] = from
    /\ dirty' = [dirty EXCEPT ![a] = FALSE]
    /\ Goto(a, to)
    /\ UNCHANGED slotVars

(* GET in try_acquire: a holder of the same or a higher priority stays.      *)
GetToAcquire(a) ==
    /\ pc[a] = "get"
    /\ IF FreeFor(a, holder)
       THEN Goto(a, "exec") /\ UNCHANGED answer
       ELSE Goto(a, "ended") /\ answer' = [answer EXCEPT ![a] = "refused"]
    /\ UNCHANGED <<holder, dirty>>

(* EXEC of a: carried out only on a connection that is not dirty.            *)
ExecSucceeds(a) == ~dirty[a]

SetKey(a) ==
    /\ pc[a] = "exec" /\ ExecSucceeds(a)
    /\ holder' = a
    /\ answer' = [answer EXCEPT ![a] = "granted"]
    /\ Touch
    /\ Goto(a, "generating")

(* WatchError: continue.                                                     *)
Retry(a, from, to) ==
    /\ pc[a] = from /\ ~ExecSucceeds(a)
    /\ Goto(a, to)
    /\ UNCHANGED <<slotVars, dirty>>

StartRelease(a) ==
    /\ pc[a] = "generating"
    /\ Goto(a, "watch_release")
    /\ UNCHANGED <<slotVars, dirty>>

(* Fault: the token is not compared.                                         *)
GetToReleaseAny(a) ==
    /\ pc[a] = "get_release"
    /\ Goto(a, "exec_release")
    /\ UNCHANGED <<slotVars, dirty>>
(* GET in release: only a key with the own token is deleted.                 *)
GetToRelease(a) ==
    /\ pc[a] = "get_release"
    /\ IF holder = a
       THEN Goto(a, "exec_release") /\ UNCHANGED answer
       ELSE Goto(a, "ended") /\ answer' = [answer EXCEPT ![a] = "released"]
    /\ UNCHANGED <<holder, dirty>>

DeleteKey(a) ==
    /\ pc[a] = "exec_release" /\ ExecSucceeds(a)
    /\ holder' = NoOne
    /\ answer' = [answer EXCEPT ![a] = "released"]
    /\ Touch
    /\ Goto(a, "ended")

(* The worker dies, or the connection does; the key stays.                   *)
Die(a) ==
    /\ pc[a] \notin {"ended", "dead"}
    /\ Goto(a, "dead")
    /\ UNCHANGED <<slotVars, dirty>>

(* Fault: SET without a TTL.                                                 *)
KeyStays == FALSE /\ UNCHANGED redisVars
KeyExpires ==
    /\ Expire
    /\ Touch
    /\ UNCHANGED pc

Command(a) ==
    \/ Watch(a, "watch", "get")
    \/ GetToAcquire(a)
    \/ SetKey(a)
    \/ Retry(a, "exec", "watch")
    \/ StartRelease(a)
    \/ Watch(a, "watch_release", "get_release")
    \/ GetToRelease(a)
    \/ DeleteKey(a)
    \/ Retry(a, "exec_release", "watch_release")

RedisNext ==
    \/ \E a \in Attempts : Command(a) \/ Die(a)
    \/ KeyExpires

RedisSpec == RedisInit /\ [][RedisNext]_redisVars

(* A live worker sends its next command, and Redis expires the key.          *)
FairRedisSpec ==
    /\ RedisSpec
    /\ \A a \in Attempts : WF_redisVars(Command(a))
    /\ WF_redisVars(KeyExpires)

-----------------------------------------------------------------------------

(* The loops around WATCH, GET and EXEC are as good as one atomic decision:   *)
(* no interleaving of calls, deaths and expiries grants a slot to two of the  *)
(* same priority, lets a lower one take over, or deletes the slot of another. *)
RefinesSlot == SlotSpec

(* A worker that dies with the slot does not mute the room: the slot is free  *)
(* again and again, after all the attempts there are.                        *)
RoomIsNotMuted == <>[](holder = NoOne)
=============================================================================
