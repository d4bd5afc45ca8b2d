----------------------------- MODULE ResponseSlot -----------------------------
(***************************************************************************)
(* What ResponseCoordinator promises for one room                           *)
(* (aria/contexts/chat/application/port/out/coordinator.py): one response   *)
(* at a time has the slot; it is granted when it is free or when its holder *)
(* has a lower priority, refused otherwise, and nobody frees the slot of    *)
(* somebody else.  A holder that stays away too long loses it to the TTL.   *)
(*                                                                          *)
(* Rooms share nothing here: the key of the slot holds the room.            *)
(***************************************************************************)
EXTENDS Naturals

CONSTANTS
    Attempts,   \* calls of try_acquire, each with a token of its own
    NoOne,      \* the slot's key does not exist
    priority    \* the priority of each attempt's source

ASSUME SlotAssumption ==
    /\ NoOne \notin Attempts
    /\ priority \in [Attempts -> Nat]

VARIABLES
    holder,     \* whose token the slot holds
    answer      \* how far each attempt is: what try_acquire answered, or that it
                \* has called release

slotVars == <<holder, answer>>

SlotTypeOK ==
    /\ holder \in Attempts \cup {NoOne}
    /\ answer \in [Attempts -> {"none", "granted", "refused", "released"}]

SlotInit ==
    /\ holder = NoOne
    /\ answer = [a \in Attempts |-> "none"]

(* Free, or held by a response that matters less.                            *)
FreeFor(a, h) == h # NoOne => priority[h] < priority[a]

Acquire(a) ==
    /\ answer[a] = "none" /\ FreeFor(a, holder)
    /\ holder' = a
    /\ answer' = [answer EXCEPT ![a] = "granted"]

Refuse(a) ==
    /\ answer[a] = "none" /\ ~FreeFor(a, holder)
    /\ answer' = [answer EXCEPT ![a] = "refused"]
    /\ UNCHANGED holder

(* release: of the own slot only, which may have gone to another by now.     *)
Release(a) ==
    /\ answer[a] = "granted"
    /\ holder' = IF holder = a THEN NoOne ELSE holder
    /\ answer' = [answer EXCEPT ![a] = "released"]

(* The TTL of the key runs out: its holder is slow or dead.                  *)
Expire ==
    /\ holder # NoOne
    /\ holder' = NoOne
    /\ UNCHANGED answer

SlotNext ==
    \/ \E a \in Attempts : Acquire(a) \/ Refuse(a) \/ Release(a)
    \/ Expire

SlotSpec == SlotInit /\ [][SlotNext]_slotVars
=============================================================================
