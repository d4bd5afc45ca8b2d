--------------------------- MODULE RedisSlotProofs ---------------------------
(***************************************************************************)
(* RedisSlot implements ResponseSlot, for any number of attempts and any     *)
(* priorities.                                                              *)
(*                                                                          *)
(* The argument: what a GET has shown holds for as long as the connection   *)
(* is not dirty, because every change of the key makes every connection     *)
(* dirty (StillTrue).  An EXEC that is carried out therefore decides on the *)
(* key as it is.                                                            *)
(***************************************************************************)
EXTENDS RedisSlot, TLAPS

StillTrue ==
    \A a \in Attempts : ~dirty[a] =>
        /\ pc[a] = "exec" => FreeFor(a, holder)
        /\ pc[a] = "exec_release" => holder = a

IInv == RedisTypeOK /\ StillTrue

LEMMA InitInv == RedisInit => IInv
BY SlotAssumption DEF RedisInit, SlotInit, IInv, RedisTypeOK, SlotTypeOK, StillTrue,
       Labels, Holding

(* Steps that leave the key alone.                                           *)
LEMMA QuietInv ==
    ASSUME IInv, NEW a \in Attempts,
           \/ Watch(a, "watch", "get")
           \/ GetToAcquire(a)
           \/ Retry(a, "exec", "watch")
           \/ StartRelease(a)
           \/ Watch(a, "watch_release", "get_release")
           \/ GetToRelease(a)
           \/ Retry(a, "exec_release", "watch_release")
           \/ Die(a)
    PROVE  IInv'
<1> USE DEF IInv, RedisTypeOK, SlotTypeOK, StillTrue, Labels, Holding, Goto, slotVars
<1>1. CASE Watch(a, "watch", "get")
    BY <1>1 DEF Watch
<1>2. CASE GetToAcquire(a)
    BY <1>2 DEF GetToAcquire
<1>3. CASE Retry(a, "exec", "watch")
    BY <1>3 DEF Retry
<1>4. CASE StartRelease(a)
    BY <1>4 DEF StartRelease
<1>5. CASE Watch(a, "watch_release", "get_release")
    BY <1>5 DEF Watch
<1>6. CASE GetToRelease(a)
    BY <1>6 DEF GetToRelease
<1>7. CASE Retry(a, "exec_release", "watch_release")
    BY <1>7 DEF Retry
<1>8. CASE Die(a)
    BY <1>8 DEF Die
<1> QED BY <1>1, <1>2, <1>3, <1>4, <1>5, <1>6, <1>7, <1>8

(* Steps that touch the key leave no connection clean.                       *)
LEMMA TouchInv ==
    ASSUME IInv, NEW a \in Attempts, SetKey(a) \/ DeleteKey(a) \/ KeyExpires
    PROVE  IInv'
<1> USE DEF IInv, RedisTypeOK, SlotTypeOK, StillTrue, Labels, Holding, Goto, Touch
<1>1. CASE SetKey(a)
    BY <1>1 DEF SetKey
<1>2. CASE DeleteKey(a)
    BY <1>2 DEF DeleteKey
<1>3. CASE KeyExpires
    BY <1>3 DEF KeyExpires, Expire
<1> QED BY <1>1, <1>2, <1>3

LEMMA NextInv == IInv /\ [RedisNext]_redisVars => IInv'
<1> SUFFICES ASSUME IInv, [RedisNext]_redisVars PROVE IInv'
    OBVIOUS
<1>1. ASSUME NEW a \in Attempts, Command(a) \/ Die(a) PROVE IInv'
    BY <1>1, QuietInv, TouchInv DEF Command
<1>2. CASE KeyExpires
    <2>1. PICK a \in Attempts : TRUE
        BY <1>2 DEF KeyExpires, Expire, IInv, RedisTypeOK, SlotTypeOK
    <2> QED BY <1>2, <2>1, TouchInv
<1>3. CASE UNCHANGED redisVars
    BY <1>3 DEF redisVars, slotVars, IInv, RedisTypeOK, SlotTypeOK, StillTrue, FreeFor,
                Labels, Holding
<1> QED BY <1>1, <1>2, <1>3 DEF RedisNext

(* A clean connection knows the key, whatever the other attempts do.         *)
THEOREM SlotInvariant == RedisSpec => []IInv
<1> QED BY InitInv, NextInv, PTL DEF RedisSpec

(* Types, and who has been granted the slot, in every reachable state.        *)
THEOREM SlotTypes == RedisSpec => []RedisTypeOK
<1>1. IInv => RedisTypeOK
    BY DEF IInv
<1> QED BY <1>1, SlotInvariant, PTL

(* Every command is a step of the contract, or changes nothing it speaks of. *)
LEMMA CommandImplements ==
    ASSUME IInv, NEW a \in Attempts, Command(a)
    PROVE  [SlotNext]_slotVars
<1>1. CASE SetKey(a)
    <2>1. FreeFor(a, holder) /\ answer[a] = "none"
        BY <1>1 DEF SetKey, ExecSucceeds, IInv, StillTrue, RedisTypeOK
    <2> QED BY <1>1, <2>1 DEF SetKey, Acquire, SlotNext
<1>2. CASE DeleteKey(a)
    <2>1. holder = a
        BY <1>2 DEF DeleteKey, ExecSucceeds, IInv, StillTrue
    <2>2. answer[a] = "granted"
        BY <1>2 DEF DeleteKey, IInv, RedisTypeOK, Holding
    <2> QED BY <1>2, <2>1, <2>2 DEF DeleteKey, Release, SlotNext
<1>3. CASE GetToAcquire(a)
    <2>1. answer[a] = "none"
        BY <1>3 DEF GetToAcquire, IInv, RedisTypeOK
    <2>2. CASE FreeFor(a, holder)
        BY <1>3, <2>2 DEF GetToAcquire, slotVars
    <2>3. CASE ~FreeFor(a, holder)
        BY <1>3, <2>1, <2>3 DEF GetToAcquire, Refuse, SlotNext
    <2> QED BY <2>2, <2>3
<1>4. CASE GetToRelease(a)
    <2>1. answer[a] = "granted"
        BY <1>4 DEF GetToRelease, IInv, RedisTypeOK, Holding
    <2> QED BY <1>4, <2>1 DEF GetToRelease, Release, SlotNext, slotVars
<1>5. CASE UNCHANGED slotVars
    BY <1>5
<1> QED BY <1>1, <1>2, <1>3, <1>4, <1>5 DEF Command, Watch, Retry, StartRelease

(* The WATCH/MULTI loops implement the one-step contract: the slot goes only  *)
(* to an attempt that outranks its holder, and no release frees a slot that   *)
(* another attempt has by then.                                              *)
THEOREM LoopsAreAtomic == RedisSpec => RefinesSlot
<1>1. RedisInit => SlotInit
    BY DEF RedisInit
<1>2. IInv /\ [RedisNext]_redisVars => [SlotNext]_slotVars
    <2> SUFFICES ASSUME IInv, [RedisNext]_redisVars PROVE [SlotNext]_slotVars
        OBVIOUS
    <2>1. ASSUME NEW a \in Attempts, Command(a) PROVE [SlotNext]_slotVars
        BY <2>1, CommandImplements
    <2>2. ASSUME NEW a \in Attempts, Die(a) PROVE [SlotNext]_slotVars
        BY <2>2 DEF Die
    <2>3. CASE KeyExpires
        BY <2>3 DEF KeyExpires, SlotNext
    <2>4. CASE UNCHANGED redisVars
        BY <2>4 DEF redisVars
    <2> QED BY <2>1, <2>2, <2>3, <2>4 DEF RedisNext
<1> QED BY <1>1, <1>2, SlotInvariant, PTL DEF RedisSpec, RefinesSlot, SlotSpec
=============================================================================
