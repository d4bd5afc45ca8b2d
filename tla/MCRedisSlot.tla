----------------------------- MODULE MCRedisSlot -----------------------------
(* Two superchats and a chat answer: equal, higher and lower priorities meet  *)
(* in every order.                                                           *)
EXTENDS RedisSlot, TLC

CONSTANTS superchat, superchat2, chat

Three == {superchat, superchat2, chat}
ThreePriorities == superchat :> 3 @@ superchat2 :> 3 @@ chat :> 2
=============================================================================
