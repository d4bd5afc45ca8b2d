-------------------------- MODULE MCGenerationWorker --------------------------
(* Two superchats, which share a partition, and a chat answer on the other    *)
(* topic; each message can be delivered twice.                               *)
EXTENDS GenerationWorker, TLC

CONSTANTS tip, tip2, chat

Three == {tip, tip2, chat}
ThreeTopics == tip :> "superchat" @@ tip2 :> "superchat" @@ chat :> "response"
Twice == Three \X (1..2)
Priorities == [a \in Twice |-> IF topicOf[a[1]] = "superchat" THEN 3 ELSE 2]
=============================================================================
