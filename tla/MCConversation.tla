---------------------------- MODULE MCConversation ----------------------------
(* A viewer on a WebSocket who chats and pays, another who posts a message by   *)
(* HTTP, and a reader of the history; and the choice among up to three         *)
(* comments.                                                                 *)
EXTENDS Conversation

CONSTANTS v, p, r, hello, tip, empty, why

OneSocket == {v}
OnePost == {p}
NoPost == {}
OneReader == {r}
NoReader == {}
ThreeFrames == {tip, empty, why}
TwoFrames == {hello, tip}
Senders == [f \in Frames |-> IF f = why THEN p ELSE v]
KindOf == [f \in Frames |-> IF f \in {tip, empty} THEN "superchat" ELSE "message"]
Fits == [f \in Frames |-> f # empty]

Comment(grams, question, length, at) ==
    [grams |-> grams, question |-> question, length |-> length, at |-> at]
Contents == [f \in Frames |-> IF f = why THEN Comment({1, 2}, TRUE, 20, 2)
                                    ELSE Comment({1, 3}, FALSE, 40, 1)]

(* Long comments that share one n-gram of nine, a short one that has only that  *)
(* one, one that is all stop words.                                          *)
Sorts == {Comment(1..9, TRUE, 40, 1), Comment(1..9, FALSE, 40, 2), Comment(1..9, FALSE, 40, 1),
          Comment(9..17, FALSE, 80, 1), Comment({9}, FALSE, 6, 1),
          Comment({9}, TRUE, 3, 2), Comment({}, FALSE, 3, 1)}
SmallBatches == UNION {[1..n -> Sorts] : n \in 0..3}
=============================================================================
