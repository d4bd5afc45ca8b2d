---------------------------- MODULE TopicSelection ----------------------------
(***************************************************************************)
(* Which of the comments taken out of the buffer the persona answers        *)
(* (aria/contexts/chat: adapter/outbound/clustering/lexical.py,              *)
(* domain/topic.py), as functions of the batch.                             *)
(*                                                                          *)
(* A comment is what these functions ask of it: its n-grams, whether it is a *)
(* question, its length and when it was written.  A candidate is its place   *)
(* in the batch.                                                            *)
(***************************************************************************)
EXTENDS Naturals, Sequences, FiniteSets, SequencesExt

CONSTANT Batches    \* bound: sequences of comments

Comments == [grams : {grams \in SUBSET Nat : IsFiniteSet(grams)}, question : BOOLEAN,
             length : Nat, at : Nat]

MaxCandidates == 50     \* redis/candidates.py:23

ASSUME TopicAssumption ==
    \A batch \in Batches : batch \in Seq(Comments) /\ Len(batch) <= MaxCandidates

-----------------------------------------------------------------------------
(* LexicalTopicClusterer.                                                    *)

(* _similarity, _SIMILARITY_THRESHOLD: the part of the smaller set.           *)
Similar(a, b) ==
    LET Least == IF Cardinality(a) < Cardinality(b) THEN Cardinality(a) ELSE Cardinality(b)
    IN  Least > 0 /\ 100 * Cardinality(a \cap b) >= 12 * Least

(* cluster: each comment into the first topic it resembles, or one of its own. *)
Joined(batch, topics, c) ==
    LET alike == SelectInSeq(topics, LAMBDA t : Similar(batch[c].grams, t.grams))
    IN  IF alike = 0
        THEN Append(topics, [grams |-> batch[c].grams, members |-> <<c>>])
        ELSE [topics EXCEPT ![alike].grams = @ \cup batch[c].grams,
                            ![alike].members = Append(@, c)]

Topics(batch) == FoldLeftDomain(LAMBDA topics, c : Joined(batch, topics, c), <<>>, batch)

TopicOf(batch, c) == CHOOSE t \in ToSet(Topics(batch)) : c \in ToSet(t.members)

-----------------------------------------------------------------------------
(* score, select_best.                                                       *)

(* _length_score, as a fraction.                                             *)
LengthScore(n) ==
    IF n < 6 THEN <<0, 1>>
    ELSE IF n <= 40 THEN <<n, 40>>
    ELSE IF n < 80 THEN <<40, n>> ELSE <<1, 2>>

Size(batch, c) == Len(TopicOf(batch, c).members)
Largest(batch) == CHOOSE n \in {Size(batch, c) : c \in DOMAIN batch} :
                    \A c \in DOMAIN batch : Size(batch, c) <= n

(* round, where floats go either way with a half: up.                         *)
Rounded(n, d) == (2 * n + d) \div (2 * d)

(* In ten-thousandths: so much for a question, and for the best length and the  *)
(* largest topic, as far as the comment comes to them.                       *)
Weighed(batch, c, question, length, topic) ==
    LET worth == LengthScore(batch[c].length)
    IN  (IF batch[c].question THEN question ELSE 0)
        + Rounded(length * worth[1] * Largest(batch) + topic * Size(batch, c) * worth[2],
                  worth[2] * Largest(batch))

(* Fault: the topic counts as much as the question.                           *)
ScoreByTopic(batch, c) == Weighed(batch, c, 2000, 3000, 5000)
Score(batch, c) == Weighed(batch, c, 5000, 3000, 2000)

Beats(batch, c, d) ==
    \/ Score(batch, c) > Score(batch, d)
    \/ Score(batch, c) = Score(batch, d) /\ batch[c].at < batch[d].at

(* The first that nothing beats, topic by topic.                              *)
Best(batch) ==
    LET unbeaten(c) == \A d \in DOMAIN batch : ~Beats(batch, d, c)
        topic == SelectInSeq(Topics(batch), LAMBDA t : \E c \in ToSet(t.members) : unbeaten(c))
        members == Topics(batch)[topic].members
    IN  members[SelectInSeq(members, unbeaten)]

-----------------------------------------------------------------------------

(* Every comment is in one topic, and in a topic of several each shares an      *)
(* n-gram with one that came before it.                                      *)
Talks(batch) ==
    /\ \A c \in DOMAIN batch : \E t \in DOMAIN Topics(batch) : c \in ToSet(Topics(batch)[t].members)
    /\ \A t, u \in DOMAIN Topics(batch) :
        /\ IsInjective(Topics(batch)[t].members)
        /\ t # u => ToSet(Topics(batch)[t].members) \cap ToSet(Topics(batch)[u].members) = {}
    /\ \A t \in ToSet(Topics(batch)) : \A i \in 2..Len(t.members) :
        \E j \in 1..(i - 1) : batch[t.members[i]].grams \cap batch[t.members[j]].grams # {}

(* Nobody is as good as b in all three respects, and better in one or earlier. *)
NoWorse(m, n) == LengthScore(m)[1] * LengthScore(n)[2] >= LengthScore(n)[1] * LengthScore(m)[2]
Undefeated(batch, b) ==
    \A c \in DOMAIN batch :
        ~ /\ batch[b].question => batch[c].question
          /\ NoWorse(batch[c].length, batch[b].length)
          /\ Size(batch, c) >= Size(batch, b)
          /\ \/ batch[c].question /\ ~batch[b].question
             \/ ~NoWorse(batch[b].length, batch[c].length)
             \/ Size(batch, c) > Size(batch, b)
             \/ batch[c].at < batch[b].at

AllTalks == \A batch \in Batches : Talks(batch)
AllAsked == \A batch \in Batches \ {<<>>} :
                (\E c \in DOMAIN batch : batch[c].question) => batch[Best(batch)].question
AllJust == \A batch \in Batches \ {<<>>} : Undefeated(batch, Best(batch))
=============================================================================
