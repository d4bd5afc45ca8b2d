------------------------------- MODULE MCProgress -------------------------------
(* Two workers, two comments and up to two stories in one room.               *)
EXTENDS Progress

CONSTANTS w1, w2, c1, c2, s1, s2

TwoWorkers == {w1, w2}
OneWorker == {w1}
OneComment == {c1}
TwoComments == {c1, c2}
OneStory == {s1}
TwoStories == {s1, s2}
Alike == Permutations(TwoWorkers) \cup Permutations(TwoComments) \cup Permutations(TwoStories)
=============================================================================
