------------------------------ MODULE MCStation ------------------------------
(* Two writers of one persona and a reader.  What is cached under one key does *)
(* not depend on the others, so all three are about likes, or about donations, *)
(* or about the voice.                                                       *)
EXTENDS Station, TLC

CONSTANTS r1, r2, r3, u1, u2, x, y

Three == {r1, r2, r3}
TwoUsers == {u1, u2}
TwoLists == {<<x, y>>, <<y>>}

Gift(donor, amount, at) == [donor |-> donor, amount |-> amount, at |-> at]
OneGift == <<Gift(u1, 1, 0)>>

(* Each pair of jobs once, whichever request has which; a read comes with all.  *)
Mix(jobs, read) ==
    {r1 :> jobs[i] @@ r2 :> jobs[j] @@ r3 :> read :
        <<i, j>> \in {p \in (DOMAIN jobs) \X (DOMAIN jobs) : p[1] <= p[2]}}
Registrations ==
    Mix(<<[op |-> "register", email |-> u1], [op |-> "register", email |-> u2],
          [op |-> "login", email |-> u1, right |-> FALSE]>>,
        [op |-> "login", email |-> u1, right |-> TRUE])
Mixes ==
    Mix(<<[op |-> "like", user |-> u1], [op |-> "unlike", user |-> u1], [op |-> "like", user |-> u2],
          [op |-> "count"]>>, [op |-> "count"])
    \cup Mix(<<[op |-> "donate", row |-> Gift(u1, 1, 2)],
               [op |-> "donate", row |-> Gift(u2, 1, 1)],
               [op |-> "donate", row |-> Gift(u2, 2, 3)],
               [op |-> "rank", limit |-> 2]>>, [op |-> "rank", limit |-> 1])
    \cup Mix(<<[op |-> "list", list |-> <<x, y>>], [op |-> "list", list |-> <<y>>],
               [op |-> "axis", axis |-> "style", to |-> "new"], [op |-> "rename", to |-> "new"],
               [op |-> "delete"]>>, [op |-> "profile"])
    \cup Registrations
    \cup {r1 :> [op |-> "create", to |-> "new"] @@ r2 :> [op |-> "axis", axis |-> "style", to |-> "new"]
            @@ r3 :> [op |-> "profile"]}

CacheKeys == {<<"likes">>, <<"ranking", 1>>, <<"ranking", 2>>, <<"profile">>}
=============================================================================
