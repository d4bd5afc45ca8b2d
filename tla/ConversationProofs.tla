------------------------- MODULE ConversationProofs -------------------------
(***************************************************************************)
(* Proofs about Conversation and the Transcript in it, for any number of    *)
(* sockets, requests, frames and readers, and any number of failures; and    *)
(* about TopicSelection, for any batch of comments.                          *)
(***************************************************************************)
EXTENDS Conversation, TLAPS, FiniteSetTheorems, SequenceTheorems

(* Ids whose append is over, and those of them that stand for a viewer's        *)
(* message: nobody else's row has such an id.                                 *)
Kept == DOMAIN table \cup unrecorded
Chatted(i) == IF i \in DOMAIN table THEN table[i] = Chat ELSE i \in unrecorded

IsMessage(c) == kind[doing[c].frame] = "message"

(* The message of c has drawn its id and waits for its append.                  *)
Unwritten(c) == doing[c].call = "record" /\ IsMessage(c)

OwnId(c) ==
    /\ Unwritten(c) => doing[c].id \in 1..lastId /\ doing[c].id \notin Kept
    /\ doing[c].call \in {"charge", "record"} /\ ~IsMessage(c) => doing[c].id = 0
    /\ doing[c].call \in {"show", "offer", "request"} =>
        doing[c].id \in Kept /\ (IsMessage(c) => Chatted(doing[c].id))

IdsInv ==
    /\ \A c \in Clients : OwnId(c)
    /\ \A c, d \in Clients : c # d /\ Unwritten(c) /\ Unwritten(d) => doing[c].id # doing[d].id
    /\ \A i \in DOMAIN buffer : Chatted(buffer[i].id)
    /\ \A i \in DOMAIN asked :
        /\ asked[i].repliedTo # NoReply => Chatted(asked[i].repliedTo)
        /\ asked[i].stage \in {"recorded", "said"} => asked[i].id \in Kept
    /\ HeardIsReadable
    /\ ReplyPointsBack

Heard(f) == \E i \in DOMAIN aired : aired[i].frame = f /\ aired[i].kind # "reply"
Requested(f) == \E i \in DOMAIN asked : asked[i].frame = f
Paid(f) == paidIn[f] # "unpaid"

(* What a superchat has behind it at each call of its handler.                  *)
InOrder(c) ==
    /\ doing[c].call \in {"record", "show", "request"} /\ ~IsMessage(c) => Paid(doing[c].frame)
    /\ doing[c].call \in {"offer", "request"} => Heard(doing[c].frame)
    /\ conn[c] \in {"admitted", "on"} => room # "pending"

OrderInv ==
    /\ \A c \in Clients : InOrder(c)
    /\ \A i \in DOMAIN buffer : Heard(buffer[i].frame)
    /\ \A i \in DOMAIN asked : Heard(asked[i].frame)
    /\ \A i \in DOMAIN aired :
        aired[i].kind = "reply" \/
            (aired[i].kind = kind[aired[i].frame] /\ (aired[i].kind = "superchat" => Paid(aired[i].frame)))
    /\ \A i \in DOMAIN aired : aired[i].kind = "reply" =>
        \E j \in 1..(i - 1) : aired[j].frame = aired[i].frame /\ aired[j].kind # "reply"
    /\ \A f \in Frames : Paid(f) => kind[f] = "superchat" /\ paidIn[f] # "pending"

(* A superchat that is paid is on its way, or it was shown and thanks are asked. *)
Underway(f) == doing[sender[f]].frame = f /\ doing[sender[f]].call # "charge"
Served(f) == Heard(f) /\ Requested(f)
ShownInv == failures = 0 => \A f \in Frames : Paid(f) => Underway(f) \/ Served(f)

(* Where a reader is: what it has got lies at or above its cursor, what it has   *)
(* still to get below.                                                       *)
PageFits(r) ==
    /\ ~page[r].twice
    /\ page[r].at = "new" => page[r] = NewPage
    /\ page[r].at = "next" =>
        /\ page[r].before # 0
        /\ \A i \in page[r].got : page[r].before <= i
        /\ \A i \in page[r].due : i < page[r].before
    /\ page[r].at = "end" /\ page[r].limit \in 1..MaxPageSize => page[r].due = {}
PagesInv == \A r \in Readers : PageFits(r)

ConversationInv ==
    /\ ConversationTypeOK
    /\ IdsInv
    /\ OrderInv
    /\ ShownInv
    /\ EchoReaches

-----------------------------------------------------------------------------
(* Facts about ids: sets of numbers up to lastId.                             *)

(* Induction over the naturals as a least counterexample.                      *)
LEMMA HasLeast ==
    ASSUME NEW S \in SUBSET Nat, S # {}
    PROVE  \E m \in S : \A i \in S : m <= i
<1> DEFINE R == {ss \in Nat \X Nat : ss[1] < ss[2]}
<1>1. OpToRel(<, Nat) = R
    BY Zenon DEF OpToRel
<1>2. IsWellFoundedOn(R, Nat)
    BY <1>1, NatLessThanWellFounded
<1> HIDE DEF R
<1>3. PICK m \in S : \A i \in S : ~(<<i, m>> \in R)
    BY <1>2, WFMin
<1>4. \A i, k \in Nat : i < k => <<i, k>> \in R
    BY DEF R
<1>5. ASSUME NEW i \in S PROVE m <= i
    <2>1. i \in Nat /\ m \in Nat
        OBVIOUS
    <2>2. ~(i < m)
        BY <1>3, <1>4, <2>1
    <2> QED BY <2>1, <2>2
<1> QED BY <1>5

(* Min returns the least member, and a set of numbers up to n has a greatest.   *)
LEMMA MinIsLeast ==
    ASSUME NEW S \in SUBSET Nat, S # {}
    PROVE  Min(S) \in S /\ \A i \in S : Min(S) <= i
BY HasLeast DEF Min

LEMMA HasGreatest ==
    ASSUME NEW n \in Nat, NEW S \in SUBSET (1..n), S # {}
    PROVE  \E m \in S : \A i \in S : i <= m
<1> DEFINE T == {k \in Nat : n - k \in S}
<1>1. T # {}
    <2>1. PICK i \in S : i \in 1..n
        OBVIOUS
    <2>2. n - i \in Nat /\ n - (n - i) = i
        BY <2>1
    <2> QED BY <2>1, <2>2
<1>2. PICK k \in T : \A j \in T : k <= j
    BY <1>1, HasLeast
<1>3. n - k \in S /\ k \in Nat
    BY <1>2
<1>4. ASSUME NEW i \in S PROVE i <= n - k
    <2>1. i \in 1..n /\ n - i \in Nat /\ n - (n - i) = i
        OBVIOUS
    <2>2. k <= n - i
        BY <1>2, <2>1
    <2> QED BY <1>3, <2>1, <2>2
<1> QED BY <1>3, <1>4

(* The newest ids of R: all of R if they are fewer than the limit, and else as   *)
(* many, each above all the others.                                          *)
LEMMA NewestOfAll ==
    ASSUME NEW n \in Nat, NEW R \in SUBSET (1..n), NEW limit \in Nat \ {0},
           NEW T \in SUBSET R, \A i \in R : i \in T <=> Cardinality({j \in R : j > i}) < limit
    PROVE  /\ \A i \in R \ T : \A k \in T : i < k
           /\ Cardinality(T) # limit => R = T
           /\ Cardinality(T) = limit => T # {}
<1> DEFINE Above(i) == {j \in R : j > i}
<1>1. \A S \in SUBSET R : IsFiniteSet(S) /\ Cardinality(S) \in Nat
    <2>1. IsFiniteSet(1..n)
        BY FS_Interval
    <2> QED BY <2>1, FS_Subset, FS_CardinalityType
<1>2. \A S, U \in SUBSET R : S \subseteq U => Cardinality(S) <= Cardinality(U)
    BY <1>1, FS_Subset
<1>3. ASSUME NEW i \in R \ T, NEW k \in T PROVE i < k
    <2> SUFFICES ASSUME ~(i < k) PROVE FALSE
        OBVIOUS
    <2>1. i \in Nat /\ k \in Nat /\ i # k /\ i \in R /\ k \in R
        OBVIOUS
    <2>2. Above(i) \subseteq Above(k)
        <3>1. \A j \in R : j \in Nat
            OBVIOUS
        <3>2. \A j \in R : j > i => j > k
            BY <2>1, <3>1
        <3> QED BY <3>2
    <2>3. Cardinality(Above(i)) <= Cardinality(Above(k))
        BY <1>2, <2>2
    <2>4. Cardinality(Above(k)) < limit /\ ~(Cardinality(Above(i)) < limit)
        OBVIOUS
    <2>5. Cardinality(Above(i)) \in Nat /\ Cardinality(Above(k)) \in Nat
        BY <1>1
    <2> QED BY <2>3, <2>4, <2>5
<1>4. ASSUME R # T PROVE Cardinality(T) = limit
    <2>1. R \ T \in SUBSET (1..n) /\ R \ T # {}
        BY <1>4
    <2>2. PICK i \in R \ T : \A j \in R \ T : j <= i
        BY <2>1, HasGreatest
    <2> DEFINE A == Above(i)
    <2>3. A = T
        <3>1. \A j \in R : j \in Nat
            OBVIOUS
        <3>2. \A j \in R : j > i => j \in T
            BY <2>2, <3>1
        <3>3. \A j \in T : j > i
            BY <1>3, <2>2, <3>1
        <3> QED BY <3>2, <3>3
    <2>4. Cardinality(T) \in Nat /\ ~(Cardinality(T) < limit)
        <3>1. ~(Cardinality(A) < limit)
            OBVIOUS
        <3> HIDE DEF A
        <3>2. Cardinality(T) \in Nat
            BY <1>1
        <3> QED BY <2>3, <3>1, <3>2
    <2>5. T # {}
        <3> SUFFICES ASSUME T = {} PROVE FALSE
            OBVIOUS
        <3>1. Cardinality(T) = 0
            BY FS_EmptySet
        <3> QED BY <2>4, <3>1
    <2>6. PICK m \in T : \A k \in T : m <= k
        <3>1. T \in SUBSET Nat
            BY SMT
        <3> QED BY <2>5, <3>1, HasLeast
    <2>7. T = Above(m) \cup {m} /\ m \notin Above(m)
        <3>1. m \in Nat /\ m \in R /\ \A j \in R : j \in Nat
            OBVIOUS
        <3>2. \A j \in R : j > m => j \in T
            <4>1. \A j \in R \ T : j < m
                BY <1>3
            <4> QED BY <3>1, <4>1
        <3>3. \A k \in T : k = m \/ k > m
            BY <2>6, <3>1
        <3>4. T \subseteq Above(m) \cup {m}
            BY <3>3
        <3>5. ~(m > m)
            BY <3>1
        <3>6. Above(m) \cup {m} \subseteq T /\ m \notin Above(m)
            BY <3>2, <3>5
        <3> QED BY <3>4, <3>6
    <2>8. Cardinality(T) = Cardinality(Above(m)) + 1
        BY <1>1, <2>7, FS_AddElement
    <2>9. Cardinality(Above(m)) < limit /\ Cardinality(Above(m)) \in Nat
        BY <1>1, <2>6
    <2> QED BY <2>4, <2>8, <2>9
<1>5. Cardinality(T) = limit => T # {}
    BY FS_EmptySet
<1> QED BY <1>3, <1>4, <1>5

-----------------------------------------------------------------------------
(* The pages.                                                               *)

LEMMA PageType ==
    ASSUME TranscriptTypeOK, NEW r \in Readers, NEW limit \in Limits,
           ReadPage(r, limit)
    PROVE  TranscriptTypeOK'
<1> DEFINE rows == ListRecent(page[r].before, Capped(limit))
           full == Cardinality(rows) = limit
<1>1. rows \subseteq DOMAIN table /\ DOMAIN table \subseteq 1..lastId /\ lastId \in Nat
    BY DEF TranscriptTypeOK, ListRecent
<1>2. full => Min(rows) \in 1..lastId
    <2>1. full => rows # {}
        BY DEF ReadPage
    <2>2. rows \in SUBSET Nat
        BY <1>1
    <2> QED BY <1>1, <2>1, <2>2, MinIsLeast
<1>3. page' = [page EXCEPT
            ![r] = [at |-> IF full THEN "next" ELSE "end",
                    before |-> IF full THEN Min(rows) ELSE 0,
                    limit |-> limit,
                    got |-> IF full THEN @.got \cup rows ELSE {},
                    twice |-> @.twice \/ rows \cap @.got # {},
                    due |-> (IF @.at = "new" THEN DOMAIN table ELSE @.due) \ rows]]
      /\ UNCHANGED <<lastId, table, unrecorded>>
    BY DEF ReadPage, recordVars
<1> HIDE DEF rows, full
<1>4. page' \in [Readers -> [at : {"new", "next", "end"}, before : Nat,
                            limit : Limits \cup {0}, got : SUBSET (DOMAIN table), twice : BOOLEAN,
                            due : SUBSET (DOMAIN table)]]
    BY <1>1, <1>2, <1>3 DEF TranscriptTypeOK
<1> QED BY <1>3, <1>4 DEF TranscriptTypeOK

(* A full page ends at its oldest id, everything that is still due is below it;  *)
(* a page that is not full leaves nothing, if the repository kept to its limit.  *)
LEMMA PageKeeps ==
    ASSUME TranscriptTypeOK, PagesInv, NEW r \in Readers, NEW limit \in Limits,
           ReadPage(r, limit)
    PROVE  PagesInv'
<1> DEFINE before == page[r].before
           R == {i \in DOMAIN table : Before(i, before)}
           size == Capped(limit)
           T == ListRecent(before, size)
           due == IF page[r].at = "new" THEN DOMAIN table ELSE page[r].due
           full == Cardinality(T) = limit
<1>1. /\ DOMAIN table \subseteq 1..lastId /\ lastId \in Nat
      /\ page \in [Readers -> [at : {"new", "next", "end"}, before : Nat,
                            limit : Limits \cup {0}, got : SUBSET (DOMAIN table), twice : BOOLEAN,
                            due : SUBSET (DOMAIN table)]]
      /\ PageFits(r) /\ page[r].at # "end"
    BY DEF TranscriptTypeOK, PagesInv, ReadPage
<1>2. /\ size \in Nat \ {0} /\ limit \in Int /\ MaxPageSize \in Nat \ {0}
      /\ limit \in 1..MaxPageSize => size = limit
    BY TranscriptAssumption DEF Capped
<1> HIDE DEF size
<1>3. /\ R \in SUBSET (1..lastId) /\ T \in SUBSET R
      /\ \A i \in R : i \in T <=> Cardinality({j \in R : j > i}) < size
    BY <1>1 DEF ListRecent
<1>4. /\ due \subseteq R
      /\ \A i \in R : \A g \in page[r].got : i < g
    BY <1>1 DEF PageFits, Before, NewPage
<1>5. /\ page'[r].at = IF full THEN "next" ELSE "end"
      /\ page'[r].before = IF full THEN Min(T) ELSE 0
      /\ page'[r].limit = limit
      /\ page'[r].got = IF full THEN page[r].got \cup T ELSE {}
      /\ page'[r].twice = (page[r].twice \/ T \cap page[r].got # {})
      /\ page'[r].due = due \ T
      /\ \A q \in Readers \ {r} : page'[q] = page[q]
      /\ full => T # {}
    BY <1>1 DEF ReadPage, size
<1> HIDE DEF R, T, due, full
<1>6. /\ \A i \in R \ T : \A k \in T : i < k
      /\ ~full /\ limit \in 1..MaxPageSize => R = T
      /\ full => T # {}
    <2>1. /\ \A i \in R \ T : \A k \in T : i < k
          /\ Cardinality(T) # size => R = T
        <3>1. PICK n \in Nat : n = lastId
            BY <1>1
        <3>2. PICK most \in Nat \ {0} : most = size
            BY <1>2
        <3>3. /\ R \in SUBSET (1..n) /\ T \in SUBSET R
              /\ \A i \in R : i \in T <=> Cardinality({j \in R : j > i}) < most
            BY <1>3, <3>1, <3>2
        <3>4. /\ \A i \in R \ T : \A k \in T : i < k
              /\ Cardinality(T) # most => R = T
              /\ Cardinality(T) = most => T # {}
            BY <3>3, NewestOfAll
        <3> QED BY <3>2, <3>4
    <2> QED BY <1>2, <1>5, <2>1 DEF full
<1>7. full => Min(T) \in T /\ \A i \in T : Min(T) <= i
    <2>1. T \in SUBSET Nat
        BY <1>1, <1>3
    <2> QED BY <1>6, <2>1, MinIsLeast
<1>8. ~page'[r].twice
    <2>1. T \cap page[r].got = {}
        <3>1. \A i \in R : i \in Nat /\ ~(i < i)
            BY <1>1, <1>3
        <3> QED BY <1>3, <1>4, <3>1
    <2> QED BY <1>1, <1>5, <2>1 DEF PageFits
<1>9. CASE full
    <2>1. page'[r].at = "next" /\ page'[r].before = Min(T)
        BY <1>5, <1>9
    <2>2. Min(T) # 0
        BY <1>3, <1>7, <1>9
    <2>3. \A i \in page'[r].got : Min(T) <= i
        <3>1. \A g \in page[r].got : Min(T) <= g
            <4>1. page[r].got \subseteq Nat /\ Min(T) \in Nat /\ Min(T) \in R
                <5>1. page[r].got \subseteq DOMAIN table
                    BY <1>1
                <5>2. DOMAIN table \subseteq Nat
                    BY <1>1
                <5>3. Min(T) \in R
                    BY <1>3, <1>7, <1>9
                <5>4. R \subseteq Nat
                    BY <1>1, <1>3
                <5> QED BY <5>1, <5>2, <5>3, <5>4
            <4>2. \A g \in page[r].got : Min(T) < g
                BY <1>4, <4>1
            <4> QED BY <4>1, <4>2
        <3> QED BY <1>5, <1>7, <1>9, <3>1
    <2>4. \A i \in page'[r].due : i < Min(T)
        BY <1>4, <1>5, <1>6, <1>7, <1>9
    <2>5. PageFits(r)'
        BY <1>8, <2>1, <2>2, <2>3, <2>4 DEF PageFits
    <2> QED BY <1>5, <2>5 DEF PagesInv, PageFits
<1>10. CASE ~full
    <2>1. /\ page'[r].at = "end" /\ page'[r].limit = limit
          /\ limit \in 1..MaxPageSize => page'[r].due = {}
        BY <1>4, <1>5, <1>6, <1>10
    <2>2. PageFits(r)'
        BY <1>8, <2>1 DEF PageFits
    <2> QED BY <1>5, <2>2 DEF PagesInv, PageFits
<1> QED BY <1>9, <1>10

-----------------------------------------------------------------------------
(* The handler.                                                             *)

After(c) ==
    IF doing[c].call = "charge" THEN "record"
    ELSE IF doing[c].call = "record" THEN "show"
    ELSE IF IsMessage(c) THEN "offer" ELSE "request"

FrameCalls(c) == IF IsMessage(c) THEN {"record", "show", "offer"}
                                 ELSE {"charge", "record", "show", "request"}

LEMMA CallsOf ==
    /\ ToSet(Order("message")) = {"record", "show", "offer"}
    /\ ToSet(Order("superchat")) = {"charge", "record", "show", "request"}
    /\ Head(Order("message")) = "record" /\ Head(Order("superchat")) = "charge"
<1>1. Order("message") = <<"record", "show", "offer">>
    BY DEF Order
<1>2. Order("superchat") = <<"charge", "record", "show", "request">>
    BY DEF Order
<1>3. DOMAIN Order("message") = 1..3 /\ DOMAIN Order("superchat") = 1..4
    BY <1>1, <1>2
<1>4. 1..3 = {1, 2, 3} /\ 1..4 = {1, 2, 3, 4}
    OBVIOUS
<1> QED BY <1>1, <1>2, <1>3, <1>4 DEF ToSet

(* What the type says of a connection that has a frame in hand.                  *)
LEMMA InHand ==
    ASSUME ConversationTypeOK, NEW c \in Clients, doing[c].frame # NoFrame
    PROVE  /\ doing[c].frame \in Frames /\ kind[doing[c].frame] \in {"message", "superchat"}
           /\ conn[c] = "on" /\ sender[doing[c].frame] = c /\ doing[c].frame \notin over
           /\ doing[c].call \in FrameCalls(c)
<1>1. doing[c].frame \in Frames
    BY DEF ConversationTypeOK
<1>2. kind[doing[c].frame] \in {"message", "superchat"}
    BY <1>1, ConversationAssumption
<1>3. doing[c].call \in FrameCalls(c)
    BY <1>2, CallsOf DEF ConversationTypeOK, FrameCalls, IsMessage
<1> QED BY <1>1, <1>2, <1>3 DEF ConversationTypeOK

(* The call after the last one is none: the frame is over.                      *)
LEMMA OnwardMoves ==
    ASSUME ConversationTypeOK, NEW c \in Clients, doing[c].frame # NoFrame, NEW id, Onward(c, id)
    PROVE  \/ /\ doing[c].call \in {"offer", "request"}
              /\ Done(c)
           \/ /\ doing[c].call \in {"charge", "record", "show"}
              /\ doing' = [doing EXCEPT ![c] = [frame |-> doing[c].frame, call |-> After(c), id |-> id]]
              /\ UNCHANGED <<conn, joined, over>>
<1> DEFINE order == Order(kind[doing[c].frame])
<1>1. doing \in [Clients -> [frame : Frames \cup {NoFrame}, call : Calls, id : Nat]]
    BY DEF ConversationTypeOK
<1>2. PICK i \in DOMAIN order :
        /\ order[i] = doing[c].call
        /\ IF i = Len(order)
           THEN Done(c)
           ELSE /\ doing' = [doing EXCEPT ![c] =
                                [frame |-> @.frame, call |-> order[i + 1], id |-> id]]
                /\ UNCHANGED <<conn, joined, over>>
    BY DEF Onward
<1>3. ASSUME NEW next, doing' = [doing EXCEPT ![c] = [frame |-> @.frame, call |-> next, id |-> id]]
      PROVE  doing' = [doing EXCEPT ![c] = [frame |-> doing[c].frame, call |-> next, id |-> id]]
    BY <1>3
<1>4. CASE kind[doing[c].frame] = "message"
    <2>1. order = <<"record", "show", "offer">>
        BY <1>4 DEF Order
    <2>2. i \in 1..3 /\ Len(order) = 3
        BY <1>2, <2>1
    <2>3. CASE i = 3
        BY <1>2, <2>1, <2>2, <2>3
    <2>4. CASE i = 1
        <3>1. doing[c].call = "record" /\ order[i + 1] = "show" /\ After(c) = "show"
            BY <1>2, <2>1, <2>4 DEF After
        <3> QED BY <1>2, <1>3, <2>2, <2>4, <3>1
    <2>5. CASE i = 2
        <3>1. doing[c].call = "show" /\ order[i + 1] = "offer" /\ After(c) = "offer"
            BY <1>2, <1>4, <2>1, <2>5 DEF After, IsMessage
        <3> QED BY <1>2, <1>3, <2>2, <2>5, <3>1
    <2> QED BY <2>2, <2>3, <2>4, <2>5
<1>5. CASE kind[doing[c].frame] = "superchat"
    <2>1. order = <<"charge", "record", "show", "request">>
        BY <1>5 DEF Order
    <2>2. i \in 1..4 /\ Len(order) = 4
        BY <1>2, <2>1
    <2>3. CASE i = 4
        BY <1>2, <2>1, <2>2, <2>3
    <2>4. CASE i = 1
        <3>1. doing[c].call = "charge" /\ order[i + 1] = "record" /\ After(c) = "record"
            BY <1>2, <2>1, <2>4 DEF After
        <3> QED BY <1>2, <1>3, <2>2, <2>4, <3>1
    <2>5. CASE i = 2
        <3>1. doing[c].call = "record" /\ order[i + 1] = "show" /\ After(c) = "show"
            BY <1>2, <2>1, <2>5 DEF After
        <3> QED BY <1>2, <1>3, <2>2, <2>5, <3>1
    <2>6. CASE i = 3
        <3>1. doing[c].call = "show" /\ order[i + 1] = "request" /\ After(c) = "request"
            BY <1>2, <1>5, <2>1, <2>6 DEF After, IsMessage
        <3> QED BY <1>2, <1>3, <2>2, <2>6, <3>1
    <2> QED BY <2>2, <2>3, <2>4, <2>5, <2>6
<1> QED BY <1>4, <1>5, InHand

-----------------------------------------------------------------------------
(* Types.                                                                   *)

(* The client whose turn it is, and what becomes of its frame.                   *)
Others(c) ==
    /\ doing' \in [Clients -> [frame : Frames \cup {NoFrame}, call : Calls, id : Nat]]
    /\ conn' \in [Clients -> {"out", "greeting", "known", "admitted", "on", "over"}]
    /\ joined' \in [Clients -> Nat] /\ broken' \subseteq Clients
    /\ \A d \in Clients \ {c} :
        doing'[d] = doing[d] /\ conn'[d] = conn[d] /\ joined'[d] = joined[d]

HandledFrame(c) ==
    \/ /\ doing'[c] = Nothing /\ over' = over \cup {doing[c].frame}
       /\ doing[c].call \in {"charge", "offer", "request"}
    \/ /\ doing'[c].frame = doing[c].frame /\ doing'[c].call = After(c) /\ conn'[c] = "on"
       /\ joined'[c] = joined[c] /\ UNCHANGED over
       /\ doing[c].call \in {"charge", "record", "show"}

LEMMA OnwardType ==
    ASSUME ConversationTypeOK, NEW c \in Clients, doing[c].frame # NoFrame, NEW id \in Nat,
           Onward(c, id), broken' \subseteq Clients
    PROVE  /\ Others(c) /\ HandledFrame(c)
           /\ doing'[c] # Nothing => doing'[c].id = id
<1>1. /\ doing \in [Clients -> [frame : Frames \cup {NoFrame}, call : Calls, id : Nat]]
      /\ conn \in [Clients -> {"out", "greeting", "known", "admitted", "on", "over"}]
      /\ joined \in [Clients -> Nat] /\ broken \subseteq Clients
    BY DEF ConversationTypeOK
<1>2. Nothing \in [frame : Frames \cup {NoFrame}, call : Calls, id : Nat]
    BY DEF Nothing, Calls
<1>3. CASE Done(c) /\ doing[c].call \in {"offer", "request"}
    BY <1>1, <1>2, <1>3 DEF Done, Others, HandledFrame
<1>4. CASE /\ doing[c].call \in {"charge", "record", "show"}
           /\ doing' = [doing EXCEPT ![c] = [frame |-> doing[c].frame, call |-> After(c), id |-> id]]
           /\ UNCHANGED <<conn, joined, over>>
    <2>1. After(c) \in Calls
        BY DEF After, Calls
    <2>2. [frame |-> doing[c].frame, call |-> After(c), id |-> id]
            \in [frame : Frames \cup {NoFrame}, call : Calls, id : Nat]
        BY <1>1, <2>1
    <2>3. conn[c] = "on"
        BY InHand
    <2> HIDE DEF After, Calls
    <2> QED BY <1>1, <1>4, <2>2, <2>3 DEF Others, HandledFrame
<1> QED BY <1>3, <1>4, OnwardMoves

ClientOK(c) ==
    /\ joined[c] <= Len(aired)
    /\ IF doing[c].frame = NoFrame THEN doing[c] = Nothing
       ELSE /\ conn[c] = "on" /\ sender[doing[c].frame] = c /\ doing[c].frame \notin over
            /\ doing[c].call \in ToSet(Order(kind[doing[c].frame]))

(* The room's events are added to, one at a time.                               *)
Events == [kind : {"message", "superchat", "reply"}, frame : Frames, id : Nat]
AiredKept ==
    \/ UNCHANGED aired
    \/ \E e \in Events : aired' = Append(aired, e)

LEMMA AiredGrows ==
    ASSUME ConversationTypeOK, AiredKept
    PROVE  /\ aired' \in Seq(Events) /\ Len(aired) \in Nat /\ Len(aired') \in Nat
           /\ Len(aired) <= Len(aired')
           /\ \A i \in DOMAIN aired : i \in DOMAIN aired' /\ aired'[i] = aired[i]
<1>1. aired \in Seq(Events)
    BY DEF ConversationTypeOK, Events
<1>2. CASE UNCHANGED aired
    BY <1>1, <1>2
<1>3. ASSUME NEW e \in Events, aired' = Append(aired, e)
      PROVE  /\ aired' \in Seq(Events) /\ Len(aired) \in Nat /\ Len(aired') \in Nat
             /\ Len(aired) <= Len(aired')
             /\ \A i \in DOMAIN aired : i \in DOMAIN aired' /\ aired'[i] = aired[i]
    <2> HIDE DEF Events
    <2> QED BY <1>1, <1>3
<1> QED BY <1>2, <1>3 DEF AiredKept

LEMMA OnwardFrame ==
    ASSUME ConversationTypeOK, NEW c \in Clients, doing[c].frame # NoFrame, HandledFrame(c)
    PROVE  /\ doing'[c].frame = NoFrame => doing'[c] = Nothing
           /\ doing'[c].frame # NoFrame =>
                /\ conn'[c] = "on" /\ sender[doing'[c].frame] = c /\ doing'[c].frame \notin over'
                /\ doing'[c].call \in ToSet(Order(kind[doing'[c].frame]))
           /\ over \subseteq over' /\ over' \subseteq Frames
           /\ \A f \in over' \ over : sender[f] = c
<1>1. /\ doing[c].frame \in Frames /\ kind[doing[c].frame] \in {"message", "superchat"}
      /\ conn[c] = "on" /\ sender[doing[c].frame] = c /\ doing[c].frame \notin over
      /\ doing[c].call \in FrameCalls(c) /\ over \subseteq Frames
    BY InHand DEF ConversationTypeOK
<1>2. CASE doing'[c] = Nothing /\ over' = over \cup {doing[c].frame}
    BY <1>1, <1>2 DEF Nothing
<1>3. CASE /\ doing'[c].frame = doing[c].frame /\ doing'[c].call = After(c) /\ conn'[c] = "on"
           /\ UNCHANGED over /\ doing[c].call \in {"charge", "record", "show"}
    <2>1. After(c) \in ToSet(Order(kind[doing[c].frame]))
        BY <1>1, <1>3, CallsOf DEF After, FrameCalls, IsMessage
    <2> HIDE DEF After
    <2> QED BY <1>1, <1>3, <2>1
<1> QED BY <1>2, <1>3 DEF HandledFrame

ClientStep(c) == Connect(c) \/ Handle(c) \/ Leave(c) \/ BreakOff(c)

(* What every step of a client does to the rest.                                *)
Moves(c) ==
    /\ Others(c) /\ AiredKept
    /\ over \subseteq over' /\ over' \subseteq Frames /\ \A f \in over' \ over : sender[f] = c
    /\ joined'[c] <= Len(aired')
    /\ doing'[c].frame = NoFrame => doing'[c] = Nothing
    /\ doing'[c].frame # NoFrame =>
        /\ conn'[c] = "on" /\ sender[doing'[c].frame] = c /\ doing'[c].frame \notin over'
        /\ doing'[c].call \in ToSet(Order(kind[doing'[c].frame]))

LEMMA ConnectMoves ==
    ASSUME ConversationTypeOK, NEW c \in Clients, Connect(c)
    PROVE  Moves(c) /\ doing'[c] = Nothing /\ doing[c] = Nothing
<1> USE DEF streamVars
<1>1. /\ doing \in [Clients -> [frame : Frames \cup {NoFrame}, call : Calls, id : Nat]]
      /\ conn \in [Clients -> {"out", "greeting", "known", "admitted", "on", "over"}]
      /\ joined \in [Clients -> Nat] /\ broken \subseteq Clients
      /\ Len(aired) \in Nat /\ joined[c] <= Len(aired) /\ over \subseteq Frames
      /\ doing[c].frame = NoFrame => doing[c] = Nothing
    BY DEF ConversationTypeOK
<1>2. conn[c] # "on"
    BY DEF Connect, Accept, Authenticate, EnsureOpen, Subscribe
<1>3. doing[c] = Nothing /\ doing[c].frame = NoFrame
    BY <1>1, <1>2, InHand DEF Nothing
<1>4. CASE Accept(c) \/ Authenticate(c) \/ EnsureOpen(c)
    BY <1>1, <1>3, <1>4
       DEF Accept, Authenticate, EnsureOpen, Goto, Moves, Others, AiredKept
<1>5. CASE Subscribe(c)
    BY <1>1, <1>3, <1>5 DEF Subscribe, Goto, Moves, Others, AiredKept
<1> QED BY <1>4, <1>5 DEF Connect

LEMMA EventInHand ==
    ASSUME ConversationTypeOK, NEW c \in Clients, doing[c].frame # NoFrame
    PROVE  Event(c) \in Events /\ Event(c).kind = kind[doing[c].frame]
           /\ Event(c).frame = doing[c].frame /\ Event(c).id = doing[c].id
BY InHand DEF Event, Events, ConversationTypeOK

LEMMA ClosedMoves ==
    ASSUME ConversationTypeOK, NEW c \in Clients, doing[c].frame # NoFrame \/ doing[c] = Nothing,
           Closed(c), AiredKept, over \subseteq over', over' \subseteq Frames,
           \A f \in over' \ over : sender[f] = c
    PROVE  Moves(c) /\ doing'[c] = Nothing
<1>1. /\ doing \in [Clients -> [frame : Frames \cup {NoFrame}, call : Calls, id : Nat]]
      /\ conn \in [Clients -> {"out", "greeting", "known", "admitted", "on", "over"}]
      /\ joined \in [Clients -> Nat] /\ broken \subseteq Clients
    BY DEF ConversationTypeOK
<1>2. Nothing \in [frame : Frames \cup {NoFrame}, call : Calls, id : Nat] /\ Nothing.frame = NoFrame
    BY DEF Nothing, Calls
<1>3. doing'[c] = Nothing /\ joined'[c] = 0 /\ Len(aired') \in Nat
    BY <1>1, AiredGrows DEF Closed
<1>4. Others(c)
    BY <1>1, <1>2 DEF Closed, Goto, Others
<1> QED BY <1>2, <1>3, <1>4 DEF Moves

LEMMA ReceiveMoves ==
    ASSUME ConversationTypeOK, NEW c \in Clients, NEW f \in Frames, Receive(c, f)
    PROVE  /\ Moves(c) /\ doing[c] = Nothing
           /\ doing'[c] = Nothing
              \/ (doing'[c].frame = f /\ f \notin over
                  /\ IF kind[f] = "message" THEN doing'[c].call = "record" /\ doing'[c].id = lastId + 1
                                                /\ lastId' = lastId + 1
                     ELSE doing'[c].call = "charge" /\ doing'[c].id = 0 /\ lastId' = lastId)
           /\ doing'[c] = Nothing => lastId' = lastId
<1> USE DEF streamVars
<1>1. /\ doing \in [Clients -> [frame : Frames \cup {NoFrame}, call : Calls, id : Nat]]
      /\ conn \in [Clients -> {"out", "greeting", "known", "admitted", "on", "over"}]
      /\ joined \in [Clients -> Nat] /\ broken \subseteq Clients /\ conn[c] = "on"
      /\ Len(aired) \in Nat /\ joined[c] <= Len(aired) /\ over \subseteq Frames /\ lastId \in Nat
    BY DEF ConversationTypeOK, TranscriptTypeOK, Receive
<1>2. /\ doing[c] = Nothing /\ sender[f] = c /\ f \notin over /\ f # NoFrame
      /\ kind[f] \in {"message", "superchat"} /\ Nothing.frame = NoFrame
    BY ConversationAssumption DEF Receive, Nothing
<1>3. CASE kind[f] = "message" /\ ~fit[f]
    BY <1>1, <1>2, <1>3 DEF Receive, Moves, Others, AiredKept
<1>4. CASE ~(kind[f] = "message" /\ ~fit[f])
    <2> DEFINE id == IF kind[f] = "message" THEN lastId + 1 ELSE 0
               new == [frame |-> f, call |-> Head(Order(kind[f])), id |-> id]
    <2>1. /\ doing' = [doing EXCEPT ![c] = new]
          /\ lastId' = IF kind[f] = "message" THEN id ELSE lastId
          /\ UNCHANGED <<over, conn, broken, joined, aired>>
        BY <1>4 DEF Receive
    <2>2. /\ Head(Order(kind[f])) = IF kind[f] = "message" THEN "record" ELSE "charge"
          /\ Head(Order(kind[f])) \in ToSet(Order(kind[f]))
        BY <1>2, CallsOf
    <2>3. new \in [frame : Frames \cup {NoFrame}, call : Calls, id : Nat]
        BY <1>1, <2>2 DEF Calls
    <2>4. Others(c) /\ doing'[c] = new /\ AiredKept
        BY <1>1, <2>1, <2>3 DEF Others, AiredKept
    <2>5. new.frame = f /\ new.id = id /\ new.call = Head(Order(kind[f]))
        OBVIOUS
    <2> HIDE DEF new
    <2> QED BY <1>1, <1>2, <2>1, <2>2, <2>4, <2>5 DEF Moves
<1> QED BY <1>3, <1>4

LEMMA AtFrame ==
    ASSUME ConversationTypeOK, NEW c \in Clients, NEW call, At(c, call), call # "none"
    PROVE  doing[c].frame # NoFrame
BY DEF ConversationTypeOK, At, Nothing

(* A call that is made, and the next one or the end.                            *)
LEMMA HandleMoves ==
    ASSUME ConversationTypeOK, NEW c \in Clients,
           Charge(c) \/ Record(c) \/ Show(c) \/ Offer(c) \/ RequestThanks(c)
    PROVE  Moves(c) /\ HandledFrame(c) /\ doing[c].frame # NoFrame
<1> USE DEF streamVars
<1>1. doing[c].frame # NoFrame
    BY AtFrame DEF Charge, Record, Show, Offer, RequestThanks
<1>2. /\ Len(aired) \in Nat /\ joined \in [Clients -> Nat] /\ joined[c] <= Len(aired)
      /\ broken \subseteq Clients /\ lastId \in Nat /\ doing[c].id \in Nat
    BY DEF ConversationTypeOK, TranscriptTypeOK
<1>3. ASSUME Others(c), HandledFrame(c), AiredKept, UNCHANGED joined
      PROVE  Moves(c)
    <2>1. joined'[c] <= Len(aired')
        BY <1>2, <1>3, AiredGrows
    <2> HIDE DEF HandledFrame
    <2> QED BY <1>1, <1>3, <2>1, OnwardFrame DEF Moves
<1>4. UNCHANGED joined
    <2>1. ASSUME NEW id, Onward(c, id) PROVE UNCHANGED joined
        BY <1>1, <2>1, OnwardMoves DEF Done
    <2> QED BY <2>1 DEF Charge, Done, Record, Show, Offer, RequestThanks
<1>5. CASE Charge(c)
    <2>1. AiredKept /\ UNCHANGED broken
        BY <1>5 DEF Charge, AiredKept
    <2>2. CASE Onward(c, 0)
        BY <1>1, <1>2, <1>3, <1>4, <2>1, <2>2, OnwardType
    <2>3. CASE Done(c) /\ doing[c].call = "charge"
        <3>1. /\ Nothing \in [frame : Frames \cup {NoFrame}, call : Calls, id : Nat]
              /\ doing \in [Clients -> [frame : Frames \cup {NoFrame}, call : Calls, id : Nat]]
              /\ conn \in [Clients -> {"out", "greeting", "known", "admitted", "on", "over"}]
            BY DEF Nothing, Calls, ConversationTypeOK
        <3>2. Others(c) /\ HandledFrame(c)
            BY <1>2, <2>1, <2>3, <3>1 DEF Done, Others, HandledFrame
        <3> QED BY <1>1, <1>3, <1>4, <2>1, <3>2
    <2> QED BY <1>5, <2>2, <2>3 DEF Charge, At
<1>6. CASE Record(c)
    <2>1. RowId(c) \in Nat /\ Onward(c, RowId(c)) /\ AiredKept
        BY <1>2, <1>6 DEF RowId, Record, AiredKept
    <2>2. Others(c) /\ HandledFrame(c)
        <3>1. broken' \subseteq Clients
            BY <1>2, <1>6 DEF Record
        <3> QED BY <1>1, <2>1, <3>1, OnwardType
    <2> QED BY <1>1, <1>3, <1>4, <2>1, <2>2
<1>7. CASE Show(c)
    <2>1. Onward(c, doing[c].id) /\ UNCHANGED broken /\ AiredKept
        BY <1>1, <1>7, EventInHand DEF Show, Air, AiredKept
    <2> QED BY <1>1, <1>2, <1>3, <1>4, <2>1, OnwardType
<1>8. CASE Offer(c) \/ RequestThanks(c)
    <2>1. Onward(c, doing[c].id) /\ UNCHANGED broken /\ AiredKept
        BY <1>8 DEF Offer, RequestThanks, AiredKept
    <2> QED BY <1>1, <1>2, <1>3, <1>4, <2>1, OnwardType
<1> QED BY <1>5, <1>6, <1>7, <1>8

LEMMA LeaveMoves ==
    ASSUME ConversationTypeOK, NEW c \in Clients, Leave(c) \/ ChargeRefused(c) \/ BreakOff(c)
    PROVE  Moves(c) /\ doing'[c] = Nothing
<1> USE DEF streamVars
<1>1. over \subseteq Frames /\ (doing[c].frame = NoFrame => doing[c] = Nothing)
    BY DEF ConversationTypeOK
<1>2. CASE Leave(c)
    BY <1>1, <1>2, ClosedMoves DEF Leave, AiredKept
<1>3. CASE ChargeRefused(c)
    BY <1>1, <1>3, AtFrame, ClosedMoves DEF ChargeRefused, AiredKept
<1>4. CASE BreakOff(c)
    <2>1. doing[c].frame # NoFrame /\ Closed(c)
        BY <1>4 DEF BreakOff
    <2>2. doing[c].frame \in Frames /\ sender[doing[c].frame] = c
        BY <2>1, InHand
    <2>3. over' = over \/ over' = over \cup {doing[c].frame}
        BY <1>4 DEF BreakOff
    <2>4. aired' = aired \/ aired' = Append(aired, Event(c))
        BY <1>4 DEF BreakOff, Air
    <2>5. AiredKept
        BY <2>1, <2>4, EventInHand DEF AiredKept
    <2> QED BY <1>1, <2>1, <2>2, <2>3, <2>5, ClosedMoves
<1> QED BY <1>2, <1>3, <1>4

(* The streams, item by item.                                                  *)
Candidates == [frame : Frames, id : Nat]
Requests == [frame : Frames, repliedTo : Nat, id : Nat,
             stage : {"asked", "recorded", "said", "silent"}]

LEMMA Streams ==
    ASSUME ConversationTypeOK
    PROVE  /\ aired \in Seq(Events) /\ buffer \in Seq(Candidates) /\ asked \in Seq(Requests)
           /\ \A i \in DOMAIN aired : aired[i] \in Events
           /\ \A i \in DOMAIN buffer : buffer[i] \in Candidates
           /\ \A i \in DOMAIN asked : asked[i] \in Requests
<1>1. aired \in Seq(Events) /\ buffer \in Seq(Candidates) /\ asked \in Seq(Requests)
    BY DEF ConversationTypeOK, Events, Candidates, Requests
<1> HIDE DEF Events, Candidates, Requests
<1> QED BY <1>1

(* One request goes on to another stage.                                        *)
LEMMA RequestMoves ==
    ASSUME ConversationTypeOK, NEW i \in DOMAIN asked, NEW stage \in {"recorded", "said", "silent"},
           NEW id \in Nat,
           \/ asked' = [asked EXCEPT ![i] = [@ EXCEPT !.stage = stage]] /\ id = asked[i].id
           \/ asked' = [asked EXCEPT ![i] = [frame |-> @.frame, repliedTo |-> @.repliedTo,
                                             id |-> id, stage |-> stage]]
    PROVE  /\ asked' \in Seq(Requests) /\ DOMAIN asked' = DOMAIN asked
           /\ \A j \in DOMAIN asked \ {i} : asked'[j] = asked[j]
           /\ asked'[i].frame = asked[i].frame /\ asked'[i].repliedTo = asked[i].repliedTo
           /\ asked'[i].stage = stage /\ asked'[i].id = id
<1>1. asked \in Seq(Requests) /\ asked[i] \in Requests
    BY Streams
<1> DEFINE new == [frame |-> asked[i].frame, repliedTo |-> asked[i].repliedTo, id |-> id,
                   stage |-> stage]
<1>2. asked' = [asked EXCEPT ![i] = new]
    <2>1. CASE asked' = [asked EXCEPT ![i] = [@ EXCEPT !.stage = stage]] /\ id = asked[i].id
        <3>1. [asked[i] EXCEPT !.stage = stage] = new
            BY <1>1, <2>1 DEF Requests
        <3> HIDE DEF new
        <3> QED BY <2>1, <3>1
    <2>2. CASE asked' = [asked EXCEPT ![i] = [frame |-> @.frame, repliedTo |-> @.repliedTo,
                                             id |-> id, stage |-> stage]]
        BY <2>2
    <2> QED BY <2>1, <2>2
<1>3. /\ new \in Requests /\ new.frame = asked[i].frame /\ new.repliedTo = asked[i].repliedTo
      /\ new.stage = stage /\ new.id = id
    BY <1>1 DEF Requests
<1> HIDE DEF new, Requests
<1>4. asked' \in Seq(Requests) /\ DOMAIN asked' = DOMAIN asked
    <2>1. Len(asked) \in Nat /\ asked \in [1..Len(asked) -> Requests] /\ DOMAIN asked = 1..Len(asked)
        BY <1>1
    <2>2. asked' \in [1..Len(asked) -> Requests]
        BY <1>2, <1>3, <2>1
    <2> QED BY <2>1, <2>2, SeqDef
<1> QED BY <1>1, <1>2, <1>3, <1>4

-----------------------------------------------------------------------------
(* The table.                                                               *)

NowChatted(i) == IF i \in DOMAIN table' THEN table'[i] = Chat ELSE i \in unrecorded'

(* An append, failed or not: nothing that was there changes.                    *)
Grown(id, row) ==
    /\ Kept' = Kept \cup {id}
    /\ \A j \in DOMAIN table : j \in DOMAIN table' /\ table'[j] = table[j]
    /\ DOMAIN table' \subseteq DOMAIN table \cup {id}
    /\ id \in DOMAIN table' => table'[id] = row
    /\ \A j \in Nat : Chatted(j) => Chatted(j)'
    /\ row = Chat => NowChatted(id)

LEMMA AppendKeeps ==
    ASSUME TranscriptTypeOK, NEW id \in Nat, id \notin Kept, NEW row,
           row \in {Chat, Tip} \cup {Said(to) : to \in 0..(id - 1)},
           lastId' \in Nat, id \in 1..lastId', lastId <= lastId',
           Recorded(id, row) \/ NotRecorded(id), UNCHANGED page
    PROVE  TranscriptTypeOK' /\ Grown(id, row)
<1>1. /\ lastId \in Nat /\ DOMAIN table \cup unrecorded \subseteq 1..lastId
      /\ page \in [Readers -> [at : {"new", "next", "end"}, before : Nat,
                             limit : Limits \cup {0}, got : SUBSET (DOMAIN table), twice : BOOLEAN,
                             due : SUBSET (DOMAIN table)]]
    BY DEF TranscriptTypeOK
<1>2. 1..lastId \subseteq 1..lastId'
    BY <1>1
<1>3. CASE Recorded(id, row)
    <2>1. /\ DOMAIN table' = DOMAIN table \cup {id} /\ table'[id] = row
          /\ \A j \in DOMAIN table : table'[j] = table[j]
          /\ unrecorded' = unrecorded
        BY <1>3 DEF Recorded, Commit, Kept
    <2>2. Grown(id, row)
        BY <2>1 DEF Grown, Kept, Chatted, NowChatted
    <2>3. \A j \in DOMAIN table' : table'[j] \in {Chat, Tip} \cup {Said(to) : to \in 0..(j - 1)}
        BY <2>1 DEF TranscriptTypeOK
    <2>4. page' \in [Readers -> [at : {"new", "next", "end"}, before : Nat,
                               limit : Limits \cup {0}, got : SUBSET (DOMAIN table'), twice : BOOLEAN,
                               due : SUBSET (DOMAIN table')]]
        <3>1. SUBSET (DOMAIN table) \subseteq SUBSET (DOMAIN table')
            BY <2>1
        <3> QED BY <1>1, <3>1
    <2>5. DOMAIN table' \cup unrecorded' \subseteq 1..lastId'
        BY <1>1, <1>2, <2>1
    <2> QED BY <2>2, <2>3, <2>4, <2>5 DEF TranscriptTypeOK
<1>4. CASE NotRecorded(id)
    <2>1. unrecorded' = unrecorded \cup {id} /\ table' = table
        BY <1>4 DEF NotRecorded
    <2>2. Grown(id, row)
        BY <2>1 DEF Grown, Kept, Chatted, NowChatted
    <2>3. DOMAIN table' \cup unrecorded' \subseteq 1..lastId'
        BY <1>1, <1>2, <2>1
    <2> QED BY <1>1, <2>1, <2>2, <2>3 DEF TranscriptTypeOK
<1> QED BY <1>3, <1>4

(* Whatever is done, what is said about ids stays true.                         *)
TableKept ==
    /\ TranscriptTypeOK' /\ lastId <= lastId' /\ Kept \subseteq Kept'
    /\ \A j \in Nat : Chatted(j) => Chatted(j)'
    /\ \A j \in DOMAIN table : j \in DOMAIN table' /\ table'[j] = table[j]

LEMMA TableUnchanged ==
    ASSUME TranscriptTypeOK, UNCHANGED transcriptVars
    PROVE  TableKept
BY DEF TableKept, TranscriptTypeOK, transcriptVars, recordVars, Kept, Chatted

LEMMA DrawKeeps ==
    ASSUME TranscriptTypeOK, lastId' = lastId \/ lastId' = lastId + 1,
           UNCHANGED <<table, unrecorded, page>>
    PROVE  TableKept
<1>1. lastId \in Nat /\ lastId' \in Nat /\ lastId <= lastId'
    BY DEF TranscriptTypeOK
<1>2. 1..lastId \subseteq 1..lastId'
    BY <1>1
<1>3. TranscriptTypeOK'
    BY <1>1, <1>2 DEF TranscriptTypeOK
<1> QED BY <1>1, <1>3 DEF TableKept, Kept, Chatted

(* The append of a frame.                                                    *)
LEMMA RecordKeeps ==
    ASSUME ConversationTypeOK, IdsInv, NEW c \in Clients, Record(c)
    PROVE  /\ TableKept /\ Grown(RowId(c), RowOf(c)) /\ RowId(c) \in Nat /\ RowId(c) \notin Kept
           /\ RowId(c) = IF IsMessage(c) THEN doing[c].id ELSE lastId + 1
           /\ lastId' = IF IsMessage(c) THEN lastId ELSE lastId + 1
<1>1. /\ lastId \in Nat /\ DOMAIN table \cup unrecorded \subseteq 1..lastId /\ TranscriptTypeOK
      /\ doing[c].id \in Nat
    BY DEF ConversationTypeOK, TranscriptTypeOK
<1>2. doing[c].call = "record" /\ OwnId(c)
    BY DEF IdsInv, Record, At
<1>3. /\ RowId(c) = IF IsMessage(c) THEN doing[c].id ELSE lastId + 1
      /\ lastId' = IF IsMessage(c) THEN lastId ELSE lastId + 1
      /\ RowId(c) \in Nat /\ RowId(c) \notin Kept /\ RowId(c) \in 1..lastId' /\ lastId <= lastId'
      /\ lastId' \in Nat
    <2>1. CASE IsMessage(c)
        <3>1. doing[c].id \in 1..lastId /\ doing[c].id \notin Kept
            BY <1>2, <2>1 DEF OwnId, Unwritten
        <3> QED BY <1>1, <2>1, <3>1 DEF RowId, Record
    <2>2. CASE ~IsMessage(c)
        <3>1. doing[c].id = 0
            BY <1>2, <2>2 DEF OwnId
        <3>2. lastId + 1 \notin Kept
            BY <1>1 DEF Kept
        <3> QED BY <1>1, <2>2, <3>1, <3>2 DEF RowId, Record
    <2> QED BY <2>1, <2>2
<1>4. Recorded(RowId(c), RowOf(c)) \/ NotRecorded(RowId(c))
    BY DEF Record
<1>5. TranscriptTypeOK' /\ Grown(RowId(c), RowOf(c))
    <2>1. RowOf(c) \in {Chat, Tip} /\ UNCHANGED page
        BY DEF RowOf, Record
    <2> QED BY <1>1, <1>3, <1>4, <2>1, AppendKeeps
<1> QED BY <1>3, <1>5 DEF TableKept, Grown

(* The append of a reply.                                                    *)
LEMMA ReplyKeeps ==
    ASSUME ConversationTypeOK, IdsInv, NEW i \in DOMAIN asked, RecordReply(i)
    PROVE  /\ TableKept
           /\ \/ /\ Grown(lastId + 1, Said(asked[i].repliedTo)) /\ lastId' = lastId + 1
                 /\ asked' = [asked EXCEPT ![i] = [frame |-> @.frame, repliedTo |-> @.repliedTo,
                                               id |-> lastId + 1, stage |-> "recorded"]]
              \/ /\ UNCHANGED <<lastId, table, unrecorded>>
                 /\ asked' = [asked EXCEPT ![i] = [@ EXCEPT !.stage = "silent"]]
<1>1. /\ lastId \in Nat /\ DOMAIN table \cup unrecorded \subseteq 1..lastId /\ TranscriptTypeOK
    BY DEF ConversationTypeOK, TranscriptTypeOK
<1>2. UNCHANGED page
    BY DEF RecordReply
<1>3. CASE /\ lastId' = lastId + 1
           /\ asked' = [asked EXCEPT ![i] = [frame |-> @.frame, repliedTo |-> @.repliedTo,
                                               id |-> lastId + 1, stage |-> "recorded"]]
           /\ Recorded(lastId + 1, Said(asked[i].repliedTo)) \/ NotRecorded(lastId + 1)
    <2>1. asked[i].repliedTo \in 0..lastId
        <3>1. asked[i].repliedTo = 0 \/ asked[i].repliedTo \in Kept
            BY DEF IdsInv, Chatted, Kept, NoReply
        <3> QED BY <1>1, <3>1 DEF Kept
    <2>2. lastId + 1 \notin Kept /\ lastId + 1 \in Nat /\ lastId + 1 \in 1..lastId' /\ lastId <= lastId'
          /\ lastId' \in Nat
        BY <1>1, <1>3 DEF Kept
    <2>3. Said(asked[i].repliedTo) \in {Said(to) : to \in 0..((lastId + 1) - 1)}
        BY <1>1, <2>1
    <2>4. TranscriptTypeOK' /\ Grown(lastId + 1, Said(asked[i].repliedTo))
        BY <1>1, <1>2, <1>3, <2>2, <2>3, AppendKeeps
    <2> QED BY <1>3, <2>2, <2>4 DEF TableKept, Grown
<1>4. CASE asked' = [asked EXCEPT ![i] = [@ EXCEPT !.stage = "silent"]] /\ UNCHANGED recordVars
    BY <1>1, <1>2, <1>4, DrawKeeps DEF recordVars
<1> QED BY <1>3, <1>4 DEF RecordReply

-----------------------------------------------------------------------------
(* One step of a client, all that it may do to what is shared.                  *)

Offering(c) == [frame |-> doing[c].frame, id |-> doing[c].id]
Thanks(c) == [frame |-> doing[c].frame, repliedTo |-> NoReply, id |-> 0, stage |-> "asked"]
FailuresKept == UNCHANGED failureVars \/ Fail \/ DbFail

Shares(c) ==
    /\ \/ UNCHANGED aired
       \/ doing[c].call = "show" /\ aired' = Append(aired, Event(c))
    /\ \/ UNCHANGED buffer
       \/ doing[c].call = "offer" /\ buffer' = Append(buffer, Offering(c))
    /\ \/ UNCHANGED asked
       \/ doing[c].call = "request" /\ asked' = Append(asked, Thanks(c))
    /\ \/ UNCHANGED paidIn
       \/ doing[c].call = "charge" /\ Debited(doing[c].frame)
    /\ UNCHANGED room
    /\ stranded' = stranded \/ (doing[c].frame # NoFrame /\ stranded' = stranded \cup {doing[c].frame})
    /\ FailuresKept

LEMMA ClientShares ==
    ASSUME ConversationTypeOK, NEW c \in Clients, ClientStep(c)
    PROVE  Shares(c)
<1> USE DEF payVars, streamVars, FailuresKept, failureVars
<1>1. CASE Connect(c) \/ Leave(c)
    <2>1. UNCHANGED <<room, payVars, streamVars, failureVars>>
        BY <1>1 DEF Connect, Leave, Accept, Authenticate, EnsureOpen, Subscribe
    <2> QED BY <2>1 DEF Shares
<1>2. CASE \E f \in Frames : Receive(c, f)
    <2>1. UNCHANGED <<room, payVars, streamVars, failureVars>>
        BY <1>2 DEF Receive
    <2> QED BY <2>1 DEF Shares
<1>3. CASE Charge(c)
    BY <1>3 DEF Charge, At, Shares
<1>4. CASE ChargeRefused(c)
    BY <1>4, AtFrame DEF ChargeRefused, At, Shares
<1>5. CASE Record(c)
    BY <1>5 DEF Record, Shares
<1>6. CASE Show(c)
    BY <1>6 DEF Show, Air, At, Shares
<1>7. CASE Offer(c)
    BY <1>7 DEF Offer, Offered, Offering, At, Shares
<1>8. CASE RequestThanks(c)
    BY <1>8 DEF RequestThanks, Ask, Thanks, At, Shares
<1>9. CASE BreakOff(c)
    <2>1. Fail /\ UNCHANGED <<room, stranded>>
        BY <1>9 DEF BreakOff
    <2>2. \/ At(c, "charge") /\ Debited(doing[c].frame) /\ UNCHANGED streamVars
          \/ UNCHANGED paidIn /\ UNCHANGED streamVars
          \/ UNCHANGED paidIn /\ At(c, "show") /\ Air(Event(c)) /\ UNCHANGED <<buffer, asked>>
          \/ UNCHANGED paidIn /\ At(c, "offer") /\ Offered(c) /\ UNCHANGED <<aired, asked>>
          \/ UNCHANGED paidIn /\ At(c, "request") /\ Ask(doing[c].frame, NoReply)
                /\ UNCHANGED <<aired, buffer>>
        BY <1>9 DEF BreakOff
    <2> QED BY <2>1, <2>2 DEF Air, Offered, Offering, Ask, Thanks, At, Shares
<1> QED BY <1>1, <1>2, <1>3, <1>4, <1>5, <1>6, <1>7, <1>8, <1>9 DEF ClientStep, Handle

LEMMA ClientMoves ==
    ASSUME ConversationTypeOK, NEW c \in Clients, ClientStep(c)
    PROVE  Moves(c)
<1>1. CASE Connect(c)
    BY <1>1, ConnectMoves
<1>2. CASE \E f \in Frames : Receive(c, f)
    BY <1>2, ReceiveMoves
<1>3. CASE Charge(c) \/ Record(c) \/ Show(c) \/ Offer(c) \/ RequestThanks(c)
    BY <1>3, HandleMoves
<1>4. CASE Leave(c) \/ ChargeRefused(c) \/ BreakOff(c)
    BY <1>4, LeaveMoves
<1> QED BY <1>1, <1>2, <1>3, <1>4 DEF ClientStep, Handle

LEMMA ClientTable ==
    ASSUME ConversationTypeOK, IdsInv, NEW c \in Clients, ClientStep(c)
    PROVE  TableKept
<1>1. TranscriptTypeOK
    BY DEF ConversationTypeOK
<1>2. CASE Record(c)
    BY <1>2, RecordKeeps
<1>3. CASE \E f \in Frames : Receive(c, f)
    <2>1. /\ lastId' = lastId \/ lastId' = lastId + 1
          /\ UNCHANGED <<table, unrecorded, page>>
        BY <1>3 DEF Receive
    <2> QED BY <1>1, <2>1, DrawKeeps
<1>4. CASE Connect(c) \/ Leave(c) \/ BreakOff(c) \/ Charge(c) \/ ChargeRefused(c) \/ Show(c)
            \/ Offer(c) \/ RequestThanks(c)
    <2>1. UNCHANGED transcriptVars
        BY <1>4 DEF Connect, Accept, Authenticate, EnsureOpen, Subscribe, Leave, BreakOff, Charge,
                    ChargeRefused, Show, Offer, RequestThanks
    <2> QED BY <1>1, <2>1, TableUnchanged
<1> QED BY <1>2, <1>3, <1>4 DEF ClientStep, Handle

LEMMA FailuresType ==
    ASSUME ConversationTypeOK, FailuresKept
    PROVE  failures' \in Nat /\ dbFailures' \in Nat /\ failures' + dbFailures' <= MaxFailures
           /\ failures <= failures'
BY ConversationAssumption DEF ConversationTypeOK, FailuresKept, failureVars, Fail, DbFail, FailuresLeft

LEMMA ClientType ==
    ASSUME ConversationTypeOK, IdsInv, NEW c \in Clients, ClientStep(c)
    PROVE  ConversationTypeOK'
<1>1. Moves(c) /\ Shares(c) /\ TableKept
    BY ClientMoves, ClientShares, ClientTable
<1>2. /\ aired' \in Seq(Events) /\ Len(aired) \in Nat /\ Len(aired') \in Nat
      /\ Len(aired) <= Len(aired')
    BY <1>1, AiredGrows DEF Moves
<1>3. /\ doing[c].frame # NoFrame => doing[c].frame \in Frames
      /\ doing[c].call # "none" => doing[c].frame # NoFrame
      /\ doing[c].id \in Nat
    BY DEF ConversationTypeOK, Nothing
<1>4. /\ buffer' \in Seq(Candidates) /\ asked' \in Seq(Requests)
    <2>1. buffer \in Seq(Candidates) /\ asked \in Seq(Requests)
        BY Streams
    <2>2. doing[c].call = "offer" => Offering(c) \in Candidates
        BY <1>3 DEF Offering, Candidates
    <2>3. doing[c].call = "request" => Thanks(c) \in Requests
        BY <1>3 DEF Thanks, Requests, NoReply
    <2> HIDE DEF Offering, Candidates, Thanks, Requests
    <2>4. buffer' \in Seq(Candidates)
        BY <1>1, <2>1, <2>2 DEF Shares
    <2>5. asked' \in Seq(Requests)
        BY <1>1, <2>1, <2>3 DEF Shares
    <2> QED BY <2>4, <2>5
<1>5. paidIn' \in [Frames -> {"unpaid", "pending", "live", "finished"}]
    <2>1. /\ paidIn \in [Frames -> {"unpaid", "pending", "live", "finished"}]
          /\ room \in {"pending", "live", "finished"}
        BY DEF ConversationTypeOK
    <2>2. UNCHANGED paidIn \/ Debited(doing[c].frame)
        BY <1>1 DEF Shares
    <2> QED BY <2>1, <2>2 DEF Debited
<1>6. stranded' \subseteq Frames /\ room' \in {"pending", "live", "finished"}
    BY <1>1, <1>3 DEF Shares, ConversationTypeOK
<1>7. failures' \in Nat /\ dbFailures' \in Nat /\ failures' + dbFailures' <= MaxFailures
    BY <1>1, FailuresType DEF Shares
<1>8. \A d \in Clients : ClientOK(d)'
    <2>1. ClientOK(c)'
        BY <1>1 DEF Moves, ClientOK, Nothing
    <2>2. ASSUME NEW d \in Clients \ {c} PROVE ClientOK(d)'
        <3>1. ClientOK(d) /\ joined[d] \in Nat
            BY DEF ConversationTypeOK, ClientOK
        <3>2. doing'[d] = doing[d] /\ conn'[d] = conn[d] /\ joined'[d] = joined[d]
            BY <1>1 DEF Moves, Others
        <3>3. \A f \in over' \ over : sender[f] = c
            BY <1>1 DEF Moves
        <3>4. doing[d].frame # NoFrame => doing[d].frame \notin over'
            BY <3>1, <3>3 DEF ClientOK
        <3> QED BY <1>2, <3>1, <3>2, <3>4 DEF ClientOK, Nothing
    <2> QED BY <2>1, <2>2
<1> QED BY <1>1, <1>2, <1>4, <1>5, <1>6, <1>7, <1>8
        DEF ConversationTypeOK, ClientOK, Moves, Others, TableKept, Events, Candidates, Requests

(* The steps that leave the connections alone.                                  *)
LEMMA QuietType ==
    ASSUME ConversationTypeOK, TranscriptTypeOK', UNCHANGED <<connectionVars, payVars>>, AiredKept,
           buffer' \in Seq(Candidates), asked' \in Seq(Requests), FailuresKept,
           room' \in {"pending", "live", "finished"}
    PROVE  ConversationTypeOK'
<1>1. /\ aired' \in Seq(Events) /\ Len(aired) \in Nat /\ Len(aired') \in Nat
      /\ Len(aired) <= Len(aired')
    BY AiredGrows
<1>2. failures' \in Nat /\ dbFailures' \in Nat /\ failures' + dbFailures' <= MaxFailures
    BY FailuresType
<1>3. UNCHANGED <<conn, broken, joined, doing, over, paidIn, stranded>>
    BY DEF connectionVars, payVars
<1>4. \A d \in Clients : ClientOK(d)'
    <2>1. ASSUME NEW d \in Clients PROVE ClientOK(d)'
        <3>1. ClientOK(d) /\ joined[d] \in Nat
            BY DEF ConversationTypeOK, ClientOK
        <3> QED BY <1>1, <1>3, <3>1 DEF ClientOK, Nothing
    <2> QED BY <2>1
<1> QED BY <1>1, <1>2, <1>3, <1>4 DEF ConversationTypeOK, ClientOK, Events, Candidates, Requests

LEMMA PickKeeps ==
    ASSUME ConversationTypeOK, PickBest
    PROVE  /\ ConversationTypeOK' /\ TableKept
           /\ \E i \in DOMAIN buffer :
                asked' = Append(asked, [frame |-> buffer[i].frame, repliedTo |-> buffer[i].id,
                                        id |-> 0, stage |-> "asked"])
<1>1. PICK i \in DOMAIN buffer : Ask(buffer[i].frame, buffer[i].id)
    BY DEF PickBest
<1>2. /\ buffer' = <<>> /\ UNCHANGED <<connectionVars, payVars, room, aired, failureVars>>
      /\ UNCHANGED transcriptVars
    BY DEF PickBest
<1>3. TableKept
    BY <1>2, TableUnchanged DEF ConversationTypeOK
<1> DEFINE new == [frame |-> buffer[i].frame, repliedTo |-> buffer[i].id, id |-> 0, stage |-> "asked"]
<1>4. buffer[i].frame \in Frames /\ buffer[i].id \in Nat
    BY Streams DEF Candidates
<1>5. new \in Requests
    BY <1>4 DEF Requests
<1>6. asked' = Append(asked, new) /\ asked \in Seq(Requests) /\ buffer' \in Seq(Candidates)
    BY <1>1, <1>2, Streams DEF Ask
<1>7. asked' \in Seq(Requests)
    <2> HIDE DEF new, Requests
    <2> QED BY <1>5, <1>6
<1>8. AiredKept /\ FailuresKept
    BY <1>2 DEF AiredKept, FailuresKept
<1>9. room' \in {"pending", "live", "finished"}
    BY <1>2 DEF ConversationTypeOK
<1>10. ConversationTypeOK'
    BY <1>2, <1>3, <1>6, <1>7, <1>8, <1>9, QuietType DEF TableKept
<1> QED BY <1>3, <1>6, <1>10

LEMMA ReplyType ==
    ASSUME ConversationTypeOK, IdsInv, NEW i \in DOMAIN asked, RecordReply(i)
    PROVE  /\ ConversationTypeOK' /\ TableKept
           /\ DOMAIN asked' = DOMAIN asked
           /\ \A j \in DOMAIN asked \ {i} : asked'[j] = asked[j]
           /\ asked'[i].frame = asked[i].frame /\ asked'[i].repliedTo = asked[i].repliedTo
           /\ \/ asked'[i].stage = "silent"
              \/ asked'[i].stage = "recorded" /\ asked'[i].id = lastId + 1
<1>1. TableKept
    BY ReplyKeeps
<1>2. lastId + 1 \in Nat /\ asked[i].id \in Nat
    BY Streams DEF ConversationTypeOK, TranscriptTypeOK, Requests
<1>3. CASE asked' = [asked EXCEPT ![i] = [frame |-> @.frame, repliedTo |-> @.repliedTo,
                                               id |-> lastId + 1, stage |-> "recorded"]]
    <2>1. /\ asked' \in Seq(Requests) /\ DOMAIN asked' = DOMAIN asked
          /\ \A j \in DOMAIN asked \ {i} : asked'[j] = asked[j]
          /\ asked'[i].frame = asked[i].frame /\ asked'[i].repliedTo = asked[i].repliedTo
          /\ asked'[i].stage = "recorded" /\ asked'[i].id = lastId + 1
        BY <1>2, <1>3, RequestMoves
    <2>2. UNCHANGED <<room, connectionVars, payVars, aired, buffer>> /\ FailuresKept
        BY DEF RecordReply, FailuresKept
    <2>3. AiredKept /\ buffer' \in Seq(Candidates) /\ room' \in {"pending", "live", "finished"}
        BY <2>2, Streams DEF AiredKept, ConversationTypeOK
    <2> QED BY <1>1, <2>1, <2>2, <2>3, QuietType DEF TableKept
<1>4. CASE asked' = [asked EXCEPT ![i] = [@ EXCEPT !.stage = "silent"]]
    <2>1. /\ asked' \in Seq(Requests) /\ DOMAIN asked' = DOMAIN asked
          /\ \A j \in DOMAIN asked \ {i} : asked'[j] = asked[j]
          /\ asked'[i].frame = asked[i].frame /\ asked'[i].repliedTo = asked[i].repliedTo
          /\ asked'[i].stage = "silent"
        BY <1>2, <1>4, RequestMoves
    <2>2. UNCHANGED <<room, connectionVars, payVars, aired, buffer>> /\ FailuresKept
        BY DEF RecordReply, FailuresKept
    <2>3. AiredKept /\ buffer' \in Seq(Candidates) /\ room' \in {"pending", "live", "finished"}
        BY <2>2, Streams DEF AiredKept, ConversationTypeOK
    <2> QED BY <1>1, <2>1, <2>2, <2>3, QuietType DEF TableKept
<1> QED BY <1>3, <1>4, ReplyKeeps

ReplyEvent(i) == [kind |-> "reply", frame |-> asked[i].frame, id |-> asked[i].id]

LEMMA SayType ==
    ASSUME ConversationTypeOK, NEW i \in DOMAIN asked, SayReply(i)
    PROVE  /\ ConversationTypeOK' /\ TableKept
           /\ DOMAIN asked' = DOMAIN asked
           /\ \A j \in DOMAIN asked \ {i} : asked'[j] = asked[j]
           /\ asked'[i].frame = asked[i].frame /\ asked'[i].repliedTo = asked[i].repliedTo
           /\ asked'[i].id = asked[i].id /\ asked[i].stage = "recorded"
           /\ UNCHANGED aired \/ aired' = Append(aired, ReplyEvent(i))
<1>1. /\ UNCHANGED <<transcriptVars, room, connectionVars, payVars, buffer>>
      /\ asked[i].stage = "recorded" /\ FailuresKept
    BY DEF SayReply, FailuresKept
<1>2. TableKept
    BY <1>1, TableUnchanged DEF ConversationTypeOK
<1>3. asked[i].frame \in Frames /\ asked[i].id \in Nat
    BY Streams DEF Requests
<1>4. ReplyEvent(i) \in Events
    BY <1>3 DEF ReplyEvent, Events
<1>5. UNCHANGED aired \/ aired' = Append(aired, ReplyEvent(i))
    BY DEF SayReply, Air, ReplyEvent
<1>6. AiredKept
    BY <1>4, <1>5 DEF AiredKept
<1>7. /\ asked' \in Seq(Requests) /\ DOMAIN asked' = DOMAIN asked
      /\ \A j \in DOMAIN asked \ {i} : asked'[j] = asked[j]
      /\ asked'[i].frame = asked[i].frame /\ asked'[i].repliedTo = asked[i].repliedTo
      /\ asked'[i].id = asked[i].id
    <2>1. CASE asked' = [asked EXCEPT ![i] = [@ EXCEPT !.stage = "said"]]
        BY <1>3, <2>1, RequestMoves
    <2>2. CASE asked' = [asked EXCEPT ![i] = [@ EXCEPT !.stage = "silent"]]
        BY <1>3, <2>2, RequestMoves
    <2> QED BY <2>1, <2>2 DEF SayReply
<1>8. buffer' \in Seq(Candidates) /\ room' \in {"pending", "live", "finished"}
    BY <1>1, Streams DEF ConversationTypeOK
<1>9. ConversationTypeOK'
    BY <1>1, <1>2, <1>6, <1>7, <1>8, QuietType DEF TableKept
<1> QED BY <1>1, <1>2, <1>5, <1>7, <1>9

LEMMA ReadType ==
    ASSUME ConversationTypeOK, NEW r \in Readers, NEW limit \in Limits, ReadHistory(r, limit)
    PROVE  ConversationTypeOK' /\ TableKept
<1>1. UNCHANGED <<room, connectionVars, payVars, streamVars, failureVars>> /\ UNCHANGED recordVars
    BY DEF ReadHistory, ReadPage
<1>2. TranscriptTypeOK'
    BY PageType DEF ReadHistory, ConversationTypeOK
<1>3. TableKept
    BY <1>1, <1>2 DEF TableKept, Kept, Chatted, recordVars, ConversationTypeOK, TranscriptTypeOK
<1>4. /\ AiredKept /\ FailuresKept /\ buffer' \in Seq(Candidates) /\ asked' \in Seq(Requests)
      /\ room' \in {"pending", "live", "finished"}
    BY <1>1, Streams DEF streamVars, AiredKept, FailuresKept, ConversationTypeOK
<1>5. ConversationTypeOK'
    BY <1>1, <1>2, <1>4, QuietType
<1> QED BY <1>3, <1>5

LEMMA RestType ==
    ASSUME ConversationTypeOK, Transition \/ UNCHANGED conversationVars
    PROVE  ConversationTypeOK' /\ TableKept
<1>1. UNCHANGED <<transcriptVars, connectionVars, payVars, streamVars, failureVars>>
    BY DEF Transition, conversationVars
<1>2. TableKept
    BY <1>1, TableUnchanged DEF ConversationTypeOK
<1>3. /\ AiredKept /\ FailuresKept /\ buffer' \in Seq(Candidates) /\ asked' \in Seq(Requests)
      /\ room' \in {"pending", "live", "finished"}
    <2>1. room' \in {"pending", "live", "finished"}
        BY DEF Transition, conversationVars, ConversationTypeOK
    <2> QED BY <1>1, <2>1, Streams DEF streamVars, AiredKept, FailuresKept
<1>4. ConversationTypeOK'
    BY <1>1, <1>2, <1>3, QuietType DEF TableKept
<1> QED BY <1>2, <1>4

-----------------------------------------------------------------------------
(* IdsInv.                                                                  *)

(* A call of c's handler, as the step of c left it: what OwnId says of c after    *)
(* it, and that it takes no id another client is still to write.                *)
OwnStep(c) ==
    /\ OwnId(c)'
    /\ Unwritten(c)' => doing'[c].id = lastId + 1
    /\ \A d \in Clients \ {c} : Unwritten(d) => doing[d].id \notin Kept'
    /\ \A i \in DOMAIN table' \ DOMAIN table : table'[i].repliedTo = NoReply

LEMMA NothingIsOwn ==
    ASSUME NEW c \in Clients, doing'[c] = Nothing
    PROVE  OwnId(c)' /\ ~Unwritten(c)'
BY DEF OwnId, Unwritten, Nothing

LEMMA UntouchedTable ==
    ASSUME ConversationTypeOK, IdsInv, NEW c \in Clients, UNCHANGED <<table, unrecorded>>
    PROVE  /\ Kept' = Kept
           /\ \A d \in Clients \ {c} : Unwritten(d) => doing[d].id \notin Kept'
           /\ \A i \in DOMAIN table' \ DOMAIN table : table'[i].repliedTo = NoReply
<1>1. \A d \in Clients \ {c} : OwnId(d)
    BY DEF IdsInv
<1>2. Kept' = Kept
    BY DEF Kept
<1> QED BY <1>1, <1>2 DEF OwnId

LEMMA ReceiveOwn ==
    ASSUME ConversationTypeOK, IdsInv, NEW c \in Clients, NEW f \in Frames, Receive(c, f)
    PROVE  OwnStep(c)
<1>1. UNCHANGED <<table, unrecorded>>
    BY DEF Receive
<1>2. Kept' = Kept /\ lastId \in Nat /\ Kept \subseteq 1..lastId
    BY <1>1, UntouchedTable DEF ConversationTypeOK, TranscriptTypeOK, Kept
<1>3. lastId + 1 \notin Kept'
    BY <1>2
<1>4. kind[f] \in {"message", "superchat"}
    BY ConversationAssumption
<1>5. CASE doing'[c] = Nothing
    BY <1>1, <1>5, NothingIsOwn, UntouchedTable DEF OwnStep
<1>6. CASE doing'[c] # Nothing /\ kind[f] = "message"
    <2>1. doing'[c].frame = f /\ doing'[c].call = "record" /\ doing'[c].id = lastId + 1
          /\ lastId' = lastId + 1
        BY <1>6, ReceiveMoves
    <2>2. lastId + 1 \in 1..lastId'
        BY <1>2, <2>1
    <2>3. OwnId(c)'
        BY <1>3, <1>6, <2>1, <2>2 DEF OwnId, IsMessage
    <2> QED BY <1>1, <2>1, <2>3, UntouchedTable DEF OwnStep
<1>7. CASE doing'[c] # Nothing /\ kind[f] # "message"
    <2>1. doing'[c].frame = f /\ doing'[c].call = "charge" /\ doing'[c].id = 0
        BY <1>7, ReceiveMoves
    <2>2. OwnId(c)' /\ ~Unwritten(c)'
        BY <1>7, <2>1 DEF OwnId, IsMessage, Unwritten
    <2> QED BY <1>1, <2>2, UntouchedTable DEF OwnStep
<1> QED BY <1>5, <1>6, <1>7

LEMMA RecordOwn ==
    ASSUME ConversationTypeOK, IdsInv, NEW c \in Clients, Record(c)
    PROVE  OwnStep(c)
<1>1. /\ Grown(RowId(c), RowOf(c)) /\ RowId(c) \in Nat
      /\ RowId(c) = IF IsMessage(c) THEN doing[c].id ELSE lastId + 1
      /\ doing[c].call = "record" /\ doing[c].frame # NoFrame /\ Onward(c, RowId(c))
    BY RecordKeeps, AtFrame DEF Record, At
<1>2. /\ doing' = [doing EXCEPT ![c] = [frame |-> doing[c].frame, call |-> "show", id |-> RowId(c)]]
    BY <1>1, OnwardMoves DEF After
<1>3. /\ doing'[c].frame = doing[c].frame /\ doing'[c].call = "show" /\ doing'[c].id = RowId(c)
    BY <1>2 DEF ConversationTypeOK
<1>4. RowId(c) \in Kept' /\ (IsMessage(c) => NowChatted(RowId(c)))
    BY <1>1 DEF Grown, RowOf, IsMessage
<1>5. OwnId(c)' /\ ~Unwritten(c)'
    <2>1. NowChatted(RowId(c)) => Chatted(doing[c].id)'
        BY <1>3 DEF Chatted, NowChatted
    <2>2. IsMessage(c)' => IsMessage(c)
        BY <1>3 DEF IsMessage
    <2>3. IsMessage(c)' => Chatted(doing[c].id)'
        BY <1>4, <2>1, <2>2
    <2> QED BY <1>3, <1>4, <2>3 DEF OwnId, Unwritten
<1>6. ASSUME NEW d \in Clients \ {c}, Unwritten(d) PROVE doing[d].id \notin Kept'
    <2>1. doing[d].id \in 1..lastId /\ doing[d].id \notin Kept /\ lastId \in Nat
        BY <1>6 DEF IdsInv, OwnId, ConversationTypeOK, TranscriptTypeOK
    <2>2. doing[d].id # RowId(c)
        <3>1. CASE IsMessage(c)
            <4>1. Unwritten(c)
                BY <1>1, <3>1 DEF Unwritten
            <4> QED BY <1>1, <1>6, <3>1, <4>1 DEF IdsInv
        <3>2. CASE ~IsMessage(c)
            BY <1>1, <2>1, <3>2
        <3> QED BY <3>1, <3>2
    <2> QED BY <1>1, <2>1, <2>2 DEF Grown
<1>7. \A i \in DOMAIN table' \ DOMAIN table : table'[i].repliedTo = NoReply
    <2>1. RowOf(c).repliedTo = NoReply
        BY DEF RowOf, Chat, Tip
    <2> QED BY <1>1, <2>1 DEF Grown
<1> QED BY <1>5, <1>6, <1>7 DEF OwnStep

LEMMA ClientOwn ==
    ASSUME ConversationTypeOK, IdsInv, NEW c \in Clients, ClientStep(c)
    PROVE  OwnStep(c)
<1>1. ASSUME UNCHANGED <<table, unrecorded>>, doing'[c] = Nothing PROVE OwnStep(c)
    BY <1>1, NothingIsOwn, UntouchedTable DEF OwnStep
<1>2. CASE Connect(c) \/ Leave(c) \/ ChargeRefused(c) \/ BreakOff(c)
    <2>1. UNCHANGED transcriptVars
        BY <1>2 DEF Connect, Accept, Authenticate, EnsureOpen, Subscribe, Leave, BreakOff, ChargeRefused
    <2>2. UNCHANGED <<table, unrecorded>>
        BY <2>1 DEF transcriptVars, recordVars
    <2> QED BY <1>1, <1>2, <2>2, ConnectMoves, LeaveMoves
<1>3. CASE \E f \in Frames : Receive(c, f)
    BY <1>3, ReceiveOwn
<1>4. CASE Record(c)
    BY <1>4, RecordOwn
<1>5. CASE Charge(c) \/ Show(c) \/ Offer(c) \/ RequestThanks(c)
    <2>1. UNCHANGED transcriptVars
        BY <1>5 DEF Charge, Show, Offer, RequestThanks
    <2>2. UNCHANGED <<table, unrecorded>>
        BY <2>1 DEF transcriptVars, recordVars
    <2>3. doing[c].frame # NoFrame
        BY <1>5, HandleMoves
    <2>4. Done(c) => doing'[c] = Nothing
        BY DEF Done, ConversationTypeOK
    <2>5. OwnId(c) /\ Kept' = Kept
        BY <2>2, UntouchedTable DEF IdsInv
    <2>6. CASE Charge(c)
        <3>1. CASE Done(c)
            BY <1>1, <2>2, <2>4, <3>1
        <3>2. CASE Onward(c, 0)
            <4>1. doing[c].call = "charge"
                BY <2>6 DEF Charge, At
            <4>2. doing' = [doing EXCEPT ![c] = [frame |-> doing[c].frame, call |-> "record", id |-> 0]]
                BY <2>3, <3>2, <4>1, OnwardMoves DEF After
            <4>3. doing'[c].frame = doing[c].frame /\ doing'[c].call = "record" /\ doing'[c].id = 0
                BY <4>2 DEF ConversationTypeOK
            <4>4. ~IsMessage(c)'
                BY <2>3, <4>1, <4>3, InHand DEF IsMessage, FrameCalls
            <4>5. OwnId(c)' /\ ~Unwritten(c)'
                BY <4>3, <4>4 DEF OwnId, Unwritten
            <4> QED BY <2>2, <4>5, UntouchedTable DEF OwnStep
        <3> QED BY <2>6, <3>1, <3>2 DEF Charge
    <2>7. CASE Show(c)
        <3>1. doing[c].call = "show" /\ Onward(c, doing[c].id)
            BY <2>7 DEF Show, At
        <3>2. doing' = [doing EXCEPT ![c] = [frame |-> doing[c].frame, call |-> After(c), id |-> doing[c].id]]
            BY <2>3, <3>1, OnwardMoves
        <3>3. doing'[c].frame = doing[c].frame /\ doing'[c].call \in {"offer", "request"}
              /\ doing'[c].id = doing[c].id
            BY <3>1, <3>2 DEF After, ConversationTypeOK
        <3>4. Chatted(doing[c].id) => Chatted(doing[c].id)'
            BY <2>2, <3>3 DEF Chatted
        <3>5. OwnId(c)' /\ ~Unwritten(c)'
            BY <2>5, <3>1, <3>3, <3>4 DEF OwnId, Unwritten, IsMessage
        <3> QED BY <2>2, <3>5, UntouchedTable DEF OwnStep
    <2>8. CASE Offer(c) \/ RequestThanks(c)
        <3>1. doing[c].call \in {"offer", "request"} /\ Onward(c, doing[c].id)
            BY <2>8 DEF Offer, RequestThanks, At
        <3> QED BY <1>1, <2>2, <2>3, <2>4, <3>1, OnwardMoves
    <2> QED BY <1>5, <2>6, <2>7, <2>8
<1> QED BY <1>2, <1>3, <1>4, <1>5 DEF ClientStep, Handle

(* A client whose turn it is not.                                              *)
LEMMA OthersOwn ==
    ASSUME ConversationTypeOK, IdsInv, TableKept, NEW d \in Clients, doing'[d] = doing[d],
           Unwritten(d) => doing[d].id \notin Kept'
    PROVE  OwnId(d)' /\ (Unwritten(d)' <=> Unwritten(d))
<1>1. /\ doing[d].id \in Nat /\ lastId \in Nat /\ lastId' \in Nat /\ lastId <= lastId' /\ Kept \subseteq Kept'
      /\ \A j \in Nat : Chatted(j) => Chatted(j)'
    BY DEF TableKept, ConversationTypeOK, TranscriptTypeOK
<1>2. OwnId(d)
    BY DEF IdsInv
<1>3. (Unwritten(d)' <=> Unwritten(d)) /\ (IsMessage(d)' <=> IsMessage(d))
    BY DEF Unwritten, IsMessage
<1>4. Unwritten(d)' => doing'[d].id \in 1..lastId' /\ doing'[d].id \notin Kept'
    BY <1>1, <1>2, <1>3 DEF OwnId
<1>5. doing'[d].call \in {"charge", "record"} /\ ~IsMessage(d)' => doing'[d].id = 0
    BY <1>2, <1>3 DEF OwnId
<1>6. doing'[d].call \in {"show", "offer", "request"} =>
        doing'[d].id \in Kept' /\ (IsMessage(d)' => Chatted(doing[d].id)')
    <2>1. Chatted(doing[d].id) => Chatted(doing[d].id)'
        BY <1>1 DEF Chatted
    <2> QED BY <1>1, <1>2, <1>3, <2>1 DEF OwnId
<1> QED BY <1>3, <1>4, <1>5, <1>6 DEF OwnId

LEMMA ChattedKept ==
    ASSUME TableKept, NEW j \in Nat
    PROVE  /\ Chatted(j) => Chatted(j)'
           /\ j \in Kept => j \in Kept'
BY DEF TableKept

(* A row points where it pointed, and a new one at a message.                   *)
LEMMA PointsKept ==
    ASSUME ConversationTypeOK, ReplyPointsBack, TableKept,
           \A i \in DOMAIN table' \ DOMAIN table :
                table'[i].repliedTo # NoReply =>
                    table'[i].repliedTo \in Nat /\ Chatted(table'[i].repliedTo)
    PROVE  ReplyPointsBack'
<1>1. ASSUME NEW i \in DOMAIN table', table'[i].repliedTo # NoReply
      PROVE  table'[i].repliedTo \in Nat /\ Chatted(table'[i].repliedTo)
    <2>1. CASE i \in DOMAIN table
        <3>1. table'[i] = table[i]
            BY <2>1 DEF TableKept
        <3>2. Chatted(table[i].repliedTo)
            BY <1>1, <2>1, <3>1 DEF ReplyPointsBack, Chatted
        <3>3. i \in Nat /\ table[i] \in {Chat, Tip} \cup {Said(to) : to \in 0..(i - 1)}
            BY <2>1 DEF ConversationTypeOK, TranscriptTypeOK
        <3>4. table[i].repliedTo \in Nat
            BY <3>3 DEF Chat, Tip, Said, NoReply
        <3> QED BY <3>1, <3>2, <3>4
    <2> QED BY <1>1, <2>1
<1>2. ASSUME NEW i \in DOMAIN table', table'[i].repliedTo # NoReply
      PROVE  IF table'[i].repliedTo \in DOMAIN table' THEN table'[table'[i].repliedTo] = Chat
             ELSE table'[i].repliedTo \in unrecorded'
    <2>1. table'[i].repliedTo \in Nat /\ Chatted(table'[i].repliedTo)
        BY <1>1, <1>2
    <2>2. \A j \in Nat : Chatted(j) =>
            IF j \in DOMAIN table' THEN table'[j] = Chat ELSE j \in unrecorded'
        BY DEF TableKept, Chatted
    <2> QED BY <2>1, <2>2
<1> QED BY <1>2 DEF ReplyPointsBack

(* Item by item, what an append of a stream leaves.                             *)
LEMMA Appended ==
    ASSUME NEW S, NEW s \in Seq(S), NEW e
    PROVE  /\ DOMAIN Append(s, e) = 1..(Len(s) + 1) /\ DOMAIN s = 1..Len(s) /\ Len(s) \in Nat
           /\ \A i \in DOMAIN s : i \in DOMAIN Append(s, e) /\ Append(s, e)[i] = s[i]
           /\ \A i \in DOMAIN Append(s, e) : i \in DOMAIN s \/ (i = Len(s) + 1 /\ i \notin DOMAIN s)
           /\ Append(s, e)[Len(s) + 1] = e
<1>1. /\ Len(Append(s, e)) = Len(s) + 1 /\ DOMAIN s = 1..Len(s) /\ Len(s) \in Nat
      /\ DOMAIN Append(s, e) = 1..(Len(s) + 1)
      /\ \A i \in 1..Len(s) : Append(s, e)[i] = s[i]
      /\ Append(s, e)[Len(s) + 1] = e
    OBVIOUS
<1> QED BY <1>1

LEMMA ClientIds ==
    ASSUME ConversationTypeOK, IdsInv, NEW c \in Clients, ClientStep(c)
    PROVE  IdsInv'
<1>1. Moves(c) /\ Shares(c) /\ TableKept /\ OwnStep(c) /\ OwnId(c)
    BY ClientMoves, ClientShares, ClientTable, ClientOwn DEF IdsInv
<1>2. \A d \in Clients \ {c} : doing'[d] = doing[d] /\ OwnId(d)' /\ (Unwritten(d)' <=> Unwritten(d))
    BY <1>1, OthersOwn DEF Moves, Others, OwnStep
<1>3. \A d \in Clients : OwnId(d)'
    BY <1>1, <1>2 DEF OwnStep
<1>4. \A d, e \in Clients : d # e /\ Unwritten(d)' /\ Unwritten(e)' => doing'[d].id # doing'[e].id
    <2>1. \A d \in Clients \ {c} : Unwritten(d)' /\ Unwritten(c)' => doing'[d].id # doing'[c].id
        <3>1. ASSUME NEW d \in Clients \ {c}, Unwritten(d)', Unwritten(c)' PROVE doing'[d].id # doing'[c].id
            <4>1. doing[d].id \in 1..lastId /\ lastId \in Nat /\ doing'[d].id = doing[d].id
                BY <1>2, <3>1 DEF IdsInv, OwnId, ConversationTypeOK, TranscriptTypeOK
            <4>2. doing'[c].id = lastId + 1
                BY <1>1, <3>1 DEF OwnStep
            <4> QED BY <4>1, <4>2
        <3> QED BY <3>1
    <2>2. \A d, e \in Clients \ {c} : d # e /\ Unwritten(d)' /\ Unwritten(e)' => doing'[d].id # doing'[e].id
        BY <1>2 DEF IdsInv
    <2> QED BY <2>1, <2>2
<1>5. /\ doing[c].call = "offer" => doing[c].id \in Nat /\ Chatted(doing[c].id)
      /\ doing[c].call = "show" => doing[c].id \in Nat /\ doing[c].id \in Kept
    <2>1. doing[c].call = "offer" => IsMessage(c)
        BY AtFrame, InHand DEF FrameCalls, At
    <2> QED BY <1>1, <2>1 DEF OwnId, ConversationTypeOK
<1>6. \A i \in DOMAIN buffer' : NowChatted(buffer'[i].id)
    <2>1. \A i \in DOMAIN buffer' : buffer'[i].id \in Nat /\ Chatted(buffer'[i].id)
        <3>1. \A i \in DOMAIN buffer : buffer[i].id \in Nat /\ Chatted(buffer[i].id)
            BY Streams DEF IdsInv, Candidates
        <3>2. CASE UNCHANGED buffer
            BY <3>1, <3>2
        <3>3. CASE doing[c].call = "offer" /\ buffer' = Append(buffer, Offering(c))
            <4>1. buffer \in Seq(Candidates) /\ Offering(c).id = doing[c].id
                BY Streams DEF Offering
            <4> QED BY <1>5, <3>1, <3>3, <4>1, Appended
        <3> QED BY <1>1, <3>2, <3>3 DEF Shares
    <2>2. \A j \in Nat : Chatted(j) => NowChatted(j)
        BY <1>1 DEF TableKept, NowChatted, Chatted
    <2> QED BY <2>1, <2>2
<1>7. \A i \in DOMAIN asked' :
        /\ asked'[i].repliedTo # NoReply => NowChatted(asked'[i].repliedTo)
        /\ asked'[i].stage \in {"recorded", "said"} => asked'[i].id \in Kept'
    <2>1. \A i \in DOMAIN asked :
            /\ asked[i].repliedTo # NoReply => NowChatted(asked[i].repliedTo)
            /\ asked[i].stage \in {"recorded", "said"} => asked[i].id \in Kept'
        <3>1. \A j \in Nat : Chatted(j) => NowChatted(j)
            BY <1>1 DEF TableKept, NowChatted, Chatted
        <3>2. \A i \in DOMAIN asked : asked[i].repliedTo \in Nat
            BY Streams DEF Requests
        <3> QED BY <1>1, <3>1, <3>2 DEF IdsInv, TableKept
    <2>2. CASE UNCHANGED asked
        BY <2>1, <2>2
    <2>3. CASE asked' = Append(asked, Thanks(c))
        <3>1. asked \in Seq(Requests) /\ Thanks(c).repliedTo = NoReply /\ Thanks(c).stage = "asked"
            BY Streams DEF Thanks
        <3> QED BY <2>1, <2>3, <3>1, Appended
    <2> QED BY <1>1, <2>2, <2>3 DEF Shares
<1>8. HeardIsReadable'
    <2>1. \A i \in DOMAIN aired' : aired'[i].id \in Kept
        <3>1. \A i \in DOMAIN aired : aired[i].id \in Kept
            BY DEF IdsInv, HeardIsReadable, Kept
        <3>2. CASE UNCHANGED aired
            BY <3>1, <3>2
        <3>3. CASE doing[c].call = "show" /\ aired' = Append(aired, Event(c))
            <4>1. aired \in Seq(Events) /\ Event(c).id = doing[c].id
                BY Streams DEF Event
            <4> QED BY <1>5, <3>1, <3>3, <4>1, Appended
        <3> QED BY <1>1, <3>2, <3>3 DEF Shares
    <2>2. Kept \subseteq Kept'
        BY <1>1 DEF TableKept
    <2> QED BY <2>1, <2>2 DEF HeardIsReadable, Kept
<1>9. ReplyPointsBack'
    <2>1. ReplyPointsBack /\ \A i \in DOMAIN table' \ DOMAIN table : table'[i].repliedTo = NoReply
        BY <1>1 DEF IdsInv, OwnStep
    <2> QED BY <1>1, <2>1, PointsKept
<1> QED BY <1>3, <1>4, <1>6, <1>7, <1>8, <1>9 DEF IdsInv, NowChatted, Chatted

(* The steps that leave every handler where it is.                              *)
LEMMA QuietIds ==
    ASSUME ConversationTypeOK, IdsInv, TableKept, UNCHANGED doing,
           \A d \in Clients : Unwritten(d) => doing[d].id \notin Kept',
           UNCHANGED buffer \/ buffer' = <<>>,
           \A i \in DOMAIN asked' :
                /\ asked'[i].repliedTo # NoReply =>
                    asked'[i].repliedTo \in Nat /\ Chatted(asked'[i].repliedTo)
                /\ asked'[i].stage \in {"recorded", "said"} => asked'[i].id \in Kept',
           \A i \in DOMAIN aired' : aired'[i].id \in Kept,
           \A i \in DOMAIN table' \ DOMAIN table :
                table'[i].repliedTo # NoReply =>
                    table'[i].repliedTo \in Nat /\ Chatted(table'[i].repliedTo)
    PROVE  IdsInv'
<1>1. \A d \in Clients : OwnId(d)' /\ (Unwritten(d)' <=> Unwritten(d))
    BY OthersOwn
<1>2. \A d, e \in Clients : d # e /\ Unwritten(d)' /\ Unwritten(e)' => doing'[d].id # doing'[e].id
    BY <1>1 DEF IdsInv
<1>3. \A j \in Nat : Chatted(j) => NowChatted(j)
    BY DEF TableKept, NowChatted, Chatted
<1>4. \A i \in DOMAIN buffer' : NowChatted(buffer'[i].id)
    <2>1. \A i \in DOMAIN buffer : buffer[i].id \in Nat /\ Chatted(buffer[i].id)
        BY Streams DEF IdsInv, Candidates
    <2>2. CASE buffer' = <<>>
        BY <2>2
    <2> QED BY <1>3, <2>1, <2>2
<1>5. \A i \in DOMAIN asked' :
        /\ asked'[i].repliedTo # NoReply => NowChatted(asked'[i].repliedTo)
        /\ asked'[i].stage \in {"recorded", "said"} => asked'[i].id \in Kept'
    BY <1>3
<1>6. HeardIsReadable'
    <2>1. Kept \subseteq Kept'
        BY DEF TableKept
    <2> QED BY <2>1 DEF HeardIsReadable, Kept
<1>7. ReplyPointsBack'
    BY PointsKept DEF IdsInv
<1> QED BY <1>1, <1>2, <1>4, <1>5, <1>6, <1>7 DEF IdsInv, NowChatted, Chatted

LEMMA ReplyIds ==
    ASSUME ConversationTypeOK, IdsInv, NEW i \in DOMAIN asked, RecordReply(i)
    PROVE  IdsInv'
<1>1. /\ TableKept /\ DOMAIN asked' = DOMAIN asked
      /\ \A j \in DOMAIN asked \ {i} : asked'[j] = asked[j]
      /\ asked'[i].repliedTo = asked[i].repliedTo
      /\ \/ asked'[i].stage = "silent"
         \/ asked'[i].stage = "recorded" /\ asked'[i].id = lastId + 1
    BY ReplyType
<1>2. \/ /\ Grown(lastId + 1, Said(asked[i].repliedTo)) /\ lastId' = lastId + 1
      \/ UNCHANGED <<lastId, table, unrecorded>> /\ asked'[i].stage = "silent"
    <2>1. CASE asked' = [asked EXCEPT ![i] = [@ EXCEPT !.stage = "silent"]]
        <3>1. asked[i].id \in Nat
            BY Streams DEF Requests
        <3>2. asked'[i].stage = "silent"
            BY <2>1, <3>1, RequestMoves
        <3> QED BY <3>2, ReplyKeeps
    <2> QED BY <2>1, ReplyKeeps
<1>3. UNCHANGED <<doing, buffer, aired>>
    BY DEF RecordReply, connectionVars
<1>4. /\ lastId \in Nat /\ \A d \in Clients : Unwritten(d) => doing[d].id \in 1..lastId /\ doing[d].id \notin Kept
      /\ lastId + 1 \notin 1..lastId
    BY DEF IdsInv, OwnId, ConversationTypeOK, TranscriptTypeOK
<1>5. \A d \in Clients : Unwritten(d) => doing[d].id \notin Kept'
    <2>1. Kept' \subseteq Kept \cup {lastId + 1}
        BY <1>2 DEF Grown, Kept
    <2> QED BY <1>4, <2>1
<1>6. \A j \in DOMAIN asked : asked[j].repliedTo \in Nat /\ (asked[j].repliedTo # NoReply => Chatted(asked[j].repliedTo))
    BY Streams DEF IdsInv, Requests
<1>7. \A j \in DOMAIN asked' :
        /\ asked'[j].repliedTo # NoReply => asked'[j].repliedTo \in Nat /\ Chatted(asked'[j].repliedTo)
        /\ asked'[j].stage \in {"recorded", "said"} => asked'[j].id \in Kept'
    <2>1. asked'[i].stage \in {"recorded", "said"} => asked'[i].id \in Kept'
        BY <1>1, <1>2 DEF Grown
    <2>2. Kept \subseteq Kept'
        BY <1>1 DEF TableKept
    <2> QED BY <1>1, <1>6, <2>1, <2>2 DEF IdsInv
<1>8. \A j \in DOMAIN aired' : aired'[j].id \in Kept
    BY <1>3 DEF IdsInv, HeardIsReadable, Kept
<1>9. \A j \in DOMAIN table' \ DOMAIN table :
        table'[j].repliedTo # NoReply => table'[j].repliedTo \in Nat /\ Chatted(table'[j].repliedTo)
    <2>1. Said(asked[i].repliedTo).repliedTo = asked[i].repliedTo
        BY DEF Said
    <2>2. \A j \in DOMAIN table' \ DOMAIN table : table'[j] = Said(asked[i].repliedTo)
        BY <1>2 DEF Grown
    <2> QED BY <1>6, <2>1, <2>2
<1> QED BY <1>1, <1>3, <1>5, <1>7, <1>8, <1>9, QuietIds

LEMMA QuietStep ==
    ASSUME ConversationTypeOK, IdsInv, UNCHANGED <<lastId, table, unrecorded>>
    PROVE  /\ \A d \in Clients : Unwritten(d) => doing[d].id \notin Kept'
           /\ DOMAIN table' \ DOMAIN table = {}
           /\ \A i \in DOMAIN aired : aired[i].id \in Kept
           /\ \A i \in DOMAIN asked :
                /\ asked[i].repliedTo # NoReply =>
                    asked[i].repliedTo \in Nat /\ Chatted(asked[i].repliedTo)
                /\ asked[i].stage \in {"recorded", "said"} => asked[i].id \in Kept'
BY Streams DEF IdsInv, OwnId, HeardIsReadable, Kept, Requests

LEMMA OtherIds ==
    ASSUME ConversationTypeOK, IdsInv,
           \/ Transition
           \/ PickBest
           \/ \E i \in DOMAIN asked : SayReply(i)
           \/ \E r \in Readers, limit \in Limits : ReadHistory(r, limit)
           \/ UNCHANGED conversationVars
    PROVE  IdsInv'
<1>1. CASE \/ Transition
           \/ \E r \in Readers, limit \in Limits : ReadHistory(r, limit)
           \/ UNCHANGED conversationVars
    <2>1. UNCHANGED <<lastId, table, unrecorded, doing, aired, buffer, asked>>
        BY <1>1 DEF Transition, ReadHistory, ReadPage, conversationVars, transcriptVars, recordVars,
                    connectionVars, streamVars
    <2>2. TableKept
        BY <1>1, ReadType, RestType
    <2> QED BY <2>1, <2>2, QuietStep, QuietIds
<1>2. CASE PickBest
    <2>1. UNCHANGED <<lastId, table, unrecorded, doing, aired>> /\ buffer' = <<>> /\ TableKept
        BY <1>2, PickKeeps DEF PickBest, transcriptVars, recordVars, connectionVars
    <2>2. PICK i \in DOMAIN buffer :
                asked' = Append(asked, [frame |-> buffer[i].frame, repliedTo |-> buffer[i].id,
                                        id |-> 0, stage |-> "asked"])
        BY <1>2, PickKeeps
    <2>3. buffer[i].id \in Nat /\ Chatted(buffer[i].id) /\ asked \in Seq(Requests)
        BY Streams DEF IdsInv, Candidates
    <2> DEFINE new == [frame |-> buffer[i].frame, repliedTo |-> buffer[i].id, id |-> 0, stage |-> "asked"]
    <2>4. new.repliedTo = buffer[i].id /\ new.stage = "asked"
        OBVIOUS
    <2>5. \A j \in DOMAIN asked' : (j \in DOMAIN asked /\ asked'[j] = asked[j]) \/ asked'[j] = new
        <3> HIDE DEF new
        <3> QED BY <2>2, <2>3, Appended DEF new
    <2> HIDE DEF new
    <2>6. \A j \in DOMAIN asked' :
            /\ asked'[j].repliedTo # NoReply =>
                asked'[j].repliedTo \in Nat /\ Chatted(asked'[j].repliedTo)
            /\ asked'[j].stage \in {"recorded", "said"} => asked'[j].id \in Kept'
        BY <2>1, <2>3, <2>4, <2>5, QuietStep
    <2> QED BY <2>1, <2>6, QuietStep, QuietIds
<1>3. ASSUME NEW i \in DOMAIN asked, SayReply(i) PROVE IdsInv'
    <2>1. /\ UNCHANGED <<lastId, table, unrecorded, doing, buffer>> /\ TableKept
          /\ DOMAIN asked' = DOMAIN asked
          /\ \A j \in DOMAIN asked \ {i} : asked'[j] = asked[j]
          /\ asked'[i].repliedTo = asked[i].repliedTo
          /\ asked'[i].id = asked[i].id /\ asked[i].stage = "recorded"
          /\ UNCHANGED aired \/ aired' = Append(aired, ReplyEvent(i))
        BY <1>3, SayType DEF SayReply, transcriptVars, recordVars, connectionVars
    <2>2. asked[i].id \in Kept /\ Kept' = Kept
        BY <2>1, QuietStep DEF Kept
    <2>3. \A j \in DOMAIN aired' : aired'[j].id \in Kept
        <3>1. CASE aired' = Append(aired, ReplyEvent(i))
            <4>1. aired \in Seq(Events) /\ ReplyEvent(i).id = asked[i].id
                BY Streams DEF ReplyEvent
            <4> QED BY <2>1, <2>2, <3>1, <4>1, Appended, QuietStep
        <3> QED BY <2>1, <3>1, QuietStep
    <2>4. \A j \in DOMAIN asked' :
            /\ asked'[j].repliedTo # NoReply =>
                asked'[j].repliedTo \in Nat /\ Chatted(asked'[j].repliedTo)
            /\ asked'[j].stage \in {"recorded", "said"} => asked'[j].id \in Kept'
        BY <2>1, <2>2, QuietStep
    <2> QED BY <2>1, <2>3, <2>4, QuietStep, QuietIds
<1> QED BY <1>1, <1>2, <1>3

-----------------------------------------------------------------------------
(* OrderInv.                                                                *)

NowHeard(f) == \E i \in DOMAIN aired' : aired'[i].frame = f /\ aired'[i].kind # "reply"
NowPaid(f) == paidIn'[f] # "unpaid"

(* What was heard stays heard, what is paid stays paid.                         *)
LEMMA OrderGrows ==
    ASSUME ConversationTypeOK, AiredKept,
           UNCHANGED paidIn \/ \E g \in Frames : Debited(g) /\ room # "pending"
    PROVE  /\ \A f \in Frames : Heard(f) => NowHeard(f)
           /\ \A f \in Frames : Paid(f) => NowPaid(f)
<1>1. \A i \in DOMAIN aired : i \in DOMAIN aired' /\ aired'[i] = aired[i]
    BY AiredGrows
<1>2. \A f \in Frames : Heard(f) => NowHeard(f)
    BY <1>1 DEF Heard, NowHeard
<1>3. room # "unpaid"
    BY DEF ConversationTypeOK
<1>4. \A f \in Frames : Paid(f) => NowPaid(f)
    <2>1. paidIn \in [Frames -> {"unpaid", "pending", "live", "finished"}]
        BY DEF ConversationTypeOK
    <2> QED BY <1>3, <2>1 DEF Paid, NowPaid, Debited
<1> QED BY <1>2, <1>4

(* The room's events, after one more of them.                                   *)
EventFits(e) == e.kind = "reply" \/ (e.kind = kind[e.frame] /\ (e.kind = "superchat" => Paid(e.frame)))

LEMMA AiredOrder ==
    ASSUME ConversationTypeOK, OrderInv, \A f \in Frames : Paid(f) => NowPaid(f),
           \/ UNCHANGED aired
           \/ \E e \in Events : /\ aired' = Append(aired, e) /\ EventFits(e)
                                /\ e.kind = "reply" => Heard(e.frame)
    PROVE  /\ \A i \in DOMAIN aired' :
                aired'[i].kind = "reply" \/
                    (aired'[i].kind = kind[aired'[i].frame]
                        /\ (aired'[i].kind = "superchat" => NowPaid(aired'[i].frame)))
           /\ \A i \in DOMAIN aired' : aired'[i].kind = "reply" =>
                \E j \in 1..(i - 1) : aired'[j].frame = aired'[i].frame /\ aired'[j].kind # "reply"
<1>1. /\ \A i \in DOMAIN aired : EventFits(aired[i]) /\ aired[i].frame \in Frames
      /\ \A i \in DOMAIN aired : aired[i].kind = "reply" =>
            \E j \in 1..(i - 1) : aired[j].frame = aired[i].frame /\ aired[j].kind # "reply"
      /\ aired \in Seq(Events)
    BY Streams DEF OrderInv, EventFits, Events
<1>2. CASE UNCHANGED aired
    BY <1>1, <1>2 DEF EventFits
<1>3. ASSUME NEW e \in Events, aired' = Append(aired, e), EventFits(e), e.kind = "reply" => Heard(e.frame)
      PROVE  /\ \A i \in DOMAIN aired' :
                    aired'[i].kind = "reply" \/
                        (aired'[i].kind = kind[aired'[i].frame]
                            /\ (aired'[i].kind = "superchat" => NowPaid(aired'[i].frame)))
             /\ \A i \in DOMAIN aired' : aired'[i].kind = "reply" =>
                  \E j \in 1..(i - 1) : aired'[j].frame = aired'[i].frame /\ aired'[j].kind # "reply"
    <2> DEFINE n == Len(aired) + 1
    <2>1. /\ n - 1 \in Nat /\ DOMAIN aired = 1..(n - 1) /\ DOMAIN aired' = 1..n /\ aired'[n] = e
          /\ \A i \in DOMAIN aired : i \in DOMAIN aired' /\ aired'[i] = aired[i]
          /\ \A i \in DOMAIN aired' : i \in DOMAIN aired \/ i = n
        <3> HIDE DEF Events
        <3> QED BY <1>1, <1>3, Appended
    <2>2. e.frame \in Frames
        BY DEF Events
    <2> HIDE DEF n
    <2>3. ASSUME NEW i \in DOMAIN aired'
          PROVE  aired'[i].kind = "reply" \/
                    (aired'[i].kind = kind[aired'[i].frame]
                        /\ (aired'[i].kind = "superchat" => NowPaid(aired'[i].frame)))
        BY <1>1, <1>3, <2>1, <2>2 DEF EventFits
    <2>4. ASSUME NEW i \in DOMAIN aired', aired'[i].kind = "reply"
          PROVE  \E j \in 1..(i - 1) : aired'[j].frame = aired'[i].frame /\ aired'[j].kind # "reply"
        <3>1. CASE i = n
            <4>1. PICK j \in DOMAIN aired : aired[j].frame = e.frame /\ aired[j].kind # "reply"
                BY <1>3, <2>1, <2>4, <3>1 DEF Heard
            <4> QED BY <2>1, <3>1, <4>1
        <3>2. CASE i \in DOMAIN aired
            <4>1. PICK j \in 1..(i - 1) : aired[j].frame = aired[i].frame /\ aired[j].kind # "reply"
                BY <1>1, <2>1, <2>4, <3>2
            <4>2. j \in DOMAIN aired
                BY <2>1, <3>2
            <4> QED BY <2>1, <3>2, <4>1, <4>2
        <3> QED BY <2>1, <3>1, <3>2
    <2> QED BY <2>3, <2>4
<1> QED BY <1>2, <1>3

(* The first part of InOrder, for the client of the step.                       *)
LEMMA OnAirWhenOpen ==
    ASSUME ConversationTypeOK, OrderInv, NEW c \in Clients, ClientStep(c)
    PROVE  conn'[c] \in {"admitted", "on"} => room' # "pending"
<1>1. UNCHANGED room /\ conn \in [Clients -> {"out", "greeting", "known", "admitted", "on", "over"}]
    BY ClientShares DEF Shares, ConversationTypeOK
<1>2. conn[c] \in {"admitted", "on"} => room # "pending"
    BY DEF OrderInv, InOrder
<1>3. CASE Connect(c)
    BY <1>1, <1>2, <1>3 DEF Connect, Accept, Authenticate, EnsureOpen, Subscribe, Goto
<1>4. CASE Handle(c)
    <2>1. CASE \E f \in Frames : Receive(c, f)
        BY <1>1, <1>2, <2>1 DEF Receive
    <2>2. CASE Charge(c) \/ Record(c) \/ Show(c) \/ Offer(c) \/ RequestThanks(c)
        BY <1>1, <1>2, <2>2, HandleMoves, InHand
    <2>3. CASE ChargeRefused(c)
        BY <1>1, <2>3 DEF ChargeRefused, Closed, Goto
    <2> QED BY <1>4, <2>1, <2>2, <2>3 DEF Handle
<1>5. CASE Leave(c) \/ BreakOff(c)
    BY <1>1, <1>5 DEF Leave, BreakOff, Closed, Goto
<1> QED BY <1>3, <1>4, <1>5 DEF ClientStep

(* What becomes of the frame in hand: it is over, it comes in, it goes on.       *)
GivenUp(c) ==
    /\ doing'[c] = Nothing
    /\ doing[c].frame # NoFrame /\ UNCHANGED failures =>
        /\ UNCHANGED paidIn
        /\ \/ doing[c].call \in {"charge", "offer"}
           \/ doing[c].call = "request" /\ asked' = Append(asked, Thanks(c))
ComesIn(c) ==
    /\ doing[c] = Nothing
    /\ doing'[c].call = "charge" \/ (doing'[c].call = "record" /\ IsMessage(c)')
GoesOn(c) ==
    /\ doing[c].frame # NoFrame /\ doing'[c].frame = doing[c].frame /\ doing'[c].call = After(c)
    /\ \/ doing[c].call = "charge" /\ Debited(doing[c].frame)
       \/ doing[c].call = "record"
       \/ /\ doing[c].call = "show" /\ aired' = Append(aired, Event(c))
          /\ doing'[c].id = doing[c].id /\ joined'[c] = joined[c]

LEMMA GoingOn ==
    ASSUME ConversationTypeOK, NEW c \in Clients, NEW id, doing[c].frame # NoFrame,
           doing[c].call \notin {"offer", "request"}, Onward(c, id)
    PROVE  doing'[c].frame = doing[c].frame /\ doing'[c].call = After(c) /\ doing'[c].id = id
           /\ joined'[c] = joined[c]
<1>1. UNCHANGED joined /\ doing' = [doing EXCEPT ![c] = [frame |-> doing[c].frame, call |-> After(c), id |-> id]]
    BY OnwardMoves
<1>2. doing'[c] = [frame |-> doing[c].frame, call |-> After(c), id |-> id]
    BY <1>1 DEF ConversationTypeOK
<1> QED BY <1>1, <1>2

LEMMA ClientTurn ==
    ASSUME ConversationTypeOK, NEW c \in Clients, ClientStep(c)
    PROVE  GivenUp(c) \/ ComesIn(c) \/ GoesOn(c)
<1>1. CASE Connect(c) \/ Leave(c)
    <2>1. doing[c] = Nothing /\ doing'[c] = Nothing
        BY <1>1, ConnectMoves, LeaveMoves DEF Leave
    <2> QED BY <2>1 DEF GivenUp, Nothing
<1>2. ASSUME NEW f \in Frames, Receive(c, f) PROVE GivenUp(c) \/ ComesIn(c) \/ GoesOn(c)
    <2>1. doing[c] = Nothing
        BY <1>2, ReceiveMoves
    <2>2. CASE doing'[c] = Nothing
        BY <2>1, <2>2 DEF GivenUp, Nothing
    <2>3. CASE doing'[c] # Nothing
        BY <1>2, <2>1, <2>3, ReceiveMoves DEF ComesIn, IsMessage
    <2> QED BY <2>2, <2>3
<1>3. CASE BreakOff(c)
    <2>1. doing'[c] = Nothing /\ failures' = failures + 1 /\ failures \in Nat
        BY <1>3, LeaveMoves DEF BreakOff, Fail, ConversationTypeOK
    <2>2. failures' # failures
        BY <2>1
    <2> QED BY <2>1, <2>2 DEF GivenUp
<1>4. CASE ChargeRefused(c)
    <2>1. doing'[c] = Nothing /\ doing[c].call = "charge" /\ UNCHANGED paidIn
        BY <1>4, LeaveMoves DEF ChargeRefused, At
    <2> QED BY <2>1 DEF GivenUp
<1>5. CASE Charge(c)
    <2>1. doing[c].call = "charge" /\ doing[c].frame # NoFrame
        BY <1>5, HandleMoves DEF Charge, At
    <2>2. CASE Debited(doing[c].frame) /\ Onward(c, 0)
        BY <2>1, <2>2, GoingOn DEF GoesOn
    <2>3. CASE Done(c) /\ UNCHANGED paidIn
        <3>1. doing'[c] = Nothing
            BY <2>3 DEF Done, ConversationTypeOK
        <3> QED BY <2>1, <2>3, <3>1 DEF GivenUp
    <2> QED BY <1>5, <2>2, <2>3 DEF Charge
<1>6. CASE Record(c)
    <2>1. doing[c].call = "record" /\ doing[c].frame # NoFrame /\ Onward(c, RowId(c))
        BY <1>6, HandleMoves DEF Record, At
    <2> QED BY <2>1, GoingOn DEF GoesOn
<1>7. CASE Show(c)
    <2>1. /\ doing[c].call = "show" /\ doing[c].frame # NoFrame /\ Onward(c, doing[c].id)
          /\ aired' = Append(aired, Event(c))
        BY <1>7, HandleMoves DEF Show, At, Air
    <2> QED BY <2>1, GoingOn DEF GoesOn
<1>8. CASE Offer(c) \/ RequestThanks(c)
    <2>1. /\ doing[c].frame # NoFrame /\ Onward(c, doing[c].id) /\ doing[c].call \in {"offer", "request"}
          /\ UNCHANGED paidIn
        BY <1>8, HandleMoves DEF Offer, RequestThanks, At, payVars
    <2>2. doing'[c] = Nothing
        <3>1. Done(c)
            BY <2>1, OnwardMoves
        <3> QED BY <3>1 DEF Done, ConversationTypeOK
    <2>3. doing[c].call = "offer" \/ (doing[c].call = "request" /\ asked' = Append(asked, Thanks(c)))
        BY <1>8 DEF Offer, RequestThanks, At, Ask, Thanks
    <2> QED BY <2>1, <2>2, <2>3 DEF GivenUp
<1> QED BY <1>1, <1>2, <1>3, <1>4, <1>5, <1>6, <1>7, <1>8 DEF ClientStep, Handle

LEMMA ClientGrows ==
    ASSUME ConversationTypeOK, OrderInv, NEW c \in Clients, ClientStep(c)
    PROVE  /\ \A f \in Frames : Heard(f) => NowHeard(f)
           /\ \A f \in Frames : Paid(f) => NowPaid(f)
<1>1. Moves(c) /\ Shares(c) /\ InOrder(c)
    BY ClientMoves, ClientShares DEF OrderInv
<1>2. UNCHANGED paidIn \/ \E g \in Frames : Debited(g) /\ room # "pending"
    <2>1. doing[c].call = "charge" => doing[c].frame \in Frames /\ conn[c] = "on"
        BY AtFrame, InHand DEF At
    <2>2. doing[c].call = "charge" => room # "pending"
        BY <1>1, <2>1 DEF InOrder
    <2> QED BY <1>1, <2>1, <2>2 DEF Shares
<1> QED BY <1>1, <1>2, OrderGrows DEF Moves

LEMMA ClientInOrder ==
    ASSUME ConversationTypeOK, OrderInv, NEW c \in Clients, ClientStep(c)
    PROVE  InOrder(c)'
<1>1. /\ InOrder(c)
      /\ conn'[c] \in {"admitted", "on"} => room' # "pending"
      /\ \A f \in Frames : Heard(f) => NowHeard(f)
      /\ \A f \in Frames : Paid(f) => NowPaid(f)
    BY OnAirWhenOpen, ClientGrows DEF OrderInv
<1>2. SUFFICES /\ doing'[c].call \in {"record", "show", "request"} /\ ~IsMessage(c)' => NowPaid(doing'[c].frame)
               /\ doing'[c].call \in {"offer", "request"} => NowHeard(doing'[c].frame)
    <2>1. Paid(doing[c].frame)' <=> NowPaid(doing'[c].frame)
        BY DEF Paid, NowPaid
    <2>2. Heard(doing[c].frame)' <=> NowHeard(doing'[c].frame)
        BY DEF Heard, NowHeard
    <2> QED BY <1>1, <1>2, <2>1, <2>2 DEF InOrder
<1>3. CASE GivenUp(c)
    BY <1>3 DEF GivenUp, Nothing
<1>4. CASE ComesIn(c)
    BY <1>4 DEF ComesIn
<1>5. CASE GoesOn(c)
    <2>1. doing'[c].frame = doing[c].frame /\ doing'[c].call = After(c) /\ doing[c].frame # NoFrame
        BY <1>5 DEF GoesOn
    <2>2. doing[c].frame \in Frames /\ (IsMessage(c)' <=> IsMessage(c))
        BY <2>1, InHand DEF IsMessage
    <2>3. CASE doing[c].call = "charge" /\ Debited(doing[c].frame)
        <3>1. NowPaid(doing[c].frame)
            <4>1. room \in {"pending", "live", "finished"}
                BY DEF ConversationTypeOK
            <4>2. paidIn \in [Frames -> {"unpaid", "pending", "live", "finished"}]
                BY DEF ConversationTypeOK
            <4> QED BY <2>2, <2>3, <4>1, <4>2 DEF NowPaid, Debited
        <3>2. After(c) = "record"
            BY <2>3 DEF After
        <3> QED BY <2>1, <3>1, <3>2
    <2>4. CASE doing[c].call = "record"
        <3>1. After(c) = "show" /\ (~IsMessage(c) => NowPaid(doing[c].frame))
            BY <1>1, <2>2, <2>4 DEF After, InOrder
        <3> QED BY <2>1, <2>2, <3>1
    <2>5. CASE doing[c].call = "show" /\ aired' = Append(aired, Event(c))
        <3>1. (~IsMessage(c) => NowPaid(doing[c].frame))
            BY <1>1, <2>2, <2>5 DEF InOrder
        <3>2. NowHeard(doing[c].frame)
            <4>1. aired \in Seq(Events) /\ Event(c).frame = doing[c].frame /\ Event(c).kind # "reply"
                BY <2>1, Streams, EventInHand, InHand
            <4>2. Len(aired) + 1 \in DOMAIN aired' /\ aired'[Len(aired) + 1] = Event(c)
                BY <2>5, <4>1, Appended
            <4> QED BY <4>1, <4>2 DEF NowHeard
        <3> QED BY <2>1, <2>2, <3>1, <3>2
    <2> QED BY <1>5, <2>3, <2>4, <2>5 DEF GoesOn
<1> QED BY <1>3, <1>4, <1>5, ClientTurn

LEMMA PaidInOrder ==
    ASSUME ConversationTypeOK, OrderInv,
           \/ UNCHANGED paidIn
           \/ \E g \in Frames : Debited(g) /\ kind[g] = "superchat" /\ room # "pending"
    PROVE  \A f \in Frames : NowPaid(f) => kind[f] = "superchat" /\ paidIn'[f] # "pending"
<1>1. /\ paidIn \in [Frames -> {"unpaid", "pending", "live", "finished"}]
      /\ \A f \in Frames : paidIn[f] # "unpaid" => kind[f] = "superchat" /\ paidIn[f] # "pending"
    BY DEF ConversationTypeOK, OrderInv, Paid
<1>2. CASE UNCHANGED paidIn
    BY <1>1, <1>2 DEF NowPaid
<1>3. ASSUME NEW g \in Frames, Debited(g), kind[g] = "superchat", room # "pending"
      PROVE  \A f \in Frames : NowPaid(f) => kind[f] = "superchat" /\ paidIn'[f] # "pending"
    BY <1>1, <1>3 DEF NowPaid, Debited
<1> QED BY <1>2, <1>3

(* The steps of the persona and of the room, and of the other clients.          *)
LEMMA KeptOrder ==
    ASSUME ConversationTypeOK, OrderInv, NEW d \in Clients, doing'[d] = doing[d], conn'[d] = conn[d],
           room # "pending" => room' # "pending",
           \A f \in Frames : Heard(f) => NowHeard(f),
           \A f \in Frames : Paid(f) => NowPaid(f)
    PROVE  InOrder(d)'
<1>1. InOrder(d) /\ (doing[d].call # "none" => doing[d].frame \in Frames)
    BY DEF OrderInv, ConversationTypeOK, Nothing
<1>2. (Paid(doing[d].frame)' <=> NowPaid(doing[d].frame)) /\ (Heard(doing[d].frame)' <=> NowHeard(doing[d].frame))
      /\ (IsMessage(d)' <=> IsMessage(d))
    BY DEF Paid, NowPaid, Heard, NowHeard, IsMessage
<1> QED BY <1>1, <1>2 DEF InOrder

LEMMA OrderPrimed ==
    ASSUME \A d \in Clients : InOrder(d)',
           \A i \in DOMAIN buffer' : NowHeard(buffer'[i].frame),
           \A i \in DOMAIN asked' : NowHeard(asked'[i].frame),
           \A i \in DOMAIN aired' :
                aired'[i].kind = "reply" \/
                    (aired'[i].kind = kind[aired'[i].frame]
                        /\ (aired'[i].kind = "superchat" => NowPaid(aired'[i].frame))),
           \A i \in DOMAIN aired' : aired'[i].kind = "reply" =>
                \E j \in 1..(i - 1) : aired'[j].frame = aired'[i].frame /\ aired'[j].kind # "reply",
           \A f \in Frames : NowPaid(f) => kind[f] = "superchat" /\ paidIn'[f] # "pending"
    PROVE  OrderInv'
BY DEF OrderInv, Paid, NowPaid, Heard, NowHeard

LEMMA ClientOrder ==
    ASSUME ConversationTypeOK, OrderInv, NEW c \in Clients, ClientStep(c)
    PROVE  OrderInv'
<1>1. /\ Moves(c) /\ Shares(c) /\ InOrder(c)
      /\ \A f \in Frames : Heard(f) => NowHeard(f)
      /\ \A f \in Frames : Paid(f) => NowPaid(f)
    BY ClientMoves, ClientShares, ClientGrows DEF OrderInv
<1>2. doing[c].call # "none" =>
        /\ doing[c].frame \in Frames /\ doing[c].frame # NoFrame /\ conn[c] = "on"
        /\ doing[c].call \in FrameCalls(c) /\ kind[doing[c].frame] \in {"message", "superchat"}
    BY AtFrame, InHand DEF At
<1>3. \A d \in Clients : InOrder(d)'
    <2>1. \A d \in Clients \ {c} : doing'[d] = doing[d] /\ conn'[d] = conn[d]
        BY <1>1 DEF Moves, Others
    <2>2. UNCHANGED room
        BY <1>1 DEF Shares
    <2> QED BY <1>1, <2>1, <2>2, ClientInOrder, KeptOrder
<1>4. \A i \in DOMAIN buffer' : NowHeard(buffer'[i].frame)
    <2>1. \A i \in DOMAIN buffer : NowHeard(buffer[i].frame)
        BY <1>1, Streams DEF OrderInv, Candidates
    <2>2. CASE doing[c].call = "offer" /\ buffer' = Append(buffer, Offering(c))
        <3>1. buffer \in Seq(Candidates) /\ Offering(c).frame = doing[c].frame
            BY Streams DEF Offering
        <3>2. NowHeard(doing[c].frame)
            BY <1>1, <1>2, <2>2 DEF InOrder
        <3> QED BY <2>1, <2>2, <3>1, <3>2, Appended
    <2> QED BY <1>1, <2>1, <2>2 DEF Shares
<1>5. \A i \in DOMAIN asked' : NowHeard(asked'[i].frame)
    <2>1. \A i \in DOMAIN asked : NowHeard(asked[i].frame)
        BY <1>1, Streams DEF OrderInv, Requests
    <2>2. CASE doing[c].call = "request" /\ asked' = Append(asked, Thanks(c))
        <3>1. asked \in Seq(Requests) /\ Thanks(c).frame = doing[c].frame
            BY Streams DEF Thanks
        <3>2. NowHeard(doing[c].frame)
            BY <1>1, <1>2, <2>2 DEF InOrder
        <3> QED BY <2>1, <2>2, <3>1, <3>2, Appended
    <2> QED BY <1>1, <2>1, <2>2 DEF Shares
<1>6. \/ UNCHANGED aired
      \/ \E e \in Events : /\ aired' = Append(aired, e) /\ EventFits(e)
                           /\ e.kind = "reply" => Heard(e.frame)
    <2>1. CASE doing[c].call = "show" /\ aired' = Append(aired, Event(c))
        <3>1. Event(c) \in Events /\ Event(c).kind = kind[doing[c].frame] /\ Event(c).frame = doing[c].frame
            BY <1>2, <2>1, EventInHand
        <3>2. ~IsMessage(c) => Paid(doing[c].frame)
            BY <1>1, <2>1 DEF InOrder
        <3>3. EventFits(Event(c)) /\ Event(c).kind # "reply"
            BY <1>2, <2>1, <3>1, <3>2 DEF EventFits, IsMessage
        <3> QED BY <2>1, <3>1, <3>3
    <2> QED BY <1>1, <2>1 DEF Shares
<1>7. \A f \in Frames : NowPaid(f) => kind[f] = "superchat" /\ paidIn'[f] # "pending"
    <2>1. CASE doing[c].call = "charge" /\ Debited(doing[c].frame)
        <3>1. kind[doing[c].frame] = "superchat" /\ room # "pending" /\ doing[c].frame \in Frames
            BY <1>1, <1>2, <2>1 DEF FrameCalls, IsMessage, InOrder
        <3> QED BY <2>1, <3>1, PaidInOrder
    <2> QED BY <1>1, <2>1, PaidInOrder DEF Shares
<1>8. /\ \A i \in DOMAIN aired' :
            aired'[i].kind = "reply" \/
                (aired'[i].kind = kind[aired'[i].frame]
                    /\ (aired'[i].kind = "superchat" => NowPaid(aired'[i].frame)))
      /\ \A i \in DOMAIN aired' : aired'[i].kind = "reply" =>
            \E j \in 1..(i - 1) : aired'[j].frame = aired'[i].frame /\ aired'[j].kind # "reply"
    BY <1>1, <1>6, AiredOrder
<1> QED BY <1>3, <1>4, <1>5, <1>7, <1>8, OrderPrimed

LEMMA OtherOrder ==
    ASSUME ConversationTypeOK, IdsInv, OrderInv,
           \/ Transition
           \/ PickBest
           \/ \E i \in DOMAIN asked : RecordReply(i) \/ SayReply(i)
           \/ \E r \in Readers, limit \in Limits : ReadHistory(r, limit)
           \/ UNCHANGED conversationVars
    PROVE  OrderInv'
<1>1. /\ UNCHANGED <<doing, conn, paidIn>> /\ (room # "pending" => room' # "pending")
      /\ UNCHANGED buffer \/ buffer' = <<>>
    <2>1. CASE Transition
        BY <2>1 DEF Transition, connectionVars, payVars, streamVars
    <2>2. CASE PickBest
        BY <2>2 DEF PickBest, connectionVars, payVars
    <2>3. CASE \E i \in DOMAIN asked : RecordReply(i) \/ SayReply(i)
        BY <2>3 DEF RecordReply, SayReply, connectionVars, payVars
    <2>4. CASE \E r \in Readers, limit \in Limits : ReadHistory(r, limit)
        BY <2>4 DEF ReadHistory, connectionVars, payVars, streamVars
    <2>5. CASE UNCHANGED conversationVars
        BY <2>5 DEF conversationVars, connectionVars, payVars, streamVars
    <2> QED BY <2>1, <2>2, <2>3, <2>4, <2>5
<1>2. /\ \A i \in DOMAIN buffer : Heard(buffer[i].frame) /\ buffer[i].frame \in Frames
      /\ \A i \in DOMAIN asked : Heard(asked[i].frame) /\ asked[i].frame \in Frames
    BY Streams DEF OrderInv, Candidates, Requests
<1>3. \/ UNCHANGED aired
      \/ \E e \in Events : /\ aired' = Append(aired, e) /\ EventFits(e)
                           /\ e.kind = "reply" => Heard(e.frame)
    <2>1. ASSUME NEW i \in DOMAIN asked, SayReply(i)
          PROVE  \/ UNCHANGED aired
                 \/ \E e \in Events : /\ aired' = Append(aired, e) /\ EventFits(e)
                                      /\ e.kind = "reply" => Heard(e.frame)
        <3>1. UNCHANGED aired \/ aired' = Append(aired, ReplyEvent(i))
            BY <2>1, SayType
        <3>2. /\ ReplyEvent(i).kind = "reply" /\ ReplyEvent(i).frame = asked[i].frame
              /\ asked[i].frame \in Frames /\ asked[i].id \in Nat
            BY Streams DEF ReplyEvent, Requests
        <3>3. ReplyEvent(i) \in Events
            BY <3>2 DEF ReplyEvent, Events
        <3>4. EventFits(ReplyEvent(i)) /\ Heard(ReplyEvent(i).frame)
            BY <1>2, <3>2 DEF EventFits
        <3> QED BY <3>1, <3>3, <3>4
    <2>2. CASE \/ Transition
               \/ PickBest
               \/ \E i \in DOMAIN asked : RecordReply(i)
               \/ \E r \in Readers, limit \in Limits : ReadHistory(r, limit)
               \/ UNCHANGED conversationVars
        BY <2>2 DEF Transition, PickBest, RecordReply, ReadHistory, conversationVars, streamVars
    <2> QED BY <2>1, <2>2
<1>4. /\ \A f \in Frames : Heard(f) => NowHeard(f)
      /\ \A f \in Frames : Paid(f) => NowPaid(f)
    <2>1. AiredKept
        BY <1>3 DEF AiredKept
    <2> QED BY <1>1, <2>1, OrderGrows
<1>5. \A d \in Clients : InOrder(d)'
    BY <1>1, <1>4, KeptOrder
<1>6. \A i \in DOMAIN buffer' : NowHeard(buffer'[i].frame)
    BY <1>1, <1>2, <1>4
<1>7. \A i \in DOMAIN asked' : NowHeard(asked'[i].frame)
    <2>1. \A i \in DOMAIN asked : NowHeard(asked[i].frame)
        BY <1>2, <1>4
    <2>2. ASSUME NEW i \in DOMAIN asked, RecordReply(i) \/ SayReply(i)
          PROVE  \A j \in DOMAIN asked' : NowHeard(asked'[j].frame)
        <3>1. /\ DOMAIN asked' = DOMAIN asked
              /\ \A j \in DOMAIN asked \ {i} : asked'[j] = asked[j]
              /\ asked'[i].frame = asked[i].frame
            BY <2>2, ReplyType, SayType
        <3> QED BY <2>1, <3>1
    <2>3. CASE PickBest
        <3>1. PICK i \in DOMAIN buffer :
                asked' = Append(asked, [frame |-> buffer[i].frame, repliedTo |-> buffer[i].id,
                                        id |-> 0, stage |-> "asked"])
            BY <2>3, PickKeeps
        <3> DEFINE new == [frame |-> buffer[i].frame, repliedTo |-> buffer[i].id, id |-> 0, stage |-> "asked"]
        <3>2. new.frame = buffer[i].frame /\ NowHeard(buffer[i].frame) /\ asked \in Seq(Requests)
            BY <1>2, <1>4, Streams
        <3> HIDE DEF new
        <3>3. \A j \in DOMAIN asked' : (j \in DOMAIN asked /\ asked'[j] = asked[j]) \/ asked'[j] = new
            BY <3>1, <3>2, Appended DEF new
        <3> QED BY <2>1, <3>2, <3>3
    <2>4. CASE \/ Transition
               \/ \E r \in Readers, limit \in Limits : ReadHistory(r, limit)
               \/ UNCHANGED conversationVars
        <3>1. UNCHANGED asked
            BY <2>4 DEF Transition, ReadHistory, conversationVars, streamVars
        <3> QED BY <2>1, <3>1
    <2> QED BY <2>2, <2>3, <2>4
<1>8. \A f \in Frames : NowPaid(f) => kind[f] = "superchat" /\ paidIn'[f] # "pending"
    BY <1>1, PaidInOrder
<1>9. /\ \A i \in DOMAIN aired' :
            aired'[i].kind = "reply" \/
                (aired'[i].kind = kind[aired'[i].frame]
                    /\ (aired'[i].kind = "superchat" => NowPaid(aired'[i].frame)))
      /\ \A i \in DOMAIN aired' : aired'[i].kind = "reply" =>
            \E j \in 1..(i - 1) : aired'[j].frame = aired'[i].frame /\ aired'[j].kind # "reply"
    BY <1>3, <1>4, AiredOrder
<1> QED BY <1>5, <1>6, <1>7, <1>8, <1>9, OrderPrimed

-----------------------------------------------------------------------------
(* ShownInv.                                                                *)

NowServed(f) == NowHeard(f) /\ \E i \in DOMAIN asked' : asked'[i].frame = f

(* Paid by the step or before it; where it is not on its way it is served.       *)
LEMMA ShownPrimed ==
    ASSUME failures' = 0 => \A f \in Frames : NowPaid(f) =>
                (doing'[sender[f]].frame = f /\ doing'[sender[f]].call # "charge") \/ NowServed(f)
    PROVE  ShownInv'
BY DEF ShownInv, Paid, NowPaid, Underway, Served, NowServed, Heard, NowHeard, Requested

LEMMA ClientShown ==
    ASSUME ConversationTypeOK, OrderInv, ShownInv, NEW c \in Clients, ClientStep(c)
    PROVE  ShownInv'
<1>1. /\ Moves(c) /\ Shares(c) /\ InOrder(c)
      /\ \A f \in Frames : Heard(f) => NowHeard(f)
      /\ \A f \in Frames : Paid(f) => kind[f] = "superchat"
    BY ClientMoves, ClientShares, ClientGrows DEF OrderInv
<1>2. doing[c].call # "none" =>
        /\ doing[c].frame \in Frames /\ doing[c].frame # NoFrame /\ sender[doing[c].frame] = c
        /\ doing[c].call \in FrameCalls(c)
    BY AtFrame, InHand DEF At
<1>3. \A f \in Frames : Served(f) => NowServed(f)
    <2>1. CASE UNCHANGED asked
        BY <1>1, <2>1 DEF Served, NowServed, Requested
    <2>2. CASE asked' = Append(asked, Thanks(c))
        <3>1. asked \in Seq(Requests)
            BY Streams
        <3> QED BY <1>1, <2>2, <3>1, Appended DEF Served, NowServed, Requested
    <2> QED BY <1>1, <2>1, <2>2 DEF Shares
<1>4. ASSUME failures' = 0, NEW f \in Frames, NowPaid(f)
      PROVE  (doing'[sender[f]].frame = f /\ doing'[sender[f]].call # "charge") \/ NowServed(f)
    <2>1. failures = 0 /\ UNCHANGED failures
        BY <1>1, <1>4, FailuresType DEF Shares, ConversationTypeOK
    <2>2. sender[f] \in Clients /\ f # NoFrame
        BY ConversationAssumption
    <2>3. ASSUME Paid(f), ~Underway(f) PROVE NowServed(f)
        BY <1>3, <2>1, <2>3 DEF ShownInv
    <2>4. paidIn'[f] # paidIn[f] => doing[c].call = "charge" /\ Debited(doing[c].frame) /\ doing[c].frame = f
        <3>1. paidIn \in [Frames -> {"unpaid", "pending", "live", "finished"}]
            BY DEF ConversationTypeOK
        <3>2. UNCHANGED paidIn \/ (doing[c].call = "charge" /\ Debited(doing[c].frame))
            BY <1>1 DEF Shares
        <3> QED BY <1>2, <3>1, <3>2 DEF Debited
    <2>5. CASE sender[f] # c
        <3>1. doing'[sender[f]] = doing[sender[f]]
            BY <1>1, <2>2, <2>5 DEF Moves, Others
        <3>2. Paid(f)
            BY <1>2, <1>4, <2>4, <2>5 DEF Paid, NowPaid
        <3> QED BY <2>3, <3>1, <3>2 DEF Underway
    <2>6. CASE sender[f] = c /\ GivenUp(c)
        <3>1. UNCHANGED paidIn
            <4>1. CASE doing[c].frame = NoFrame
                BY <1>1, <1>2, <4>1 DEF Shares
            <4> QED BY <2>1, <2>6, <4>1 DEF GivenUp
        <3>2. Paid(f) /\ kind[f] = "superchat"
            BY <1>1, <1>4, <3>1 DEF Paid, NowPaid
        <3>3. CASE Underway(f)
            <4>1. doing[c].frame = f /\ doing[c].call # "charge"
                BY <2>6, <3>3 DEF Underway
            <4>2. doing[c].call # "offer"
                BY <1>2, <3>2, <4>1 DEF FrameCalls, IsMessage
            <4>3. doing[c].call = "request" /\ asked' = Append(asked, Thanks(c))
                BY <2>1, <2>2, <2>6, <4>1, <4>2 DEF GivenUp
            <4>4. NowHeard(f)
                BY <1>1, <4>1, <4>3 DEF InOrder
            <4>5. asked \in Seq(Requests) /\ Thanks(c).frame = f
                BY <4>1, Streams DEF Thanks
            <4>6. Len(asked) + 1 \in DOMAIN asked' /\ asked'[Len(asked) + 1] = Thanks(c)
                BY <4>3, <4>5, Appended
            <4> QED BY <4>4, <4>5, <4>6 DEF NowServed
        <3> QED BY <2>3, <3>2, <3>3
    <2>7. CASE sender[f] = c /\ ComesIn(c)
        <3>1. doing[c] = Nothing
            BY <2>7 DEF ComesIn
        <3>2. Paid(f) /\ ~Underway(f)
            BY <1>4, <2>2, <2>4, <2>7, <3>1 DEF Paid, NowPaid, Underway, Nothing
        <3> QED BY <2>3, <3>2
    <2>8. CASE sender[f] = c /\ GoesOn(c)
        <3>1. CASE doing[c].frame = f
            <4>1. doing'[c].frame = f /\ doing'[c].call = After(c) /\ After(c) # "charge"
                BY <2>8, <3>1 DEF GoesOn, After
            <4> QED BY <2>8, <4>1
        <3>2. CASE doing[c].frame # f
            <4>1. Paid(f) /\ ~Underway(f)
                BY <1>4, <2>4, <2>8, <3>2 DEF Paid, NowPaid, Underway
            <4> QED BY <2>3, <4>1
        <3> QED BY <3>1, <3>2
    <2> QED BY <2>5, <2>6, <2>7, <2>8, ClientTurn
<1> QED BY <1>4, ShownPrimed

LEMMA OtherShown ==
    ASSUME ConversationTypeOK, IdsInv, OrderInv, ShownInv,
           \/ Transition
           \/ PickBest
           \/ \E i \in DOMAIN asked : RecordReply(i) \/ SayReply(i)
           \/ \E r \in Readers, limit \in Limits : ReadHistory(r, limit)
           \/ UNCHANGED conversationVars
    PROVE  ShownInv'
<1>1. /\ UNCHANGED <<doing, paidIn>>
      /\ FailuresKept
    <2>1. CASE Transition
        BY <2>1 DEF Transition, connectionVars, payVars, FailuresKept
    <2>2. CASE PickBest
        BY <2>2 DEF PickBest, connectionVars, payVars, FailuresKept
    <2>3. CASE \E i \in DOMAIN asked : RecordReply(i) \/ SayReply(i)
        BY <2>3 DEF RecordReply, SayReply, connectionVars, payVars, FailuresKept
    <2>4. CASE \E r \in Readers, limit \in Limits : ReadHistory(r, limit)
        BY <2>4 DEF ReadHistory, connectionVars, payVars, FailuresKept
    <2>5. CASE UNCHANGED conversationVars
        BY <2>5 DEF conversationVars, connectionVars, payVars, FailuresKept
    <2> QED BY <2>1, <2>2, <2>3, <2>4, <2>5
<1>2. AiredKept
    <2>1. ASSUME NEW i \in DOMAIN asked, SayReply(i) PROVE AiredKept
        <3>1. UNCHANGED aired \/ aired' = Append(aired, ReplyEvent(i))
            BY <2>1, SayType
        <3>2. asked[i].frame \in Frames /\ asked[i].id \in Nat
            BY Streams DEF Requests
        <3>3. ReplyEvent(i) \in Events
            BY <3>2 DEF ReplyEvent, Events
        <3> QED BY <3>1, <3>3 DEF AiredKept
    <2>2. CASE \/ Transition
               \/ PickBest
               \/ \E i \in DOMAIN asked : RecordReply(i)
               \/ \E r \in Readers, limit \in Limits : ReadHistory(r, limit)
               \/ UNCHANGED conversationVars
        BY <2>2 DEF Transition, PickBest, RecordReply, ReadHistory, conversationVars, streamVars, AiredKept
    <2> QED BY <2>1, <2>2
<1>3. \A f \in Frames : Heard(f) => NowHeard(f)
    BY <1>1, <1>2, OrderGrows
<1>4. \A f \in Frames : Requested(f) => \E j \in DOMAIN asked' : asked'[j].frame = f
    <2>1. ASSUME NEW i \in DOMAIN asked, RecordReply(i) \/ SayReply(i)
          PROVE  \A j \in DOMAIN asked : j \in DOMAIN asked' /\ asked'[j].frame = asked[j].frame
        BY <2>1, ReplyType, SayType
    <2>2. CASE PickBest
        <3>1. PICK i \in DOMAIN buffer :
                asked' = Append(asked, [frame |-> buffer[i].frame, repliedTo |-> buffer[i].id,
                                        id |-> 0, stage |-> "asked"])
            BY <2>2, PickKeeps
        <3>2. asked \in Seq(Requests)
            BY Streams
        <3>3. \A j \in DOMAIN asked : j \in DOMAIN asked' /\ asked'[j] = asked[j]
            BY <3>1, <3>2, Appended
        <3> QED BY <3>3 DEF Requested
    <2>3. CASE \/ Transition
               \/ \E r \in Readers, limit \in Limits : ReadHistory(r, limit)
               \/ UNCHANGED conversationVars
        <3>1. UNCHANGED asked
            BY <2>3 DEF Transition, ReadHistory, conversationVars, streamVars
        <3> QED BY <3>1 DEF Requested
    <2> QED BY <2>1, <2>2, <2>3 DEF Requested
<1>5. failures' = 0 => failures = 0
    BY <1>1, FailuresType DEF ConversationTypeOK
<1>6. failures' = 0 => \A f \in Frames : NowPaid(f) =>
        (doing'[sender[f]].frame = f /\ doing'[sender[f]].call # "charge") \/ NowServed(f)
    BY <1>1, <1>3, <1>4, <1>5 DEF ShownInv, Paid, NowPaid, Underway, Served, NowServed
<1> QED BY <1>6, ShownPrimed

-----------------------------------------------------------------------------
(* EchoReaches.                                                             *)

LEMMA EchoKept ==
    ASSUME ConversationTypeOK, AiredKept, NEW d \in Sockets, doing'[d] = doing[d], joined'[d] = joined[d],
           \E i \in (joined[d] + 1)..Len(aired) : aired[i] = Event(d)
    PROVE  \E i \in (joined'[d] + 1)..Len(aired') : aired'[i] = Event(d)'
<1>1. PICK i \in (joined[d] + 1)..Len(aired) : aired[i] = Event(d)
    OBVIOUS
<1>2. /\ joined[d] \in Nat /\ Len(aired) \in Nat /\ Len(aired') \in Nat /\ Len(aired) <= Len(aired')
      /\ \A j \in DOMAIN aired : j \in DOMAIN aired' /\ aired'[j] = aired[j]
      /\ DOMAIN aired = 1..Len(aired)
    <2>1. joined[d] \in Nat
        BY DEF ConversationTypeOK, Clients
    <2>2. aired \in Seq(Events)
        BY Streams
    <2>3. DOMAIN aired = 1..Len(aired)
        BY <2>2
    <2> QED BY <2>1, <2>3, AiredGrows
<1>3. i \in DOMAIN aired /\ i \in (joined'[d] + 1)..Len(aired')
    BY <1>2
<1>4. Event(d)' = Event(d)
    BY DEF Event
<1> QED BY <1>1, <1>2, <1>3, <1>4

LEMMA EchoStep ==
    ASSUME ConversationTypeOK, EchoReaches, NEW c \in Clients, ClientStep(c)
    PROVE  EchoReaches'
<1>1. Moves(c) /\ AiredKept
    BY ClientMoves DEF Moves
<1>2. ASSUME NEW d \in Sockets, d # c, doing'[d].call \in {"offer", "request"}
      PROVE  \E i \in (joined'[d] + 1)..Len(aired') : aired'[i] = Event(d)'
    <2>1. doing'[d] = doing[d] /\ joined'[d] = joined[d]
        BY <1>1, <1>2 DEF Moves, Others, Clients
    <2>2. \E i \in (joined[d] + 1)..Len(aired) : aired[i] = Event(d)
        BY <1>2, <2>1 DEF EchoReaches
    <2> QED BY <1>1, <2>1, <2>2, EchoKept
<1>3. ASSUME c \in Sockets, doing'[c].call \in {"offer", "request"}
      PROVE  \E i \in (joined'[c] + 1)..Len(aired') : aired'[i] = Event(c)'
    <2>1. GoesOn(c)
        BY <1>3, ClientTurn DEF GivenUp, ComesIn, Nothing
    <2>2. /\ doing[c].call = "show" /\ aired' = Append(aired, Event(c))
          /\ doing'[c].id = doing[c].id /\ joined'[c] = joined[c] /\ doing'[c].frame = doing[c].frame
        <3>1. After(c) \in {"offer", "request"}
            BY <1>3, <2>1 DEF GoesOn
        <3> QED BY <2>1, <3>1 DEF GoesOn, After
    <2>3. Event(c)' = Event(c)
        BY <2>2 DEF Event
    <2>4. joined[c] \in Nat /\ joined[c] <= Len(aired) /\ aired \in Seq(Events)
        BY Streams DEF ConversationTypeOK
    <2>5. Len(aired') = Len(aired) + 1 /\ aired'[Len(aired) + 1] = Event(c) /\ Len(aired) \in Nat
        <3> HIDE DEF Events
        <3> QED BY <2>2, <2>4
    <2>6. Len(aired) + 1 \in (joined'[c] + 1)..Len(aired')
        BY <2>2, <2>4, <2>5
    <2> QED BY <2>3, <2>5, <2>6
<1> QED BY <1>2, <1>3 DEF EchoReaches

LEMMA OtherEcho ==
    ASSUME ConversationTypeOK, EchoReaches, AiredKept, UNCHANGED <<doing, joined>>
    PROVE  EchoReaches'
<1>1. ASSUME NEW d \in Sockets, doing'[d].call \in {"offer", "request"}
      PROVE  \E i \in (joined'[d] + 1)..Len(aired') : aired'[i] = Event(d)'
    <2>1. \E i \in (joined[d] + 1)..Len(aired) : aired[i] = Event(d)
        BY <1>1 DEF EchoReaches
    <2> QED BY <2>1, EchoKept
<1> QED BY <1>1 DEF EchoReaches

-----------------------------------------------------------------------------
(* All together.                                                             *)

LEMMA ConversationStarts ==
    ASSUME ConversationInit
    PROVE  ConversationInv
<1> USE DEF ConversationInit
<1>1. /\ table = <<>> /\ unrecorded = {} /\ lastId = 0 /\ page = [r \in Readers |-> NewPage]
      /\ DOMAIN table = {}
    BY DEF TranscriptInit
<1>2. TranscriptTypeOK
    <2>1. NewPage \in [at : {"new", "next", "end"}, before : Nat,
                       limit : Limits \cup {0}, got : SUBSET (DOMAIN table),
                       twice : BOOLEAN, due : SUBSET (DOMAIN table)]
        BY DEF NewPage
    <2> QED BY <1>1, <2>1 DEF TranscriptTypeOK
<1>3. /\ aired = <<>> /\ buffer = <<>> /\ asked = <<>> /\ DOMAIN aired = {} /\ DOMAIN buffer = {}
      /\ DOMAIN asked = {} /\ Len(aired) = 0
    OBVIOUS
<1>4. ConversationTypeOK
    <2>1. Nothing \in [frame : Frames \cup {NoFrame}, call : Calls, id : Nat] /\ Nothing.frame = NoFrame
        BY DEF Nothing, Calls
    <2>2. aired \in Seq(Events) /\ buffer \in Seq(Candidates) /\ asked \in Seq(Requests)
        BY <1>3
    <2>3. \A c \in Clients : ClientOK(c)
        BY <1>3, <2>1 DEF ClientOK
    <2> QED BY <1>2, <2>1, <2>2, <2>3, ConversationAssumption
            DEF ConversationTypeOK, ClientOK, Events, Candidates, Requests
<1>5. \A c \in Clients : doing[c] = Nothing /\ conn[c] = "out"
    OBVIOUS
<1>6. IdsInv
    <2>1. \A c \in Clients : OwnId(c) /\ ~Unwritten(c)
        BY <1>5 DEF OwnId, Unwritten, Nothing
    <2>2. HeardIsReadable /\ ReplyPointsBack
        BY <1>1, <1>3 DEF HeardIsReadable, ReplyPointsBack
    <2> QED BY <1>3, <2>1, <2>2 DEF IdsInv
<1>7. OrderInv
    BY <1>3, <1>5 DEF OrderInv, InOrder, Paid, Nothing
<1>8. ShownInv
    BY DEF ShownInv, Paid
<1>9. EchoReaches
    BY <1>5 DEF EchoReaches, Nothing, Clients
<1> QED BY <1>4, <1>6, <1>7, <1>8, <1>9 DEF ConversationInv

LEMMA ConversationStep ==
    ASSUME ConversationInv, [ConversationNext]_conversationVars
    PROVE  ConversationInv'
<1> USE DEF ConversationInv
<1>1. ASSUME NEW c \in Clients, ClientStep(c) PROVE ConversationInv'
    BY <1>1, ClientType, ClientIds, ClientOrder, ClientShown, EchoStep
<1>2. CASE PickBest
    <2>1. ConversationTypeOK'
        BY <1>2, PickKeeps
    <2>2. IdsInv' /\ OrderInv' /\ ShownInv'
        BY <1>2, OtherIds, OtherOrder, OtherShown
    <2>3. EchoReaches'
        BY <1>2, OtherEcho DEF PickBest, connectionVars, AiredKept
    <2> QED BY <2>1, <2>2, <2>3
<1>3. ASSUME NEW i \in DOMAIN asked, RecordReply(i) PROVE ConversationInv'
    <2>1. ConversationTypeOK'
        BY <1>3, ReplyType
    <2>2. IdsInv' /\ OrderInv' /\ ShownInv'
        BY <1>3, ReplyIds, OtherOrder, OtherShown
    <2>3. EchoReaches'
        BY <1>3, OtherEcho DEF RecordReply, connectionVars, AiredKept
    <2> QED BY <2>1, <2>2, <2>3
<1>4. ASSUME NEW i \in DOMAIN asked, SayReply(i) PROVE ConversationInv'
    <2>1. ConversationTypeOK'
        BY <1>4, SayType
    <2>2. IdsInv' /\ OrderInv' /\ ShownInv'
        BY <1>4, OtherIds, OtherOrder, OtherShown
    <2>3. AiredKept
        <3>1. asked[i].frame \in Frames /\ asked[i].id \in Nat
            BY Streams DEF Requests
        <3>2. ReplyEvent(i) \in Events
            BY <3>1 DEF ReplyEvent, Events
        <3> QED BY <1>4, <3>2, SayType DEF AiredKept
    <2>4. EchoReaches'
        BY <1>4, <2>3, OtherEcho DEF SayReply, connectionVars
    <2> QED BY <2>1, <2>2, <2>4
<1>5. CASE Transition \/ UNCHANGED conversationVars
    <2>1. ConversationTypeOK'
        BY <1>5, RestType
    <2>2. IdsInv' /\ OrderInv' /\ ShownInv'
        BY <1>5, OtherIds, OtherOrder, OtherShown
    <2>3. EchoReaches'
        BY <1>5, OtherEcho DEF Transition, conversationVars, connectionVars, streamVars, AiredKept
    <2> QED BY <2>1, <2>2, <2>3
<1>6. ASSUME NEW r \in Readers, NEW limit \in Limits, ReadHistory(r, limit) PROVE ConversationInv'
    <2>1. ConversationTypeOK'
        BY <1>6, ReadType
    <2>2. IdsInv' /\ OrderInv' /\ ShownInv'
        BY <1>6, OtherIds, OtherOrder, OtherShown
    <2>3. EchoReaches'
        BY <1>6, OtherEcho DEF ReadHistory, connectionVars, streamVars, AiredKept
    <2> QED BY <2>1, <2>2, <2>3
<1> QED BY <1>1, <1>2, <1>3, <1>4, <1>5, <1>6 DEF ConversationNext, ClientStep

(* Every state of the room on air satisfies the invariant.                      *)
THEOREM ConversationAlways == ConversationSpec => []ConversationInv
<1>1. ConversationInit => ConversationInv
    BY ConversationStarts
<1>2. ConversationInv /\ [ConversationNext]_conversationVars => ConversationInv'
    BY ConversationStep
<1> QED BY <1>1, <1>2, PTL DEF ConversationSpec

(* The types, and the place of each connection's frame among its calls.         *)
THEOREM ConversationTypeCorrect == ConversationSpec => []ConversationTypeOK
<1>1. ConversationInv => ConversationTypeOK
    BY DEF ConversationInv
<1> QED BY <1>1, ConversationAlways, PTL

(* service.py:116, generation.py:243: what the room heard can be read again,     *)
(* unless its own append failed, whoever posts, pays and replies meanwhile.     *)
THEOREM HeardCanBeRead == ConversationSpec => []HeardIsReadable
<1>1. ConversationInv => HeardIsReadable
    BY DEF ConversationInv, IdsInv
<1> QED BY <1>1, ConversationAlways, PTL

(* service.py:116-117: a reply points at a viewer's message that was recorded     *)
(* before it or whose own append failed.                                      *)
THEOREM RepliesPointBack == ConversationSpec => []ReplyPointsBack
<1>1. ConversationInv => ReplyPointsBack
    BY DEF ConversationInv, IdsInv
<1> QED BY <1>1, ConversationAlways, PTL

(* service.py:149-153: no superchat is shown unpaid or paid for in a room that   *)
(* was never live, and no thanks precede its display.                         *)
THEOREM PaidShownThanked == ConversationSpec => []OrderIsKept
<1>1. ConversationInv => OrderIsKept
    <2> SUFFICES ASSUME ConversationInv, NEW f \in Frames, kind[f] = "superchat"
                 PROVE  /\ \A i \in Replies(f) : \E j \in Shown(f) : j < i
                        /\ Shown(f) # {} => paidIn[f] # "unpaid"
                        /\ paidIn[f] # "pending"
        BY DEF OrderIsKept
    <2>1. OrderInv /\ DOMAIN aired = 1..Len(aired) /\ Len(aired) \in Nat
        BY Streams DEF ConversationInv
    <2>2. ASSUME NEW i \in Replies(f) PROVE \E j \in Shown(f) : j < i
        <3>1. i \in 1..Len(aired) /\ aired[i].frame = f /\ aired[i].kind = "reply"
            BY <2>1 DEF Replies
        <3>2. PICK j \in 1..(i - 1) : aired[j].frame = f /\ aired[j].kind # "reply"
            BY <2>1, <3>1 DEF OrderInv
        <3>3. j \in 1..Len(aired) /\ j < i
            BY <2>1, <3>1
        <3> QED BY <2>1, <3>2, <3>3 DEF Shown
    <2>3. Shown(f) # {} => paidIn[f] # "unpaid"
        BY <2>1 DEF Shown, OrderInv, Paid
    <2>4. paidIn[f] # "pending"
        BY <2>1 DEF OrderInv, Paid
    <2> QED BY <2>2, <2>3, <2>4
<1> QED BY <1>1, ConversationAlways, PTL

(* service.py:151: while no call broke a handler off, whoever has been charged    *)
(* sees the superchat shown and thanks asked for.                             *)
THEOREM ChargedGetsShown == ConversationSpec => []ChargedIsShown
<1>1. ConversationInv => ChargedIsShown
    <2> SUFFICES ASSUME ConversationInv, failures = 0, NEW c \in Clients, NEW f \in Frames,
                        paidIn[f] # "unpaid", sender[f] = c, doing[c].frame # f
                 PROVE  Shown(f) # {} /\ \E i \in DOMAIN asked : asked[i].frame = f
        BY DEF ChargedIsShown
    <2>1. Served(f)
        BY DEF ConversationInv, ShownInv, Paid, Underway
    <2> QED BY <2>1 DEF Served, Heard, Requested, Shown
<1> QED BY <1>1, ConversationAlways, PTL

(* ws/router.py:11-12: the subscription precedes everything a connection sends,   *)
(* so the viewer gets every frame of their own back.                          *)
THEOREM OwnFramesComeBack == ConversationSpec => []EchoReaches
<1>1. ConversationInv => EchoReaches
    BY DEF ConversationInv
<1> QED BY <1>1, ConversationAlways, PTL

(* transcript.py:87, http/router.py:214: whatever limits a reader asks for and     *)
(* whoever writes, no message comes twice, and a reader whose last page was       *)
(* asked for with a limit that the repository keeps to has missed nothing that    *)
(* was there when it began.                                                    *)
THEOREM PagesLoseNothing == ConversationSpec => []PagesAreGapless
<1>1. ConversationInit => PagesInv
    BY DEF ConversationInit, TranscriptInit, PagesInv, PageFits, NewPage
<1>2. ConversationTypeOK /\ PagesInv /\ [ConversationNext]_conversationVars => PagesInv'
    <2> SUFFICES ASSUME ConversationTypeOK, PagesInv, [ConversationNext]_conversationVars PROVE PagesInv'
        OBVIOUS
    <2>1. ASSUME NEW r \in Readers, NEW limit \in Limits, ReadHistory(r, limit) PROVE PagesInv'
        BY <2>1, PageKeeps DEF ReadHistory, ConversationTypeOK
    <2>2. ASSUME UNCHANGED page PROVE PagesInv'
        BY <2>2 DEF PagesInv, PageFits, NewPage
    <2>3. ASSUME NEW c \in Clients, ClientStep(c) PROVE UNCHANGED page
        <3>1. CASE Connect(c) \/ Leave(c) \/ BreakOff(c)
            BY <3>1 DEF Connect, Accept, Authenticate, EnsureOpen, Subscribe, Leave, BreakOff, transcriptVars
        <3>2. CASE \E f \in Frames : Receive(c, f)
            BY <3>2 DEF Receive
        <3>3. CASE Charge(c) \/ ChargeRefused(c) \/ Record(c) \/ Show(c) \/ Offer(c) \/ RequestThanks(c)
            BY <3>3 DEF Charge, ChargeRefused, Record, Show, Offer, RequestThanks, transcriptVars
        <3> QED BY <2>3, <3>1, <3>2, <3>3 DEF ClientStep, Handle
    <2>4. ASSUME \/ Transition \/ PickBest \/ UNCHANGED conversationVars
                 \/ \E i \in DOMAIN asked : RecordReply(i) \/ SayReply(i)
          PROVE  UNCHANGED page
        BY <2>4 DEF Transition, PickBest, conversationVars, RecordReply, SayReply, transcriptVars
    <2> QED BY <2>1, <2>2, <2>3, <2>4 DEF ConversationNext, ClientStep
<1>3. PagesInv => PagesAreGapless
    BY DEF PagesInv, PageFits, PagesAreGapless
<1> QED BY <1>1, <1>2, <1>3, ConversationTypeCorrect, PTL DEF ConversationSpec

-----------------------------------------------------------------------------
(* The choice among the comments of a batch: TopicSelection.                   *)

(* And for finite sets: one of which no proper subset is among them.          *)
LEMMA HasLeastSet ==
    ASSUME NEW Sets, Sets # {}, \A S \in Sets : IsFiniteSet(S)
    PROVE  \E S \in Sets : \A T \in SUBSET S : T # S => T \notin Sets
<1> DEFINE sizes == {Cardinality(S) : S \in Sets}
<1>1. sizes \subseteq Nat /\ sizes # {}
    BY FS_CardinalityType
<1>2. PICK m \in sizes : \A i \in sizes : m <= i
    BY <1>1, HasLeast
<1>3. PICK S \in Sets : Cardinality(S) = m
    BY <1>2
<1>4. ASSUME NEW T \in SUBSET S, T # S, T \in Sets PROVE FALSE
    <2>1. Cardinality(T) <= Cardinality(S) /\ Cardinality(S) # Cardinality(T)
        BY <1>4, FS_Subset
    <2>2. Cardinality(T) \in sizes /\ Cardinality(T) \in Nat /\ Cardinality(S) \in Nat
        BY <1>1, <1>4
    <2>3. m <= Cardinality(T)
        BY <1>2, <2>2
    <2> QED BY <1>3, <2>1, <2>2, <2>3
<1> QED BY <1>4

(* Clustering a batch comment by comment, as the fold of the community modules   *)
(* does it: a recursive function on the subsets of the batch, of which the       *)
(* prefixes matter.  That there is one is proved by the least set without.      *)
Position(batch) == [i \in DOMAIN batch |-> i]
Clusters(batch, g, S) ==
    g = [s \in SUBSET S |->
            IF s = {} THEN <<>>
            ELSE Joined(batch, g[s \ {Max(s)}], Position(batch)[Max(s)])]

(* A set of positions without its last is smaller.                          *)
LEMMA MaxIsGreatest ==
    ASSUME NEW n \in Nat, NEW s \in SUBSET (1..n), s # {}
    PROVE  Max(s) \in s /\ s \ {Max(s)} \in SUBSET s /\ s \ {Max(s)} # s
<1>1. \E m \in s : \A i \in s : m >= i
    <2>1. PICK m \in s : \A i \in s : i <= m
        BY HasGreatest
    <2>2. \A i \in s : i \in Nat
        OBVIOUS
    <2> QED BY <2>1, <2>2
<1>2. Max(s) \in s
    BY <1>1 DEF Max
<1> QED BY <1>2

(* Sets of positions are finite.                                            *)
LEMMA FinitePositions ==
    ASSUME NEW n \in Nat, NEW S \in SUBSET (1..n)
    PROVE  IsFiniteSet(S)
<1>1. IsFiniteSet(1..n)
    BY FS_Interval
<1> QED BY <1>1, FS_Subset

(* Where two such functions are defined they are the same.                  *)
LEMMA ClustersAgree ==
    ASSUME NEW batch \in Seq(Comments)
    PROVE  \A S, T, U \in SUBSET (1..Len(batch)) : U \in SUBSET S /\ U \in SUBSET T =>
                \A g, h : Clusters(batch, g, S) /\ Clusters(batch, h, T) => g[U] = h[U]
<1> SUFFICES ASSUME NEW S \in SUBSET (1..Len(batch)), NEW T \in SUBSET (1..Len(batch)),
                    NEW U \in SUBSET (1..Len(batch)), U \in SUBSET S, U \in SUBSET T,
                    NEW g, NEW h, Clusters(batch, g, S), Clusters(batch, h, T), g[U] # h[U]
             PROVE  FALSE
    BY Zenon
<1> DEFINE Sets == {V \in SUBSET U : g[V] # h[V]}
<1>1. U \in Sets /\ \A V \in Sets : IsFiniteSet(V)
    BY FinitePositions, LenProperties
<1>2. PICK V \in Sets : \A W \in SUBSET V : W # V => W \notin Sets
    <2>1. Sets # {} /\ \A V \in Sets : IsFiniteSet(V)
        BY <1>1
    <2> HIDE DEF Sets
    <2> QED BY <2>1, HasLeastSet
<1>3. V \in SUBSET S /\ V \in SUBSET T /\ V \in SUBSET (1..Len(batch))
    OBVIOUS
<1> DEFINE W == V \ {Max(V)}
<1>4. /\ g[V] = IF V = {} THEN <<>> ELSE Joined(batch, g[W], Position(batch)[Max(V)])
      /\ h[V] = IF V = {} THEN <<>> ELSE Joined(batch, h[W], Position(batch)[Max(V)])
    BY <1>3 DEF Clusters
<1>5. CASE V = {}
    BY <1>4, <1>5
<1>6. CASE V # {}
    <2>1. W \in SUBSET V /\ W # V
        BY <1>3, <1>6, MaxIsGreatest, LenProperties
    <2> HIDE DEF W
    <2>2. W \notin Sets /\ W \in SUBSET U
        BY <1>2, <2>1
    <2> QED BY <1>4, <1>6, <2>2
<1> QED BY <1>5, <1>6

(* And there is one on the whole batch.                                     *)
LEMMA ClustersExist ==
    ASSUME NEW batch \in Seq(Comments)
    PROVE  \E g : Clusters(batch, g, 1..Len(batch))
<1> DEFINE Parts == SUBSET (1..Len(batch))
<1>0. \A S, T, U \in Parts : U \in SUBSET S /\ U \in SUBSET T =>
        \A g, h : Clusters(batch, g, S) /\ Clusters(batch, h, T) => g[U] = h[U]
    BY ClustersAgree, Zenon
<1> SUFFICES ASSUME ~ \E g : Clusters(batch, g, 1..Len(batch)) PROVE FALSE
    OBVIOUS
<1> DEFINE Sets == {V \in SUBSET (1..Len(batch)) : ~ \E g : Clusters(batch, g, V)}
<1>1. 1..Len(batch) \in Sets /\ \A V \in Sets : IsFiniteSet(V)
    BY FinitePositions, LenProperties
<1>2. PICK V \in Sets : \A W \in SUBSET V : W # V => W \notin Sets
    <2>1. Sets # {} /\ \A V \in Sets : IsFiniteSet(V)
        BY <1>1
    <2> HIDE DEF Sets
    <2> QED BY <2>1, HasLeastSet
<1> DEFINE way(W) == CHOOSE g : Clusters(batch, g, W)
           value(W) == way(W)[W]
           less(W) == W \ {Max(W)}
           all == [W \in SUBSET V |->
                        IF W = {} THEN <<>>
                        ELSE Joined(batch, value(less(W)), Position(batch)[Max(W)])]
<1>3. ASSUME NEW W \in SUBSET V, W # V PROVE Clusters(batch, way(W), W)
    <2>1. \E g : Clusters(batch, g, W)
        BY <1>2, <1>3
    <2> QED BY <2>1
<1>4. ASSUME NEW W \in SUBSET V, W # {} PROVE less(W) \in SUBSET W /\ less(W) # W
    BY <1>4, MaxIsGreatest, LenProperties
<1>5. ASSUME NEW W \in SUBSET V, W # V PROVE all[W] = value(W)
    <2>1. Clusters(batch, way(W), W)
        BY <1>3, <1>5
    <2>2. value(W) = IF W = {} THEN <<>>
                     ELSE Joined(batch, way(W)[less(W)], Position(batch)[Max(W)])
        BY <2>1 DEF Clusters
    <2>3. CASE W = {}
        BY <2>2, <2>3
    <2>4. CASE W # {}
        <3> HIDE DEF less
        <3>1. less(W) \in SUBSET W /\ less(W) \in SUBSET V /\ less(W) # V
            BY <1>4, <1>5, <2>4
        <3>2. Clusters(batch, way(less(W)), less(W))
            BY <1>3, <3>1
        <3>3. W \in SUBSET (1..Len(batch)) /\ less(W) \in SUBSET (1..Len(batch))
            BY <3>1
        <3>4. less(W) \in SUBSET (W \cap less(W))
            BY <3>1
        <3> HIDE DEF way
        <3>5. way(W)[less(W)] = way(less(W))[less(W)]
            <4>1. W \in Parts /\ less(W) \in Parts
                BY <3>3
            <4>2. less(W) \in SUBSET less(W)
                OBVIOUS
            <4> HIDE DEF Parts
            <4> QED BY <1>0, <2>1, <3>1, <3>2, <4>1, <4>2
        <3>6. value(less(W)) = way(less(W))[less(W)]
            OBVIOUS
        <3> HIDE DEF value
        <3> QED BY <2>2, <2>4, <3>5, <3>6
    <2> QED BY <2>3, <2>4
<1> HIDE DEF value, less
<1>6. ASSUME NEW W \in SUBSET V, W # {} PROVE value(less(W)) = all[less(W)]
    <2>1. less(W) \in SUBSET V /\ less(W) # V
        BY <1>4, <1>6
    <2> QED BY <1>5, <2>1
<1>7. Clusters(batch, all, V)
    BY <1>6 DEF Clusters, less
<1> QED BY <1>2, <1>7

(* So Topics is reached from no topic by joining one comment after the other.     *)
LEMMA TopicsOfPrefixes ==
    ASSUME NEW batch \in Seq(Comments)
    PROVE  \E h : /\ h[0] = <<>>
                  /\ \A k \in 1..Len(batch) : h[k] = Joined(batch, h[k - 1], k)
                  /\ h[Len(batch)] = Topics(batch)
<1> DEFINE n == Len(batch)
           g == CHOOSE g : Clusters(batch, g, 1..n)
<1>1. n \in Nat /\ DOMAIN batch = 1..n /\ DOMAIN Position(batch) = 1..n
    BY DEF Position
<1>2. Topics(batch) = g[1..n]
    BY <1>1, Zenon DEF Topics, FoldLeftDomain, FoldLeft, MapThenFoldSet, Clusters, Position
<1>3. Clusters(batch, g, 1..n)
    BY ClustersExist
<1> HIDE DEF g, n
<1>4. \A s \in SUBSET (1..n) :
        g[s] = IF s = {} THEN <<>> ELSE Joined(batch, g[s \ {Max(s)}], Position(batch)[Max(s)])
    BY <1>3 DEF Clusters
<1>5. ASSUME NEW k \in 1..n PROVE g[1..k] = Joined(batch, g[1..(k - 1)], k)
    <2>1. 1..k \in SUBSET (1..n) /\ k \in 1..k
        BY <1>1
    <2>2. Max(1..k) = k
        <3>1. Max(1..k) \in 1..k /\ \A i \in 1..k : Max(1..k) >= i
            <4>1. \A i \in 1..k : k >= i
                BY <1>1
            <4> QED BY <2>1, <4>1 DEF Max
        <3> QED BY <1>1, <2>1, <3>1
    <2>3. (1..k) \ {k} = 1..(k - 1) /\ Position(batch)[k] = k
        BY <1>1 DEF Position
    <2> QED BY <1>4, <2>1, <2>2, <2>3
<1>6. g[1..0] = <<>>
    <2>1. 1..0 = {} /\ {} \in SUBSET (1..n)
        OBVIOUS
    <2> QED BY <1>4, <2>1
<1> DEFINE h == [k \in 0..n |-> g[1..k]]
<1>7. h[0] = <<>> /\ h[n] = Topics(batch)
    BY <1>1, <1>2, <1>6
<1>8. \A k \in 1..n : h[k] = Joined(batch, h[k - 1], k)
    <2> TAKE k \in 1..n
    <2>1. k \in 0..n /\ k - 1 \in 0..n
        BY <1>1
    <2> QED BY <1>5, <2>1
<1> QED BY <1>7, <1>8 DEF n

(* What holds of the topics of the first n comments.                           *)
Topic == [grams : {grams \in SUBSET Nat : IsFiniteSet(grams)}, members : Seq(Nat)]
Places(topics, t) == 1..Len(topics[t].members)
Chain(batch, members) ==
    \A i \in 2..Len(members) : \E j \in 1..(i - 1) :
        \E x \in batch[members[i]].grams : x \in batch[members[j]].grams
Fitting(batch, topics, n) ==
    /\ topics \in Seq(Topic)
    /\ \A t \in 1..Len(topics) : \A i \in Places(topics, t) : topics[t].members[i] \in 1..n
    /\ \A c \in 1..n : \E t \in 1..Len(topics) : \E i \in Places(topics, t) : topics[t].members[i] = c
    /\ \A t, u \in 1..Len(topics) : \A i \in Places(topics, t) : \A j \in Places(topics, u) :
            topics[t].members[i] = topics[u].members[j] => t = u /\ i = j
    /\ \A t \in 1..Len(topics) : \A x \in topics[t].grams :
            \E i \in Places(topics, t) : x \in batch[topics[t].members[i]].grams
    /\ \A t \in 1..Len(topics) : Chain(batch, topics[t].members)

(* The fields of a topic.                                                   *)
LEMMA TopicParts ==
    ASSUME NEW topics \in Seq(Topic), NEW t \in 1..Len(topics)
    PROVE  /\ topics[t] \in Topic
           /\ topics[t].grams \in SUBSET Nat /\ IsFiniteSet(topics[t].grams)
           /\ topics[t].members \in Seq(Nat) /\ Len(topics[t].members) \in Nat
           /\ topics[t] = [grams |-> topics[t].grams, members |-> topics[t].members]
<1> DEFINE Finite == {grams \in SUBSET Nat : IsFiniteSet(grams)}
<1>1. topics[t] \in [grams : Finite, members : Seq(Nat)]
    BY ElementOfSeq DEF Topic
<1>2. /\ topics[t].grams \in Finite /\ topics[t].members \in Seq(Nat)
      /\ topics[t] = [grams |-> topics[t].grams, members |-> topics[t].members]
    <2> HIDE DEF Finite
    <2> QED BY <1>1
<1>3. Len(topics[t].members) \in Nat
    BY <1>2
<1> QED BY <1>1, <1>2, <1>3 DEF Topic

(* Two sets that resemble each other have an n-gram in common.                  *)
LEMMA SimilarShare ==
    ASSUME NEW a, NEW b, IsFiniteSet(a), IsFiniteSet(b), Similar(a, b)
    PROVE  \E x \in a : x \in b
<1>1. Cardinality(a) \in Nat /\ Cardinality(b) \in Nat /\ Cardinality(a \cap b) \in Nat
    <2>1. IsFiniteSet(a \cap b)
        BY FS_Subset
    <2> QED BY <2>1, FS_CardinalityType
<1>2. Cardinality(a \cap b) # 0
    BY <1>1 DEF Similar
<1>3. a \cap b # {}
    BY <1>2, FS_EmptySet
<1> QED BY <1>3

(* A comment opens a topic, or is the last of the first it resembles.           *)
LEMMA JoinedOne ==
    ASSUME NEW batch \in Seq(Comments), NEW c \in 1..Len(batch), NEW topics \in Seq(Topic)
    PROVE  \/ Joined(batch, topics, c) = Append(topics, [grams |-> batch[c].grams, members |-> <<c>>])
           \/ \E a \in 1..Len(topics) :
                /\ Similar(batch[c].grams, topics[a].grams)
                /\ Joined(batch, topics, c) =
                        [topics EXCEPT ![a] = [grams |-> topics[a].grams \cup batch[c].grams,
                                               members |-> Append(topics[a].members, c)]]
<1> DEFINE found == {i \in 1..Len(topics) : Similar(batch[c].grams, topics[i].grams)}
           alike == SelectInSeq(topics, LAMBDA t : Similar(batch[c].grams, t.grams))
<1>1. alike = IF found # {} THEN Min(found) ELSE 0
    BY Zenon DEF SelectInSeq
<1>2. CASE found = {}
    <2>1. alike = 0
        BY <1>1, <1>2
    <2> HIDE DEF alike, found
    <2> QED BY <2>1, Zenon DEF Joined, alike
<1>3. CASE found # {}
    <2>1. found \in SUBSET Nat
        OBVIOUS
    <2> DEFINE a == Min(found)
    <2>2. a \in found
        <3> HIDE DEF found
        <3> QED BY <1>3, <2>1, MinIsLeast
    <2>3. a \in 1..Len(topics) /\ Similar(batch[c].grams, topics[a].grams) /\ a # 0
        BY <2>2
    <2>4. alike = a
        BY <1>1, <1>3
    <2>5. Joined(batch, topics, c) = [topics EXCEPT ![a].grams = @ \cup batch[c].grams,
                                                   ![a].members = Append(@, c)]
        <3> HIDE DEF a, found
        <3>1. Joined(batch, topics, c) =
                IF alike = 0 THEN Append(topics, [grams |-> batch[c].grams, members |-> <<c>>])
                ELSE [topics EXCEPT ![alike].grams = @ \cup batch[c].grams,
                                    ![alike].members = Append(@, c)]
            BY Zenon DEF Joined
        <3> HIDE DEF alike
        <3> QED BY <3>1, <2>3, <2>4
    <2> HIDE DEF a, found, alike
    <2>6. topics[a] \in Topic /\ topics[a] = [grams |-> topics[a].grams, members |-> topics[a].members]
        BY <2>3, TopicParts
    <2>7. Joined(batch, topics, c) =
            [topics EXCEPT ![a] = [grams |-> topics[a].grams \cup batch[c].grams,
                                   members |-> Append(topics[a].members, c)]]
        BY <2>3, <2>5, <2>6
    <2> QED BY <2>3, <2>7
<1> QED BY <1>2, <1>3

(* Joining the next comment keeps the topics fitting.                       *)
LEMMA JoinedFits ==
    ASSUME NEW batch \in Seq(Comments), NEW n \in Nat, n + 1 \in 1..Len(batch), NEW topics,
           Fitting(batch, topics, n)
    PROVE  Fitting(batch, Joined(batch, topics, n + 1), n + 1)
<1> DEFINE c == n + 1
           new == Joined(batch, topics, c)
<1>0. /\ topics \in Seq(Topic) /\ Len(topics) \in Nat /\ c \in Nat
      /\ batch[c].grams \in SUBSET Nat /\ IsFiniteSet(batch[c].grams)
    <2>1. batch[c] \in Comments
        BY ElementOfSeq
    <2> QED BY <2>1 DEF Fitting, Comments
<1>t. \A t \in 1..Len(topics) : topics[t] \in Topic /\ topics[t].members \in Seq(Nat) /\ Len(topics[t].members) \in Nat
    BY <1>0, TopicParts
<1>d. \A t, u \in 1..Len(topics) : \A i \in Places(topics, t) : \A j \in Places(topics, u) :
            topics[t].members[i] = topics[u].members[j] => t = u /\ i = j
    BY Zenon DEF Fitting
<1>1. CASE new = Append(topics, [grams |-> batch[c].grams, members |-> <<c>>])
    <2> DEFINE own == [grams |-> batch[c].grams, members |-> <<c>>]
               last == Len(topics) + 1
    <2>1. own \in Topic /\ own.members = <<c>> /\ Len(own.members) = 1 /\ own.members[1] = c /\ own.grams = batch[c].grams
        BY <1>0 DEF Topic
    <2> HIDE DEF own, c, new
    <2>2. /\ new \in Seq(Topic) /\ Len(new) = last
          /\ \A t \in 1..Len(topics) : new[t] = topics[t]
          /\ new[last] = own
        BY <1>0, <1>1, <2>1, AppendProperties DEF own
    <2>3. \A t \in 1..last : t = last \/ t \in 1..Len(topics)
        BY <1>0
    <2>4. /\ \A t \in 1..Len(topics) : Places(new, t) = Places(topics, t)
          /\ Places(new, last) = 1..1
        BY <2>1, <2>2 DEF Places
    <2>5. \A t \in 1..Len(topics) : \A i \in Places(topics, t) : topics[t].members[i] \in 1..n
        BY DEF Fitting
    <2>6. \A k \in 1..n : k # c /\ k \in 1..c
        BY DEF c
    <2>7. \A t \in 1..last : \A i \in Places(new, t) : new[t].members[i] \in 1..c
        <3>1. c \in 1..c
            BY DEF c
        <3> QED BY <2>1, <2>2, <2>3, <2>4, <2>5, <2>6, <3>1
    <2>8. \A k \in 1..c : \E t \in 1..last : \E i \in Places(new, t) : new[t].members[i] = k
        <3> TAKE k \in 1..c
        <3>1. CASE k = c
            <4>1. last \in 1..last /\ 1 \in Places(new, last) /\ new[last].members[1] = k
                BY <1>0, <2>1, <2>2, <2>4, <3>1
            <4> QED BY <4>1
        <3>2. CASE k \in 1..n
            <4>1. PICK t \in 1..Len(topics) : \E i \in Places(topics, t) : topics[t].members[i] = k
                BY <3>2 DEF Fitting
            <4>2. t \in 1..last
                BY <1>0, <4>1
            <4> QED BY <2>2, <2>4, <4>1, <4>2
        <3>3. k = c \/ k \in 1..n
            BY DEF c
        <3> QED BY <3>1, <3>2, <3>3
    <2>9. \A t, u \in 1..last : \A i \in Places(new, t) : \A j \in Places(new, u) :
            new[t].members[i] = new[u].members[j] => t = u /\ i = j
        <3> TAKE t, u \in 1..last
        <3> TAKE i \in Places(new, t)
        <3> TAKE j \in Places(new, u)
        <3> HAVE new[t].members[i] = new[u].members[j]
        <3>1. CASE t = last /\ u = last
            BY <2>4, <3>1
        <3>2. CASE t = last /\ u \in 1..Len(topics)
            BY <2>1, <2>2, <2>4, <2>5, <2>6, <3>2
        <3>3. CASE t \in 1..Len(topics) /\ u = last
            BY <2>1, <2>2, <2>4, <2>5, <2>6, <3>3
        <3>4. CASE t \in 1..Len(topics) /\ u \in 1..Len(topics)
            BY <1>d, <2>2, <2>4, <3>4
        <3> QED BY <2>3, <3>1, <3>2, <3>3, <3>4
    <2>10. \A t \in 1..last : \A x \in new[t].grams :
            \E i \in Places(new, t) : x \in batch[new[t].members[i]].grams
        <3> TAKE t \in 1..last
        <3>1. CASE t = last
            <4>1. 1 \in Places(new, t) /\ new[t].members[1] = c /\ new[t].grams = batch[c].grams
                BY <2>1, <2>2, <2>4, <3>1
            <4> QED BY <4>1
        <3>2. CASE t \in 1..Len(topics)
            BY <2>2, <2>4, <3>2 DEF Fitting
        <3> QED BY <2>3, <3>1, <3>2
    <2>11. \A t \in 1..last : Chain(batch, new[t].members)
        <3> TAKE t \in 1..last
        <3>1. CASE t = last
            <4>1. Len(new[t].members) = 1
                BY <2>1, <2>2, <3>1
            <4>2. 2..1 = {}
                OBVIOUS
            <4> QED BY <4>1, <4>2, Zenon DEF Chain
        <3>2. CASE t \in 1..Len(topics)
            BY <2>2, <3>2 DEF Fitting
        <3> QED BY <2>3, <3>1, <3>2
    <2>12. Fitting(batch, new, c)
        <3> HIDE DEF last
        <3> QED BY <2>2, <2>7, <2>8, <2>9, <2>10, <2>11 DEF Fitting
    <2> QED BY <2>12 DEF new, c
<1>2. ASSUME NEW a \in 1..Len(topics), Similar(batch[c].grams, topics[a].grams),
             new = [topics EXCEPT ![a] = [grams |-> topics[a].grams \cup batch[c].grams,
                                          members |-> Append(topics[a].members, c)]]
      PROVE  Fitting(batch, new, c)
    <2> DEFINE own == [grams |-> topics[a].grams \cup batch[c].grams,
                       members |-> Append(topics[a].members, c)]
               old == topics[a].members
               end == Len(old) + 1
    <2>0. old \in Seq(Nat) /\ Len(old) \in Nat /\ IsFiniteSet(topics[a].grams) /\ topics[a].grams \in SUBSET Nat
        BY <1>0, TopicParts
    <2>1. /\ own \in Topic /\ own.grams = topics[a].grams \cup batch[c].grams
          /\ Len(own.members) = end /\ own.members[end] = c
          /\ \A i \in 1..Len(old) : own.members[i] = old[i]
        <3>1. IsFiniteSet(topics[a].grams \cup batch[c].grams)
            BY <1>0, <2>0, FS_Union
        <3>2. Append(old, c) \in Seq(Nat)
            BY <1>0, <2>0
        <3> QED BY <1>0, <2>0, <3>1, <3>2, AppendProperties DEF Topic
    <2> HIDE DEF own, c, new
    <2>2. /\ new \in Seq(Topic) /\ Len(new) = Len(topics)
          /\ \A t \in 1..Len(topics) : t # a => new[t] = topics[t]
          /\ new[a] = own
        <3>1. new = [topics EXCEPT ![a] = own]
            BY <1>2 DEF own
        <3> QED BY <1>0, <2>1, <3>1
    <2>4. /\ \A t \in 1..Len(topics) : t # a => Places(new, t) = Places(topics, t)
          /\ Places(new, a) = 1..end
          /\ Places(topics, a) = 1..Len(old)
        BY <2>1, <2>2 DEF Places
    <2>3. \A i \in 1..end : i = end \/ i \in 1..Len(old)
        BY <2>0
    <2>5. \A t \in 1..Len(topics) : \A i \in Places(topics, t) : topics[t].members[i] \in 1..n
        BY DEF Fitting
    <2>6. \A k \in 1..n : k # c /\ k \in 1..c
        BY DEF c
    <2> HIDE DEF end
    <2>7. \A t \in 1..Len(topics) : \A i \in Places(new, t) : new[t].members[i] \in 1..c
        <3>1. c \in 1..c
            BY DEF c
        <3> TAKE t \in 1..Len(topics)
        <3>2. CASE t = a
            BY <2>1, <2>2, <2>3, <2>4, <2>5, <2>6, <3>1, <3>2
        <3>3. CASE t # a
            BY <2>2, <2>4, <2>5, <2>6, <3>3
        <3> QED BY <3>2, <3>3
    <2>8. \A k \in 1..c : \E t \in 1..Len(topics) : \E i \in Places(new, t) : new[t].members[i] = k
        <3> TAKE k \in 1..c
        <3>0. end \in 1..end /\ \A i \in 1..Len(old) : i \in 1..end
            BY <2>0 DEF end
        <3>1. CASE k = c
            BY <2>1, <2>2, <2>4, <3>0, <3>1
        <3>2. CASE k \in 1..n
            <4>1. PICK t \in 1..Len(topics) : \E i \in Places(topics, t) : topics[t].members[i] = k
                BY <3>2 DEF Fitting
            <4>2. PICK i \in Places(topics, t) : topics[t].members[i] = k
                BY <4>1
            <4>3. i \in Places(new, t) /\ new[t].members[i] = k
                BY <2>1, <2>2, <2>4, <3>0, <4>2
            <4> QED BY <4>1, <4>3
        <3>3. k = c \/ k \in 1..n
            BY DEF c
        <3> QED BY <3>1, <3>2, <3>3
    <2> DEFINE isNew(t, i) == t = a /\ i = end
    <2>n. \A t \in 1..Len(topics) : \A i \in Places(new, t) :
            \/ isNew(t, i) /\ new[t].members[i] = c
            \/ i \in Places(topics, t) /\ new[t].members[i] = topics[t].members[i]
        BY <2>1, <2>2, <2>3, <2>4
    <2>9. \A t, u \in 1..Len(topics) : \A i \in Places(new, t) : \A j \in Places(new, u) :
            new[t].members[i] = new[u].members[j] => t = u /\ i = j
        <3> TAKE t, u \in 1..Len(topics)
        <3> TAKE i \in Places(new, t)
        <3> TAKE j \in Places(new, u)
        <3> HAVE new[t].members[i] = new[u].members[j]
        <3>1. \/ isNew(t, i) /\ new[t].members[i] = c
              \/ i \in Places(topics, t) /\ new[t].members[i] = topics[t].members[i]
            BY <2>n
        <3>2. \/ isNew(u, j) /\ new[u].members[j] = c
              \/ j \in Places(topics, u) /\ new[u].members[j] = topics[u].members[j]
            BY <2>n
        <3>3. CASE isNew(t, i) /\ isNew(u, j)
            BY <3>3
        <3>4. CASE i \in Places(topics, t) /\ j \in Places(topics, u)
                   /\ new[t].members[i] = topics[t].members[i] /\ new[u].members[j] = topics[u].members[j]
            <4>1. topics[t].members[i] = topics[u].members[j]
                BY <3>4
            <4>2. i \in Places(topics, t) /\ j \in Places(topics, u)
                BY <3>4
            <4> QED BY <1>d, <4>1, <4>2, Zenon
        <3>5. CASE isNew(t, i) /\ j \in Places(topics, u)
                   /\ new[t].members[i] = c /\ new[u].members[j] = topics[u].members[j]
            BY <2>5, <2>6, <3>5
        <3>6. CASE isNew(u, j) /\ i \in Places(topics, t)
                   /\ new[u].members[j] = c /\ new[t].members[i] = topics[t].members[i]
            BY <2>5, <2>6, <3>6
        <3> HIDE DEF isNew
        <3> QED BY <3>1, <3>2, <3>3, <3>4, <3>5, <3>6
    <2>e. end \in 1..end /\ \A i \in 1..Len(old) : i \in 1..end
        BY <2>0 DEF end
    <2>10. \A t \in 1..Len(topics) : \A x \in new[t].grams :
            \E i \in Places(new, t) : x \in batch[new[t].members[i]].grams
        <3> TAKE t \in 1..Len(topics)
        <3> TAKE x \in new[t].grams
        <3>1. CASE t = a /\ x \in batch[c].grams
            BY <2>1, <2>2, <2>4, <2>e, <3>1
        <3>2. CASE t = a /\ x \in topics[a].grams
            <4>1. PICK i \in Places(topics, a) : x \in batch[topics[a].members[i]].grams
                BY <3>2 DEF Fitting
            <4>2. i \in Places(new, a) /\ new[a].members[i] = topics[a].members[i]
                BY <2>1, <2>2, <2>4, <2>e, <4>1
            <4> QED BY <3>2, <4>1, <4>2
        <3>3. CASE t # a
            BY <2>2, <2>4, <3>3 DEF Fitting
        <3> QED BY <2>1, <2>2, <3>1, <3>2, <3>3
    <2>11. \A t \in 1..Len(topics) : Chain(batch, new[t].members)
        <3> TAKE t \in 1..Len(topics)
        <3>1. CASE t = a
            <4> SUFFICES Chain(batch, own.members)
                BY <2>2, <3>1
            <4> SUFFICES ASSUME NEW i \in 2..Len(own.members)
                         PROVE  \E j \in 1..(i - 1) :
                                    \E x \in batch[own.members[i]].grams : x \in batch[own.members[j]].grams
                BY Zenon DEF Chain
            <4>e. i \in 2..end
                BY <2>1
            <4>0. end \in Nat /\ i \in 1..end /\ \A j \in 1..(i - 1) : j \in 1..Len(old)
                BY <2>0, <4>e DEF end
            <4>1. CASE i = end
                <5>1. PICK x \in batch[c].grams : x \in topics[a].grams
                    BY <1>0, <1>2, <2>0, SimilarShare DEF c
                <5>2. PICK j \in Places(topics, a) : x \in batch[topics[a].members[j]].grams
                    BY <5>1 DEF Fitting
                <5>3. j \in 1..(i - 1)
                    BY <2>0, <2>4, <4>1, <5>2 DEF end
                <5>4. own.members[i] = c /\ own.members[j] = topics[a].members[j]
                    BY <2>1, <2>4, <4>1, <5>2
                <5> QED BY <5>1, <5>2, <5>3, <5>4
            <4>2. CASE i \in 2..Len(old)
                <5>1. PICK j \in 1..(i - 1) : \E x \in batch[old[i]].grams : x \in batch[old[j]].grams
                    BY <4>2 DEF Fitting, Chain
                <5>2. i \in 1..Len(old) /\ j \in 1..Len(old)
                    BY <4>0, <4>2, <5>1
                <5>3. own.members[i] = old[i] /\ own.members[j] = old[j]
                    BY <2>1, <5>2
                <5> QED BY <5>1, <5>3
            <4>3. i = end \/ i \in 2..Len(old)
                BY <2>0, <4>e DEF end
            <4> QED BY <4>1, <4>2, <4>3
        <3>2. CASE t # a
            BY <2>2, <3>2 DEF Fitting
        <3> QED BY <3>1, <3>2
    <2>12. Fitting(batch, new, c)
        BY <2>2, <2>7, <2>8, <2>9, <2>10, <2>11 DEF Fitting
    <2> QED BY <2>12
<1>3. \/ new = Append(topics, [grams |-> batch[c].grams, members |-> <<c>>])
      \/ \E a \in 1..Len(topics) :
            /\ Similar(batch[c].grams, topics[a].grams)
            /\ new = [topics EXCEPT ![a] = [grams |-> topics[a].grams \cup batch[c].grams,
                                            members |-> Append(topics[a].members, c)]]
    BY <1>0, JoinedOne
<1> HIDE DEF c, new
<1>4. Fitting(batch, new, c)
    BY <1>1, <1>2, <1>3 DEF c, new
<1> QED BY <1>4 DEF c, new

(* So the topics of a batch fit it: no prefix is the least that is not fitted. *)
LEMMA TopicsFit ==
    ASSUME NEW batch \in Seq(Comments)
    PROVE  Fitting(batch, Topics(batch), Len(batch))
<1>0. Len(batch) \in Nat
    OBVIOUS
<1>1. PICK h : /\ h[0] = <<>>
               /\ \A k \in 1..Len(batch) : h[k] = Joined(batch, h[k - 1], k)
               /\ h[Len(batch)] = Topics(batch)
    BY TopicsOfPrefixes
<1>2. Fitting(batch, h[0], 0)
    <2>1. <<>> \in Seq(Topic) /\ Len(<<>>) = 0
        OBVIOUS
    <2> QED BY <1>1, <2>1 DEF Fitting
<1>3. \A k \in 0..Len(batch) : Fitting(batch, h[k], k)
    <2> SUFFICES ASSUME NEW j \in 0..Len(batch), ~Fitting(batch, h[j], j) PROVE FALSE
        OBVIOUS
    <2> DEFINE Bad == {k \in 0..Len(batch) : ~Fitting(batch, h[k], k)}
    <2>1. PICK k \in Bad : \A i \in Bad : k <= i
        <3>1. Bad \in SUBSET Nat /\ Bad # {}
            OBVIOUS
        <3> HIDE DEF Bad
        <3> QED BY <3>1, HasLeast
    <2>2. k # 0 /\ k \in 0..Len(batch)
        BY <1>2, <2>1
    <2>3. k - 1 \in Nat /\ (k - 1) + 1 = k /\ k \in 1..Len(batch) /\ k - 1 \in 0..Len(batch) /\ ~(k <= k - 1)
        BY <1>0, <2>2
    <2>4. Fitting(batch, h[k - 1], k - 1)
        BY <2>1, <2>3
    <2>5. Fitting(batch, Joined(batch, h[k - 1], (k - 1) + 1), (k - 1) + 1)
        <3> DEFINE m == k - 1
        <3>1. m \in Nat /\ m + 1 \in 1..Len(batch) /\ Fitting(batch, h[m], m)
            BY <2>3, <2>4
        <3> HIDE DEF m
        <3>2. Fitting(batch, Joined(batch, h[m], m + 1), m + 1)
            BY <3>1, JoinedFits
        <3> QED BY <3>2 DEF m
    <2>6. Fitting(batch, h[k], k)
        <3>1. Joined(batch, h[k - 1], k) = h[k]
            BY <1>1, <2>3
        <3> HIDE DEF Bad
        <3> QED BY <2>3, <2>5, <3>1
    <2> QED BY <2>1, <2>6
<1>4. Len(batch) \in 0..Len(batch)
    BY <1>0
<1> QED BY <1>1, <1>3, <1>4

(* Which is what Talks asks of them.                                        *)
LEMMA TalksAlways ==
    ASSUME NEW batch \in Seq(Comments)
    PROVE  Talks(batch)
<1> DEFINE topics == Topics(batch)
<1>1. Fitting(batch, topics, Len(batch))
    BY TopicsFit
<1> HIDE DEF topics
<1>2. topics \in Seq(Topic) /\ DOMAIN topics = 1..Len(topics) /\ DOMAIN batch = 1..Len(batch)
    BY <1>1 DEF Fitting
<1>3. \A t \in 1..Len(topics) : DOMAIN topics[t].members = Places(topics, t)
    BY <1>2 DEF Topic, Places
<1>4. \A c \in DOMAIN batch : \E t \in DOMAIN topics : c \in ToSet(topics[t].members)
    BY <1>1, <1>2, <1>3 DEF Fitting, ToSet
<1>5. \A t, u \in DOMAIN topics :
        /\ IsInjective(topics[t].members)
        /\ t # u => ToSet(topics[t].members) \cap ToSet(topics[u].members) = {}
    BY <1>1, <1>2, <1>3 DEF Fitting, ToSet, IsInjective
<1>6. \A t \in ToSet(topics) : \A i \in 2..Len(t.members) :
        \E j \in 1..(i - 1) : batch[t.members[i]].grams \cap batch[t.members[j]].grams # {}
    <2> SUFFICES ASSUME NEW k \in 1..Len(topics), NEW i \in 2..Len(topics[k].members)
                 PROVE  \E j \in 1..(i - 1) :
                            batch[topics[k].members[i]].grams \cap batch[topics[k].members[j]].grams # {}
        BY <1>2, Zenon DEF ToSet
    <2>1. Chain(batch, topics[k].members)
        BY <1>1 DEF Fitting
    <2>2. PICK j \in 1..(i - 1) :
            \E x \in batch[topics[k].members[i]].grams : x \in batch[topics[k].members[j]].grams
        BY <2>1, Zenon DEF Chain
    <2> QED BY <2>2
<1> QED BY <1>4, <1>5, <1>6 DEF Talks, topics

(* Division with a remainder.                                               *)
LEMMA Quotient ==
    ASSUME NEW n \in Nat, NEW d \in Nat, d > 0
    PROVE  n \div d \in Nat /\ d * (n \div d) <= n /\ n < d * (n \div d) + d
OBVIOUS

(* Comparing multiples of a number, and dividing an inequality by it.       *)
LEMMA AtLeastBy ==
    ASSUME NEW a \in Nat, NEW b \in Nat, NEW d \in Nat, d > 0, d * a < d * b + d
    PROVE  a <= b
OBVIOUS

(* Multiplying an inequality.                                               *)
LEMMA TimesGrows ==
    ASSUME NEW a \in Int, NEW b \in Int, NEW d \in Nat, a <= b
    PROVE  d * a <= d * b
OBVIOUS

(* Dividing a strict one.                                                   *)
LEMMA TimesShrinks ==
    ASSUME NEW a \in Int, NEW b \in Int, NEW d \in Nat, d > 0, d * a < d * b
    PROVE  a < b
OBVIOUS

(* A larger fraction is not rounded to less.                                *)
LEMMA RoundedGrows ==
    ASSUME NEW n \in Nat, NEW d \in Nat, d > 0, NEW m \in Nat, NEW e \in Nat, e > 0, n * e <= m * d
    PROVE  Rounded(n, d) <= Rounded(m, e)
<1> DEFINE q == (2 * n + d) \div (2 * d)
           r == (2 * m + e) \div (2 * e)
<1>1. q \in Nat /\ (2 * d) * q <= 2 * n + d
    BY Quotient
<1>2. r \in Nat /\ 2 * m + e < (2 * e) * r + 2 * e
    BY Quotient
<1> HIDE DEF q, r
<1>3. e * ((2 * d) * q) <= e * (2 * n + d)
    BY <1>1, TimesGrows
<1>4. e * (2 * n + d) <= d * (2 * m + e)
    <2>1. e * (2 * n + d) = 2 * (n * e) + d * e
        OBVIOUS
    <2>2. d * (2 * m + e) = 2 * (m * d) + d * e
        OBVIOUS
    <2>3. n * e \in Nat /\ m * d \in Nat /\ d * e \in Nat
        OBVIOUS
    <2> QED BY <2>1, <2>2, <2>3
<1>5. d * (2 * m + e) < d * ((2 * e) * r + 2 * e)
    BY <1>2
<1>6. e * ((2 * d) * q) = d * ((2 * e) * q)
    BY <1>1
<1>7. d * ((2 * e) * q) < d * ((2 * e) * r + 2 * e)
    <2>1. e * ((2 * d) * q) \in Nat /\ e * (2 * n + d) \in Nat /\ d * (2 * m + e) \in Nat /\ d * ((2 * e) * r + 2 * e) \in Nat
        BY <1>1, <1>2
    <2> QED BY <2>1, <1>3, <1>4, <1>5, <1>6
<1>8. (2 * e) * q < (2 * e) * r + 2 * e
    <2>1. (2 * e) * q \in Int /\ (2 * e) * r + 2 * e \in Int
        BY <1>1, <1>2
    <2> QED BY <2>1, <1>7, TimesShrinks
<1>9. q <= r
    BY <1>1, <1>2, <1>8, AtLeastBy
<1> QED BY <1>9 DEF Rounded, q, r

(* One more is rounded to one more.                                         *)
LEMMA RoundedNext ==
    ASSUME NEW n \in Nat, NEW d \in Nat, d > 0
    PROVE  Rounded(n + d, d) = Rounded(n, d) + 1
<1> DEFINE q == (2 * n + d) \div (2 * d)
           r == (2 * (n + d) + d) \div (2 * d)
<1>1. q \in Nat /\ (2 * d) * q <= 2 * n + d /\ 2 * n + d < (2 * d) * q + 2 * d
    BY Quotient
<1>2. r \in Nat /\ (2 * d) * r <= 2 * (n + d) + d /\ 2 * (n + d) + d < (2 * d) * r + 2 * d
    BY Quotient
<1> HIDE DEF q, r
<1> DEFINE dd == 2 * d
<1>3. dd \in Nat /\ dd > 0 /\ dd * q \in Nat /\ dd * r \in Nat /\ dd * (q + 1) = dd * q + dd
    BY <1>1, <1>2
<1>4. dd * r < dd * (q + 1) + dd /\ dd * (q + 1) < dd * r + dd
    BY <1>1, <1>2, <1>3
<1> HIDE DEF dd
<1>5. r <= q + 1 /\ q + 1 <= r
    BY <1>1, <1>2, <1>3, <1>4, AtLeastBy
<1>6. r = q + 1
    BY <1>1, <1>2, <1>5
<1> QED BY <1>6 DEF Rounded, q, r

(* _length_score is between 0 and 1.                                        *)
LEMMA LengthScoreType ==
    ASSUME NEW n \in Nat
    PROVE  /\ LengthScore(n)[1] \in Nat /\ LengthScore(n)[2] \in Nat
           /\ LengthScore(n)[2] > 0 /\ LengthScore(n)[1] <= LengthScore(n)[2]
BY DEF LengthScore

(* Two lengths of different worth differ by more than one ten-thousandth of the score. *)
LEMMA LengthGap ==
    ASSUME NEW m \in Nat, NEW n \in Nat, ~NoWorse(n, m)
    PROVE  LengthScore(n)[2] * LengthScore(m)[2] <= 3000 * (LengthScore(m)[1] * LengthScore(n)[2] - LengthScore(n)[1] * LengthScore(m)[2])
<1> DEFINE p == LengthScore(n)[1]
           f == LengthScore(n)[2]
           q == LengthScore(m)[1]
           g == LengthScore(m)[2]
<1>1. p \in Nat /\ f \in Nat /\ q \in Nat /\ g \in Nat
    BY LengthScoreType
<1>2. p * g < q * f
    BY <1>1 DEF NoWorse
<1>3. \A x \in Nat, y \in Nat : x \in 41..79 /\ 1600 < x * y => 40 * x <= 3000 * (x * y - 1600)
    <2> TAKE x \in Nat, y \in Nat
    <2> HAVE x \in 41..79 /\ 1600 < x * y
    <2>1. x * y \in Nat /\ x * y - 1600 >= 1
        OBVIOUS
    <2>2. CASE x <= 75
        <3> DEFINE xy == x * y
        <3> HIDE DEF xy
        <3> QED BY <2>1, <2>2 DEF xy
    <2>3. CASE x \in 76..79
        <3>1. x = 76 \/ x = 77 \/ x = 78 \/ x = 79
            BY <2>3
        <3> QED BY <3>1
    <2> QED BY <2>2, <2>3
<1>4. \A x \in Nat, y \in Nat : x \in 41..79 /\ x * y < 1600 => 40 * x <= 3000 * (1600 - x * y)
    <2> TAKE x \in Nat, y \in Nat
    <2> HAVE x \in 41..79 /\ x * y < 1600
    <2>1. x * y \in Nat /\ 1600 - x * y >= 1
        OBVIOUS
    <2>2. CASE x <= 75
        <3> DEFINE xy == x * y
        <3> HIDE DEF xy
        <3> QED BY <2>1, <2>2 DEF xy
    <2>3. CASE x \in 76..79
        <3>1. x = 76 \/ x = 77 \/ x = 78 \/ x = 79
            BY <2>3
        <3> QED BY <3>1
    <2> QED BY <2>2, <2>3
<1>5. \A k \in Nat : /\ k < 6 => LengthScore(k) = <<0, 1>>
                     /\ k \in 6..40 => LengthScore(k) = <<k, 40>>
                     /\ k \in 41..79 => LengthScore(k) = <<40, k>>
                     /\ k >= 80 => LengthScore(k) = <<1, 2>>
    BY DEF LengthScore
<1>6. f * g <= 3000 * (q * f - p * g)
    <2>1. CASE m < 6
        <3>1. q = 0 /\ g = 1
            BY <1>5, <2>1
        <3> QED BY <1>1, <1>2, <3>1
    <2>2. CASE m \in 6..40
        <3>1. q = m /\ g = 40
            BY <1>5, <2>2
        <3>2. CASE n < 6
            BY <1>5, <1>2, <2>2, <3>1, <3>2
        <3>3. CASE n \in 6..40
            BY <1>5, <1>2, <2>2, <3>1, <3>3
        <3>4. CASE n \in 41..79
            <4>1. p = 40 /\ f = n
                BY <1>5, <3>4
            <4>2. 1600 < n * m
                BY <1>2, <3>1, <4>1
            <4>3. 40 * n <= 3000 * (n * m - 1600)
                BY <1>3, <3>4, <4>2
            <4> QED BY <3>1, <4>1, <4>3
        <3>5. CASE n >= 80
            BY <1>5, <1>2, <2>2, <3>1, <3>5
        <3> QED BY <3>2, <3>3, <3>4, <3>5
    <2>3. CASE m \in 41..79
        <3>1. q = 40 /\ g = m
            BY <1>5, <2>3
        <3>2. CASE n < 6
            BY <1>5, <1>2, <2>3, <3>1, <3>2
        <3>3. CASE n \in 6..40
            <4>1. p = n /\ f = 40
                BY <1>5, <3>3
            <4>2. m * n < 1600
                BY <1>2, <3>1, <4>1
            <4>3. 40 * m <= 3000 * (1600 - m * n)
                BY <1>4, <2>3, <4>2
            <4> QED BY <3>1, <4>1, <4>3
        <3>4. CASE n \in 41..79
            <4>1. p = 40 /\ f = n
                BY <1>5, <3>4
            <4>2. m < n
                BY <1>2, <3>1, <4>1
            <4>3. n * m <= 79 * 79
                <5>1. n * m <= n * 79 /\ n * 79 <= 79 * 79
                    BY <2>3, <3>4, TimesGrows
                <5>2. n * m \in Nat
                    OBVIOUS
                <5> QED BY <5>1, <5>2
            <4> QED BY <3>1, <4>1, <4>2, <4>3
        <3>5. CASE n >= 80
            BY <1>5, <1>2, <2>3, <3>1, <3>5
        <3> QED BY <3>2, <3>3, <3>4, <3>5
    <2>4. CASE m >= 80
        <3>1. q = 1 /\ g = 2
            BY <1>5, <2>4
        <3>2. CASE n < 6
            BY <1>5, <1>2, <2>4, <3>1, <3>2
        <3>3. CASE n \in 6..40
            BY <1>5, <1>2, <2>4, <3>1, <3>3
        <3>4. CASE n \in 41..79
            BY <1>5, <1>2, <2>4, <3>1, <3>4
        <3>5. CASE n >= 80
            BY <1>5, <1>2, <2>4, <3>1, <3>5
        <3> QED BY <3>2, <3>3, <3>4, <3>5
    <2> QED BY <2>1, <2>2, <2>3, <2>4
<1> QED BY <1>6

(* What a length score p/f and a topic of s, the largest of which is most, bring. *)
Points(p, f, s, most) == Rounded(3000 * p * most + 2000 * s * f, f * most)

(* What length and topic bring is more than nothing and no more than a question. *)
LEMMA PointsBetween ==
    ASSUME NEW p \in Nat, NEW f \in Nat, f > 0, p <= f,
           NEW most \in Nat, most <= 50, NEW s \in Nat, s > 0, s <= most
    PROVE  Points(p, f, s, most) \in Nat /\ 0 < Points(p, f, s, most) /\ Points(p, f, s, most) <= 5000
<1> DEFINE n == 3000 * p * most + 2000 * s * f
           d == f * most
<1>0. most \in Nat /\ s \in Nat /\ most > 0 /\ s > 0
    OBVIOUS
<1>1. n \in Nat /\ d \in Nat /\ d > 0
    BY <1>0
<1>2. n <= 5000 * d
    <2>1. most * p <= most * f
        BY <1>0, TimesGrows
    <2>2. f * s <= f * most
        BY <1>0, TimesGrows
    <2> DEFINE mp == most * p
               fs == f * s
    <2>3. n = 3000 * mp + 2000 * fs /\ d = most * f /\ mp \in Nat /\ fs \in Nat
        BY <1>0
    <2> HIDE DEF mp, fs, n, d
    <2> QED BY <2>1, <2>2, <2>3, <1>1 DEF mp, fs, d
<1>3. d <= n
    <2>1. f * most <= f * (50 * s)
        BY <1>0, TimesGrows
    <2>2. f * (50 * s) <= 2000 * s * f
        <3>1. f * s \in Nat /\ f * (50 * s) = 50 * (f * s) /\ 2000 * s * f = 2000 * (f * s)
            BY <1>0
        <3> QED BY <3>1
    <2>3. 3000 * p * most \in Nat /\ 2000 * s * f \in Nat /\ f * (50 * s) \in Nat
        BY <1>0
    <2> QED BY <1>1, <2>1, <2>2, <2>3
<1> HIDE DEF n, d
<1>4. Rounded(n, d) <= Rounded(5000, 1)
    BY <1>1, <1>2, RoundedGrows
<1>5. Rounded(1, 1) <= Rounded(n, d)
    BY <1>1, <1>3, RoundedGrows
<1>6. Rounded(5000, 1) = 5000 /\ Rounded(1, 1) = 1
    BY DEF Rounded
<1>7. Rounded(n, d) \in Nat
    BY <1>1, Quotient DEF Rounded
<1>8. Rounded(n, d) <= 5000 /\ 0 < Rounded(n, d)
    BY <1>4, <1>5, <1>6, <1>7
<1> QED BY <1>7, <1>8 DEF Points, n, d

(* It grows with the length score and with the topic, and strictly with either. *)
LEMMA PointsGrow ==
    ASSUME NEW p \in Nat, NEW f \in Nat, f > 0, NEW q \in Nat, NEW g \in Nat, g > 0,
           NEW most \in 1..50, NEW s \in 1..most, NEW t \in 1..most,
           p * g <= q * f, s <= t
    PROVE  /\ Points(p, f, s, most) <= Points(q, g, t, most)
           /\ f * g <= 3000 * (q * f - p * g) \/ s < t
              => Points(p, f, s, most) < Points(q, g, t, most)
<1> DEFINE n == 3000 * p * most + 2000 * s * f
           d == f * most
           m == 3000 * q * most + 2000 * t * g
           e == g * most
           low == most * (p * g)
           high == most * (q * f)
           fg == f * g
<1>0. most \in Nat /\ s \in Nat /\ most > 0 /\ s > 0 /\ t \in Nat /\ fg \in Nat /\ low \in Nat /\ high \in Nat
    OBVIOUS
<1>1. n \in Nat /\ d \in Nat /\ d > 0 /\ m \in Nat /\ e \in Nat /\ e > 0
    BY <1>0
<1>2. n * e = most * (3000 * low + 2000 * (fg * s))
    BY <1>0
<1>3. m * d = most * (3000 * high + 2000 * (fg * t))
    BY <1>0
<1>4. (n + d) * e = most * (3000 * low + 2000 * (fg * s) + fg * most)
    BY <1>0
<1>5. low <= high /\ fg * s <= fg * t /\ fg * s \in Nat /\ fg * t \in Nat
    BY <1>0, TimesGrows
<1>6. 3000 * low + 2000 * (fg * s) <= 3000 * high + 2000 * (fg * t)
    <2> HIDE DEF low, high, fg
    <2> QED BY <1>0, <1>5
<1>7. n * e <= m * d
    <2>1. 3000 * low + 2000 * (fg * s) \in Int /\ 3000 * high + 2000 * (fg * t) \in Int
        BY <1>0, <1>5
    <2> HIDE DEF n, m, d, e, low, high, fg
    <2> QED BY <1>0, <1>2, <1>3, <1>6, <2>1, TimesGrows
<1>8. ASSUME \/ fg <= 3000 * (q * f - p * g)
             \/ s < t
      PROVE  (n + d) * e <= m * d
    <2>1. fg * most \in Nat /\ fg * most <= 50 * fg
        BY <1>0
    <2>2. 3000 * low + 2000 * (fg * s) + fg * most <= 3000 * high + 2000 * (fg * t)
        <3>1. CASE fg <= 3000 * (q * f - p * g)
            <4>1. most * fg <= most * (3000 * (q * f - p * g))
                BY <1>0, <3>1, TimesGrows
            <4>2. most * (3000 * (q * f - p * g)) = 3000 * high - 3000 * low
                BY <1>0
            <4>3. fg * most = most * fg
                BY <1>0
            <4> HIDE DEF low, high, fg
            <4> QED BY <1>0, <1>5, <2>1, <4>1, <4>2, <4>3
        <3>2. CASE s < t
            <4>1. fg * (s + 1) <= fg * t
                BY <1>0, <3>2, TimesGrows
            <4>2. fg * (s + 1) = fg * s + fg
                BY <1>0
            <4> HIDE DEF low, high, fg
            <4> QED BY <1>0, <1>5, <2>1, <4>1, <4>2
        <3> QED BY <1>8, <3>1, <3>2
    <2>3. 3000 * low + 2000 * (fg * s) + fg * most \in Int /\ 3000 * high + 2000 * (fg * t) \in Int
        BY <1>0, <1>5, <2>1
    <2> HIDE DEF n, m, d, e, low, high, fg
    <2> QED BY <1>0, <1>3, <1>4, <2>2, <2>3, TimesGrows
<1>9. Points(p, f, s, most) = Rounded(n, d) /\ Points(q, g, t, most) = Rounded(m, e)
    BY DEF Points
<1>10. Rounded(n, d) <= Rounded(m, e)
    <2> HIDE DEF n, m, d, e
    <2> QED BY <1>1, <1>7, RoundedGrows
<1>11. ASSUME \/ fg <= 3000 * (q * f - p * g)
              \/ s < t
       PROVE  Rounded(n, d) < Rounded(m, e)
    <2>1. (n + d) * e <= m * d
        BY <1>8, <1>11
    <2> HIDE DEF n, m, d, e
    <2>2. Rounded(n + d, d) <= Rounded(m, e)
        BY <1>1, <2>1, RoundedGrows
    <2>3. Rounded(n, d) \in Nat /\ Rounded(m, e) \in Nat
        <3>1. 2 * n + d \in Nat /\ 2 * d \in Nat /\ 2 * d > 0 /\ 2 * m + e \in Nat /\ 2 * e \in Nat /\ 2 * e > 0
            BY <1>1
        <3> QED BY <3>1, Quotient DEF Rounded
    <2> QED BY <1>1, <2>2, <2>3, RoundedNext
<1> QED BY <1>9, <1>10, <1>11

(* The topic of a comment, and how large it and the largest are.                *)
LEMMA TopicOfIs ==
    ASSUME NEW batch \in Seq(Comments), NEW c \in 1..Len(batch)
    PROVE  \E t \in 1..Len(Topics(batch)) :
                TopicOf(batch, c) = Topics(batch)[t] /\ c \in ToSet(Topics(batch)[t].members)
<1>1. Fitting(batch, Topics(batch), Len(batch)) /\ Talks(batch)
    BY TopicsFit, TalksAlways
<1> DEFINE topics == Topics(batch)
<1> HIDE DEF topics
<1>2. DOMAIN topics = 1..Len(topics) /\ DOMAIN batch = 1..Len(batch)
    BY <1>1 DEF Fitting, topics
<1>3. \E t \in DOMAIN topics : c \in ToSet(topics[t].members)
    BY <1>1, <1>2 DEF Talks, topics
<1>4. \E t \in ToSet(topics) : c \in ToSet(t.members)
    BY <1>3, Zenon DEF ToSet
<1>5. TopicOf(batch, c) \in ToSet(topics) /\ c \in ToSet(TopicOf(batch, c).members)
    BY <1>4, Zenon DEF TopicOf, topics
<1>6. PICK t \in DOMAIN topics : TopicOf(batch, c) = topics[t]
    BY <1>5, Zenon DEF ToSet
<1> QED BY <1>2, <1>5, <1>6 DEF topics

(* The first n numbers are n.                                               *)
LEMMA FirstOf ==
    ASSUME NEW n \in Nat
    PROVE  IsFiniteSet(1..n) /\ Cardinality(1..n) = n
<1>1. 1 \in Int /\ n \in Int
    OBVIOUS
<1>2. IsFiniteSet(1..n) /\ Cardinality(1..n) = IF 1 > n THEN 0 ELSE n - 1 + 1
    BY <1>1, FS_Interval
<1>3. (IF 1 > n THEN 0 ELSE n - 1 + 1) = n
    OBVIOUS
<1> QED BY <1>2, <1>3

(* A topic has at least one comment and no more than the batch.             *)
LEMMA SizeBetween ==
    ASSUME NEW batch \in Seq(Comments), NEW c \in 1..Len(batch)
    PROVE  Size(batch, c) \in 1..Len(batch)
<1> DEFINE topics == Topics(batch)
<1>1. PICK t \in 1..Len(topics) : TopicOf(batch, c) = topics[t] /\ c \in ToSet(topics[t].members)
    BY TopicOfIs
<1>2. Fitting(batch, topics, Len(batch))
    BY TopicsFit
<1> HIDE DEF topics
<1> DEFINE m == topics[t].members
<1>3. m \in Seq(Nat) /\ Len(m) \in Nat /\ DOMAIN m = 1..Len(m) /\ Len(batch) \in Nat
    <2>1. topics \in Seq(Topic)
        BY <1>2 DEF Fitting
    <2>2. m \in Seq(Nat)
        BY <1>1, <2>1, TopicParts
    <2> HIDE DEF m
    <2> QED BY <2>2
<1>4. Size(batch, c) = Len(m)
    BY <1>1 DEF Size
<1>5. Len(m) # 0
    BY <1>1, <1>3 DEF ToSet
<1>6. \A i \in 1..Len(m) : m[i] \in 1..Len(batch)
    BY <1>1, <1>2 DEF Fitting, Places
<1>7. \A i \in 1..Len(m) : \A j \in 1..Len(m) : m[i] = m[j] => i = j
    BY <1>1, <1>2 DEF Fitting, Places
<1> HIDE DEF m
<1>8. m \in Injection(1..Len(m), 1..Len(batch))
    <2>1. m \in [1..Len(m) -> 1..Len(batch)]
        BY <1>3, <1>6
    <2> QED BY <1>7, <2>1 DEF Injection, IsInjective
<1>9. IsFiniteSet(1..Len(batch)) /\ Cardinality(1..Len(batch)) = Len(batch) /\ Cardinality(1..Len(m)) = Len(m)
    BY <1>3, FirstOf
<1>10. Cardinality(1..Len(m)) <= Cardinality(1..Len(batch))
    BY <1>8, <1>9, FS_Injection
<1> QED BY <1>3, <1>4, <1>5, <1>9, <1>10

(* Largest is the size of the largest topic.                                *)
LEMMA LargestIs ==
    ASSUME NEW batch \in Seq(Comments), batch # <<>>
    PROVE  Largest(batch) \in 1..Len(batch) /\ \A c \in 1..Len(batch) : Size(batch, c) <= Largest(batch)
<1> DEFINE sizes == {Size(batch, c) : c \in DOMAIN batch}
<1>1. DOMAIN batch = 1..Len(batch) /\ Len(batch) \in Nat /\ 1 \in 1..Len(batch)
    BY EmptySeq
<1>2. sizes \in SUBSET (1..Len(batch)) /\ sizes # {}
    BY <1>1, SizeBetween
<1>3. \E n \in sizes : \A k \in sizes : k <= n
    <2> HIDE DEF sizes
    <2> QED BY <1>1, <1>2, HasGreatest
<1>4. \E n \in sizes : \A c \in DOMAIN batch : Size(batch, c) <= n
    BY <1>3
<1>5. Largest(batch) \in sizes /\ \A c \in DOMAIN batch : Size(batch, c) <= Largest(batch)
    BY <1>4, Zenon DEF Largest
<1> QED BY <1>1, <1>2, <1>5

(* Which is no more than the buffer holds.                                  *)
LEMMA LargestWithin ==
    ASSUME NEW batch \in Seq(Comments), batch # <<>>, Len(batch) <= MaxCandidates, NEW c \in 1..Len(batch)
    PROVE  Largest(batch) \in 1..50 /\ Size(batch, c) \in 1..Largest(batch)
<1> DEFINE n == Len(batch)
           most == Largest(batch)
           s == Size(batch, c)
<1>1. n \in Nat /\ n <= 50
    BY DEF MaxCandidates
<1>2. s \in 1..n /\ most \in 1..n /\ s <= most
    BY SizeBetween, LargestIs
<1> HIDE DEF n, most, s
<1>3. most \in 1..50 /\ s \in 1..most
    BY <1>1, <1>2
<1> QED BY <1>3 DEF most, s

(* What a comment is scored.                                                   *)
LengthPart(batch, c) == LengthScore(batch[c].length)
PointsOf(batch, c) == Points(LengthPart(batch, c)[1], LengthPart(batch, c)[2], Size(batch, c), Largest(batch))
LEMMA ScoreIs ==
    ASSUME NEW batch \in Seq(Comments), batch # <<>>, Len(batch) <= MaxCandidates, NEW c \in 1..Len(batch)
    PROVE  /\ PointsOf(batch, c) \in Nat /\ 0 < PointsOf(batch, c) /\ PointsOf(batch, c) <= 5000
           /\ Score(batch, c) = (IF batch[c].question THEN 5000 ELSE 0) + PointsOf(batch, c)
           /\ batch[c].question \in BOOLEAN /\ batch[c].length \in Nat /\ batch[c].at \in Nat
<1>1. batch[c].question \in BOOLEAN /\ batch[c].length \in Nat /\ batch[c].at \in Nat
    <2>1. batch[c] \in Comments
        BY ElementOfSeq
    <2> DEFINE Finite == {grams \in SUBSET Nat : IsFiniteSet(grams)}
    <2>2. batch[c] \in [grams : Finite, question : BOOLEAN, length : Nat, at : Nat]
        BY <2>1 DEF Comments
    <2> HIDE DEF Finite
    <2> QED BY <2>2
<1>2. Largest(batch) \in 1..50 /\ Size(batch, c) \in 1..Largest(batch)
    BY LargestWithin
<1>3. PointsOf(batch, c) \in Nat /\ 0 < PointsOf(batch, c) /\ PointsOf(batch, c) <= 5000
    <2> DEFINE p == LengthPart(batch, c)[1]
               f == LengthPart(batch, c)[2]
               most == Largest(batch)
               s == Size(batch, c)
    <2>1. p \in Nat /\ f \in Nat /\ f > 0 /\ p <= f
        BY <1>1, LengthScoreType DEF LengthPart
    <2>2. most \in 1..50 /\ s \in 1..most
        BY <1>2
    <2> HIDE DEF p, f, most, s
    <2>t. most \in Nat /\ most <= 50 /\ s \in Nat /\ s > 0 /\ s <= most
        BY <2>2
    <2>3. /\ Points(p, f, s, most) \in Nat
          /\ 0 < Points(p, f, s, most) /\ Points(p, f, s, most) <= 5000
        BY <2>1, <2>t, PointsBetween, SMTT(30)
    <2>4. Points(p, f, s, most) = PointsOf(batch, c)
        BY Zenon DEF PointsOf, p, f, most, s
    <2> QED BY <2>3, <2>4
<1>4. Score(batch, c) = (IF batch[c].question THEN 5000 ELSE 0) + PointsOf(batch, c)
    BY Zenon DEF Score, Weighed, PointsOf, LengthPart, Points
<1> QED BY <1>1, <1>3, <1>4

(* One comment is beaten by none: of those with the highest score, the earliest.  *)
LEMMA SomeUnbeaten ==
    ASSUME NEW batch \in Seq(Comments), batch # <<>>, Len(batch) <= MaxCandidates
    PROVE  \E c \in 1..Len(batch) : \A d \in 1..Len(batch) : ~Beats(batch, d, c)
<1> DEFINE gap(c) == 10000 - Score(batch, c)
           gaps == {gap(c) : c \in 1..Len(batch)}
<1>1. 1 \in 1..Len(batch)
    BY EmptySeq
<1>2. \A c \in 1..Len(batch) : /\ Score(batch, c) \in Nat /\ Score(batch, c) <= 10000 /\ batch[c].at \in Nat
                                 /\ gap(c) \in Nat
    <2> TAKE c \in 1..Len(batch)
    <2> DEFINE score == Score(batch, c)
               base == IF batch[c].question THEN 5000 ELSE 0
               points == PointsOf(batch, c)
    <2>1. score = base + points /\ points \in Nat /\ points <= 5000 /\ batch[c].at \in Nat
        BY ScoreIs
    <2>2. base \in {0, 5000}
        OBVIOUS
    <2> HIDE DEF score, base, points
    <2>3. score \in Nat /\ score <= 10000
        BY <2>1, <2>2
    <2>4. 10000 - score \in Nat
        BY <2>3
    <2> QED BY <2>1, <2>3, <2>4 DEF score
<1>4. gaps \in SUBSET Nat /\ gaps # {}
    BY <1>1, <1>2
<1>5. PICK least \in gaps : \A i \in gaps : least <= i
    <2> HIDE DEF gaps
    <2> QED BY <1>4, HasLeast
<1> DEFINE top == {c \in 1..Len(batch) : gap(c) = least}
           times == {batch[c].at : c \in top}
<1>6. times \in SUBSET Nat /\ times # {}
    BY <1>2, <1>5
<1>7. PICK first \in times : \A i \in times : first <= i
    <2> HIDE DEF times
    <2> QED BY <1>6, HasLeast
<1>8. PICK c \in top : batch[c].at = first
    BY <1>7
<1>9. ASSUME NEW d \in 1..Len(batch) PROVE ~Beats(batch, d, c)
    <2>1. least <= gap(d) /\ gap(c) = least /\ c \in 1..Len(batch)
        BY <1>5, <1>8
    <2> DEFINE high == Score(batch, c)
               low == Score(batch, d)
               early == batch[c].at
               late == batch[d].at
    <2>t. high \in Nat /\ low \in Nat /\ early \in Nat /\ late \in Nat
        BY <1>2, <2>1
    <2>2. low <= high
        <3>1. 10000 - high <= 10000 - low
            BY <2>1
        <3> HIDE DEF high, low
        <3> QED BY <2>t, <3>1
    <2>3. ASSUME low = high PROVE early <= late
        <3>1. d \in top
            BY <2>1, <2>3
        <3>2. batch[d].at \in times
            BY <3>1
        <3> QED BY <1>7, <1>8, <3>2
    <2>4. Beats(batch, d, c) <=> (low > high \/ (low = high /\ late < early))
        BY DEF Beats
    <2> HIDE DEF high, low, early, late
    <2> QED BY <2>t, <2>2, <2>3, <2>4
<1>10. c \in 1..Len(batch)
    BY <1>8
<1> QED BY <1>9, <1>10

(* That is what Best finds.                                                    *)
LEMMA BestIsUnbeaten ==
    ASSUME NEW batch \in Seq(Comments), batch # <<>>, Len(batch) <= MaxCandidates
    PROVE  Best(batch) \in 1..Len(batch) /\ \A d \in 1..Len(batch) : ~Beats(batch, d, Best(batch))
<1> DEFINE topics == Topics(batch)
           unbeaten(c) == \A d \in DOMAIN batch : ~Beats(batch, d, c)
           having == {t \in 1..Len(topics) : \E c \in ToSet(topics[t].members) : unbeaten(c)}
           topic == SelectInSeq(topics, LAMBDA t : \E c \in ToSet(t.members) : unbeaten(c))
           members == topics[topic].members
           places == {i \in 1..Len(members) : unbeaten(members[i])}
           place == SelectInSeq(members, unbeaten)
<1>0. DOMAIN batch = 1..Len(batch)
    OBVIOUS
<1>1. Best(batch) = members[place]
    BY Zenon DEF Best
<1>2. topic = IF having # {} THEN Min(having) ELSE 0
    BY Zenon DEF SelectInSeq
<1>3. place = IF places # {} THEN Min(places) ELSE 0
    BY Zenon DEF SelectInSeq
<1>4. Fitting(batch, topics, Len(batch))
    BY TopicsFit
<1>5. \E c \in 1..Len(batch) : unbeaten(c)
    BY <1>0, SomeUnbeaten
<1> HIDE DEF topics, unbeaten, place, topic
<1>6. topics \in Seq(Topic)
    BY <1>4 DEF Fitting
<1>7. having # {}
    <2>1. PICK c \in 1..Len(batch) : unbeaten(c)
        BY <1>5
    <2>2. PICK t \in 1..Len(topics) : \E i \in Places(topics, t) : topics[t].members[i] = c
        BY <1>4, Zenon DEF Fitting
    <2>3. DOMAIN topics[t].members = Places(topics, t)
        BY <1>6, TopicParts DEF Places
    <2>4. c \in ToSet(topics[t].members)
        BY <2>2, <2>3 DEF ToSet
    <2> QED BY <2>1, <2>4
<1>8. topic \in having
    <2>1. having \in SUBSET Nat
        OBVIOUS
    <2> HIDE DEF having
    <2> QED BY <1>2, <1>7, <2>1, MinIsLeast
<1>9. /\ topic \in 1..Len(topics)
      /\ \E c \in ToSet(members) : unbeaten(c)
    BY <1>8
<1>10. DOMAIN members = 1..Len(members) /\ \A i \in 1..Len(members) : members[i] \in 1..Len(batch)
    <2>1. DOMAIN members = 1..Len(members)
        BY <1>6, <1>9, TopicParts
    <2> QED BY <1>4, <1>9, <2>1 DEF Fitting, Places
<1> HIDE DEF members
<1>11. places # {}
    BY <1>9, <1>10 DEF ToSet
<1>12. place \in places
    <2>1. places \in SUBSET Nat
        OBVIOUS
    <2> HIDE DEF places
    <2> QED BY <1>3, <1>11, <2>1, MinIsLeast
<1>13. place \in 1..Len(members) /\ unbeaten(members[place])
    BY <1>12
<1> QED BY <1>0, <1>1, <1>10, <1>13 DEF unbeaten

(* A question is answered before what is none.                              *)
LEMMA AskedFirst ==
    ASSUME NEW batch \in Seq(Comments), batch # <<>>, Len(batch) <= MaxCandidates,
           \E c \in DOMAIN batch : batch[c].question
    PROVE  batch[Best(batch)].question
<1> DEFINE b == Best(batch)
<1>1. b \in 1..Len(batch) /\ \A d \in 1..Len(batch) : ~Beats(batch, d, b)
    BY BestIsUnbeaten
<1> HIDE DEF b
<1>2. PICK c \in 1..Len(batch) : batch[c].question
    OBVIOUS
<1>3. ASSUME ~batch[b].question PROVE FALSE
    <2> DEFINE high == Score(batch, c)
               low == Score(batch, b)
               some == PointsOf(batch, c)
               all == PointsOf(batch, b)
    <2>1. /\ high = 5000 + some /\ some \in Nat /\ 0 < some
          /\ low = 0 + all /\ all \in Nat /\ all <= 5000
        BY <1>1, <1>2, <1>3, ScoreIs
    <2>2. ~(high > low)
        BY <1>1, <1>2 DEF Beats
    <2> HIDE DEF high, low, some, all
    <2>3. high \in Nat /\ low \in Nat /\ 5000 < high /\ low <= 5000
        BY <2>1
    <2> QED BY <2>2, <2>3
<1> QED BY <1>3 DEF b

(* Nobody is passed over who is as good in all respects and better in one, or earlier. *)
LEMMA NoneBetter ==
    ASSUME NEW batch \in Seq(Comments), batch # <<>>, Len(batch) <= MaxCandidates
    PROVE  Undefeated(batch, Best(batch))
<1> DEFINE b == Best(batch)
<1>1. b \in 1..Len(batch) /\ \A d \in 1..Len(batch) : ~Beats(batch, d, b)
    BY BestIsUnbeaten
<1> HIDE DEF b
<1> DEFINE p(c) == LengthPart(batch, c)[1]
           f(c) == LengthPart(batch, c)[2]
           longer(c, d) == NoWorse(batch[c].length, batch[d].length)
<1>2. ASSUME NEW c \in 1..Len(batch),
             batch[b].question => batch[c].question, longer(c, b), Size(batch, c) >= Size(batch, b),
             \/ batch[c].question /\ ~batch[b].question
             \/ ~longer(b, c)
             \/ Size(batch, c) > Size(batch, b)
             \/ batch[c].at < batch[b].at
      PROVE  FALSE
    <2>1. /\ PointsOf(batch, c) \in Nat /\ PointsOf(batch, c) <= 5000
          /\ PointsOf(batch, b) \in Nat /\ PointsOf(batch, b) <= 5000
          /\ Score(batch, c) = (IF batch[c].question THEN 5000 ELSE 0) + PointsOf(batch, c)
          /\ Score(batch, b) = (IF batch[b].question THEN 5000 ELSE 0) + PointsOf(batch, b)
          /\ batch[c].length \in Nat /\ batch[b].length \in Nat
          /\ batch[c].at \in Nat /\ batch[b].at \in Nat
          /\ batch[c].question \in BOOLEAN /\ batch[b].question \in BOOLEAN
        BY <1>1, ScoreIs
    <2> DEFINE high == Score(batch, b)
               low == Score(batch, c)
               early == batch[b].at
               late == batch[c].at
               pb == PointsOf(batch, b)
               pc == PointsOf(batch, c)
               sb == Size(batch, b)
               sc == Size(batch, c)
               qb == IF batch[b].question THEN 5000 ELSE 0
               qc == IF batch[c].question THEN 5000 ELSE 0
    <2>2. Beats(batch, c, b) <=> (low > high \/ (low = high /\ late < early))
        BY DEF Beats
    <2>3. ~(low > high \/ (low = high /\ late < early))
        BY <1>1, <2>2
    <2>4. p(c) \in Nat /\ f(c) \in Nat /\ f(c) > 0 /\ p(b) \in Nat /\ f(b) \in Nat /\ f(b) > 0
        <3>1. ASSUME NEW d, batch[d].length \in Nat PROVE p(d) \in Nat /\ f(d) \in Nat /\ f(d) > 0
            <4> DEFINE n == batch[d].length
            <4>1. n \in Nat
                BY <3>1
            <4> HIDE DEF n
            <4>2. LengthScore(n)[1] \in Nat /\ LengthScore(n)[2] \in Nat /\ LengthScore(n)[2] > 0
                BY <4>1, LengthScoreType
            <4> QED BY <4>2 DEF LengthPart, n
        <3> HIDE DEF p, f
        <3> QED BY <2>1, <3>1
    <2>5. Largest(batch) \in 1..50 /\ Size(batch, c) \in 1..Largest(batch) /\ Size(batch, b) \in 1..Largest(batch)
        BY <1>1, LargestWithin
    <2>6. p(b) * f(c) <= p(c) * f(b)
        <3>1. p(c) * f(b) >= p(b) * f(c)
            BY <1>2 DEF NoWorse, LengthPart
        <3>2. \A x, y \in Nat : x * y \in Nat
            OBVIOUS
        <3> HIDE DEF p, f
        <3>3. p(c) * f(b) \in Nat /\ p(b) * f(c) \in Nat
            BY <2>4, <3>2
        <3> QED BY <3>1, <3>3
    <2>7. ~longer(b, c) => f(b) * f(c) <= 3000 * (p(c) * f(b) - p(b) * f(c))
        <3> DEFINE m == batch[c].length
                   n == batch[b].length
        <3>1. m \in Nat /\ n \in Nat
            BY <2>1
        <3> HIDE DEF m, n
        <3>2. ~NoWorse(n, m) => LengthScore(n)[2] * LengthScore(m)[2]
                    <= 3000 * (LengthScore(m)[1] * LengthScore(n)[2] - LengthScore(n)[1] * LengthScore(m)[2])
            BY <3>1, LengthGap
        <3> QED BY <3>2, Zenon DEF LengthPart, m, n
    <2> HIDE DEF p, f, longer
    <2>8. /\ PointsOf(batch, b) <= PointsOf(batch, c)
          /\ ~longer(b, c) \/ Size(batch, b) < Size(batch, c) => PointsOf(batch, b) < PointsOf(batch, c)
        <3> DEFINE s == Size(batch, b)
                   t == Size(batch, c)
                   most == Largest(batch)
        <3>1. PointsOf(batch, b) = Points(p(b), f(b), s, most) /\ PointsOf(batch, c) = Points(p(c), f(c), t, most)
            BY DEF PointsOf, p, f
        <3>2. s <= t
            BY <1>2, <2>5
        <3> HIDE DEF s, t, most
        <3>3. /\ Points(p(b), f(b), s, most) <= Points(p(c), f(c), t, most)
              /\ f(b) * f(c) <= 3000 * (p(c) * f(b) - p(b) * f(c)) \/ s < t
                  => Points(p(b), f(b), s, most) < Points(p(c), f(c), t, most)
            <4>1. most \in 1..50 /\ s \in 1..most /\ t \in 1..most
                BY <2>5 DEF s, t, most
            <4> QED BY <2>4, <2>6, <3>2, <4>1, PointsGrow, Zenon
        <3> QED BY <2>7, <3>1, <3>3 DEF s, t
    <2>9. /\ pb \in Nat /\ pc \in Nat /\ low = qc + pc /\ high = qb + pb
          /\ qb \in {0, 5000} /\ qc \in {0, 5000} /\ qb <= qc
          /\ batch[c].question /\ ~batch[b].question => qb < qc
          /\ early \in Nat /\ late \in Nat /\ sb \in Nat /\ sc \in Nat
        BY <1>2, <2>1, <2>5
    <2>10. /\ pb <= pc
           /\ ~longer(b, c) \/ sb < sc => pb < pc
           /\ sc >= sb
           /\ \/ batch[c].question /\ ~batch[b].question
              \/ ~longer(b, c)
              \/ sc > sb
              \/ late < early
        BY <1>2, <2>8
    <2> HIDE DEF high, low, early, late, pb, pc, sb, sc, qb, qc
    <2>12. qb = qc /\ pb = pc /\ low = high
        BY <2>3, <2>9, <2>10
    <2>13. ~(pb < pc) /\ ~(qb < qc) /\ ~(late < early)
        BY <2>3, <2>9, <2>12
    <2>14. sc > sb => sb < sc
        BY <2>9
    <2> QED BY <2>9, <2>10, <2>13, <2>14
<1>3. DOMAIN batch = 1..Len(batch)
    OBVIOUS
<1>4. Undefeated(batch, b)
    BY <1>2, <1>3 DEF Undefeated
<1> QED BY <1>4 DEF b

(* domain/topic.py: whatever the comments of a batch are, the topics divide them  *)
(* into conversations, a question goes before what is none, and nobody is        *)
(* passed over who is at least as good in all three respects and better in one  *)
(* or earlier.                                                               *)
THEOREM ChoiceIsAlwaysJust == ConversationSpec => []ChoiceIsJust
<1>1. \A batch \in Batches : batch \in Seq(Comments) /\ Len(batch) <= MaxCandidates
    BY TopicAssumption
<1>2. AllTalks
    BY <1>1, TalksAlways DEF AllTalks
<1>3. AllAsked
    <2> SUFFICES ASSUME NEW batch \in Batches \ {<<>>}, \E c \in DOMAIN batch : batch[c].question
                 PROVE  batch[Best(batch)].question
        BY DEF AllAsked
    <2> QED BY <1>1, AskedFirst
<1>4. AllJust
    BY <1>1, NoneBetter DEF AllJust
<1>5. ChoiceIsJust
    BY <1>2, <1>3, <1>4 DEF ChoiceIsJust
<1> QED BY <1>5, PTL
=============================================================================
