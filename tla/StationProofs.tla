---------------------------- MODULE StationProofs ----------------------------
(***************************************************************************)
(* Proofs about Station: for any number of requests of any kind, of keys,   *)
(* viewers and lists, and any number of failures.                           *)
(***************************************************************************)
EXTENDS Station, TLAPS, SequenceTheorems

(* Which calls are on the way of which request.                               *)
OnItsWay(r) ==
    /\ pc[r] \in {"get", "discard", "query", "set"} => job[r].op \in {"count", "rank", "profile"}
    /\ pc[r] \in {"axes", "values"} => job[r].op = "profile"
    /\ pc[r] = "table" => job[r].op \notin {"count", "rank", "profile"}
    /\ pc[r] = "write" => job[r].op \in {"like", "unlike", "register"}
    /\ pc[r] \in {"flush", "lookup", "create", "commit"} => job[r].op = "list"
    /\ pc[r] = "invalidate" => job[r].op \in {"like", "unlike", "axis", "list"}
    /\ dirty[r] => pc[r] \in {"lookup", "create", "commit", "invalidate"}

IsFunction(f, S) == f = [s \in S |-> f[s]]

Labels == {"get", "discard", "query", "axes", "values", "set", "table", "write",
           "flush", "lookup", "create", "commit", "invalidate", "over"}

PathInv ==
    /\ job \in Workloads
    /\ pc \in [Requests -> Labels]
    /\ dirty \in [Requests -> BOOLEAN]
    /\ IsFunction(fetched, Requests) /\ IsFunction(cache, Keys) /\ excused \subseteq Keys
    /\ \A r \in Requests : OnItsWay(r)

LikesInv == likes \in [Users -> {0, 1}]

AccountsInv == \A a, b \in accounts : a.email = b.email => a = b

(* A persona, and what of it is cached or on the way into the cache.            *)
IsProfile(value) ==
    \E name, styles, list :
        name \in Versions /\ value = [name |-> name, axis |-> styles, values |-> list]
ProfileInv ==
    /\ persona \in Versions \cup {None}
    /\ IsFunction(axis, Axes)
    /\ <<"profile">> \in Keys =>
        cache[<<"profile">>] \in {None, Damaged} \/ IsProfile(cache[<<"profile">>])
    /\ \A r \in Requests :
        /\ pc[r] \in {"axes", "values", "set"} /\ job[r].op = "profile" => IsProfile(fetched[r])
        /\ pc[r] = "table" /\ job[r].op = "create" => persona = None

(* Rows that cannot be in the table together with one of the others.           *)
Apart(rows) == \A a, b \in rows : Alike(a, b) => a = b
Strangers(rows, others) == \A a \in rows, b \in others : ~Alike(a, b)
Words(rows) == {row.word : row \in rows}
View(r) == (values \ tx[r].gone) \cup tx[r].new

RowsOf(r) ==
    /\ tx[r] = [gone |-> tx[r].gone, new |-> tx[r].new]
    /\ tx[r].gone \subseteq values
    /\ Apart(View(r))
    /\ \A row \in tx[r].new \cup pending[r] : row.word \in vocabulary
    /\ pc[r] \notin {"lookup", "create", "commit"} => tx[r] = EmptyTx
    /\ pc[r] \in {"lookup", "commit"} => \A a, b \in pending[r] : a = b
    /\ pc[r] \notin {"flush", "lookup", "commit"} => pending[r] = {}

RowsInv ==
    /\ IsFunction(tx, Requests) /\ IsFunction(pending, Requests)
    /\ Apart(values)
    /\ \A row \in values : row.word \in vocabulary
    /\ \A r \in Requests : RowsOf(r)
    /\ \A r, q \in Requests : r # q =>
        tx[r].gone \cap tx[q].gone = {} /\ Strangers(tx[r].new, tx[q].new)

(* While no word had to be created: who writes a list has written it so far,    *)
(* and the table, as soon as it holds anything, holds the head of a list        *)
(* whose writer has committed it.                                            *)
Written(r) == {Row(job[r].list[i], i, r) : i \in 1..linked[r]}
Committed(row) == \A r \in Requests : row.by = r => pc[r] \in {"invalidate", "over"}

WholeOf(r) ==
    /\ pc[r] \in {"table", "flush"} => linked[r] = 0
    /\ pc[r] \in {"lookup", "create", "commit"} =>
        /\ tx[r].new \cup pending[r] = Written(r)
        /\ tx[r].gone \in {{}, values}
        /\ linked[r] \in 0..Len(job[r].list)
        /\ pc[r] = "commit" <=> linked[r] = Len(job[r].list)
    /\ pc[r] = "flush" =>
        /\ pending[r] = values \/ pending[r] \cap values = {}
        /\ \A row \in pending[r] : Committed(row)

WholeInv ==
    /\ linked \in [Requests -> Nat]
    /\ ~split =>
        /\ \A r \in Requests : WholeOf(r)
        /\ values # {} => \E row \in values : row.rank = 1
        /\ \A row \in values : Committed(row)

(* A value in the cache is what the database says, or somebody answers for it.  *)
Fresh(k) ==
    \/ cache[k] \in {None, Damaged, Truth(k)}
    \/ k \in excused
    \/ \E r \in Requests : dirty[r] /\ Key(r) = k
FreshInv == \A k \in Keys : Fresh(k)

(* What was the ranking at some moment.                                       *)
OnceRanked(value, limit, gifts) ==
    \E n \in 0..Len(gifts) : value = Ranking(ToSet(SubSeq(gifts, 1, n)), limit)
RankedInv ==
    /\ donations \in Seq(Gifts)
    /\ \A n \in Nat : <<"ranking", n>> \in Keys =>
        \/ cache[<<"ranking", n>>] \in {None, Damaged}
        \/ OnceRanked(cache[<<"ranking", n>>], n, donations)
    /\ \A r \in Requests : job[r].op = "rank" =>
        \/ fetched[r] = None /\ pc[r] # "set"
        \/ OnceRanked(fetched[r], job[r].limit, donations)

-----------------------------------------------------------------------------
(* The keys are different from each other and from no key.                    *)
LEMMA KeysDiffer ==
    /\ <<"likes">> # <<>> /\ <<"profile">> # <<>> /\ <<"likes">> # <<"profile">>
    /\ \A n : <<"ranking", n>> \notin {<<>>, <<"likes">>, <<"profile">>}
    /\ \A n, m : <<"ranking", n>> = <<"ranking", m>> => n = m
PROOF
<1>1. Len(<<"likes">>) = 1 /\ Len(<<"profile">>) = 1 /\ Len(<<>>) = 0
    OBVIOUS
<1>2. \A n : Len(<<"ranking", n>>) = 2
    OBVIOUS
<1>3. <<"likes">> # <<"profile">>
    OBVIOUS
<1>4. \A n, m : <<"ranking", n>> = <<"ranking", m>> => n = m
    OBVIOUS
<1> QED
    BY <1>1, <1>2, <1>3, <1>4

(* What a request is for tells its key.                                       *)
LEMMA KeyOfJob ==
    ASSUME job \in Workloads, NEW r \in Requests
    PROVE  /\ job[r] \in Jobs
           /\ job[r].op \in {"count", "like", "unlike"} => Key(r) = <<"likes">> /\ Key(r) \in Keys
           /\ job[r].op = "rank" =>
                Key(r) = <<"ranking", job[r].limit>> /\ job[r].limit \in Nat /\ Key(r) \in Keys
           /\ job[r].op \in {"profile", "create", "rename", "delete", "axis", "list"} =>
                Key(r) = <<"profile">> /\ Key(r) \in Keys
PROOF
<1>1. job[r] \in Jobs /\ KeyOf(job[r]) \in Keys \cup {<<>>}
    BY StationAssumption
<1>2. job[r].op = "rank" => job[r].limit \in Nat
    BY <1>1 DEF Jobs
<1> QED
    BY <1>1, <1>2, KeysDiffer DEF Key, KeyOf

-----------------------------------------------------------------------------
(* The way of a request.                                                     *)
LEMMA PathInit == StationInit => PathInv
PROOF
<1> SUFFICES ASSUME StationInit PROVE PathInv
    OBVIOUS
<1> USE DEF StationInit, ReadThroughInit
<1>1. \A r \in Requests : OnItsWay(r)
    BY DEF OnItsWay
<1> QED
    BY <1>1 DEF PathInv, IsFunction, Labels

LEMMA PathStep ==
    ASSUME PathInv, [StationNext]_stationVars
    PROVE  PathInv'
PROOF
<1> USE DEF PathInv
<1>1. ASSUME NEW r \in Requests, CacheStep(r)
      PROVE  PathInv'
    <2>1. Key(r) \in Keys \/ pc[r] \notin {"discard", "set"}
        BY KeyOfJob DEF OnItsWay
    <2>2. CASE Get(r)
        BY <2>2 DEF Get, Goto, cacheVars, IsFunction, OnItsWay, Labels
    <2>3. CASE Discard(r)
        BY <2>1, <2>3 DEF Discard, Drop, Goto, IsFunction, OnItsWay, Labels
    <2>4. CASE Set(r, Truth(Key(r)))
        BY <2>1, <2>4 DEF Set, Put, Goto, IsFunction, OnItsWay, Labels
    <2>5. CASE Invalidate(r)
        BY <2>5 DEF Invalidate, Drop, Goto, IsFunction, OnItsWay, Labels
    <2> QED
        BY <1>1, <2>2, <2>3, <2>4, <2>5 DEF CacheStep
<1>2. ASSUME NEW r \in Requests, LikeStep(r)
      PROVE  PathInv'
    <2> USE DEF Goto, cacheVars, IsFunction, OnItsWay, Labels
    <2>1. CASE CountRows(r)
        BY <2>1 DEF CountRows
    <2>2. CASE LookForLike(r)
        BY <2>2 DEF LookForLike
    <2>3. CASE AddLike(r)
        BY <2>3 DEF AddLike, LikeTaken
    <2>4. CASE RemoveLike(r)
        BY <2>4 DEF RemoveLike
    <2> QED
        BY <1>2, <2>1, <2>2, <2>3, <2>4 DEF LikeStep
<1>3. ASSUME NEW r \in Requests, SupportStep(r)
      PROVE  PathInv'
    <2> USE DEF Goto, Answer, cacheVars, IsFunction, OnItsWay, Labels
    <2>1. CASE LookForEmail(r)
        BY <2>1 DEF LookForEmail
    <2>2. CASE AddAccount(r)
        BY <2>2 DEF AddAccount
    <2>3. CASE LogIn(r)
        BY <2>3 DEF LogIn
    <2>4. CASE SumDonations(r)
        BY <2>4 DEF SumDonations
    <2>5. CASE Donate(r)
        BY <2>5 DEF Donate
    <2> QED
        BY <1>3, <2>1, <2>2, <2>3, <2>4, <2>5 DEF SupportStep
<1>4. ASSUME NEW r \in Requests, VoiceStep(r)
      PROVE  PathInv'
    <2> USE DEF Goto, cacheVars, IsFunction, OnItsWay, Labels
    <2>1. CASE ReadPersona(r)
        BY <2>1 DEF ReadPersona
    <2>2. CASE ReadAxes(r)
        BY <2>2 DEF ReadAxes
    <2>3. CASE ReadValues(r)
        BY <2>3 DEF ReadValues
    <2>4. CASE CreatePersona(r)
        BY <2>4 DEF CreatePersona
    <2>5. CASE SetPersona(r)
        BY <2>5, KeyOfJob DEF SetPersona
    <2>6. CASE SetAxis(r)
        BY <2>6 DEF SetAxis
    <2>7. CASE NotOwned(r)
        BY <2>7 DEF NotOwned
    <2>8. CASE SelectRows(r)
        BY <2>8 DEF SelectRows
    <2>9. CASE FlushDeletes(r)
        BY <2>9 DEF FlushDeletes
    <2>10. CASE LookUp(r)
        BY <2>10 DEF LookUp, Link
    <2>11. CASE CreateWord(r)
        BY <2>11 DEF CreateWord, Link, CommitRows
    <2>12. CASE CommitList(r)
        BY <2>12 DEF CommitList, CommitRows
    <2>13. CASE Refuse(r)
        BY <2>13, KeyOfJob DEF Refuse, Abort, LeaveBehind
    <2> QED
        BY <1>4, <2>1, <2>2, <2>3, <2>4, <2>5, <2>6, <2>7, <2>8, <2>9, <2>10, <2>11, <2>12, <2>13
        DEF VoiceStep
<1>5. ASSUME NEW r \in Requests, RedisError(r, Truth(Key(r)))
      PROVE  PathInv'
    <2>1. Key(r) \in Keys \/ pc[r] \notin {"discard", "set", "invalidate"}
        BY KeyOfJob DEF OnItsWay
    <2> USE DEF Goto, cacheVars, IsFunction, OnItsWay, Labels
    <2>2. CASE pc[r] \in {"get", "discard"} /\ Goto(r, "query") /\ UNCHANGED <<dirty, cacheVars>>
        BY <1>5, <2>2 DEF RedisError
    <2>3. CASE pc[r] = "discard" /\ Goto(r, "query") /\ Drop(Key(r)) /\ UNCHANGED dirty
        BY <1>5, <2>1, <2>3 DEF RedisError, Drop
    <2>4. CASE /\ pc[r] = "set" /\ Goto(r, "over") /\ UNCHANGED dirty
               /\ UNCHANGED cacheVars \/ Put(Key(r), fetched[r], Truth(Key(r)))
        BY <1>5, <2>1, <2>4 DEF RedisError, Put
    <2>5. CASE /\ pc[r] = "invalidate" /\ Goto(r, "over")
               /\ \/ LeaveBehind(r) /\ UNCHANGED cache
                  \/ Drop(Key(r)) /\ dirty' = [dirty EXCEPT ![r] = FALSE]
        BY <1>5, <2>1, <2>5 DEF RedisError, Drop, LeaveBehind
    <2> QED
        BY <1>5, <2>2, <2>3, <2>4, <2>5 DEF RedisError
<1>6. ASSUME NEW r \in Requests, DieHere(r)
      PROVE  PathInv'
    <2>1. dirty[r] => Key(r) \in Keys
        BY KeyOfJob DEF OnItsWay
    <2> QED
        BY <1>6, <2>1 DEF DieHere, Abort, LeaveBehind, Goto, IsFunction, OnItsWay, Labels
<1>7. ASSUME NEW k \in Keys, Expire(k)
      PROVE  PathInv'
    BY <1>7 DEF Expire, Drop, requestVars, IsFunction, OnItsWay, Labels
<1>8. CASE UNCHANGED stationVars
    BY <1>8 DEF stationVars, readThroughVars, requestVars, cacheVars, OnItsWay, IsFunction
<1> QED
    BY <1>1, <1>2, <1>3, <1>4, <1>5, <1>6, <1>7, <1>8 DEF StationNext, RequestStep

-----------------------------------------------------------------------------
(* Most steps have nothing to do with the list of core values.                *)
ListTaken(r) ==
    SelectRows(r) \/ FlushDeletes(r) \/ LookUp(r) \/ CreateWord(r) \/ CommitList(r)
        \/ Refuse(r) \/ DieHere(r)
Aside ==
    /\ UNCHANGED <<job, values, vocabulary, setterVars>>
    /\ \A r \in Requests : pc'[r] # pc[r] =>
        /\ pc[r] \notin {"flush", "lookup", "create", "commit", "over"}
        /\ pc'[r] \notin {"table", "flush", "lookup", "create", "commit"}
        /\ pc[r] = "invalidate" => pc'[r] = "over"

LEMMA ListOrAside ==
    ASSUME PathInv, [StationNext]_stationVars
    PROVE  Aside \/ \E r \in Requests : ListTaken(r)
PROOF
<1> USE DEF PathInv, Aside
<1>1. ASSUME NEW r \in Requests, CacheStep(r), UNCHANGED databaseVars
      PROVE  Aside
    BY <1>1 DEF CacheStep, Get, Discard, Set, Invalidate, Goto, databaseVars, voiceVars, tableVars
<1>2. ASSUME NEW r \in Requests, LikeStep(r), UNCHANGED voiceVars
      PROVE  Aside
    BY <1>2 DEF LikeStep, CountRows, LookForLike, AddLike, RemoveLike, Goto, voiceVars, tableVars
<1>3. ASSUME NEW r \in Requests, SupportStep(r), UNCHANGED voiceVars
      PROVE  Aside
    BY <1>3 DEF SupportStep, LookForEmail, AddAccount, LogIn, SumDonations, Donate, Answer, Goto,
        voiceVars, tableVars
<1>4. ASSUME NEW r \in Requests, VoiceStep(r)
      PROVE  Aside \/ ListTaken(r)
    BY <1>4 DEF VoiceStep, ReadPersona, ReadAxes, ReadValues, CreatePersona, SetPersona, SetAxis,
        NotOwned, Goto, ListTaken, voiceVars, tableVars
<1>5. ASSUME NEW r \in Requests, RedisError(r, Truth(Key(r))), UNCHANGED databaseVars
      PROVE  Aside
    BY <1>5 DEF RedisError, Goto, databaseVars, voiceVars, tableVars
<1>6. ASSUME NEW r \in Requests, DieHere(r)
      PROVE  ListTaken(r)
    BY <1>6 DEF ListTaken
<1>7. ASSUME NEW k \in Keys, Expire(k), UNCHANGED databaseVars
      PROVE  Aside
    BY <1>7 DEF Expire, requestVars, databaseVars, voiceVars, tableVars
<1>8. CASE UNCHANGED stationVars
    BY <1>8 DEF stationVars, readThroughVars, requestVars, voiceVars, tableVars
<1> QED
    BY <1>1, <1>2, <1>3, <1>4, <1>5, <1>6, <1>7, <1>8 DEF StationNext, RequestStep

-----------------------------------------------------------------------------
(* Rows of the list.                                                         *)
LEMMA RowsInit == StationInit => RowsInv
PROOF
<1> SUFFICES ASSUME StationInit PROVE RowsInv
    OBVIOUS
<1> USE DEF StationInit, VoiceInit, ReadThroughInit
<1>1. Apart(values) /\ \A row \in values : row.word \in vocabulary
    <2>1. CASE values = {}
        BY <2>1 DEF Apart
    <2>2. CASE \E list \in Lists : values = Rows(list, None) /\ ToSet(list) \subseteq vocabulary
        <3>1. PICK list \in Lists : values = Rows(list, None) /\ ToSet(list) \subseteq vocabulary
            BY <2>2
        <3>2. \A i \in DOMAIN list : list[i] \in ToSet(list)
            BY DEF ToSet
        <3>3. IsInjective(list)
            BY StationAssumption
        <3> QED
            BY <3>1, <3>2, <3>3 DEF Apart, Alike, Rows, Row, IsInjective
    <2> QED
        BY <2>1, <2>2
<1>2. \A r \in Requests : RowsOf(r)
    BY <1>1 DEF RowsOf, EmptyTx, View, Apart
<1> QED
    BY <1>1, <1>2 DEF RowsInv, IsFunction, Strangers, EmptyTx

LEMMA RowsAside ==
    ASSUME RowsInv, Aside, pc' \in [Requests -> Labels]
    PROVE  RowsInv'
PROOF
<1> USE DEF Aside, setterVars
<1>1. ASSUME NEW r \in Requests
      PROVE  RowsOf(r)'
    BY <1>1 DEF RowsInv, RowsOf, View
<1> QED
    BY <1>1 DEF RowsInv, Strangers, Apart, IsFunction

(* A request whose own rows are as they were.                                 *)
LEMMA RowsOfOther ==
    ASSUME RowsInv, NEW r \in Requests, NEW q \in Requests \ {r},
           UNCHANGED values, vocabulary \subseteq vocabulary',
           tx'[q] = tx[q], pending'[q] = pending[q], pc'[q] = pc[q]
    PROVE  RowsOf(q)'
BY DEF RowsInv, RowsOf, View

(* Rows that clash with none of the others can go to them.                    *)
LEMMA MoreApart ==
    ASSUME NEW rows, NEW more, Apart(rows), \A a, b \in more : a = b,
           \A a \in more, b \in rows : ~Alike(a, b)
    PROVE  Apart(rows \cup more)
BY DEF Apart, Alike

(* The transaction of r is over: the rows it leaves in its session are as they   *)
(* have to be, and what it does to the others is nothing, or its commit.        *)
Rest(r) ==
    /\ tx' = [tx EXCEPT ![r] = EmptyTx]
    /\ vocabulary \subseteq vocabulary'
    /\ IsFunction(pending, Requests)'
    /\ \A row \in pending'[r] : row.word \in vocabulary'
    /\ \A a, b \in pending'[r] : a = b
    /\ pc'[r] \in {"lookup", "commit", "invalidate", "over"}
    /\ pc'[r] \in {"invalidate", "over"} => pending'[r] = {}
    /\ \A q \in Requests \ {r} : pending'[q] = pending[q] /\ pc'[q] = pc[q]

LEMMA RowsRollback ==
    ASSUME RowsInv, NEW r \in Requests, Rest(r), UNCHANGED values
    PROVE  RowsInv'
PROOF
<1> USE DEF Rest
<1>1. /\ IsFunction(tx, Requests) /\ IsFunction(tx, Requests)'
      /\ tx'[r] = EmptyTx /\ \A q \in Requests \ {r} : tx'[q] = tx[q]
    BY DEF RowsInv, IsFunction
<1>2. Apart(values)
    BY DEF RowsInv
<1>a. tx'[r] = [gone |-> {}, new |-> {}] /\ View(r)' = values
    BY <1>1 DEF View, EmptyTx
<1>3. RowsOf(r)'
    BY <1>1, <1>2, <1>a DEF RowsOf, Apart, EmptyTx
<1>4. \A q \in Requests \ {r} : RowsOf(q)'
    BY <1>1, RowsOfOther
<1> QED
    BY <1>1, <1>3, <1>4 DEF RowsInv, EmptyTx, Apart, Strangers

LEMMA RowsCommit ==
    ASSUME RowsInv, NEW r \in Requests, Rest(r), NEW new,
           values' = (values \ tx[r].gone) \cup new, Apart(values'),
           \A row \in new : row.word \in vocabulary,
           \A q \in Requests \ {r} : Strangers(new, tx[q].new)
    PROVE  RowsInv'
PROOF
<1> USE DEF Rest
<1>1. /\ IsFunction(tx, Requests) /\ IsFunction(tx, Requests)'
      /\ tx'[r] = EmptyTx /\ \A q \in Requests \ {r} : tx'[q] = tx[q]
    BY DEF RowsInv, IsFunction
<1>a. tx'[r] = [gone |-> {}, new |-> {}] /\ View(r)' = values'
    BY <1>1 DEF View, EmptyTx
<1>2. RowsOf(r)'
    BY <1>1, <1>a DEF RowsOf, Apart, EmptyTx
<1>3. ASSUME NEW q \in Requests \ {r}
      PROVE  RowsOf(q)'
    <2>1. RowsOf(q) /\ tx[q].gone \cap tx[r].gone = {}
        BY DEF RowsInv
    <2>2. tx'[q].gone \subseteq values'
        BY <1>1, <2>1 DEF RowsOf
    <2>3. Apart(View(q))'
        <3> SUFFICES ASSUME NEW a \in View(q)', NEW b \in View(q)', Alike(a, b)
                     PROVE  a = b
            BY DEF Apart, Alike
        <3>1. Alike(b, a)
            BY DEF Alike
        <3>2. Apart(View(q)) /\ Strangers(new, tx[q].new)
            BY <2>1 DEF RowsOf
        <3>3. \A row \in View(q)' : row \in View(q) \/ row \in new
            BY <1>1 DEF View
        <3>4. \A row \in View(q)' : row \in values' \/ row \in tx[q].new
            BY <1>1 DEF View
        <3> QED
            BY <3>1, <3>2, <3>3, <3>4 DEF Apart, Strangers
    <2> QED
        BY <1>1, <2>1, <2>2, <2>3 DEF RowsOf
<1>4. \A row \in values' : row.word \in vocabulary'
    BY DEF RowsInv
<1> QED
    BY <1>1, <1>2, <1>3, <1>4 DEF RowsInv, EmptyTx, Strangers

LEMMA RowsStep ==
    ASSUME PathInv, RowsInv, NEW r \in Requests, ListTaken(r)
    PROVE  RowsInv'
PROOF
<1> USE DEF PathInv
<1>a. /\ IsFunction(tx, Requests) /\ IsFunction(pending, Requests)
      /\ tx[r] = [gone |-> tx[r].gone, new |-> tx[r].new]
      /\ Apart(values) /\ Apart(View(r))
      /\ tx[r].gone \subseteq values
    BY DEF RowsInv, RowsOf
<1>b. /\ \A a \in tx[r].new \cup pending[r] : a.word \in vocabulary
      /\ pc[r] \in {"lookup", "commit"} => \A a, b \in pending[r] : a = b
      /\ pc[r] = "create" => pending[r] = {}
      /\ \A q \in Requests \ {r} : Strangers(tx[r].new, tx[q].new)
    BY DEF RowsInv, RowsOf
<1>c. ASSUME pc[r] \in {"lookup", "commit"}, Free(r), ~Clashes(r)
      PROVE  /\ Apart(View(r) \cup pending[r])
             /\ \A q \in Requests \ {r} : Strangers(tx[r].new \cup pending[r], tx[q].new)
    <2>1. \A a \in pending[r], b \in View(r) : ~Alike(a, b)
        BY <1>c DEF Clashes, View
    <2>2. Apart(View(r) \cup pending[r])
        BY <1>a, <1>b, <1>c, <2>1, MoreApart
    <2>3. \A q \in Requests \ {r} : Strangers(pending[r], tx[q].new)
        BY <1>c DEF Free, WaitsFor, Holds, Strangers, Alike
    <2> QED
        BY <1>b, <2>2, <2>3 DEF Strangers
<1>d. ASSUME Link(r), Word(r) \in vocabulary'
      PROVE  /\ IsFunction(pending, Requests)'
             /\ \A row \in pending'[r] : row.word \in vocabulary'
             /\ \A a, b \in pending'[r] : a = b
             /\ pc'[r] \in {"lookup", "commit"} /\ pc' \in [Requests -> Labels]
             /\ \A q \in Requests \ {r} : pending'[q] = pending[q] /\ pc'[q] = pc[q]
    <2> DEFINE row == Row(Word(r), linked[r] + 1, r)
    <2>1. /\ pending' = [pending EXCEPT ![r] = {row}]
          /\ \E l \in {"lookup", "commit"} : pc' = [pc EXCEPT ![r] = l]
        BY <1>d DEF Link, Goto, Word
    <2>2. row.word = Word(r)
        BY DEF Row
    <2> HIDE DEF row
    <2>3. pending'[r] = {row} /\ \A q \in Requests \ {r} : pending'[q] = pending[q]
        BY <1>a, <2>1 DEF IsFunction
    <2> QED
        BY <1>a, <1>d, <2>1, <2>2, <2>3 DEF IsFunction, Labels
<1>1. CASE SelectRows(r)
    <2>1. /\ pc[r] = "table"
          /\ pending' = [pending EXCEPT ![r] = values] /\ pc' = [pc EXCEPT ![r] = "flush"]
          /\ UNCHANGED <<values, vocabulary, tx>>
        BY <1>1 DEF SelectRows, Goto, tableVars
    <2>2. \A q \in Requests \ {r} : RowsOf(q)'
        BY <1>a, <2>1, RowsOfOther DEF IsFunction
    <2>3. RowsOf(r)'
        BY <1>a, <2>1 DEF RowsInv, RowsOf, View, IsFunction
    <2> QED
        BY <1>a, <2>1, <2>2, <2>3 DEF RowsInv, IsFunction, Apart, Strangers
<1>2. CASE FlushDeletes(r)
    <2> DEFINE gone == pending[r] \cap values
    <2>1. /\ pc[r] = "flush" /\ Free(r)
          /\ IsFunction(tx, Requests)' /\ tx'[r] = [gone |-> gone, new |-> {}]
          /\ \A q \in Requests \ {r} : tx'[q] = tx[q]
          /\ pending' = [pending EXCEPT ![r] = {}]
          /\ pc' \in [Requests -> Labels] /\ pc'[r] \in {"lookup", "commit"}
          /\ \A q \in Requests \ {r} : pc'[q] = pc[q]
          /\ UNCHANGED <<values, vocabulary>>
        <3>1. pc[r] = "flush"
            BY <1>2 DEF FlushDeletes
        <3>2. tx[r] = EmptyTx
            BY <3>1 DEF RowsInv, RowsOf
        <3>3. tx[r].new = {}
            BY <3>2 DEF EmptyTx
        <3>4. /\ tx' = [tx EXCEPT ![r].gone = gone]
              /\ Free(r) /\ pending' = [pending EXCEPT ![r] = {}]
              /\ \E l \in {"lookup", "commit"} : pc' = [pc EXCEPT ![r] = l]
              /\ UNCHANGED <<values, vocabulary>>
            BY <1>2 DEF FlushDeletes, Goto, tableVars
        <3> HIDE DEF gone
        <3>5. /\ IsFunction(tx, Requests)' /\ tx'[r] = [gone |-> gone, new |-> {}]
              /\ \A q \in Requests \ {r} : tx'[q] = tx[q]
            BY <1>a, <3>3, <3>4 DEF IsFunction
        <3> QED
            BY <3>1, <3>4, <3>5 DEF Labels
    <2> HIDE DEF gone
    <2>2. \A q \in Requests \ {r} : RowsOf(q)'
        BY <1>a, <2>1, RowsOfOther DEF IsFunction
    <2>3. \A q \in Requests \ {r} : gone \cap tx[q].gone = {}
        BY <2>1 DEF Free, WaitsFor, gone
    <2>4. RowsOf(r)'
        BY <1>a, <2>1 DEF RowsOf, View, IsFunction, Apart, gone
    <2>5. tx'[r].gone = gone /\ tx'[r].new = {}
        BY <2>1
    <2>6. \A p, q \in Requests : p # q =>
            tx'[p].gone \cap tx'[q].gone = {} /\ Strangers(tx'[p].new, tx'[q].new)
        <3> SUFFICES ASSUME NEW p \in Requests, NEW q \in Requests, p # q
                     PROVE  tx'[p].gone \cap tx'[q].gone = {} /\ Strangers(tx'[p].new, tx'[q].new)
            OBVIOUS
        <3>1. tx[p].gone \cap tx[q].gone = {} /\ Strangers(tx[p].new, tx[q].new)
            BY DEF RowsInv
        <3> QED
            BY <2>1, <2>3, <2>5, <3>1 DEF Strangers
    <2>7. IsFunction(pending, Requests)'
        BY <1>a, <2>1 DEF IsFunction
    <2>8. Apart(values)' /\ \A row \in values' : row.word \in vocabulary'
        BY <1>a, <2>1 DEF RowsInv, Apart
    <2> QED
        BY <2>1, <2>2, <2>4, <2>6, <2>7, <2>8 DEF RowsInv, Strangers
<1>3. CASE LookUp(r)
    <2>1. /\ IsFunction(tx, Requests)'
          /\ tx'[r] = [gone |-> tx[r].gone, new |-> tx[r].new \cup pending[r]]
          /\ \A q \in Requests \ {r} : tx'[q] = tx[q]
          /\ pc[r] = "lookup" /\ Free(r) /\ ~Clashes(r)
          /\ UNCHANGED <<values, vocabulary>>
        <3>1. /\ tx' = [tx EXCEPT ![r].new = tx[r].new \cup pending[r]]
              /\ pc[r] = "lookup" /\ Free(r) /\ ~Clashes(r)
              /\ UNCHANGED <<values, vocabulary>>
            BY <1>3 DEF LookUp, tableVars
        <3> DEFINE more == tx[r].new \cup pending[r]
        <3> HIDE DEF more
        <3>2. /\ IsFunction(tx, Requests)' /\ tx'[r] = [gone |-> tx[r].gone, new |-> more]
              /\ \A q \in Requests \ {r} : tx'[q] = tx[q]
            BY <1>a, <3>1 DEF IsFunction, more
        <3> QED
            BY <3>1, <3>2 DEF more
    <2>2. /\ IsFunction(pending, Requests)'
          /\ \A row \in pending'[r] : row.word \in vocabulary'
          /\ \A a, b \in pending'[r] : a = b
          /\ pc'[r] \in {"lookup", "create", "commit"}
          /\ pc'[r] = "create" => pending'[r] = {}
          /\ \A q \in Requests \ {r} : pending'[q] = pending[q] /\ pc'[q] = pc[q]
        <3>1. CASE Word(r) \in vocabulary
            BY <1>3, <1>d, <2>1, <3>1 DEF LookUp
        <3>2. CASE Word(r) \notin vocabulary
            BY <1>3, <1>a, <3>2 DEF LookUp, Goto, IsFunction
        <3> QED
            BY <3>1, <3>2
    <2>3. Apart(View(r))'
        BY <1>c, <2>1 DEF View, Apart
    <2>4. RowsOf(r)'
        BY <1>a, <1>b, <2>1, <2>2, <2>3 DEF RowsOf
    <2>5. \A q \in Requests \ {r} : RowsOf(q)'
        BY <2>1, <2>2, RowsOfOther
    <2>6. \A q \in Requests \ {r} : Strangers(tx'[r].new, tx'[q].new)
        <3>1. \A q \in Requests \ {r} : Strangers(tx[r].new \cup pending[r], tx[q].new)
            BY <1>c, <2>1
        <3>2. tx'[r].new = tx[r].new \cup pending[r]
            BY <2>1
        <3> QED
            BY <2>1, <3>1, <3>2
    <2> QED
        BY <1>a, <2>1, <2>2, <2>4, <2>5, <2>6 DEF RowsInv, Apart, Strangers, Alike
<1>4. CASE CreateWord(r)
    <2>1. pc[r] = "create" /\ Link(r) /\ vocabulary' = vocabulary \cup {Word(r)}
        BY <1>4 DEF CreateWord
    <2>2. CASE Word(r) \in vocabulary
        <3>1. Rest(r) /\ UNCHANGED values
            BY <1>4, <1>d, <2>1, <2>2 DEF CreateWord, Rest
        <3> QED
            BY <3>1, RowsRollback
    <2>3. CASE Word(r) \notin vocabulary
        <3>1. Rest(r) /\ values' = (values \ tx[r].gone) \cup tx[r].new
            BY <1>4, <1>d, <2>1, <2>3 DEF CreateWord, CommitRows, Rest
        <3>2. Apart(values')
            BY <1>a, <3>1 DEF View
        <3> QED
            BY <1>b, <3>1, <3>2, RowsCommit
    <2> QED
        BY <2>2, <2>3
<1>5. CASE CommitList(r)
    <2> DEFINE new == tx[r].new \cup pending[r]
    <2>1. /\ Rest(r) /\ values' = (values \ tx[r].gone) \cup new
          /\ pc[r] = "commit" /\ Free(r) /\ ~Clashes(r)
        BY <1>5, <1>a DEF CommitList, CommitRows, Goto, Rest, IsFunction
    <2>2. Apart(values')
        BY <1>c, <2>1 DEF View, Apart
    <2>3. \A row \in new : row.word \in vocabulary
        BY <1>b
    <2>4. \A q \in Requests \ {r} : Strangers(new, tx[q].new)
        BY <1>c, <2>1
    <2> HIDE DEF new
    <2> QED
        BY <2>1, <2>2, <2>3, <2>4, RowsCommit
<1>6. CASE Refuse(r) \/ DieHere(r)
    <2>1. Rest(r) /\ UNCHANGED values
        BY <1>6, <1>a DEF Refuse, DieHere, Abort, Goto, tableVars, Rest, IsFunction
    <2> QED
        BY <2>1, RowsRollback
<1> QED
    BY <1>1, <1>2, <1>3, <1>4, <1>5, <1>6 DEF ListTaken

-----------------------------------------------------------------------------
(* Whole lists.                                                              *)
LEMMA WholeInit == StationInit => WholeInv
PROOF
<1> SUFFICES ASSUME StationInit PROVE WholeInv
    OBVIOUS
<1> USE DEF StationInit, VoiceInit, ReadThroughInit
<1>1. values = {} \/ \E list \in Lists : values = Rows(list, None)
    OBVIOUS
<1>2. ASSUME NEW list \in Lists, values = Rows(list, None)
      PROVE  /\ values # {} => \E row \in values : row.rank = 1
             /\ \A row \in values : Committed(row)
    <2>1. DOMAIN list = 1..Len(list) /\ Len(list) \in Nat
        BY StationAssumption
    <2>2. values # {} => Row(list[1], 1, None) \in values
        BY <1>2, <2>1 DEF Rows
    <2>3. \A row \in values : row.by = None
        BY <1>2 DEF Rows, Row
    <2> QED
        BY <2>2, <2>3, StationAssumption DEF Row, Committed
<1>3. \A r \in Requests : WholeOf(r)
    BY DEF WholeOf
<1> QED
    BY <1>1, <1>2, <1>3 DEF WholeInv

LEMMA WholeAside ==
    ASSUME PathInv, WholeInv, Aside, pc' \in [Requests -> Labels]
    PROVE  WholeInv'
PROOF
<1> USE DEF Aside, setterVars, PathInv
<1>1. ASSUME NEW row, Committed(row)
      PROVE  Committed(row)'
    BY <1>1 DEF Committed
<1>2. ASSUME NEW r \in Requests, WholeOf(r)
      PROVE  WholeOf(r)'
    BY <1>1, <1>2 DEF WholeOf, Written
<1> QED
    BY <1>1, <1>2 DEF WholeInv

(* With the rows of a whole list in it, or nothing, the table takes another      *)
(* list only when it has lost the first.                                      *)
LEMMA CommitWhole ==
    ASSUME PathInv, RowsInv, WholeInv, ~split, NEW r \in Requests, CommitList(r)
    PROVE  /\ Written(r) = Rows(job[r].list, r)
           /\ values' = values \/ (values' = Rows(job[r].list, r) /\ values \ tx[r].gone = {})
PROOF
<1> DEFINE list == job[r].list
<1>1. /\ pc[r] = "commit" /\ ~Clashes(r)
      /\ values' = (values \ tx[r].gone) \cup (tx[r].new \cup pending[r])
    BY DEF CommitList, CommitRows
<1>2. /\ tx[r].new \cup pending[r] = Written(r)
      /\ tx[r].gone \in {{}, values}
      /\ linked[r] = Len(list)
    BY <1>1 DEF WholeInv, WholeOf
<1>3. DOMAIN list = 1..Len(list) /\ Len(list) \in Nat
    <2>1. job[r] \in Jobs /\ job[r].op = "list"
        BY <1>1, KeyOfJob DEF PathInv, OnItsWay
    <2>2. list \in Lists
        BY <2>1 DEF Jobs
    <2> QED
        BY <2>2, StationAssumption
<1>4. Written(r) = Rows(list, r)
    BY <1>2, <1>3 DEF Written, Rows
<1>5. CASE Len(list) = 0
    BY <1>1, <1>2, <1>3, <1>4, <1>5 DEF Written
<1>6. CASE Len(list) # 0
    <2>1. ASSUME values \ tx[r].gone # {} PROVE FALSE
        <3>1. tx[r].gone = {} /\ values # {}
            BY <1>2, <2>1
        <3>2. PICK v \in values : v.rank = 1 /\ Committed(v)
            BY <3>1 DEF WholeInv
        <3> DEFINE w == Row(list[1], 1, r)
        <3>3. w \in tx[r].new \cup pending[r]
            BY <1>2, <1>3, <1>6 DEF Written
        <3>4. Alike(w, v) /\ w.by = r
            BY <3>2 DEF Alike, Row
        <3> HIDE DEF w
        <3>5. w \in tx[r].new
            BY <1>1, <3>1, <3>2, <3>3, <3>4 DEF Clashes
        <3>6. w = v
            BY <3>1, <3>2, <3>4, <3>5 DEF RowsInv, RowsOf, View, Apart
        <3> QED
            BY <1>1, <3>2, <3>4, <3>6 DEF Committed
    <2> QED
        BY <1>1, <1>2, <1>4, <2>1
<1> QED
    BY <1>4, <1>5, <1>6

(* What a step of one request leaves to the others.                           *)
LEMMA OthersUntouched ==
    ASSUME PathInv, RowsInv, linked \in [Requests -> Nat], NEW r \in Requests, ListTaken(r)
    PROVE  /\ UNCHANGED job
           /\ linked' \in [Requests -> Nat]
           /\ \A q \in Requests \ {r} :
                /\ pc'[q] = pc[q] /\ linked'[q] = linked[q]
                /\ tx'[q] = tx[q] /\ pending'[q] = pending[q]
PROOF
<1> USE DEF PathInv, Goto
<1>a. IsFunction(tx, Requests) /\ IsFunction(pending, Requests)
    BY DEF RowsInv
<1>b. ASSUME Link(r)
      PROVE  /\ linked' \in [Requests -> Nat]
             /\ \A q \in Requests \ {r} :
                  pc'[q] = pc[q] /\ linked'[q] = linked[q] /\ pending'[q] = pending[q]
    BY <1>a, <1>b DEF Link, IsFunction
<1>1. CASE SelectRows(r)
    BY <1>1, <1>a DEF SelectRows, IsFunction
<1>2. CASE FlushDeletes(r)
    BY <1>2, <1>a DEF FlushDeletes, IsFunction
<1>3. CASE LookUp(r)
    BY <1>3, <1>a, <1>b DEF LookUp, IsFunction
<1>4. CASE CreateWord(r)
    BY <1>4, <1>a, <1>b DEF CreateWord, CommitRows, IsFunction
<1>5. CASE CommitList(r)
    BY <1>5, <1>a DEF CommitList, CommitRows, IsFunction
<1>6. CASE Refuse(r) \/ DieHere(r)
    BY <1>6, <1>a DEF Refuse, DieHere, Abort, IsFunction
<1> QED
    BY <1>1, <1>2, <1>3, <1>4, <1>5, <1>6 DEF ListTaken

LEMMA WholeStep ==
    ASSUME PathInv, RowsInv, WholeInv, NEW r \in Requests, ListTaken(r)
    PROVE  WholeInv'
PROOF
<1> USE DEF PathInv
<1>a. IsFunction(tx, Requests) /\ IsFunction(pending, Requests) /\ linked \in [Requests -> Nat]
    BY DEF RowsInv, WholeInv
<1>b. /\ UNCHANGED job
      /\ linked' \in [Requests -> Nat]
      /\ \A q \in Requests \ {r} :
            /\ pc'[q] = pc[q] /\ linked'[q] = linked[q]
            /\ tx'[q] = tx[q] /\ pending'[q] = pending[q]
    BY <1>a, OthersUntouched
<1> SUFFICES ASSUME ~split'
             PROVE  /\ \A q \in Requests : WholeOf(q)'
                    /\ values' # {} => \E row \in values' : row.rank = 1
                    /\ \A row \in values' : Committed(row)'
    BY <1>b DEF WholeInv
<1>c. ~split /\ ~CreateWord(r)
    BY DEF ListTaken, SelectRows, FlushDeletes, LookUp, CreateWord, CommitList, Refuse, DieHere
<1>d. /\ \A q \in Requests : WholeOf(q)
      /\ values # {} => \E row \in values : row.rank = 1
      /\ \A row \in values : Committed(row)
    BY <1>c DEF WholeInv
<1>e. ASSUME pc'[r] = "over" \/ pc[r] \notin {"invalidate", "over"},
             NEW row, Committed(row)
      PROVE  Committed(row)'
    BY <1>b, <1>e DEF Committed
<1>f. ASSUME pc'[r] = "over" \/ pc[r] \notin {"invalidate", "over"},
             UNCHANGED values, NEW q \in Requests \ {r}
      PROVE  WholeOf(q)'
    BY <1>b, <1>d, <1>e, <1>f DEF WholeOf, Written
<1>1. CASE SelectRows(r)
    <2>1. /\ pc[r] = "table" /\ pc'[r] = "flush"
          /\ UNCHANGED <<values, tx, linked>> /\ pending'[r] = values
        BY <1>1, <1>a DEF SelectRows, Goto, tableVars, IsFunction
    <2>2. \A row \in values : Committed(row)'
        BY <1>d, <1>e, <2>1
    <2>3. WholeOf(r)'
        BY <1>d, <2>1, <2>2 DEF WholeOf
    <2> QED
        BY <1>d, <1>f, <2>1, <2>2, <2>3
<1>2. CASE FlushDeletes(r)
    <2>1. /\ pc[r] = "flush" /\ UNCHANGED <<values, linked>>
          /\ tx[r] = EmptyTx
        BY <1>2 DEF FlushDeletes, tableVars, RowsInv, RowsOf
    <2>2. tx'[r].gone = pending[r] \cap values /\ tx'[r].new = {} /\ pending'[r] = {}
        <3> DEFINE gone == pending[r] \cap values
        <3>1. tx' = [tx EXCEPT ![r].gone = gone] /\ pending' = [pending EXCEPT ![r] = {}]
            BY <1>2 DEF FlushDeletes
        <3> HIDE DEF gone
        <3>2. tx'[r] = [gone |-> gone, new |-> {}] /\ pending'[r] = {}
            BY <1>a, <2>1, <3>1 DEF IsFunction, EmptyTx
        <3> QED
            BY <3>2 DEF gone
    <2>3. pc'[r] = IF job[r].list = <<>> THEN "commit" ELSE "lookup"
        BY <1>2 DEF FlushDeletes, Goto
    <2>4. job[r].list \in Seq(ToSet(job[r].list))
        BY <2>1, KeyOfJob, StationAssumption DEF OnItsWay, Jobs
    <2>5. linked[r] = 0 /\ Written(r)' = {}
        BY <1>d, <2>1 DEF WholeOf, Written
    <2>6. pc'[r] = "commit" <=> linked'[r] = Len(job[r].list)
        BY <2>1, <2>3, <2>4, <2>5
    <2>7. tx'[r].gone \in {{}, values}
        BY <1>d, <2>1, <2>2 DEF WholeOf
    <2>8. WholeOf(r)'
        BY <1>b, <2>1, <2>2, <2>3, <2>4, <2>5, <2>6, <2>7 DEF WholeOf
    <2> QED
        BY <1>d, <1>e, <1>f, <2>1, <2>8
<1>3. CASE LookUp(r)
    <2>1. /\ pc[r] = "lookup" /\ UNCHANGED <<values, vocabulary>>
          /\ tx'[r].new = tx[r].new \cup pending[r] /\ tx'[r].gone = tx[r].gone
        BY <1>3, <1>a DEF LookUp, tableVars, IsFunction, RowsInv, RowsOf
    <2>2. /\ tx'[r].new = Written(r) /\ tx'[r].gone \in {{}, values}
          /\ linked[r] \in 0..Len(job[r].list) /\ linked[r] # Len(job[r].list)
        BY <1>d, <2>1 DEF WholeOf
    <2>3. WholeOf(r)'
        <3>1. CASE Word(r) \in vocabulary
            <4> DEFINE n == linked[r] + 1
            <4>1. /\ linked'[r] = n /\ pending'[r] = {Row(job[r].list[n], n, r)}
                  /\ pc'[r] = IF n = Len(job[r].list) THEN "commit" ELSE "lookup"
                BY <1>3, <1>a, <3>1 DEF LookUp, Link, Goto, IsFunction
            <4>2. Len(job[r].list) \in Nat
                BY <2>1, KeyOfJob, StationAssumption DEF OnItsWay, Jobs
            <4>3. Written(r)' = Written(r) \cup {Row(job[r].list[n], n, r)}
                BY <1>a, <1>b, <4>1 DEF Written
            <4> QED
                BY <1>a, <1>b, <2>1, <2>2, <4>1, <4>2, <4>3 DEF WholeOf
        <3>2. CASE Word(r) \notin vocabulary
            <4>1. /\ linked'[r] = linked[r] /\ pending'[r] = {} /\ pc'[r] = "create"
                BY <1>3, <1>a, <3>2 DEF LookUp, Goto, IsFunction
            <4>2. Written(r)' = Written(r)
                BY <1>b, <4>1 DEF Written
            <4> QED
                BY <1>b, <2>1, <2>2, <4>1, <4>2 DEF WholeOf
        <3> QED
            BY <3>1, <3>2
    <2> QED
        BY <1>d, <1>e, <1>f, <2>1, <2>3
<1>4. CASE CommitList(r)
    <2>1. /\ pc[r] = "commit" /\ pc'[r] = "invalidate"
        BY <1>4 DEF CommitList, Goto
    <2>2. \/ values' = values
          \/ values' = Rows(job[r].list, r) /\ values \ tx[r].gone = {}
        BY <1>4, <1>c, CommitWhole
    <2>3. WholeOf(r)'
        BY <2>1 DEF WholeOf
    <2>4. CASE values' = values
        BY <1>d, <1>e, <1>f, <2>1, <2>3, <2>4
    <2>5. CASE values' = Rows(job[r].list, r) /\ values \ tx[r].gone = {}
        <3>1. \A row \in values' : row.by = r
            BY <2>5 DEF Rows, Row
        <3>2. \A row \in values' : Committed(row)'
            BY <2>1, <3>1 DEF Committed
        <3>3. values' # {} => \E row \in values' : row.rank = 1
            <4>1. job[r].list \in Seq(ToSet(job[r].list))
                BY <2>1, KeyOfJob, StationAssumption DEF OnItsWay, Jobs
            <4>2. values' # {} => Row(job[r].list[1], 1, r) \in values'
                BY <2>5, <4>1 DEF Rows
            <4> QED
                BY <4>2 DEF Row
        <3>4. ASSUME NEW q \in Requests \ {r}
              PROVE  WholeOf(q)'
            <4>1. tx[q].gone \cap tx[r].gone = {} /\ tx[q].gone \subseteq values
                BY DEF RowsInv, RowsOf
            <4>2. tx'[q].gone = {}
                BY <1>b, <2>5, <4>1
            <4>3. \A row \in pending[q] : Committed(row) => row.by # r
                BY <2>1 DEF Committed
            <4>4. pc[q] = "flush" => pending'[q] \cap values' = {}
                BY <1>b, <1>d, <3>1, <4>3 DEF WholeOf
            <4>5. \A row \in pending[q] : Committed(row) => Committed(row)'
                BY <1>e, <2>1
            <4> QED
                BY <1>b, <1>d, <4>2, <4>4, <4>5 DEF WholeOf, Written
        <3> QED
            BY <2>3, <3>2, <3>3, <3>4
    <2> QED
        BY <2>2, <2>4, <2>5
<1>5. CASE Refuse(r) \/ DieHere(r)
    <2>1. pc'[r] = "over" /\ UNCHANGED values
        BY <1>5 DEF Refuse, DieHere, Abort, Goto, tableVars
    <2>2. WholeOf(r)'
        BY <2>1 DEF WholeOf
    <2> QED
        BY <1>d, <1>e, <1>f, <2>1, <2>2
<1> QED
    BY <1>c, <1>1, <1>2, <1>3, <1>4, <1>5 DEF ListTaken

-----------------------------------------------------------------------------
(* Rows and lists together.                                                  *)
ListsInv == PathInv /\ RowsInv /\ WholeInv

LEMMA ListsAlways == StationSpec => []ListsInv
PROOF
<1>1. StationInit => ListsInv
    BY PathInit, RowsInit, WholeInit DEF ListsInv
<1>2. ListsInv /\ [StationNext]_stationVars => ListsInv'
    <2> SUFFICES ASSUME ListsInv, [StationNext]_stationVars PROVE ListsInv'
        OBVIOUS
    <2> USE DEF ListsInv
    <2>1. PathInv'
        BY PathStep
    <2>2. CASE Aside
        BY <2>1, <2>2, RowsAside, WholeAside DEF PathInv
    <2>3. ASSUME NEW r \in Requests, ListTaken(r)
          PROVE  ListsInv'
        BY <2>1, <2>3, RowsStep, WholeStep
    <2> QED
        BY <2>2, <2>3, ListOrAside
<1> QED
    BY <1>1, <1>2, PTL DEF StationSpec

(* KnownWordsReplaceAtOnce: for any number of requests and any lists, as long as *)
(* no word had to be created, what a commit changes is the whole list at once.   *)
THEOREM ListsReplacedWhole == StationSpec => KnownWordsReplaceAtOnce
PROOF
<1>1. ListsInv /\ [StationNext]_stationVars =>
        [values' # values /\ ~split'
            => \E r \in Requests : job[r].op = "list" /\ values' = Rows(job[r].list, r)]_stationVars
    <2> SUFFICES ASSUME ListsInv, [StationNext]_stationVars, values' # values, ~split'
                 PROVE  \E r \in Requests : job[r].op = "list" /\ values' = Rows(job[r].list, r)
        OBVIOUS
    <2> USE DEF ListsInv
    <2>1. PICK r \in Requests : ListTaken(r)
        BY ListOrAside DEF Aside
    <2>2. CommitList(r) /\ ~split
        BY <2>1 DEF ListTaken, SelectRows, FlushDeletes, LookUp, CreateWord, CommitList, Refuse,
            DieHere, tableVars
    <2>3. job[r].op = "list"
        BY <2>2 DEF CommitList, PathInv, OnItsWay
    <2> QED
        BY <2>2, <2>3, CommitWhole
<1> QED
    BY <1>1, ListsAlways, PTL DEF StationSpec, KnownWordsReplaceAtOnce

-----------------------------------------------------------------------------
(* Likes and accounts: one each.                                              *)
LEMMA OnesAlways == StationSpec => [](PathInv /\ LikesInv /\ AccountsInv)
PROOF
<1>1. StationInit => LikesInv /\ AccountsInv
    BY DEF StationInit, LikesInit, SupportersInit, LikesInv, AccountsInv
<1>2. ASSUME PathInv, LikesInv, [StationNext]_stationVars
      PROVE  LikesInv'
    <2>1. ASSUME NEW r \in Requests, LikeStep(r)
          PROVE  LikesInv'
        BY <1>2, <2>1 DEF LikeStep, CountRows, LookForLike, AddLike, RemoveLike, LikeTaken, LikesInv
    <2>2. CASE UNCHANGED likes
        BY <1>2, <2>2 DEF LikesInv
    <2> QED
        BY <1>2, <2>1, <2>2 DEF StationNext, RequestStep, databaseVars, stationVars
<1>3. ASSUME PathInv, AccountsInv, [StationNext]_stationVars
      PROVE  AccountsInv'
    <2>1. ASSUME NEW r \in Requests, SupportStep(r)
          PROVE  AccountsInv'
        <3>1. CASE AddAccount(r)
            BY <1>3, <3>1 DEF AddAccount, AccountsInv, Taken
        <3>2. CASE UNCHANGED accounts
            BY <1>3, <3>2 DEF AccountsInv
        <3> QED
            BY <2>1, <3>1, <3>2 DEF SupportStep, LookForEmail, LogIn, SumDonations, Donate, supportVars
    <2>2. CASE UNCHANGED accounts
        BY <1>3, <2>2 DEF AccountsInv
    <2> QED
        BY <1>3, <2>1, <2>2 DEF StationNext, RequestStep, databaseVars, stationVars, supportVars
<1> QED
    BY <1>1, <1>2, <1>3, PathInit, PathStep, PTL DEF StationSpec

(* NothingTwice: however many requests overlap, roll back and die, a viewer has   *)
(* one like, an address one account, a list no word and no rank twice.          *)
THEOREM NothingIsTwice == StationSpec => []NothingTwice
PROOF
<1>1. ListsInv /\ LikesInv /\ AccountsInv => NothingTwice
    BY DEF ListsInv, RowsInv, Apart, LikesInv, AccountsInv, NothingTwice
<1> QED
    BY <1>1, ListsAlways, OnesAlways, PTL

-----------------------------------------------------------------------------
(* What is cached of a persona is a profile.                                  *)
LEMMA ProfileInit == StationInit => ProfileInv
PROOF
<1> SUFFICES ASSUME StationInit PROVE ProfileInv
    OBVIOUS
<1> USE DEF StationInit, VoiceInit, ReadThroughInit
<1>1. persona \in Versions \cup {None}
    OBVIOUS
<1>2. \A r \in Requests : job[r].op = "create" => persona = None
    OBVIOUS
<1>3. <<"profile">> \in Keys => cache[<<"profile">>] \in {None, Damaged}
    OBVIOUS
<1> QED
    BY <1>1, <1>2, <1>3 DEF ProfileInv, IsFunction

(* The steps that touch neither a profile nor what there is of it.              *)
LEMMA ProfileFrame ==
    ASSUME PathInv, ProfileInv, UNCHANGED <<job, persona, axis>>,
           \/ UNCHANGED cache
           \/ \E k \in Keys : \E value :
                /\ cache' = [cache EXCEPT ![k] = value]
                /\ k = <<"profile">> => value = None \/ IsProfile(value),
           \A r \in Requests :
                \/ pc'[r] = pc[r] /\ fetched'[r] = fetched[r]
                \/ pc'[r] \notin {"axes", "values", "set", "table"}
                \/ pc'[r] = "set" /\ job[r].op # "profile"
    PROVE  ProfileInv'
PROOF
<1>1. ASSUME <<"profile">> \in Keys
      PROVE  cache'[<<"profile">>] \in {None, Damaged} \/ IsProfile(cache'[<<"profile">>])
    <2>1. cache[<<"profile">>] \in {None, Damaged} \/ IsProfile(cache[<<"profile">>])
        BY <1>1 DEF ProfileInv
    <2>2. CASE UNCHANGED cache
        BY <2>1, <2>2
    <2>3. CASE ~UNCHANGED cache
        <3>1. PICK k \in Keys : \E value :
                /\ cache' = [cache EXCEPT ![k] = value]
                /\ k = <<"profile">> => value = None \/ IsProfile(value)
            BY <2>3
        <3>2. PICK value :
                /\ cache' = [cache EXCEPT ![k] = value]
                /\ k = <<"profile">> => value = None \/ IsProfile(value)
            BY <3>1
        <3> QED
            BY <1>1, <2>1, <3>2 DEF PathInv, IsFunction
    <2> QED
        BY <2>2, <2>3
<1> QED
    BY <1>1 DEF ProfileInv

LEMMA ProfileStep ==
    ASSUME PathInv, ProfileInv, [StationNext]_stationVars
    PROVE  ProfileInv'
PROOF
<1> USE DEF PathInv
<1>a. persona \in Versions \cup {None} /\ IsFunction(axis, Axes) /\ IsFunction(fetched, Requests)
    BY DEF ProfileInv
<1>1. ASSUME NEW r \in Requests, CacheStep(r), UNCHANGED <<persona, axis>>
      PROVE  ProfileInv'
    <2>1. CASE Get(r)
        BY <1>1, <1>a, <2>1, ProfileFrame DEF Get, Goto, cacheVars, IsFunction
    <2>2. CASE Discard(r)
        <3>1. Key(r) \in Keys
            BY <2>2, KeyOfJob DEF Discard, OnItsWay
        <3> QED
            BY <1>1, <1>a, <2>2, <3>1, ProfileFrame DEF Discard, Drop, Goto, IsFunction
    <2>3. CASE Set(r, Truth(Key(r)))
        <3>1. pc[r] = "set" /\ Key(r) \in Keys
            BY <2>3, KeyOfJob DEF Set, OnItsWay
        <3>2. Key(r) = <<"profile">> => IsProfile(fetched[r])
            BY <3>1, KeyOfJob, KeysDiffer DEF ProfileInv, OnItsWay
        <3> QED
            BY <1>1, <1>a, <2>3, <3>1, <3>2, ProfileFrame DEF Set, Put, Goto, IsFunction
    <2>4. CASE Invalidate(r)
        <3>1. Key(r) \in Keys
            BY <2>4, KeyOfJob DEF Invalidate, OnItsWay
        <3> QED
            BY <1>1, <1>a, <2>4, <3>1, ProfileFrame DEF Invalidate, Drop, Goto, IsFunction
    <2> QED
        BY <1>1, <2>1, <2>2, <2>3, <2>4 DEF CacheStep
<1>2. ASSUME NEW r \in Requests, LikeStep(r), UNCHANGED <<persona, axis>>
      PROVE  ProfileInv'
    BY <1>2, <1>a, ProfileFrame DEF LikeStep, CountRows, LookForLike, AddLike, RemoveLike, Goto,
        cacheVars, IsFunction
<1>3. ASSUME NEW r \in Requests, SupportStep(r), UNCHANGED <<persona, axis>>
      PROVE  ProfileInv'
    BY <1>3, <1>a, ProfileFrame DEF SupportStep, LookForEmail, AddAccount, LogIn, SumDonations, Donate,
        Answer, Goto, cacheVars, IsFunction
<1>4. ASSUME NEW r \in Requests, VoiceStep(r)
      PROVE  ProfileInv'
    <2>1. CASE ReadPersona(r)
        <3>1. persona = None \/ IsProfile(Profile)
            BY <1>a DEF IsProfile, Profile
        <3> QED
            BY <2>1, <1>a, <3>1 DEF ReadPersona, Goto, ProfileInv, cacheVars, voiceVars, tableVars, IsFunction
    <2>2. CASE ReadAxes(r)
        <3>1. pc[r] = "axes" /\ fetched' = [fetched EXCEPT ![r].axis = axis]
              /\ pc' = [pc EXCEPT ![r] = "values"]
              /\ UNCHANGED <<job, cache, persona, axis>>
            BY <2>2 DEF ReadAxes, Goto, cacheVars, voiceVars, tableVars
        <3>2. job[r].op = "profile"
            BY <3>1 DEF OnItsWay
        <3>3. PICK name, styles, list :
                name \in Versions /\ fetched[r] = [name |-> name, axis |-> styles, values |-> list]
            BY <3>1, <3>2 DEF ProfileInv, IsProfile
        <3>4. fetched'[r] = [name |-> name, axis |-> axis, values |-> list]
              /\ \A q \in Requests \ {r} : fetched'[q] = fetched[q]
            BY <1>a, <3>1, <3>3 DEF IsFunction
        <3>5. IsProfile(fetched'[r])
            BY <3>3, <3>4 DEF IsProfile
        <3> QED
            BY <3>1, <3>4, <3>5 DEF ProfileInv
    <2>3. CASE ReadValues(r)
        <3>1. pc[r] = "values" /\ fetched' = [fetched EXCEPT ![r].values = Listed(values)]
              /\ pc' = [pc EXCEPT ![r] = "set"]
              /\ UNCHANGED <<job, cache, persona, axis>>
            BY <2>3 DEF ReadValues, Goto, cacheVars, voiceVars, tableVars
        <3>2. job[r].op = "profile"
            BY <3>1 DEF OnItsWay
        <3>3. PICK name, styles, list :
                name \in Versions /\ fetched[r] = [name |-> name, axis |-> styles, values |-> list]
            BY <3>1, <3>2 DEF ProfileInv, IsProfile
        <3>4. fetched'[r] = [name |-> name, axis |-> styles, values |-> Listed(values)]
              /\ \A q \in Requests \ {r} : fetched'[q] = fetched[q]
            BY <1>a, <3>1, <3>3 DEF IsFunction
        <3>5. IsProfile(fetched'[r])
            BY <3>3, <3>4 DEF IsProfile
        <3> QED
            BY <3>1, <3>4, <3>5 DEF ProfileInv
    <2>4. CASE CreatePersona(r)
        <3>1. job[r].op = "create" /\ job[r].to \in Versions
            BY <2>4, KeyOfJob DEF CreatePersona, Jobs
        <3>2. \A q \in Requests \ {r} : job[q].op # "create"
            BY <3>1, StationAssumption
        <3> QED
            BY <2>4, <3>1, <3>2 DEF CreatePersona, Goto, ProfileInv, cacheVars
    <2>5. CASE SetPersona(r)
        <3>1. job[r].op = "rename" => job[r].to \in Versions
            BY KeyOfJob DEF Jobs
        <3>2. persona' \in Versions \cup {None} /\ (persona = None => persona' = None)
            BY <2>5, <1>a, <3>1 DEF SetPersona
        <3>3. UNCHANGED <<job, fetched, cache, axis>> /\ pc' = [pc EXCEPT ![r] = "over"]
            BY <2>5 DEF SetPersona, Goto
        <3> QED
            BY <3>2, <3>3 DEF ProfileInv
    <2>6. CASE SetAxis(r)
        BY <2>6, <1>a DEF SetAxis, Goto, ProfileInv, cacheVars, IsFunction
    <2>7. CASE ~(ReadPersona(r) \/ ReadAxes(r) \/ ReadValues(r)
                 \/ CreatePersona(r) \/ SetPersona(r) \/ SetAxis(r))
        <3>1. /\ UNCHANGED <<job, persona, axis, cache, fetched>>
              /\ \E l \in Labels \ {"axes", "values", "set", "table"} : pc' = [pc EXCEPT ![r] = l]
            BY <1>4, <2>7 DEF VoiceStep, NotOwned, SelectRows, FlushDeletes, LookUp, CreateWord, CommitList,
                Refuse, Abort, LeaveBehind, Link, Goto, cacheVars, voiceVars, tableVars, Labels
        <3> QED
            BY <3>1, ProfileFrame
    <2> QED
        BY <2>1, <2>2, <2>3, <2>4, <2>5, <2>6, <2>7
<1>5. ASSUME NEW r \in Requests, RedisError(r, Truth(Key(r))), UNCHANGED <<persona, axis>>
      PROVE  ProfileInv'
    <2>1. Key(r) \in Keys \/ pc[r] \notin {"discard", "set", "invalidate"}
        BY KeyOfJob DEF OnItsWay
    <2>2. pc[r] = "set" /\ Key(r) = <<"profile">> => IsProfile(fetched[r])
        BY KeyOfJob, KeysDiffer DEF ProfileInv, OnItsWay
    <2>3. /\ \E l \in {"query", "over"} : pc' = [pc EXCEPT ![r] = l]
          /\ UNCHANGED <<job, fetched>>
          /\ \/ UNCHANGED cache
             \/ pc[r] \in {"discard", "invalidate"} /\ Drop(Key(r))
             \/ pc[r] = "set" /\ cache' = [cache EXCEPT ![Key(r)] = fetched[r]]
        <3>1. CASE pc[r] \in {"get", "discard"} /\ Goto(r, "query") /\ UNCHANGED <<dirty, cacheVars>>
            BY <1>5, <3>1 DEF RedisError, Goto, cacheVars
        <3>2. CASE pc[r] = "discard" /\ Goto(r, "query") /\ Drop(Key(r)) /\ UNCHANGED dirty
            BY <1>5, <3>2 DEF RedisError, Goto
        <3>3. CASE /\ pc[r] = "set" /\ Goto(r, "over") /\ UNCHANGED dirty
                   /\ UNCHANGED cacheVars \/ Put(Key(r), fetched[r], Truth(Key(r)))
            BY <1>5, <3>3 DEF RedisError, Put, Goto, cacheVars
        <3>4. CASE /\ pc[r] = "invalidate" /\ Goto(r, "over")
                   /\ \/ LeaveBehind(r) /\ UNCHANGED cache
                      \/ Drop(Key(r)) /\ dirty' = [dirty EXCEPT ![r] = FALSE]
            BY <1>5, <3>4 DEF RedisError, Goto
        <3> QED
            BY <1>5, <3>1, <3>2, <3>3, <3>4 DEF RedisError
    <2> QED
        BY <1>5, <2>1, <2>2, <2>3, ProfileFrame DEF Drop
<1>6. ASSUME NEW r \in Requests, DieHere(r)
      PROVE  ProfileInv'
    BY <1>6, ProfileFrame DEF DieHere, Abort, LeaveBehind, Goto, tableVars
<1>7. ASSUME NEW k \in Keys, Expire(k), UNCHANGED <<persona, axis>>
      PROVE  ProfileInv'
    BY <1>7, ProfileFrame DEF Expire, Drop, requestVars
<1>8. CASE UNCHANGED stationVars
    BY <1>8, ProfileFrame DEF stationVars, readThroughVars, requestVars, cacheVars, voiceVars, tableVars
<1> QED
    BY <1>1, <1>2, <1>3, <1>4, <1>5, <1>6, <1>7, <1>8
    DEF StationNext, RequestStep, databaseVars, voiceVars, tableVars

(* StationTypeOK: what the fields hold, and that nothing is left uncommitted by   *)
(* a request that is not writing a list.                                      *)
THEOREM StationTypeCorrect == StationSpec => []StationTypeOK
PROOF
<1>1. StationInit => ProfileInv
    BY ProfileInit
<1>2. PathInv /\ ProfileInv /\ [StationNext]_stationVars => ProfileInv'
    BY ProfileStep
<1>3. ListsInv /\ ProfileInv => StationTypeOK
    <2> SUFFICES ASSUME ListsInv, ProfileInv PROVE StationTypeOK
        OBVIOUS
    <2>1. \A value : IsProfile(value) => value.name \in Versions
        BY DEF IsProfile
    <2>2. \A r \in Requests : tx[r] # EmptyTx => pc[r] \in {"lookup", "create", "commit"}
        BY DEF ListsInv, RowsInv, RowsOf
    <2> QED
        BY <2>1, <2>2 DEF ListsInv, PathInv, Labels, ProfileInv, StationTypeOK
<1>4. ListsInv => PathInv
    BY DEF ListsInv
<1> QED
    BY <1>1, <1>2, <1>3, <1>4, ListsAlways, PTL DEF StationSpec

-----------------------------------------------------------------------------
(* The cache and the database.                                                *)
LEMMA ThreeKinds ==
    \A k \in Keys : k \in {<<"likes">>, <<"profile">>} \/ \E n \in Nat : k = <<"ranking", n>>
BY StationAssumption

LEMMA TruthKept ==
    ASSUME NEW k \in Keys,
           k = <<"likes">> => UNCHANGED likes,
           k = <<"profile">> => UNCHANGED <<persona, axis, values>>,
           k \notin {<<"likes">>, <<"profile">>} => UNCHANGED donations
    PROVE  Truth(k)' = Truth(k)
<1>1. CASE k = <<"likes">>
    BY <1>1 DEF Truth, Count
<1>2. CASE k = <<"profile">>
    BY <1>2, KeysDiffer DEF Truth, Profile
<1>3. CASE k \notin {<<"likes">>, <<"profile">>}
    BY <1>3 DEF Truth
<1> QED
    BY <1>1, <1>2, <1>3

(* Whoever answers for a key goes on doing so.                                 *)
LEMMA FreshKept ==
    ASSUME NEW k \in Keys, Fresh(k), UNCHANGED job,
           Truth(k)' = Truth(k), cache'[k] = cache[k],
           k \in excused => k \in excused',
           \A r \in Requests : dirty[r] /\ Key(r) = k => dirty'[r] \/ k \in excused'
    PROVE  Fresh(k)'
BY DEF Fresh, Key

(* A key is deleted, or written with what was read.                            *)
LEMMA FreshDropped ==
    ASSUME PathInv, FreshInv, UNCHANGED <<job, databaseVars>>, NEW j \in Keys, Drop(j),
           \A r \in Requests : dirty[r] /\ Key(r) # j => dirty'[r]
    PROVE  FreshInv'
PROOF
<1> SUFFICES ASSUME NEW k \in Keys PROVE Fresh(k)'
    BY DEF FreshInv
<1>1. Fresh(k) /\ Truth(k)' = Truth(k)
    BY TruthKept DEF FreshInv, databaseVars, voiceVars, tableVars, supportVars
<1>2. CASE k = j
    BY <1>2 DEF PathInv, IsFunction, Drop, Fresh
<1>3. CASE k # j
    BY <1>1, <1>3, FreshKept DEF PathInv, IsFunction, Drop
<1> QED
    BY <1>2, <1>3

LEMMA FreshPut ==
    ASSUME PathInv, FreshInv, UNCHANGED <<job, databaseVars, dirty>>, NEW j \in Keys, NEW value,
           Put(j, value, Truth(j))
    PROVE  FreshInv'
PROOF
<1> SUFFICES ASSUME NEW k \in Keys PROVE Fresh(k)'
    BY DEF FreshInv
<1>1. Fresh(k) /\ Truth(k)' = Truth(k)
    BY TruthKept DEF FreshInv, databaseVars, voiceVars, tableVars, supportVars
<1>2. CASE k = j
    BY <1>1, <1>2 DEF PathInv, IsFunction, Put, Fresh
<1>3. CASE k # j
    BY <1>1, <1>3, FreshKept DEF PathInv, IsFunction, Put
<1> QED
    BY <1>2, <1>3

LEMMA FreshStep ==
    ASSUME PathInv, LikesInv, ProfileInv, FreshInv, [StationNext]_stationVars
    PROVE  FreshInv'
PROOF
<1> USE DEF PathInv
<1>a. ASSUME UNCHANGED databaseVars
      PROVE  \A k \in Keys : Truth(k)' = Truth(k)
    BY <1>a, TruthKept DEF databaseVars, voiceVars, tableVars, supportVars
<1>b. ASSUME UNCHANGED <<job, cacheVars, dirty>>, \A k \in Keys : Truth(k)' = Truth(k)
      PROVE  FreshInv'
    BY <1>b, FreshKept DEF FreshInv, cacheVars
<1>1. ASSUME NEW r \in Requests, CacheStep(r), UNCHANGED databaseVars
      PROVE  FreshInv'
    <2>1. CASE Get(r)
        BY <1>1, <1>a, <1>b, <2>1 DEF Get
    <2>2. CASE Discard(r)
        <3>1. Key(r) \in Keys
            BY <2>2, KeyOfJob DEF Discard, OnItsWay
        <3> QED
            BY <1>1, <2>2, <3>1, FreshDropped DEF Discard
    <2>3. CASE Set(r, Truth(Key(r)))
        <3>1. Key(r) \in Keys
            BY <2>3, KeyOfJob DEF Set, OnItsWay
        <3> QED
            BY <1>1, <2>3, <3>1, FreshPut DEF Set
    <2>4. CASE Invalidate(r)
        <3>1. Key(r) \in Keys
            BY <2>4, KeyOfJob DEF Invalidate, OnItsWay
        <3> QED
            BY <1>1, <2>4, <3>1, FreshDropped DEF Invalidate
    <2> QED
        BY <1>1, <2>1, <2>2, <2>3, <2>4 DEF CacheStep
<1>2. ASSUME NEW r \in Requests, LikeStep(r), UNCHANGED <<voiceVars, supportVars>>
      PROVE  FreshInv'
    <2>a. ASSUME UNCHANGED likes
          PROVE  \A k \in Keys : Truth(k)' = Truth(k)
        BY <1>2, <2>a, TruthKept DEF voiceVars, tableVars, supportVars
    <2>b. \A k \in Keys \ {<<"likes">>} : Truth(k)' = Truth(k)
        BY <1>2, TruthKept DEF voiceVars, tableVars, supportVars
    <2>1. CASE CountRows(r) \/ LookForLike(r)
        BY <1>b, <2>1, <2>a DEF CountRows, LookForLike
    <2>2. CASE AddLike(r) \/ RemoveLike(r)
        <3>1. /\ ~dirty[r] /\ Key(r) = <<"likes">> /\ job[r].user \in Users
              /\ UNCHANGED <<job, cache, excused>>
            BY <2>2, KeyOfJob DEF AddLike, RemoveLike, OnItsWay, Jobs, cacheVars
        <3>2. UNCHANGED likes \/ dirty'[r]
            <4> DEFINE u == job[r].user
            <4>1. likes \in [Users -> {0, 1}] /\ u \in Users
                BY <3>1 DEF LikesInv
            <4>2. CASE AddLike(r)
                <5>1. /\ likes' = [likes EXCEPT ![u] = IF likes[u] > 0 THEN likes[u] ELSE likes[u] + 1]
                      /\ dirty' = [dirty EXCEPT ![r] = ~(likes[u] > 0)]
                    BY <4>2 DEF AddLike, LikeTaken
                <5> HIDE DEF u
                <5> QED
                    BY <4>1, <5>1
            <4>3. CASE RemoveLike(r)
                <5>1. /\ likes' = [likes EXCEPT ![u] = IF likes[u] > 0 THEN likes[u] - 1 ELSE likes[u]]
                      /\ dirty' = [dirty EXCEPT ![r] = likes[u] > 0]
                    BY <4>3 DEF RemoveLike
                <5> HIDE DEF u
                <5> QED
                    BY <4>1, <5>1
            <4> QED
                BY <2>2, <4>2, <4>3
        <3>3. \A q \in Requests : dirty[q] => dirty'[q]
            BY <2>2, <3>1 DEF AddLike, RemoveLike
        <3>4. CASE UNCHANGED likes
            <4>1. \A k \in Keys : Truth(k)' = Truth(k)
                BY <2>a, <3>4
            <4> QED
                BY <3>1, <3>3, <4>1, FreshKept DEF FreshInv
        <3>5. CASE dirty'[r]
            <4>1. Fresh(<<"likes">>)'
                BY <3>1, <3>5 DEF Fresh, Key
            <4> QED
                BY <2>b, <3>1, <3>3, <4>1, FreshKept DEF FreshInv
        <3> QED
            BY <3>2, <3>4, <3>5
    <2> QED
        BY <1>2, <2>1, <2>2 DEF LikeStep
<1>3. ASSUME NEW r \in Requests, SupportStep(r), UNCHANGED <<likes, voiceVars>>
      PROVE  FreshInv'
    <2>1. CASE Donate(r)
        <3>1. UNCHANGED <<job, cache, dirty>> /\ excused' = excused \cup {k \in Keys : k[1] = "ranking"}
            BY <2>1 DEF Donate
        <3>2. ASSUME NEW k \in Keys
              PROVE  Fresh(k)'
            <4>1. CASE k \in {<<"likes">>, <<"profile">>}
                <5>1. Truth(k)' = Truth(k)
                    BY <1>3, <4>1, TruthKept, KeysDiffer DEF voiceVars, tableVars
                <5> QED
                    BY <3>1, <5>1, FreshKept DEF FreshInv
            <4>2. CASE k \notin {<<"likes">>, <<"profile">>}
                <5>1. k[1] = "ranking"
                    BY <4>2, ThreeKinds
                <5> QED
                    BY <3>1, <5>1 DEF Fresh
            <4> QED
                BY <4>1, <4>2
        <3> QED
            BY <3>2 DEF FreshInv
    <2>2. CASE ~Donate(r)
        <3>1. UNCHANGED <<job, cacheVars, dirty, donations>>
            BY <1>3, <2>2 DEF SupportStep, LookForEmail, AddAccount, LogIn, SumDonations, supportVars
        <3>2. \A k \in Keys : Truth(k)' = Truth(k)
            BY <1>3, <3>1, TruthKept DEF voiceVars, tableVars
        <3> QED
            BY <1>b, <3>1, <3>2
    <2> QED
        BY <2>1, <2>2
<1>4. ASSUME NEW r \in Requests, VoiceStep(r) \/ DieHere(r), UNCHANGED <<likes, supportVars>>
      PROVE  FreshInv'
    <2>a. \A k \in Keys \ {<<"profile">>} : Truth(k)' = Truth(k)
        BY <1>4, TruthKept DEF supportVars
    <2>b. ASSUME UNCHANGED <<persona, axis, values>>
          PROVE  \A k \in Keys : Truth(k)' = Truth(k)
        BY <1>4, <2>b, TruthKept DEF supportVars
    <2>1. CASE ReadPersona(r) \/ ReadAxes(r) \/ ReadValues(r) \/ NotOwned(r)
                \/ SelectRows(r) \/ FlushDeletes(r) \/ LookUp(r)
        <3>1. UNCHANGED <<job, cacheVars, dirty, persona, axis, values>>
            BY <2>1 DEF ReadPersona, ReadAxes, ReadValues, NotOwned, SelectRows, FlushDeletes, LookUp,
                voiceVars, tableVars
        <3> QED
            BY <1>b, <2>b, <3>1
    <2>2. CASE CreatePersona(r)
        <3>1. persona = None /\ UNCHANGED <<job, cache, excused, dirty>>
            BY <2>2 DEF CreatePersona, ProfileInv, cacheVars
        <3>2. <<"profile">> \in Keys => Fresh(<<"profile">>)'
            BY <3>1, KeysDiffer DEF FreshInv, Fresh, Truth, Profile, Key
        <3> QED
            BY <2>a, <3>1, <3>2, FreshKept DEF FreshInv
    <2>3. CASE SetPersona(r)
        <3>1. UNCHANGED <<job, cache, dirty, axis, values>>
            BY <2>3 DEF SetPersona
        <3>2. CASE persona' = persona
            BY <2>3, <2>b, <3>1, <3>2, FreshKept DEF FreshInv, SetPersona
        <3>3. CASE persona' # persona
            <4>1. excused' = excused \cup {<<"profile">>}
                BY <2>3, <3>3 DEF SetPersona
            <4>2. Fresh(<<"profile">>)'
                BY <4>1 DEF Fresh
            <4> QED
                BY <2>a, <3>1, <4>1, <4>2, FreshKept DEF FreshInv
        <3> QED
            BY <3>2, <3>3
    <2>4. CASE SetAxis(r) \/ CreateWord(r) \/ CommitList(r)
        <3>1. Key(r) = <<"profile">> /\ UNCHANGED <<job, cache, excused, persona>>
            BY <2>4, KeyOfJob DEF SetAxis, CreateWord, CommitList, OnItsWay, cacheVars
        <3>2. \/ dirty'[r]
              \/ UNCHANGED <<axis, values>>
            BY <2>4 DEF SetAxis, CreateWord, CommitList, CommitRows
        <3>3. \A q \in Requests : dirty[q] => dirty'[q]
            BY <2>4 DEF SetAxis, CreateWord, CommitList, CommitRows, OnItsWay
        <3>4. CASE UNCHANGED <<axis, values>>
            BY <2>b, <3>1, <3>3, <3>4, FreshKept DEF FreshInv
        <3>5. CASE dirty'[r]
            <4>1. Fresh(<<"profile">>)'
                BY <3>1, <3>5 DEF Fresh, Key
            <4> QED
                BY <2>a, <3>1, <3>3, <4>1, FreshKept DEF FreshInv
        <3> QED
            BY <3>2, <3>4, <3>5
    <2>5. CASE Refuse(r) \/ DieHere(r)
        <3>1. /\ UNCHANGED <<job, cache, persona, axis, values>>
              /\ excused' = IF dirty[r] THEN excused \cup {Key(r)} ELSE excused
              /\ dirty' = [dirty EXCEPT ![r] = FALSE]
            BY <2>5 DEF Refuse, DieHere, Abort, LeaveBehind, tableVars
        <3> QED
            BY <2>b, <3>1, FreshKept DEF FreshInv
    <2> QED
        BY <1>4, <2>1, <2>2, <2>3, <2>4, <2>5 DEF VoiceStep
<1>5. ASSUME NEW r \in Requests, RedisError(r, Truth(Key(r))), UNCHANGED databaseVars
      PROVE  FreshInv'
    <2>1. UNCHANGED job
        BY <1>5 DEF RedisError
    <2>2. CASE UNCHANGED <<dirty, cacheVars>>
        BY <1>5, <1>a, <1>b, <2>1, <2>2
    <2>3. CASE /\ pc[r] \in {"discard", "invalidate"} /\ Drop(Key(r))
               /\ UNCHANGED dirty \/ dirty' = [dirty EXCEPT ![r] = FALSE]
        <3>1. Key(r) \in Keys
            BY <2>3, KeyOfJob DEF OnItsWay
        <3> QED
            BY <1>5, <2>1, <2>3, <3>1, FreshDropped
    <2>4. CASE pc[r] = "set" /\ UNCHANGED dirty /\ Put(Key(r), fetched[r], Truth(Key(r)))
        <3>1. Key(r) \in Keys
            BY <2>4, KeyOfJob DEF OnItsWay
        <3> QED
            BY <1>5, <2>1, <2>4, <3>1, FreshPut
    <2>5. CASE LeaveBehind(r) /\ UNCHANGED cache
        BY <1>5, <1>a, <2>1, <2>5, FreshKept DEF FreshInv, LeaveBehind
    <2> QED
        BY <1>5, <2>2, <2>3, <2>4, <2>5 DEF RedisError
<1>6. ASSUME NEW k \in Keys, Expire(k), UNCHANGED databaseVars
      PROVE  FreshInv'
    BY <1>6, FreshDropped DEF Expire, requestVars
<1>7. CASE UNCHANGED stationVars
    BY <1>7, <1>a, <1>b DEF stationVars, readThroughVars, requestVars, databaseVars
<1> QED
    BY <1>1, <1>2, <1>3, <1>4, <1>5, <1>6, <1>7 DEF StationNext, RequestStep, databaseVars

-----------------------------------------------------------------------------
(* Rankings.                                                                 *)
LEMMA RankedNow ==
    ASSUME NEW gifts \in Seq(Gifts), NEW limit
    PROVE  OnceRanked(Ranking(ToSet(gifts), limit), limit, gifts)
PROOF
<1>1. SubSeq(gifts, 1, Len(gifts)) = gifts /\ Len(gifts) \in 0..Len(gifts)
    OBVIOUS
<1> QED
    BY <1>1 DEF OnceRanked

LEMMA RankedLater ==
    ASSUME NEW gifts \in Seq(Gifts), NEW gift \in Gifts, NEW value, NEW limit,
           OnceRanked(value, limit, gifts)
    PROVE  OnceRanked(value, limit, Append(gifts, gift))
PROOF
<1>1. PICK n \in 0..Len(gifts) : value = Ranking(ToSet(SubSeq(gifts, 1, n)), limit)
    BY DEF OnceRanked
<1>2. SubSeq(Append(gifts, gift), 1, n) = SubSeq(gifts, 1, n)
    OBVIOUS
<1>3. n \in 0..Len(Append(gifts, gift))
    OBVIOUS
<1> QED
    BY <1>1, <1>2, <1>3 DEF OnceRanked

LEMMA RankedInit == StationInit => RankedInv
PROOF
<1> SUFFICES ASSUME StationInit PROVE RankedInv
    OBVIOUS
<1> USE DEF StationInit, ReadThroughInit, SupportersInit
<1>1. donations \in Seq(Gifts)
    BY StationAssumption
<1>2. \A k \in Keys : cache[k] \in {None, Damaged}
    OBVIOUS
<1>3. \A r \in Requests : fetched[r] = None /\ pc[r] # "set"
    OBVIOUS
<1> QED
    BY <1>1, <1>2, <1>3 DEF RankedInv

LEMMA RankedFrame ==
    ASSUME PathInv, RankedInv, UNCHANGED job,
           UNCHANGED donations \/ \E gift \in Gifts : donations' = Append(donations, gift),
           \/ UNCHANGED cache
           \/ \E k \in Keys : \E value :
                /\ cache' = [cache EXCEPT ![k] = value]
                /\ \A n \in Nat : k = <<"ranking", n>> =>
                    value = None \/ OnceRanked(value, n, donations),
           \A r \in Requests : job[r].op = "rank" =>
                \/ fetched'[r] = fetched[r] /\ (pc'[r] = pc[r] \/ pc'[r] # "set")
                \/ fetched'[r] = None /\ pc'[r] # "set"
                \/ OnceRanked(fetched'[r], job[r].limit, donations)
    PROVE  RankedInv'
PROOF
<1>1. /\ donations' \in Seq(Gifts)
      /\ \A value, limit : OnceRanked(value, limit, donations) => OnceRanked(value, limit, donations')
    <2>1. donations \in Seq(Gifts)
        BY DEF RankedInv
    <2>2. ASSUME NEW gift \in Gifts, donations' = Append(donations, gift)
          PROVE  /\ donations' \in Seq(Gifts)
                 /\ \A value, limit :
                        OnceRanked(value, limit, donations) => OnceRanked(value, limit, donations')
        BY <2>1, <2>2, RankedLater
    <2> QED
        BY <2>1, <2>2
<1>2. ASSUME NEW n \in Nat, <<"ranking", n>> \in Keys
      PROVE  \/ cache'[<<"ranking", n>>] \in {None, Damaged}
             \/ OnceRanked(cache'[<<"ranking", n>>], n, donations)
    <2> DEFINE j == <<"ranking", n>>
    <2>1. cache[j] \in {None, Damaged} \/ OnceRanked(cache[j], n, donations)
        BY <1>2 DEF RankedInv
    <2>2. CASE ~UNCHANGED cache
        <3>1. PICK k \in Keys : \E value :
                /\ cache' = [cache EXCEPT ![k] = value]
                /\ \A m \in Nat : k = <<"ranking", m>> =>
                    value = None \/ OnceRanked(value, m, donations)
            BY <2>2
        <3>2. PICK value :
                /\ cache' = [cache EXCEPT ![k] = value]
                /\ \A m \in Nat : k = <<"ranking", m>> =>
                    value = None \/ OnceRanked(value, m, donations)
            BY <3>1
        <3>3. cache'[j] = cache[j] \/ (k = j /\ cache'[j] = value)
            BY <1>2, <3>2 DEF PathInv, IsFunction
        <3>4. k = j => value = None \/ OnceRanked(value, n, donations)
            BY <3>2
        <3> HIDE DEF j
        <3>5. cache'[j] \in {None, Damaged} \/ OnceRanked(cache'[j], n, donations)
            BY <2>1, <3>3, <3>4
        <3> QED
            BY <3>5 DEF j
    <2>3. CASE UNCHANGED cache
        BY <2>1, <2>3
    <2> QED
        BY <2>2, <2>3
<1>3. ASSUME NEW r \in Requests, job[r].op = "rank"
      PROVE  \/ fetched'[r] = None /\ pc'[r] # "set"
             \/ OnceRanked(fetched'[r], job[r].limit, donations)
    <2>1. \/ fetched[r] = None /\ pc[r] # "set"
          \/ OnceRanked(fetched[r], job[r].limit, donations)
        BY <1>3 DEF RankedInv
    <2> QED
        BY <1>3, <2>1
<1> QED
    BY <1>1, <1>2, <1>3 DEF RankedInv

LEMMA RankedStep ==
    ASSUME PathInv, RankedInv, [StationNext]_stationVars
    PROVE  RankedInv'
PROOF
<1> USE DEF PathInv
<1>a. IsFunction(fetched, Requests) /\ IsFunction(cache, Keys) /\ donations \in Seq(Gifts)
    BY DEF RankedInv
<1>1. ASSUME NEW r \in Requests, CacheStep(r), UNCHANGED donations
      PROVE  RankedInv'
    <2>1. CASE Get(r)
        <3>1. job[r].op = "rank" => /\ Key(r) = <<"ranking", job[r].limit>> /\ Key(r) \in Keys
                                    /\ job[r].limit \in Nat
            BY KeyOfJob
        <3>2. job[r].op = "rank" => \/ cache[Key(r)] \in {None, Damaged}
                                   \/ OnceRanked(cache[Key(r)], job[r].limit, donations)
            BY <3>1 DEF RankedInv
        <3>3. /\ \E l \in {"query", "discard", "over"} : pc' = [pc EXCEPT ![r] = l]
              /\ fetched' = [fetched EXCEPT ![r] = IF cache[Key(r)] = Damaged THEN None ELSE cache[Key(r)]]
              /\ UNCHANGED <<job, cache>>
            <4>1. CASE cache[Key(r)] = None
                BY <2>1, <4>1, ReadThroughAssumption DEF Get, Goto, cacheVars
            <4>2. CASE cache[Key(r)] # None /\ cache[Key(r)] = Damaged
                BY <2>1, <4>2 DEF Get, Goto, cacheVars
            <4>3. CASE cache[Key(r)] # None /\ cache[Key(r)] # Damaged
                BY <2>1, <4>3 DEF Get, Goto, cacheVars
            <4> QED
                BY <4>1, <4>2, <4>3
        <3> QED
            BY <1>1, <1>a, <3>2, <3>3, RankedFrame DEF IsFunction
    <2>2. CASE Discard(r) \/ Invalidate(r)
        <3>1. Key(r) \in Keys
            BY <2>2, KeyOfJob DEF Discard, Invalidate, OnItsWay
        <3>2. /\ \E l \in {"query", "over"} : pc' = [pc EXCEPT ![r] = l]
              /\ UNCHANGED <<job, fetched>> /\ cache' = [cache EXCEPT ![Key(r)] = None]
            BY <2>2 DEF Discard, Invalidate, Drop, Goto
        <3> QED
            BY <1>1, <3>1, <3>2, RankedFrame
    <2>3. CASE Set(r, Truth(Key(r)))
        <3>1. pc[r] = "set" /\ Key(r) \in Keys
            BY <2>3, KeyOfJob DEF Set, OnItsWay
        <3>2. \A n \in Nat : Key(r) = <<"ranking", n>> => OnceRanked(fetched[r], n, donations)
            BY <3>1, KeyOfJob, KeysDiffer DEF RankedInv, OnItsWay
        <3>3. /\ pc' = [pc EXCEPT ![r] = "over"] /\ UNCHANGED <<job, fetched>>
              /\ cache' = [cache EXCEPT ![Key(r)] = fetched[r]]
            BY <2>3 DEF Set, Put, Goto
        <3> QED
            BY <1>1, <3>1, <3>2, <3>3, RankedFrame
    <2> QED
        BY <1>1, <2>1, <2>2, <2>3 DEF CacheStep
<1>2. ASSUME NEW r \in Requests, LikeStep(r), UNCHANGED donations
      PROVE  RankedInv'
    <2>1. /\ UNCHANGED <<job, cache>> /\ \A q \in Requests \ {r} : fetched'[q] = fetched[q] /\ pc'[q] = pc[q]
          /\ job[r].op # "rank"
        <3>1. CASE CountRows(r)
            BY <3>1, <1>a DEF CountRows, Goto, cacheVars, IsFunction
        <3>2. CASE ~CountRows(r)
            BY <1>2, <3>2 DEF LikeStep, LookForLike, AddLike, RemoveLike, Goto, cacheVars
        <3> QED
            BY <3>1, <3>2
    <2> QED
        BY <1>2, <2>1, RankedFrame
<1>3. ASSUME NEW r \in Requests, SupportStep(r)
      PROVE  RankedInv'
    <2>1. CASE SumDonations(r)
        <3>1. OnceRanked(Ranking(ToSet(donations), job[r].limit), job[r].limit, donations)
            BY <1>a, RankedNow
        <3>2. /\ UNCHANGED <<job, cache, donations>>
              /\ pc' = [pc EXCEPT ![r] = "set"]
              /\ fetched' = [fetched EXCEPT ![r] = Ranking(ToSet(donations), job[r].limit)]
            BY <2>1 DEF SumDonations, Goto, cacheVars, supportVars
        <3> QED
            BY <1>a, <3>1, <3>2, RankedFrame DEF IsFunction
    <2>2. CASE Donate(r)
        <3>1. job[r].row \in Gifts
            BY <2>2, KeyOfJob DEF Donate, Jobs
        <3>2. /\ UNCHANGED <<job, cache, fetched>> /\ pc' = [pc EXCEPT ![r] = "over"]
              /\ donations' = Append(donations, job[r].row)
            BY <2>2 DEF Donate, Goto
        <3> QED
            BY <3>1, <3>2, RankedFrame
    <2>3. CASE LookForEmail(r) \/ AddAccount(r) \/ LogIn(r)
        <3>1. /\ UNCHANGED <<job, cache, donations, fetched>>
              /\ \E l \in {"write", "over"} : pc' = [pc EXCEPT ![r] = l]
            BY <2>3 DEF LookForEmail, AddAccount, LogIn, Answer, Goto, cacheVars
        <3> QED
            BY <3>1, RankedFrame
    <2> QED
        BY <1>3, <2>1, <2>2, <2>3 DEF SupportStep
<1>4. ASSUME NEW r \in Requests, VoiceStep(r) \/ DieHere(r), UNCHANGED donations
      PROVE  RankedInv'
    <2>1. CASE ReadPersona(r) \/ ReadAxes(r) \/ ReadValues(r)
        <3>1. /\ UNCHANGED <<job, cache>> /\ job[r].op = "profile"
              /\ \A q \in Requests \ {r} : fetched'[q] = fetched[q] /\ pc'[q] = pc[q]
            BY <2>1, <1>a DEF ReadPersona, ReadAxes, ReadValues, Goto, cacheVars, OnItsWay, IsFunction
        <3> QED
            BY <1>4, <3>1, RankedFrame
    <2>2. CASE ~(ReadPersona(r) \/ ReadAxes(r) \/ ReadValues(r))
        <3>1. /\ UNCHANGED <<job, cache, fetched>>
              /\ \E l \in Labels \ {"set"} : pc' = [pc EXCEPT ![r] = l]
            BY <1>4, <2>2 DEF VoiceStep, CreatePersona, SetPersona, SetAxis, NotOwned, SelectRows, FlushDeletes,
                LookUp, CreateWord, CommitList, Refuse, DieHere, Abort, LeaveBehind, Link, Goto, cacheVars, Labels
        <3> QED
            BY <1>4, <3>1, RankedFrame
    <2> QED
        BY <2>1, <2>2
<1>5. ASSUME NEW r \in Requests, RedisError(r, Truth(Key(r))), UNCHANGED donations
      PROVE  RankedInv'
    <2>1. /\ UNCHANGED <<job, fetched>>
          /\ \E l \in {"query", "over"} : pc' = [pc EXCEPT ![r] = l]
        BY <1>5 DEF RedisError, Goto
    <2>2. \/ UNCHANGED cache
          \/ pc[r] \in {"discard", "invalidate"} /\ Drop(Key(r))
          \/ pc[r] = "set" /\ Put(Key(r), fetched[r], Truth(Key(r)))
        BY <1>5 DEF RedisError, cacheVars
    <2>3. CASE UNCHANGED cache
        BY <1>5, <2>1, <2>3, RankedFrame
    <2>4. CASE pc[r] \in {"discard", "invalidate"} /\ Drop(Key(r))
        <3>1. Key(r) \in Keys
            BY <2>4, KeyOfJob DEF OnItsWay
        <3> QED
            BY <1>5, <2>1, <2>4, <3>1, RankedFrame DEF Drop
    <2>5. CASE pc[r] = "set" /\ Put(Key(r), fetched[r], Truth(Key(r)))
        <3>1. Key(r) \in Keys
            BY <2>5, KeyOfJob DEF OnItsWay
        <3>2. \A n \in Nat : Key(r) = <<"ranking", n>> => OnceRanked(fetched[r], n, donations)
            BY <2>5, KeyOfJob, KeysDiffer DEF RankedInv, OnItsWay
        <3>3. cache' = [cache EXCEPT ![Key(r)] = fetched[r]]
            BY <2>5 DEF Put
        <3> QED
            BY <1>5, <2>1, <3>1, <3>2, <3>3, RankedFrame
    <2> QED
        BY <2>2, <2>3, <2>4, <2>5
<1>6. ASSUME NEW k \in Keys, Expire(k), UNCHANGED donations
      PROVE  RankedInv'
    BY <1>6, RankedFrame DEF Expire, Drop, requestVars
<1>7. CASE UNCHANGED stationVars
    BY <1>7, RankedFrame DEF stationVars, readThroughVars, requestVars, cacheVars, supportVars
<1> QED
    BY <1>1, <1>2, <1>3, <1>4, <1>5, <1>6, <1>7 DEF StationNext, RequestStep, databaseVars, supportVars

(* StaleOnlyIfExcused: whatever reads, writes, fails, dies and expires, a value    *)
(* in the cache is true, about to be deleted or excused, and a ranking that is   *)
(* shown was the ranking of the length asked for.                             *)
THEOREM StaleIsExcused == StationSpec => []StaleOnlyIfExcused
PROOF
<1> DEFINE Inv == PathInv /\ LikesInv /\ ProfileInv /\ FreshInv /\ RankedInv
<1>1. StationInit => Inv
    <2>1. StationInit => FreshInv
        BY DEF StationInit, FreshInv, Fresh
    <2>2. StationInit => LikesInv
        BY DEF StationInit, LikesInit, LikesInv
    <2> QED
        BY <2>1, <2>2, PathInit, ProfileInit, RankedInit
<1>2. Inv /\ LikesInv' /\ [StationNext]_stationVars => Inv'
    BY PathStep, ProfileStep, FreshStep, RankedStep
<1>3. Inv => StaleOnlyIfExcused
    <2> SUFFICES ASSUME Inv PROVE StaleOnlyIfExcused
        OBVIOUS
    <2>1. \A k \in Keys : Fresh(k)
        BY DEF FreshInv
    <2>2. \A r \in Requests : job[r].op = "rank" /\ fetched[r] # None =>
            OnceRanked(fetched[r], job[r].limit, donations)
        BY DEF RankedInv
    <2> QED
        BY <2>1, <2>2 DEF Fresh, OnceRanked, StaleOnlyIfExcused
<1>4. StationSpec => []LikesInv
    BY OnesAlways, PTL
<1> QED
    BY <1>1, <1>2, <1>3, <1>4, PTL DEF StationSpec

=============================================================================
