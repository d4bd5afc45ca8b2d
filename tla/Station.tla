------------------------------- MODULE Station -------------------------------
(***************************************************************************)
(* What a station page and the generation worker read of one persona:       *)
(* likes, ranking of donors, voice - three reads through a cache, and the    *)
(* writes that change them, as requests that run at the same time.          *)
(***************************************************************************)
EXTENDS Likes, Voice, Supporters

(* What a request may be for.  A persona is created once; a list with a word    *)
(* twice is refused before a row is touched (service.py:172).                  *)
Gifts == [donor : Users, amount : Nat, at : Nat]
Jobs ==
    [op : {"count", "profile", "delete"}]
    \cup [op : {"like", "unlike"}, user : Users]
    \cup [op : {"rank"}, limit : Nat]
    \cup [op : {"donate"}, row : Gifts]
    \cup [op : {"register"}, email : Users]
    \cup [op : {"login"}, email : Users, right : BOOLEAN]
    \cup [op : {"create", "rename"}, to : Versions]
    \cup [op : {"axis"}, axis : Axes, to : Versions]
    \cup [op : {"list"}, list : Lists]

ASSUME StationAssumption ==
    /\ None \notin Requests
    /\ Workloads \subseteq [Requests -> Jobs]
    /\ \A work \in Workloads :
        /\ \A r \in Requests : KeyOf(work[r]) \in Keys \cup {<<>>}
        /\ \A r, q \in Requests : work[r].op = "create" /\ work[q].op = "create" => r = q
    /\ Keys \subseteq {<<"likes">>, <<"profile">>} \cup ({"ranking"} \X Nat)
    /\ \A list \in Lists : list \in Seq(ToSet(list)) /\ IsInjective(list)
    /\ Past \in Seq(Gifts)

stationVars == <<readThroughVars, likes, voiceVars, supportVars>>
databaseVars == <<likes, voiceVars, supportVars>>

StationInit == ReadThroughInit /\ LikesInit /\ VoiceInit /\ SupportersInit
               /\ cache \in [Keys -> {None, Damaged}]
               /\ \A k \in Keys : cache[k] = Damaged => \E r \in Requests : Key(r) = k

Truth(k) == CASE k = <<"likes">> -> Count
              [] k = <<"profile">> -> Profile
              [] OTHER -> Ranking(ToSet(donations), k[2])

CacheStep(r) == Get(r) \/ Discard(r) \/ Set(r, Truth(Key(r))) \/ Invalidate(r)

RequestStep(r) ==
    \/ CacheStep(r) /\ UNCHANGED databaseVars
    \/ LikeStep(r) /\ UNCHANGED <<voiceVars, supportVars>>
    \/ VoiceStep(r) /\ UNCHANGED <<likes, supportVars>>
    \/ SupportStep(r) /\ UNCHANGED <<likes, voiceVars>>

StationNext ==
    \/ \E r \in Requests :
        \/ RequestStep(r)
        \/ RedisError(r, Truth(Key(r))) /\ UNCHANGED databaseVars
        \/ DieHere(r) /\ UNCHANGED <<likes, supportVars>>
    \/ \E k \in Keys : Expire(k) /\ UNCHANGED databaseVars

StationSpec == StationInit /\ [][StationNext]_stationVars

(* Requests that can go on do, and Redis keeps its TTLs.                      *)
FairStationSpec ==
    /\ StationSpec
    /\ \A r \in Requests : WF_stationVars(RequestStep(r))
    /\ \A k \in Keys : WF_stationVars(Expire(k) /\ UNCHANGED databaseVars)

-----------------------------------------------------------------------------
StationTypeOK ==
    /\ pc \in [Requests -> {"get", "discard", "query", "axes", "values", "set", "table", "write",
                            "flush", "lookup", "create", "commit", "invalidate", "over"}]
    /\ excused \subseteq Keys /\ dirty \in [Requests -> BOOLEAN]
    /\ <<"profile">> \in Keys =>
        cache[<<"profile">>] \in {None, Damaged} \/ cache[<<"profile">>].name \in Versions
    /\ \A r \in Requests : tx[r] # EmptyTx => pc[r] \in {"lookup", "create", "commit"}

(* community model.py:53, persona model.py:74, identity model.py:13: however     *)
(* requests overlap, roll back and die, a viewer has one like, an address one  *)
(* account, and a list no word and no rank twice, and no word that is not in    *)
(* the vocabulary.                                                           *)
NothingTwice ==
    /\ \A u \in Users : likes[u] <= 1
    /\ \A a, b \in values : Alike(a, b) => a = b
    /\ {row.word : row \in values} \subseteq vocabulary
    /\ \A a, b \in accounts : a.email = b.email => a = b

(* like_count.py:11, cache/profile.py:8: a value that is out of date is there  *)
(* only while the key is about to be deleted, or because Redis failed, the    *)
(* request died or was refused halfway, a reader stored what it had read      *)
(* before the write, or the write (donation, name) does not delete the key.    *)
(* And donation_ranking.py:35: a ranking that is shown was the ranking of the   *)
(* length asked for at some moment, whoever left it in the cache.             *)
StaleOnlyIfExcused ==
    /\ \A k \in Keys :
        cache[k] \in {None, Damaged, Truth(k)}
            \/ k \in excused
            \/ \E r \in Requests : dirty[r] /\ Key(r) = k
    /\ \A r \in Requests : job[r].op = "rank" /\ fetched[r] # None =>
        \E n \in 0..Len(donations) :
            fetched[r] = Ranking(ToSet(SubSeq(donations, 1, n)), job[r].limit)

(* identity service.py:36-37: who registers an address that is taken is told so, *)
(* as a conflict.                                                            *)
DuplicateIsConflict == \A r \in Requests : answer[r] # "error"

(* like_count.py:93, cache/profile.py:16: whatever was missed, the TTL mends.  *)
CacheHeals == \A k \in Keys : []<>(cache[k] \in {None, Truth(k)})

(* Two requests that replace the list of core values at once, wait for each    *)
(* other's rows and refuse each other, come to an end.                        *)
EveryRequestEnds == \A r \in Requests : <>(pc[r] = "over")

(* repository.py:154-155: as long as no word had to be created, the list is     *)
(* replaced as a whole, however requests overlap, fail and die.               *)
KnownWordsReplaceAtOnce ==
    [][values' # values /\ ~split'
        => \E r \in Requests : job[r].op = "list" /\ values' = Rows(job[r].list, r)]_stationVars

(* repository.py:155: the steps between are not seen by anybody.               *)
ListReplacedAtOnce ==
    [][values' # values
        => \E r \in Requests : job[r].op = "list" /\ values' = Rows(job[r].list, r)]_stationVars
=============================================================================
