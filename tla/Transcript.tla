------------------------------ MODULE Transcript ------------------------------
(***************************************************************************)
(* What was said in a room, as rows of chat_message, and the pages a viewer *)
(* reads (aria/contexts/chat: domain/message.py,                            *)
(* adapter/outbound/persistence/transcript.py, room_messages of the http    *)
(* router).                                                                 *)
(*                                                                          *)
(* A row has the UUIDv7 that its RoomMessage took when it was made, before  *)
(* anything was awaited; it is in the table when its own commit is.  Ids    *)
(* stand for their order.  A reader walks from the newest page to the       *)
(* oldest, one request per page, while others write.                        *)
(***************************************************************************)
EXTENDS Integers, FiniteSets, FiniteSetsExt

CONSTANTS
    Readers,        \* viewers who read the room from its end to its beginning
    Limits,         \* the limits they ask for, of which the route refuses none
    MaxPageSize     \* MAX_PAGE_SIZE

ASSUME TranscriptAssumption == Limits \subseteq Int /\ MaxPageSize \in Nat \ {0}

VARIABLES
    lastId,     \* the newest id handed out
    table,      \* the rows that are committed, by id
    unrecorded, \* ids of messages whose append raised (a log line)
    page        \* per reader: where it is, its cursor, its last limit, what it got, whether it
                \* got a row twice, and what it has not got of the rows that
                \* were there when it began

recordVars == <<lastId, table, unrecorded>>
transcriptVars == <<recordVars, page>>

(* RoomMessage, as far as the validator _fields_match_kind relates its fields. *)
NoReply == 0
Chat == [kind |-> "chat", repliedTo |-> NoReply]
Tip == [kind |-> "superchat", repliedTo |-> NoReply]
Said(to) == [kind |-> "reply", repliedTo |-> to]

TranscriptTypeOK ==
    /\ lastId \in Nat
    /\ DOMAIN table \cup unrecorded \subseteq 1..lastId
    /\ \A i \in DOMAIN table : table[i] \in {Chat, Tip} \cup {Said(to) : to \in 0..(i - 1)}
    /\ page \in [Readers -> [at : {"new", "next", "end"}, before : Nat, limit : Limits \cup {0},
                             got : SUBSET (DOMAIN table), twice : BOOLEAN,
                             due : SUBSET (DOMAIN table)]]

NewPage == [at |-> "new", before |-> 0, limit |-> 0, got |-> {}, twice |-> FALSE, due |-> {}]

TranscriptInit ==
    /\ lastId = 0 /\ table = <<>> /\ unrecorded = {}
    /\ page = [r \in Readers |-> NewPage]

-----------------------------------------------------------------------------

(* append and its commit.                                                    *)
Commit(i, row) == table' = [j \in DOMAIN table \cup {i} |-> IF j = i THEN row ELSE table[j]]

(* _record: swallows what append raises.                                      *)
Recorded(i, row) == Commit(i, row) /\ UNCHANGED unrecorded
NotRecorded(i) == unrecorded' = unrecorded \cup {i} /\ UNCHANGED table

-----------------------------------------------------------------------------

(* list_recent; the router knows nothing of it.                               *)
Capped(limit) ==
    IF limit < 1 THEN 1 ELSE IF limit > MaxPageSize THEN MaxPageSize ELSE limit

(* Fault: the cursor is not left out of the next page.                        *)
NotAfter(i, before) == before = 0 \/ i <= before
Before(i, before) == before = 0 \/ i < before

(* _list_recent: the newest ones below the cursor.                             *)
ListRecent(before, size) ==
    LET rows == {i \in DOMAIN table : Before(i, before)}
    IN  {i \in rows : Cardinality({j \in rows : j > i}) < size}

(* room_messages: the next cursor is the oldest id of a page as long as the     *)
(* limit (of none, for limit 0, it is an error and no answer); any other page is *)
(* the last one.                                                             *)
ReadPage(r, limit) ==
    LET rows == ListRecent(page[r].before, Capped(limit))
        full == Cardinality(rows) = limit
    IN  /\ page[r].at # "end"
        /\ full => rows # {}
        /\ page' = [page EXCEPT
            ![r] = [at |-> IF full THEN "next" ELSE "end",
                    before |-> IF full THEN Min(rows) ELSE 0,
                    limit |-> limit,
                    got |-> IF full THEN @.got \cup rows ELSE {},
                    twice |-> @.twice \/ rows \cap @.got # {},
                    due |-> (IF @.at = "new" THEN DOMAIN table ELSE @.due) \ rows]]
        /\ UNCHANGED recordVars

(* transcript.py:87, http/router.py:214: ids are the order, so the cursor needs *)
(* no column of its own, and a page that is not full is the end.  Whatever     *)
(* limits a reader mixes, and while others write and commit out of the order    *)
(* of their ids, no message comes twice; and if its last limit was one that    *)
(* the repository keeps to, it has got every message that was there when it    *)
(* began.                                                                    *)
PagesAreGapless ==
    \A r \in Readers :
        /\ ~page[r].twice
        /\ page[r].at = "end" /\ page[r].limit \in 1..MaxPageSize => page[r].due = {}

(* http/router.py:214: a page that is not full is the end, whatever the limit.   *)
ShortPageIsTheEnd == \A r \in Readers : page[r].at = "end" => page[r].due = {}
=============================================================================
