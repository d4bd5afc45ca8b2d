-------------------------------- MODULE Voice --------------------------------
(***************************************************************************)
(* How a persona speaks (aria/contexts/persona: PersonaService,              *)
(* PersonaProfileService, SqlModelProfileRepository, PersonaProfileProvider  *)
(* and the cache before it).                                                *)
(*                                                                          *)
(* Name, style and compass are single rows.  The core values are a list,    *)
(* replaced as a whole: the rows are deleted and new ones inserted, each     *)
(* after a look at the vocabulary.  A word that is not there is inserted     *)
(* and COMMITTED on the way - with the deletion and the part of the list     *)
(* that has been written; and when another request was faster with the      *)
(* word, everything so far is rolled back, and the rest is written all the   *)
(* same.                                                                     *)
(***************************************************************************)
EXTENDS ReadThrough

CONSTANTS
    Axes,       \* the rows that are set as one: style, compass
    Versions,   \* what they may hold
    Lists       \* lists of core values

VARIABLES
    persona,    \* the name in the persona's row, or None
    axis,       \* the row of each axis, or None
    vocabulary, \* CoreValueTable: words
    values,     \* PersonaCoreValueTable: committed rows
    tx,         \* per request: rows deleted and inserted, not committed
    linked,     \* per request: words of its list that are in its session
    pending,    \* per request: rows found by its SELECT, or the row not flushed yet
    split       \* a word was not there: some request's transaction has ended on the way

tableVars == <<persona, axis, vocabulary, values>>
setterVars == <<tx, linked, pending, split>>
voiceVars == <<tableVars, setterVars>>

EmptyTx == [gone |-> {}, new |-> {}]
(* A row has a key of its own: it is told apart by the request that wrote it   *)
(* (None: a row from before).                                                *)
Row(word, rank, by) == [word |-> word, rank |-> rank, by |-> by]
Rows(list, by) == {Row(list[i], i, by) : i \in DOMAIN list}

(* list_core_values: in order of priority.                                   *)
Listed(rows) ==
    LET sorted == SetToSortSeq(rows, LAMBDA a, b : a.rank < b.rank)
    IN  [i \in DOMAIN sorted |-> sorted[i].word]

Profile == IF persona = None THEN None
           ELSE [name |-> persona, axis |-> axis, values |-> Listed(values)]

VoiceInit ==
    /\ persona \in IF \E r \in Requests : job[r].op = "create" THEN {None} ELSE Versions
    /\ axis = [a \in Axes |-> None]
    /\ vocabulary \in SUBSET UNION {ToSet(list) : list \in Lists}
    /\ values \in {{}} \cup {Rows(list, None) : list \in {l \in Lists : ToSet(l) \subseteq vocabulary}}
    /\ tx = [r \in Requests |-> EmptyTx]
    /\ linked = [r \in Requests |-> 0]
    /\ pending = [r \in Requests |-> {}]
    /\ split = FALSE

-----------------------------------------------------------------------------
(* PersonaProfileProvider, after a miss: one statement for each table.        *)

(* Without a persona there is nothing to store.                               *)
ReadPersona(r) ==
    /\ pc[r] = "query" /\ job[r].op = "profile"
    /\ fetched' = [fetched EXCEPT ![r] = Profile]
    /\ Goto(r, IF persona = None THEN "over" ELSE "axes")
    /\ UNCHANGED <<job, dirty, cacheVars, failures, voiceVars>>

ReadAxes(r) ==
    /\ pc[r] = "axes"
    /\ fetched' = [fetched EXCEPT ![r].axis = axis]
    /\ Goto(r, "values")
    /\ UNCHANGED <<job, dirty, cacheVars, failures, voiceVars>>

ReadValues(r) ==
    /\ pc[r] = "values"
    /\ fetched' = [fetched EXCEPT ![r].values = Listed(values)]
    /\ Goto(r, "set")
    /\ UNCHANGED <<job, dirty, cacheVars, failures, voiceVars>>

-----------------------------------------------------------------------------
(* PersonaService.create, update and delete: nothing tells the cache.         *)
CreatePersona(r) ==
    /\ pc[r] = "table" /\ job[r].op = "create"
    /\ persona' = job[r].to
    /\ Goto(r, "over")
    /\ UNCHANGED <<job, fetched, dirty, cacheVars, failures, axis, vocabulary, values, setterVars>>

SetPersona(r) ==
    /\ pc[r] = "table" /\ job[r].op \in {"rename", "delete"}
    /\ persona' = IF job[r].op = "delete" \/ persona = None THEN None ELSE job[r].to
    /\ excused' = IF persona' # persona THEN excused \cup {<<"profile">>} ELSE excused
    /\ Goto(r, "over")
    /\ UNCHANGED <<job, fetched, dirty, cache, failures, axis, vocabulary, values, setterVars>>

(* get_owned before any setter.                                              *)
Owned == persona # None

(* set_style, set_compass.                                                   *)
SetAxis(r) ==
    /\ pc[r] = "table" /\ job[r].op = "axis" /\ Owned
    /\ axis' = [axis EXCEPT ![job[r].axis] = job[r].to]
    /\ dirty' = [dirty EXCEPT ![r] = axis' # axis]
    /\ Goto(r, "invalidate")
    /\ UNCHANGED <<job, fetched, cacheVars, failures, persona, vocabulary, values, setterVars>>

NotOwned(r) ==
    /\ pc[r] = "table" /\ job[r].op \in {"axis", "list"} /\ ~Owned
    /\ Goto(r, "over")
    /\ UNCHANGED <<job, fetched, dirty, cacheVars, failures, voiceVars>>

-----------------------------------------------------------------------------
(* set_core_values.                                                          *)

(* What another open transaction holds of a row that r wants to write.        *)
Alike(a, b) == a.word = b.word \/ a.rank = b.rank
Holds(q, row) ==
    \/ \E s \in tx[q].new : Alike(s, row)
    \/ \E s \in tx[q].gone \cap values : Alike(s, row)
WaitsFor(r, q) ==
    q # r /\ \/ pc[r] = "flush" /\ pending[r] \cap tx[q].gone \cap values # {}
             \/ pc[r] \in {"lookup", "commit"} /\ \E row \in pending[r] : Holds(q, row)
Free(r) == \A q \in Requests : ~WaitsFor(r, q)

(* Fault: no unique constraints.                                             *)
ClashesNever(r) == FALSE
(* uq_persona_core_value, uq_persona_core_value_priority.                     *)
Clashes(r) ==
    \E row \in pending[r], s \in (values \ tx[r].gone) \cup tx[r].new : Alike(row, s)

SelectRows(r) ==
    /\ pc[r] = "table" /\ job[r].op = "list" /\ Owned
    /\ pending' = [pending EXCEPT ![r] = values]
    /\ Goto(r, "flush")
    /\ UNCHANGED <<job, fetched, dirty, cacheVars, failures, tableVars, tx, linked, split>>

(* The DELETE waits for whoever is deleting the same rows; rows that are gone  *)
(* by then are no error, and rows written since are not found.                *)
FlushDeletes(r) ==
    /\ pc[r] = "flush" /\ Free(r)
    /\ tx' = [tx EXCEPT ![r].gone = pending[r] \cap values]
    /\ pending' = [pending EXCEPT ![r] = {}]
    /\ Goto(r, IF job[r].list = <<>> THEN "commit" ELSE "lookup")
    /\ UNCHANGED <<job, fetched, dirty, cacheVars, failures, tableVars, linked, split>>

(* The row for the word just looked up goes into the session, and to the      *)
(* database with the next statement.                                         *)
Link(r) ==
    LET n == linked[r] + 1 IN
    /\ linked' = [linked EXCEPT ![r] = n]
    /\ pending' = [pending EXCEPT ![r] = {Row(job[r].list[n], n, r)}]
    /\ Goto(r, IF n = Len(job[r].list) THEN "commit" ELSE "lookup")

Word(r) == job[r].list[linked[r] + 1]

(* The COMMIT of what r has deleted and inserted.                             *)
CommitRows(r, new) ==
    /\ values' = (values \ tx[r].gone) \cup new
    /\ dirty' = [dirty EXCEPT ![r] = @ \/ values' # values]
    /\ tx' = [tx EXCEPT ![r] = EmptyTx]

(* Fault: a commit after every word.                                         *)
LookUpCommitting(r) ==
    /\ pc[r] = "lookup" /\ Free(r) /\ ~Clashes(r)
    /\ CommitRows(r, tx[r].new \cup pending[r])
    /\ IF Word(r) \in vocabulary
       THEN Link(r)
       ELSE /\ Goto(r, "create")
            /\ pending' = [pending EXCEPT ![r] = {}] /\ UNCHANGED linked
    /\ UNCHANGED <<job, fetched, cacheVars, failures, persona, axis, vocabulary, split>>
(* ensure_value's SELECT, before which the session flushes.                   *)
LookUp(r) ==
    /\ pc[r] = "lookup" /\ Free(r) /\ ~Clashes(r)
    /\ tx' = [tx EXCEPT ![r].new = @ \cup pending[r]]
    /\ IF Word(r) \in vocabulary
       THEN Link(r)
       ELSE /\ Goto(r, "create")
            /\ pending' = [pending EXCEPT ![r] = {}] /\ UNCHANGED linked
    /\ UNCHANGED <<job, fetched, dirty, cacheVars, failures, tableVars, split>>

(* INSERT and COMMIT of a new word, or ROLLBACK because it is there by now.   *)
CreateWord(r) ==
    /\ pc[r] = "create"
    /\ IF Word(r) \in vocabulary
       THEN tx' = [tx EXCEPT ![r] = EmptyTx] /\ UNCHANGED <<values, dirty>>
       ELSE CommitRows(r, tx[r].new)
    /\ vocabulary' = vocabulary \cup {Word(r)}
    /\ Link(r)
    /\ split' = TRUE
    /\ UNCHANGED <<job, fetched, cacheVars, failures, persona, axis>>

CommitList(r) ==
    /\ pc[r] = "commit" /\ Free(r) /\ ~Clashes(r)
    /\ CommitRows(r, tx[r].new \cup pending[r])
    /\ pending' = [pending EXCEPT ![r] = {}]
    /\ Goto(r, "invalidate")
    /\ UNCHANGED <<job, fetched, cacheVars, failures, persona, axis, vocabulary, linked, split>>

(* Fault: the session is not closed.                                         *)
AbortHolding(r) ==
    /\ pending' = [pending EXCEPT ![r] = {}]
    /\ LeaveBehind(r)
    /\ Goto(r, "over")
    /\ UNCHANGED tx
(* The request ends and its session is closed.                                *)
Abort(r) ==
    /\ tx' = [tx EXCEPT ![r] = EmptyTx]
    /\ pending' = [pending EXCEPT ![r] = {}]
    /\ LeaveBehind(r)
    /\ Goto(r, "over")

(* IntegrityError outside ensure_value's try, or a deadlock that the database  *)
(* breaks: the request fails.                                                *)
Refuse(r) ==
    /\ \/ pc[r] \in {"lookup", "commit"} /\ Free(r) /\ Clashes(r)
       \/ \E q \in Requests : WaitsFor(r, q) /\ WaitsFor(q, r)
    /\ Abort(r)
    /\ UNCHANGED <<job, fetched, cache, failures, tableVars, linked, split>>

(* The process or the connection dies.                                       *)
DieHere(r) ==
    /\ pc[r] \notin {"get", "over"} /\ Fail
    /\ Abort(r)
    /\ UNCHANGED <<job, fetched, cache, tableVars, linked, split>>

VoiceStep(r) ==
    \/ ReadPersona(r) \/ ReadAxes(r) \/ ReadValues(r)
    \/ CreatePersona(r) \/ SetPersona(r) \/ SetAxis(r) \/ NotOwned(r)
    \/ SelectRows(r) \/ FlushDeletes(r) \/ LookUp(r) \/ CreateWord(r) \/ CommitList(r) \/ Refuse(r)

=============================================================================
