------------------------------ MODULE LiveRooms ------------------------------
(***************************************************************************)
(* Rooms, from opened to closed (aria/contexts/chat: application/room.py,    *)
(* abandon.py, adapter/outbound/persistence/repository.py, the staff part of *)
(* the http router, and tick of workers/idle.py).                            *)
(*                                                                          *)
(* A transition reads the room, changes the copy and saves it, and awaits   *)
(* between the two; the save reads the row again and writes the columns     *)
(* that differ.  Staff start and finish rooms; every tick the idle      *)
(* worker lists the newest live rooms and closes those that nobody watches  *)
(* and that have been silent for long.  What is said and paid in a room is   *)
(* Conversation's.                                                          *)
(***************************************************************************)
EXTENDS Naturals, Sequences, FiniteSets, SequencesExt

CONSTANTS
    Rooms, personaOf,   \* the rooms, and the persona of each
    Staff,              \* requests of staff
    Closer,             \* the idle worker
    Nobody,
    RoomsPerTick        \* settings.idle_rooms_per_tick

ASSUME RoomsAssumption ==
    /\ Nobody \notin Staff \cup {Closer} \cup Rooms /\ Closer \notin Staff
    /\ RoomsPerTick \in Nat \ {0}

VARIABLES
    opened,     \* the rooms in the table, in order of created_at
    status,     \* the status column
    closedBy,   \* closed_at: whose transition set it, or Nobody for NULL
    copy,       \* the room each transition under way has read and changed
    row,        \* the row as the save of that transition has read it
    todo,       \* the rooms the tick has still to look at, by their place in opened
    look,       \* what the closer checks next of the newest of them
    watched,    \* rooms with a subscriber
    deserted,   \* rooms without one at some moment of the current tick
    silent      \* rooms without activity for room_abandon_seconds

tableVars == <<opened, status, closedBy>>
tickVars == <<todo, look>>
airVars == <<watched, deserted, silent>>
copyVars == <<copy, row>>
roomVars == <<tableVars, copyVars, tickVars, airVars>>

Statuses == {"pending", "live", "finished"}
Copy == [room : Rooms \cup {Nobody}, status : Statuses,
         closedBy : Staff \cup {Closer, Nobody}]
NoCopy == [room |-> Nobody, status |-> "pending", closedBy |-> Nobody]
Row == [status : Statuses, closedBy : Staff \cup {Closer, Nobody}]
NoRow == [status |-> "none", closedBy |-> Nobody]

RoomsTypeOK ==
    /\ IsInjective(opened) /\ ToSet(opened) \subseteq Rooms
    /\ status \in [Rooms -> Statuses]
    /\ closedBy \in [Rooms -> Staff \cup {Closer, Nobody}]
    /\ \A c \in Staff \cup {Closer} :
        copy[c] = NoCopy \/ (copy[c].room \in ToSet(opened) /\ copy[c].status # "pending")
    /\ row \in [Staff \cup {Closer} -> Row \cup {NoRow}]
    /\ \A c \in Staff \cup {Closer} : row[c] # NoRow => copy[c] # NoCopy
    /\ look = "save" <=> copy[Closer] # NoCopy
    /\ opened \in Seq(Rooms) /\ copy \in [Staff \cup {Closer} -> Copy]
    /\ todo \subseteq DOMAIN opened /\ Cardinality(todo) <= RoomsPerTick
    /\ look \in {"viewers", "silence", "read", "save"}

RoomsInit ==
    /\ opened = <<>>
    /\ status = [r \in Rooms |-> "pending"]
    /\ closedBy = [r \in Rooms |-> Nobody]
    /\ copy = [c \in Staff \cup {Closer} |-> NoCopy]
    /\ row = [c \in Staff \cup {Closer} |-> NoRow]
    /\ todo = {} /\ look = "viewers"
    /\ watched = {} /\ deserted = {} /\ silent = {}

-----------------------------------------------------------------------------
(* RoomService.                                                              *)

Open(r) ==
    /\ r \notin ToSet(opened)
    /\ opened' = Append(opened, r)
    /\ UNCHANGED <<status, closedBy, copyVars, tickVars, airVars>>

Allowed(from, to) == <<from, to>> \in {<<"pending", "live">>, <<"pending", "finished">>,
                                       <<"live", "finished">>}

(* Room.transition_to, on the copy.                                          *)
Moved(r, to, c) ==
    [room |-> r, status |-> to, closedBy |-> IF to = "finished" THEN c ELSE closedBy[r]]

(* transition: get and transition_to.  A move that is not allowed ends here.  *)
Read(c, r, to) ==
    /\ copy[c] = NoCopy /\ r \in ToSet(opened)
    /\ Allowed(status[r], to)
    /\ copy' = [copy EXCEPT ![c] = Moved(r, to, c)]
    /\ UNCHANGED row

StaffReads(c, r, to) ==
    /\ Read(c, r, to)
    /\ UNCHANGED <<tableVars, tickVars, airVars>>

(* Fault: no unique index.                                                   *)
OnAirUnguarded(r) == FALSE
(* The partial unique index: another live room of the same persona.           *)
OnAir(r) ==
    \E s \in ToSet(opened) \ {r} : personaOf[s] = personaOf[r] /\ status[s] = "live"

(* save: a SELECT of the row, which nothing has kept since the transition read *)
(* it.                                                                       *)
ReadAgain(c) ==
    LET r == copy[c].room IN
    /\ copy[c] # NoCopy /\ row[c] = NoRow
    /\ row' = [row EXCEPT ![c] = [status |-> status[r], closedBy |-> closedBy[r]]]
    /\ UNCHANGED <<tableVars, copy>>

(* The flush at the commit: an UPDATE of the columns in which the copy differs  *)
(* from that row, whatever it holds by now; every finish has a time of its     *)
(* own.  already_live is an exception and leaves the row.                     *)
StatusAfter(c) ==
    IF copy[c].status # row[c].status THEN copy[c].status ELSE status[copy[c].room]
EndAfter(c) ==
    IF copy[c].status = "finished" \/ copy[c].closedBy # row[c].closedBy
    THEN copy[c].closedBy ELSE closedBy[copy[c].room]

Save(c) ==
    LET r == copy[c].room IN
    /\ row[c] # NoRow
    /\ copy' = [copy EXCEPT ![c] = NoCopy]
    /\ row' = [row EXCEPT ![c] = NoRow]
    /\ IF StatusAfter(c) = "live" /\ OnAir(r)
       THEN UNCHANGED tableVars
       ELSE /\ status' = [status EXCEPT ![r] = StatusAfter(c)]
            /\ closedBy' = [closedBy EXCEPT ![r] = EndAfter(c)]
            /\ UNCHANGED opened

StaffSaves(c) == (ReadAgain(c) \/ Save(c)) /\ UNCHANGED <<tickVars, airVars>>

-----------------------------------------------------------------------------
(* tick and AbandonedRoomCloser.  A room that is not closed is advanced, see   *)
(* Progress.                                                                 *)

Live == {i \in DOMAIN opened : status[opened[i]] = "live"}

(* list_live: newest first, up to the limit.                                 *)
Newest == {i \in Live : Cardinality({j \in Live : j > i}) < RoomsPerTick}

List ==
    /\ todo = {} /\ Live # {}
    /\ todo' = Newest
    /\ look' = "viewers"
    /\ deserted' = Rooms \ watched
    /\ UNCHANGED <<tableVars, copyVars, watched, silent>>

Looked == opened[Max(todo)]
NextRoom == todo' = todo \ {Max(todo)} /\ look' = "viewers"
LookAt(what) == look' = what /\ UNCHANGED todo

(* Fault: only the silence counts.                                           *)
CheckViewersIgnored ==
    /\ todo # {} /\ look = "viewers"
    /\ LookAt("silence")
    /\ UNCHANGED <<tableVars, copyVars, airVars>>
CheckViewers ==
    /\ todo # {} /\ look = "viewers"
    /\ IF Looked \in watched THEN NextRoom ELSE LookAt("silence")
    /\ UNCHANGED <<tableVars, copyVars, airVars>>

CheckSilence ==
    /\ todo # {} /\ look = "silence"
    /\ IF Looked \in silent THEN LookAt("read") ELSE NextRoom
    /\ UNCHANGED <<tableVars, copyVars, airVars>>

(* Fault: that staff were faster ends the worker.                             *)
CloserReadsOrStops ==
    /\ todo # {} /\ look = "read"
    /\ \/ Read(Closer, Looked, "finished") /\ LookAt("save")
       \/ ~Allowed(status[Looked], "finished") /\ LookAt("stopped") /\ UNCHANGED copyVars
    /\ UNCHANGED <<tableVars, airVars>>
(* transition(FINISHED); that staff were faster is not an error.              *)
CloserReads ==
    /\ todo # {} /\ look = "read"
    /\ \/ Read(Closer, Looked, "finished") /\ LookAt("save")
       \/ ~Allowed(status[Looked], "finished") /\ NextRoom /\ UNCHANGED copyVars
    /\ UNCHANGED <<tableVars, airVars>>

CloserSaves ==
    /\ look = "save"
    /\ \/ ReadAgain(Closer) /\ UNCHANGED tickVars
       \/ Save(Closer) /\ NextRoom
    /\ UNCHANGED <<airVars>>

CloserStep == List \/ CheckViewers \/ CheckSilence \/ CloserReads \/ CloserSaves

-----------------------------------------------------------------------------
(* ensure_open: who may chat, pay or subscribe (see Conversation).             *)
Admits(r) == r \in ToSet(opened) /\ status[r] = "live"

(* Subscribers come and go; comments and the persona's own words are activity. *)
Watch(r) ==
    /\ watched' = IF r \in watched THEN watched \ {r} ELSE watched \cup {r}
    /\ r \in watched \/ Admits(r)
    /\ deserted' = deserted \cup (Rooms \ watched')
    /\ UNCHANGED <<tableVars, copyVars, tickVars, silent>>

Hush(r) ==
    /\ silent' = IF r \in silent THEN silent \ {r} ELSE silent \cup {r}
    /\ UNCHANGED <<tableVars, copyVars, tickVars, watched, deserted>>

RoomsNext ==
    \/ \E r \in Rooms : Open(r) \/ Watch(r) \/ Hush(r)
    \/ \E c \in Staff, r \in Rooms : StaffReads(c, r, "live") \/ StaffReads(c, r, "finished")
    \/ \E c \in Staff : StaffSaves(c)
    \/ CloserStep

RoomsSpec == RoomsInit /\ [][RoomsNext]_roomVars

(* The idle worker ticks on.                                                 *)
FairRoomsSpec == RoomsSpec /\ WF_roomVars(CloserStep)

-----------------------------------------------------------------------------

(* persistence/model.py:37: one live room per persona, whichever requests to   *)
(* start rooms overlap.                                                      *)
OneLiveRoom ==
    \A r, s \in ToSet(opened) :
        status[r] = "live" /\ status[s] = "live" /\ personaOf[r] = personaOf[s] => r = s

(* abandon.py:8-11: the closer leaves a room alone that had viewers during the *)
(* whole tick, however silent it is.                                         *)
ViewersKeepRoomOpen ==
    [][\A r \in Rooms : closedBy[r] # Closer /\ closedBy'[r] = Closer => r \in deserted]_roomVars

(* abandon.py: a live room that nobody watches and where nothing happens any   *)
(* more is closed, provided that a tick takes all the rooms that are live      *)
(* (workers/idle.py:70 lists the newest only).                                *)
AbandonedRoomCloses ==
    \A r \in Rooms :
        <>[](r \notin watched /\ r \in silent) /\ <>[](Cardinality(Live) <= RoomsPerTick)
            => (r \in ToSet(opened) /\ status[r] = "live" ~> status[r] = "finished")

(* The same whatever the number of live rooms.                                *)
EveryAbandonedRoomCloses ==
    \A r \in Rooms :
        <>[](r \notin watched /\ r \in silent)
            => (r \in ToSet(opened) /\ status[r] = "live" ~> status[r] = "finished")

(* domain/room.py:36: transitions only go forward.                            *)
FinishedIsFinal ==
    [][\A r \in Rooms : status[r] = "finished" => status'[r] = "finished"]_roomVars
=============================================================================
