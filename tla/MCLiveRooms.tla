------------------------------ MODULE MCLiveRooms ------------------------------
(* Two rooms, two requests of staff at a time, and the closer.                 *)
EXTENDS LiveRooms

CONSTANTS r1, r2, a, b

TwoRooms == {r1, r2}
OneRoom == {r1}
SamePersona == [r \in Rooms |-> "persona"]
OwnPersona == [r \in Rooms |-> r]
TwoStaff == {a, b}
OneStaff == {a}
=============================================================================
