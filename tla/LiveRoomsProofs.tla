--------------------------- MODULE LiveRoomsProofs ---------------------------
(***************************************************************************)
(* Proofs about LiveRooms, for any rooms, personas and requests of staff    *)
(* that overlap, and any number of rooms per tick.                          *)
(*                                                                          *)
(* The table alone is not inductive: a save writes what the transition read *)
(* before it awaited.  The invariant says of every copy under way which end *)
(* it would write (CopyIsWhole), of the row it is compared with that a room *)
(* once started is never pending again (RowIsPast), and of the closer that  *)
(* it looks at a room it has seen without viewers in this tick              *)
(* (TickIsFresh).                                                           *)
(***************************************************************************)
EXTENDS LiveRooms, TLAPS, FiniteSetTheorems, SequenceTheorems

(* A copy that goes live has no end; one that finishes is ended by its writer. *)
CopyIsWhole ==
    \A c \in Staff \cup {Closer} : copy[c] # NoCopy =>
        /\ copy[c].room \in ToSet(opened) /\ copy[c].room # Nobody
        /\ copy[c].status = "live" => copy[c].closedBy = Nobody
        /\ copy[c].status = "finished" => copy[c].closedBy = c
        /\ copy[c].status # "pending"

UnopenedIsPending == \A r \in Rooms \ ToSet(opened) : status[r] = "pending"

(* A room that never started and never finished has no end.                  *)
PendingHasNoEnd == \A r \in Rooms : status[r] = "pending" => closedBy[r] = Nobody

(* What a save has read of a room that had started is not undone.            *)
RowIsPast ==
    \A c \in Staff \cup {Closer} :
        row[c] # NoRow /\ row[c].status # "pending" => status[copy[c].room] # "pending"

TableInv ==
    /\ OneLiveRoom
    /\ PendingHasNoEnd
    /\ UnopenedIsPending
    /\ CopyIsWhole
    /\ RowIsPast

TickIsFresh ==
    /\ todo # {} => Rooms \ watched \subseteq deserted
    /\ look # "viewers" => todo # {} /\ Looked \in deserted
    /\ look = "save" => copy[Closer].room = Looked /\ copy[Closer].status = "finished"

RoomsInv ==
    /\ RoomsTypeOK
    /\ TableInv
    /\ TickIsFresh

-----------------------------------------------------------------------------
(* Facts about the operators.                                               *)

(* Max returns the last of a set of positions.                               *)
LEMMA MaxIsLast ==
    ASSUME NEW n \in Nat, NEW S \in SUBSET (1..n), S # {}
    PROVE  Max(S) \in S /\ \A i \in S : i <= Max(S)
<1> DEFINE R == {ss \in Nat \X Nat : ss[1] < ss[2]}
<1> DEFINE T == {m \in Nat : n - m \in S}
<1>1. OpToRel(<, Nat) = R
    BY Zenon DEF OpToRel
<1>2. IsWellFoundedOn(R, Nat)
    BY <1>1, NatLessThanWellFounded
<1>3. \A i, k \in Nat : i < k => <<i, k>> \in R
    OBVIOUS
<1> HIDE DEF R
<1>4. T \subseteq Nat /\ T # {}
    <2>1. PICK i \in S : i \in 1..n
        OBVIOUS
    <2>2. n - i \in Nat /\ n - (n - i) = i
        BY <2>1
    <2> QED BY <2>1, <2>2
<1> HIDE DEF T
<1>5. PICK m \in T : \A k \in T : ~(<<k, m>> \in R)
    BY <1>2, <1>4, WFMin
<1>6. n - m \in S
    BY DEF T
<1>7. ASSUME NEW i \in S PROVE i <= n - m
    <2>1. i \in 1..n /\ m \in Nat /\ n - i \in Nat /\ n - (n - i) = i
        BY <1>4
    <2>2. n - i \in T
        BY <2>1 DEF T
    <2>3. ~(n - i < m)
        BY <1>3, <1>5, <2>1, <2>2
    <2> QED BY <2>1, <2>3
<1> QED BY <1>6, <1>7 DEF Max

(* list_live takes at most RoomsPerTick rooms: of two rooms on the list the    *)
(* younger one has fewer before it.                                          *)
LEMMA ListIsBounded ==
    ASSUME opened \in Seq(Rooms)
    PROVE  Newest \subseteq DOMAIN opened /\ Cardinality(Newest) <= RoomsPerTick
<1> DEFINE Before(i) == {j \in Live : j > i}
<1> DEFINE f == [i \in Newest |-> Cardinality(Before(i))]
<1>1. Newest \subseteq Live /\ Live \subseteq 1..Len(opened) /\ Len(opened) \in Nat
    BY DEF Newest, Live
<1>2. \A i \in Live : IsFiniteSet(Before(i)) /\ Cardinality(Before(i)) \in Nat
    <2> TAKE i \in Live
    <2> HIDE DEF f
    <2>1. Before(i) \in SUBSET (1..Len(opened))
        BY <1>1
    <2>2. IsFiniteSet(1..Len(opened))
        BY <1>1, FS_Interval
    <2> HIDE DEF Before
    <2>3. IsFiniteSet(Before(i))
        BY <2>1, <2>2, FS_Subset
    <2> QED BY <2>3, FS_CardinalityType
<1>3. ASSUME NEW i \in Newest, NEW k \in Newest, i < k
      PROVE  f[k] < f[i]
    <2>1. i \in Live /\ k \in Live /\ i \in Nat /\ k \in Nat
        BY <1>1
    <2>2. Before(k) \in SUBSET Before(i)
        <3>1. \A j \in Before(k) : j > i
            BY <1>1, <1>3, <2>1
        <3> QED BY <3>1
    <2>3. Before(k) # Before(i)
        BY <1>3, <2>1
    <2> HIDE DEF Before
    <2>4. Cardinality(Before(k)) <= Cardinality(Before(i))
          /\ Cardinality(Before(k)) # Cardinality(Before(i))
        BY <1>2, <2>1, <2>2, <2>3, FS_Subset
    <2> QED BY <1>2, <2>1, <2>4
<1>4. f \in [Newest -> 0..(RoomsPerTick - 1)]
    <2>1. \A i \in Newest : f[i] \in Nat /\ f[i] < RoomsPerTick
        BY <1>1, <1>2 DEF Newest
    <2> HIDE DEF f
    <2>2. f = [i \in Newest |-> f[i]]
        BY DEF f
    <2> QED BY <2>1, <2>2, RoomsAssumption
<1>5. f \in Injection(Newest, 0..(RoomsPerTick - 1))
    <2>1. ASSUME NEW i \in Newest, NEW k \in Newest, f[i] = f[k] PROVE i = k
        <3>1. i \in Nat /\ k \in Nat /\ f[i] \in Nat /\ f[k] \in Nat
            BY <1>1, <1>4, RoomsAssumption
        <3> HIDE DEF f
        <3>2. ~(i < k) /\ ~(k < i)
            BY <1>3, <2>1, <3>1
        <3> QED BY <3>1, <3>2
    <2> HIDE DEF f
    <2> QED BY <1>4, <2>1 DEF Injection, IsInjective
<1>6. /\ IsFiniteSet(0..(RoomsPerTick - 1))
      /\ Cardinality(0..(RoomsPerTick - 1)) = RoomsPerTick
    BY FS_Interval, RoomsAssumption
<1> QED BY <1>1, <1>5, <1>6, FS_Injection

(* The room the closer looks at is one of the tick's.                         *)
LEMMA LookedAt ==
    ASSUME RoomsTypeOK, todo # {}
    PROVE  Max(todo) \in todo /\ Max(todo) \in DOMAIN opened /\ Looked \in ToSet(opened)
<1>1. /\ Len(opened) \in Nat /\ DOMAIN opened = 1..Len(opened)
      /\ todo \in SUBSET (1..Len(opened))
    BY DEF RoomsTypeOK
<1>2. Max(todo) \in todo
    BY <1>1, MaxIsLast
<1> QED BY <1>1, <1>2 DEF Looked, ToSet

(* One room less to look at.                                                 *)
LEMMA FewerToLookAt ==
    ASSUME RoomsTypeOK, NextRoom
    PROVE  todo' \subseteq DOMAIN opened /\ Cardinality(todo') <= RoomsPerTick
<1>1. IsFiniteSet(todo)
    <2>1. todo \in SUBSET (1..Len(opened)) /\ IsFiniteSet(1..Len(opened))
        BY FS_Interval DEF RoomsTypeOK
    <2> QED BY <2>1, FS_Subset
<1>2. /\ Cardinality(todo) \in Nat /\ Cardinality(todo') \in Nat
      /\ Cardinality(todo') <= Cardinality(todo)
    <2>1. /\ IsFiniteSet(todo') /\ Cardinality(todo) \in Nat
          /\ Cardinality(todo') \in {Cardinality(todo), Cardinality(todo) - 1}
        BY <1>1, FS_RemoveElement, FS_CardinalityType DEF NextRoom
    <2>2. Cardinality(todo') \in Nat
        BY <2>1, FS_CardinalityType
    <2> QED BY <2>1, <2>2
<1> QED BY <1>2, RoomsAssumption DEF NextRoom, RoomsTypeOK

-----------------------------------------------------------------------------

LEMMA RoomsInitInv == RoomsInit => RoomsInv
<1> SUFFICES ASSUME RoomsInit PROVE RoomsInv
    OBVIOUS
<1> USE DEF RoomsInit
<1>1. ToSet(opened) = {}
    BY DEF ToSet
<1>2. RoomsTypeOK
    BY <1>1, FS_EmptySet, RoomsAssumption
       DEF RoomsTypeOK, IsInjective, NoCopy, Copy, Statuses
<1>3. TableInv /\ TickIsFresh
    BY <1>1 DEF TableInv, OneLiveRoom, PendingHasNoEnd, UnopenedIsPending, CopyIsWhole,
                RowIsPast, TickIsFresh
<1> QED BY <1>2, <1>3 DEF RoomsInv

LEMMA OpenInv ==
    ASSUME RoomsInv, NEW r \in Rooms, Open(r)
    PROVE  RoomsInv'
<1> USE DEF RoomsInv, TableInv, Open, copyVars, tickVars, airVars
<1>1. /\ opened \in Seq(Rooms) /\ opened' \in Seq(Rooms)
      /\ DOMAIN opened \subseteq DOMAIN opened'
      /\ \A i \in DOMAIN opened : opened'[i] = opened[i]
      /\ DOMAIN opened' = DOMAIN opened \cup {Len(opened) + 1}
      /\ opened'[Len(opened) + 1] = r
    BY DEF RoomsTypeOK
<1>2. ToSet(opened') = ToSet(opened) \cup {r}
    BY <1>1 DEF ToSet
<1>3. IsInjective(opened')
    BY <1>1 DEF RoomsTypeOK, IsInjective, ToSet
<1>4. RoomsTypeOK'
    BY <1>1, <1>2, <1>3 DEF RoomsTypeOK
<1>5. OneLiveRoom' /\ PendingHasNoEnd' /\ UnopenedIsPending'
    BY <1>2 DEF OneLiveRoom, PendingHasNoEnd, UnopenedIsPending
<1>6. CopyIsWhole' /\ RowIsPast'
    BY <1>2 DEF CopyIsWhole, RowIsPast
<1>7. TickIsFresh'
    <2>1. todo # {} => Looked' = Looked
        BY <1>1, LookedAt DEF Looked
    <2> QED BY <2>1 DEF TickIsFresh
<1> QED BY <1>4, <1>5, <1>6, <1>7

(* Somebody reads a room to change it.                                       *)
LEMMA ReadKeeps ==
    ASSUME RoomsInv, NEW c \in Staff \cup {Closer}, NEW r, NEW to \in {"live", "finished"},
           Read(c, r, to), UNCHANGED tableVars
    PROVE  /\ copy' \in [Staff \cup {Closer} -> Copy] /\ row' = row
           /\ copy'[c] = Moved(r, to, c) /\ copy'[c] # NoCopy
           /\ \A d \in (Staff \cup {Closer}) \ {c} : copy'[d] = copy[d]
           /\ TableInv'
<1> USE DEF RoomsInv, TableInv, tableVars
<1>1. r \in ToSet(opened) /\ ToSet(opened) \subseteq Rooms /\ r # Nobody /\ r \in Rooms
    BY RoomsAssumption DEF Read, RoomsTypeOK
<1>2. /\ closedBy[r] \in Staff \cup {Closer, Nobody}
      /\ to = "live" => closedBy[r] = Nobody
    BY <1>1, RoomsAssumption DEF Read, Allowed, RoomsTypeOK, PendingHasNoEnd
<1>3. Moved(r, to, c) \in Copy /\ Moved(r, to, c) # NoCopy
    BY <1>1, <1>2 DEF Moved, Copy, NoCopy, Statuses
<1>4. copy' = [copy EXCEPT ![c] = Moved(r, to, c)] /\ row' = row
    BY DEF Read
<1>5. /\ copy' \in [Staff \cup {Closer} -> Copy]
      /\ copy'[c] = Moved(r, to, c)
      /\ \A d \in (Staff \cup {Closer}) \ {c} : copy'[d] = copy[d]
    BY <1>3, <1>4 DEF RoomsTypeOK
<1>6. CopyIsWhole'
    <2> SUFFICES ASSUME NEW d \in Staff \cup {Closer}, copy'[d] # NoCopy
                 PROVE  /\ copy'[d].room \in ToSet(opened) /\ copy'[d].room # Nobody
                        /\ copy'[d].status = "live" => copy'[d].closedBy = Nobody
                        /\ copy'[d].status = "finished" => copy'[d].closedBy = d
                        /\ copy'[d].status # "pending"
        BY DEF CopyIsWhole
    <2>1. CASE d = c
        BY <1>1, <1>2, <1>5, <2>1 DEF Moved
    <2>2. CASE d # c
        BY <1>5, <2>2 DEF CopyIsWhole
    <2> QED BY <2>1, <2>2
<1>7. RowIsPast'
    <2>1. row[c] = NoRow
        BY DEF Read, RoomsTypeOK
    <2> QED BY <1>4, <1>5, <2>1 DEF RowIsPast
<1>8. OneLiveRoom' /\ PendingHasNoEnd' /\ UnopenedIsPending'
    BY DEF OneLiveRoom, PendingHasNoEnd, UnopenedIsPending
<1> QED BY <1>3, <1>4, <1>5, <1>6, <1>7, <1>8

(* The SELECT of a save.                                                     *)
LEMMA ReadAgainKeeps ==
    ASSUME RoomsInv, NEW c \in Staff \cup {Closer}, ReadAgain(c)
    PROVE  /\ row' \in [Staff \cup {Closer} -> Row \cup {NoRow}]
           /\ \A d \in Staff \cup {Closer} : row'[d] # NoRow => copy[d] # NoCopy
           /\ TableInv'
<1> USE DEF RoomsInv, TableInv, tableVars
<1> DEFINE now == [status |-> status[copy[c].room], closedBy |-> closedBy[copy[c].room]]
<1>1. copy[c] # NoCopy /\ copy[c].room \in Rooms
    BY DEF ReadAgain, CopyIsWhole, RoomsTypeOK
<1>2. now \in Row
    BY <1>1 DEF Row, RoomsTypeOK
<1>3. row' = [row EXCEPT ![c] = now] /\ UNCHANGED <<tableVars, copy>>
    BY DEF ReadAgain
<1>4. /\ row' \in [Staff \cup {Closer} -> Row \cup {NoRow}]
      /\ row'[c] = now
      /\ \A d \in (Staff \cup {Closer}) \ {c} : row'[d] = row[d]
    BY <1>2, <1>3 DEF RoomsTypeOK
<1>5. RowIsPast'
    <2> SUFFICES ASSUME NEW d \in Staff \cup {Closer}, row'[d] # NoRow,
                        row'[d].status # "pending"
                 PROVE  status[copy[d].room] # "pending"
        BY <1>3 DEF RowIsPast
    <2> QED BY <1>4 DEF RowIsPast
<1>6. CopyIsWhole' /\ OneLiveRoom' /\ PendingHasNoEnd' /\ UnopenedIsPending'
    BY <1>3 DEF CopyIsWhole, OneLiveRoom, PendingHasNoEnd, UnopenedIsPending
<1> QED BY <1>1, <1>4, <1>5, <1>6 DEF RoomsTypeOK

(* The flush of a save: the columns that differ, or the unique index refuses. *)
LEMMA SaveKeeps ==
    ASSUME RoomsInv, NEW c \in Staff \cup {Closer}, Save(c)
    PROVE  /\ status' \in [Rooms -> Statuses]
           /\ closedBy' \in [Rooms -> Staff \cup {Closer, Nobody}]
           /\ copy' \in [Staff \cup {Closer} -> Copy] /\ opened' = opened
           /\ row' \in [Staff \cup {Closer} -> Row \cup {NoRow}]
           /\ \A d \in Staff \cup {Closer} : row'[d] # NoRow => copy'[d] # NoCopy
           /\ copy'[c] = NoCopy
           /\ \A d \in (Staff \cup {Closer}) \ {c} : copy'[d] = copy[d]
           /\ \A r \in Rooms : closedBy'[r] # closedBy[r]
                    => r = copy[c].room /\ closedBy'[r] \in {Nobody, c}
           /\ TableInv'
<1> USE DEF RoomsInv, TableInv, tableVars
<1> DEFINE new == copy[c]
<1>0. new # NoCopy /\ row[c] \in Row
    BY DEF Save, RoomsTypeOK
<1>1. /\ new \in Copy /\ new # NoCopy
      /\ new.room \in ToSet(opened) /\ ToSet(opened) \subseteq Rooms /\ new.room # Nobody
      /\ new.status = "live" => new.closedBy = Nobody
      /\ new.status = "finished" => new.closedBy = c
      /\ new.status \in {"live", "finished"}
      /\ new.room \in Rooms
      /\ c # Nobody
    BY <1>0, RoomsAssumption DEF RoomsTypeOK, CopyIsWhole, Copy, Statuses
<1>2. /\ copy' = [copy EXCEPT ![c] = NoCopy] /\ row' = [row EXCEPT ![c] = NoRow]
      /\ opened' = opened
    BY DEF Save
<1>3. NoCopy \in Copy
    BY DEF NoCopy, Copy, Statuses
<1>4. /\ copy' \in [Staff \cup {Closer} -> Copy] /\ copy'[c] = NoCopy
      /\ row' \in [Staff \cup {Closer} -> Row \cup {NoRow}] /\ row'[c] = NoRow
      /\ \A d \in (Staff \cup {Closer}) \ {c} : copy'[d] = copy[d] /\ row'[d] = row[d]
    BY <1>2, <1>3 DEF RoomsTypeOK
<1>5. CopyIsWhole' /\ \A d \in Staff \cup {Closer} : row'[d] # NoRow => copy'[d] # NoCopy
    BY <1>2, <1>4 DEF CopyIsWhole, RoomsTypeOK
<1>6. CASE UNCHANGED tableVars
    <2>1. OneLiveRoom' /\ PendingHasNoEnd' /\ UnopenedIsPending'
        BY <1>6 DEF OneLiveRoom, PendingHasNoEnd, UnopenedIsPending
    <2>2. RowIsPast'
        BY <1>4, <1>6 DEF RowIsPast
    <2>3. status \in [Rooms -> Statuses] /\ closedBy \in [Rooms -> Staff \cup {Closer, Nobody}]
        BY DEF RoomsTypeOK
    <2> QED BY <1>4, <1>5, <1>6, <2>1, <2>2, <2>3
<1>7. CASE /\ ~(StatusAfter(c) = "live" /\ OnAir(new.room))
           /\ status' = [status EXCEPT ![new.room] = StatusAfter(c)]
           /\ closedBy' = [closedBy EXCEPT ![new.room] = EndAfter(c)]
    <2>1. StatusAfter(c) \in Statuses \ {"pending"}
        <3>1. CASE new.status # row[c].status
            BY <1>1, <3>1 DEF StatusAfter, Statuses
        <3>2. CASE new.status = row[c].status
            <4>1. row[c] # NoRow /\ row[c].status # "pending"
                BY <1>1, <3>2 DEF Save
            <4>2. status[new.room] # "pending"
                BY <4>1 DEF RowIsPast
            <4> QED BY <1>1, <3>2, <4>2 DEF StatusAfter, RoomsTypeOK
        <3> QED BY <3>1, <3>2
    <2>2. /\ EndAfter(c) \in Staff \cup {Closer, Nobody}
          /\ EndAfter(c) # closedBy[new.room] => EndAfter(c) \in {Nobody, c}
        BY <1>1 DEF EndAfter, RoomsTypeOK
    <2>3. /\ status' \in [Rooms -> Statuses]
          /\ closedBy' \in [Rooms -> Staff \cup {Closer, Nobody}]
          /\ status'[new.room] = StatusAfter(c) /\ closedBy'[new.room] = EndAfter(c)
          /\ \A r \in Rooms \ {new.room} : status'[r] = status[r] /\ closedBy'[r] = closedBy[r]
        BY <1>1, <1>7, <2>1, <2>2 DEF RoomsTypeOK
    <2>4. OneLiveRoom'
        BY <1>1, <1>2, <1>7, <2>3 DEF OneLiveRoom, OnAir
    <2>5. PendingHasNoEnd' /\ UnopenedIsPending'
        BY <1>1, <1>2, <2>1, <2>3 DEF PendingHasNoEnd, UnopenedIsPending
    <2>6. RowIsPast'
        <3> SUFFICES ASSUME NEW d \in Staff \cup {Closer}, row'[d] # NoRow,
                            row'[d].status # "pending"
                     PROVE  status'[copy'[d].room] # "pending"
            BY DEF RowIsPast
        <3>1. d # c /\ copy'[d] = copy[d] /\ row'[d] = row[d]
            BY <1>4
        <3>2. status[copy[d].room] # "pending" /\ copy[d].room \in Rooms
            BY <3>1 DEF RowIsPast, RoomsTypeOK, CopyIsWhole
        <3> QED BY <2>1, <2>3, <3>1, <3>2
    <2>7. \A r \in Rooms : closedBy'[r] # closedBy[r]
                => r = copy[c].room /\ closedBy'[r] \in {Nobody, c}
        BY <2>2, <2>3
    <2> QED BY <1>1, <1>2, <1>4, <1>5, <2>3, <2>4, <2>5, <2>6, <2>7
<1> QED BY <1>6, <1>7 DEF Save

(* Staff.  Neither a reading nor a save of theirs touches the closer's tick.  *)
LEMMA StaffInv ==
    ASSUME RoomsInv, NEW c \in Staff,
           \/ \E r \in Rooms : StaffReads(c, r, "live") \/ StaffReads(c, r, "finished")
           \/ StaffSaves(c)
    PROVE  RoomsInv'
<1> USE DEF tickVars, airVars
<1>1. CASE \E r \in Rooms : StaffReads(c, r, "live") \/ StaffReads(c, r, "finished")
    <2>1. PICK r \in Rooms, to \in {"live", "finished"} : StaffReads(c, r, to)
        BY <1>1
    <2>2. /\ copy' \in [Staff \cup {Closer} -> Copy] /\ row' = row
          /\ copy'[c] # NoCopy
          /\ \A d \in (Staff \cup {Closer}) \ {c} : copy'[d] = copy[d]
          /\ TableInv'
        BY <2>1, ReadKeeps DEF StaffReads
    <2>3. copy'[Closer] = copy[Closer]
        BY <2>2, RoomsAssumption
    <2>4. RoomsTypeOK'
        BY <2>1, <2>2, <2>3
           DEF RoomsInv, RoomsTypeOK, StaffReads, tableVars, CopyIsWhole, TableInv
    <2>5. TickIsFresh'
        BY <2>1, <2>3 DEF RoomsInv, TickIsFresh, StaffReads, tableVars, Looked
    <2> QED BY <2>2, <2>4, <2>5 DEF RoomsInv
<1>2. CASE ReadAgain(c) /\ UNCHANGED <<tickVars, airVars>>
    <2>1. /\ row' \in [Staff \cup {Closer} -> Row \cup {NoRow}]
          /\ \A d \in Staff \cup {Closer} : row'[d] # NoRow => copy[d] # NoCopy
          /\ TableInv'
        BY <1>2, ReadAgainKeeps
    <2>2. UNCHANGED <<opened, status, closedBy, copy>>
        BY <1>2 DEF ReadAgain, tableVars
    <2>3. RoomsTypeOK'
        BY <1>2, <2>1, <2>2 DEF RoomsInv, RoomsTypeOK
    <2>4. TickIsFresh'
        BY <1>2, <2>2 DEF RoomsInv, TickIsFresh, Looked
    <2> QED BY <2>1, <2>3, <2>4 DEF RoomsInv
<1>3. CASE Save(c) /\ UNCHANGED <<tickVars, airVars>>
    <2>1. /\ status' \in [Rooms -> Statuses]
          /\ closedBy' \in [Rooms -> Staff \cup {Closer, Nobody}]
          /\ copy' \in [Staff \cup {Closer} -> Copy] /\ opened' = opened
          /\ row' \in [Staff \cup {Closer} -> Row \cup {NoRow}]
          /\ \A d \in Staff \cup {Closer} : row'[d] # NoRow => copy'[d] # NoCopy
          /\ \A d \in (Staff \cup {Closer}) \ {c} : copy'[d] = copy[d]
          /\ TableInv'
        BY <1>3, SaveKeeps
    <2>2. copy'[Closer] = copy[Closer]
        BY <2>1, RoomsAssumption
    <2>3. RoomsTypeOK'
        BY <1>3, <2>1, <2>2 DEF RoomsInv, RoomsTypeOK, CopyIsWhole, TableInv
    <2>4. TickIsFresh'
        BY <1>3, <2>1, <2>2 DEF RoomsInv, TickIsFresh, Looked
    <2> QED BY <2>1, <2>3, <2>4 DEF RoomsInv
<1> QED BY <1>1, <1>2, <1>3 DEF StaffSaves

(* What a step that leaves the table and the copies alone keeps.              *)
LEMMA QuietKeeps ==
    ASSUME RoomsInv, UNCHANGED <<tableVars, copyVars>>
    PROVE  TableInv'
BY DEF RoomsInv, TableInv, tableVars, copyVars, CopyIsWhole, OneLiveRoom, PendingHasNoEnd,
       UnopenedIsPending, RowIsPast

(* The closer goes through the rooms of its tick.                            *)
LEMMA CloserLooksInv ==
    ASSUME RoomsInv, List \/ CheckViewers \/ CheckSilence
    PROVE  RoomsInv'
<1> USE DEF airVars, copyVars
<1>1. TableInv'
    BY QuietKeeps DEF List, CheckViewers, CheckSilence
<1>2. CASE List
    <2>1. todo' \subseteq DOMAIN opened /\ Cardinality(todo') <= RoomsPerTick
        BY <1>2, ListIsBounded DEF List, RoomsInv, RoomsTypeOK
    <2>2. RoomsTypeOK' /\ TickIsFresh'
        BY <1>2, <2>1 DEF RoomsInv, RoomsTypeOK, TickIsFresh, List, tableVars
    <2> QED BY <1>1, <2>2 DEF RoomsInv
<1>3. CASE (CheckViewers \/ CheckSilence) /\ NextRoom
    <2>1. todo' \subseteq DOMAIN opened /\ Cardinality(todo') <= RoomsPerTick
        BY <1>3, FewerToLookAt DEF RoomsInv
    <2>2. RoomsTypeOK' /\ TickIsFresh'
        BY <1>3, <2>1 DEF RoomsInv, RoomsTypeOK, TickIsFresh, NextRoom, CheckViewers,
                          CheckSilence, tableVars
    <2> QED BY <1>1, <2>2 DEF RoomsInv
<1>4. CASE CheckViewers /\ Looked \notin watched /\ LookAt("silence")
    <2>1. Looked \in ToSet(opened) /\ ToSet(opened) \subseteq Rooms
        BY <1>4, LookedAt DEF CheckViewers, RoomsInv, RoomsTypeOK
    <2>2. Looked' = Looked
        BY <1>4 DEF Looked, LookAt, CheckViewers, tableVars
    <2>3. RoomsTypeOK' /\ TickIsFresh'
        BY <1>4, <2>1, <2>2 DEF RoomsInv, RoomsTypeOK, TickIsFresh, LookAt, CheckViewers,
                                tableVars
    <2> QED BY <1>1, <2>3 DEF RoomsInv
<1>5. CASE CheckSilence /\ LookAt("read")
    <2>1. Looked' = Looked
        BY <1>5 DEF Looked, LookAt, CheckSilence, tableVars
    <2>2. RoomsTypeOK' /\ TickIsFresh'
        BY <1>5, <2>1 DEF RoomsInv, RoomsTypeOK, TickIsFresh, LookAt, CheckSilence, tableVars
    <2> QED BY <1>1, <2>2 DEF RoomsInv
<1> QED BY <1>2, <1>3, <1>4, <1>5 DEF CheckViewers, CheckSilence

LEMMA CloserReadsInv ==
    ASSUME RoomsInv, CloserReads
    PROVE  RoomsInv'
<1> USE DEF airVars, copyVars
<1>1. CASE Read(Closer, Looked, "finished") /\ LookAt("save")
    <2>1. /\ copy' \in [Staff \cup {Closer} -> Copy] /\ row' = row
          /\ copy'[Closer] = Moved(Looked, "finished", Closer) /\ copy'[Closer] # NoCopy
          /\ \A d \in (Staff \cup {Closer}) \ {Closer} : copy'[d] = copy[d]
          /\ TableInv'
        BY <1>1, ReadKeeps DEF CloserReads
    <2>2. Looked' = Looked
        BY <1>1 DEF Looked, LookAt, CloserReads, tableVars
    <2>3. RoomsTypeOK'
        BY <1>1, <2>1
           DEF RoomsInv, RoomsTypeOK, CloserReads, LookAt, tableVars, CopyIsWhole, TableInv
    <2>4. TickIsFresh'
        BY <1>1, <2>1, <2>2 DEF RoomsInv, TickIsFresh, CloserReads, LookAt, Moved
    <2> QED BY <2>1, <2>3, <2>4 DEF RoomsInv
<1>2. CASE NextRoom /\ UNCHANGED copyVars
    <2>1. TableInv'
        BY <1>2, QuietKeeps DEF CloserReads
    <2>2. todo' \subseteq DOMAIN opened /\ Cardinality(todo') <= RoomsPerTick
        BY <1>2, FewerToLookAt DEF RoomsInv
    <2>3. RoomsTypeOK' /\ TickIsFresh'
        BY <1>2, <2>2 DEF RoomsInv, RoomsTypeOK, TickIsFresh, NextRoom, CloserReads, tableVars
    <2> QED BY <2>1, <2>3 DEF RoomsInv
<1> QED BY <1>1, <1>2 DEF CloserReads

LEMMA CloserSavesInv ==
    ASSUME RoomsInv, CloserSaves
    PROVE  RoomsInv'
<1>1. CASE ReadAgain(Closer) /\ UNCHANGED tickVars
    <2>1. /\ row' \in [Staff \cup {Closer} -> Row \cup {NoRow}]
          /\ \A d \in Staff \cup {Closer} : row'[d] # NoRow => copy[d] # NoCopy
          /\ TableInv'
        BY <1>1, ReadAgainKeeps
    <2>2. UNCHANGED <<opened, status, closedBy, copy, todo, look, watched, deserted, silent>>
        BY <1>1 DEF CloserSaves, ReadAgain, tableVars, tickVars, airVars
    <2>3. RoomsTypeOK'
        BY <2>1, <2>2 DEF RoomsInv, RoomsTypeOK
    <2>4. TickIsFresh'
        BY <2>2 DEF RoomsInv, TickIsFresh, Looked
    <2> QED BY <2>1, <2>3, <2>4 DEF RoomsInv
<1>2. CASE Save(Closer) /\ NextRoom
    <2>1. /\ status' \in [Rooms -> Statuses]
          /\ closedBy' \in [Rooms -> Staff \cup {Closer, Nobody}]
          /\ copy' \in [Staff \cup {Closer} -> Copy] /\ opened' = opened
          /\ row' \in [Staff \cup {Closer} -> Row \cup {NoRow}]
          /\ \A d \in Staff \cup {Closer} : row'[d] # NoRow => copy'[d] # NoCopy
          /\ copy'[Closer] = NoCopy
          /\ \A d \in (Staff \cup {Closer}) \ {Closer} : copy'[d] = copy[d]
          /\ TableInv'
        BY <1>2, SaveKeeps
    <2>2. todo' \subseteq DOMAIN opened /\ Cardinality(todo') <= RoomsPerTick
        BY <1>2, FewerToLookAt DEF RoomsInv
    <2>3. RoomsTypeOK'
        BY <1>2, <2>1, <2>2 DEF RoomsInv, RoomsTypeOK, NextRoom, CopyIsWhole, TableInv
    <2>4. TickIsFresh'
        BY <1>2 DEF RoomsInv, TickIsFresh, CloserSaves, NextRoom, airVars
    <2> QED BY <2>1, <2>3, <2>4 DEF RoomsInv
<1> QED BY <1>1, <1>2 DEF CloserSaves

LEMMA AirInv ==
    ASSUME RoomsInv, NEW r \in Rooms, Watch(r) \/ Hush(r)
    PROVE  RoomsInv'
<1> USE DEF Watch, Hush, tickVars, copyVars
<1>1. TableInv'
    BY QuietKeeps
<1>2. RoomsTypeOK' /\ Looked' = Looked
    BY DEF RoomsInv, RoomsTypeOK, tableVars, Looked
<1>3. TickIsFresh'
    BY <1>2 DEF RoomsInv, TickIsFresh
<1> QED BY <1>1, <1>2, <1>3 DEF RoomsInv

LEMMA RoomsNextInv == RoomsInv /\ [RoomsNext]_roomVars => RoomsInv'
<1> SUFFICES ASSUME RoomsInv, [RoomsNext]_roomVars PROVE RoomsInv'
    OBVIOUS
<1>1. CASE UNCHANGED roomVars
    <2>1. TableInv'
        BY <1>1, QuietKeeps DEF roomVars
    <2>2. RoomsTypeOK' /\ TickIsFresh'
        BY <1>1 DEF RoomsInv, RoomsTypeOK, TickIsFresh, Looked, roomVars, tableVars, tickVars,
                    airVars, copyVars
    <2> QED BY <2>1, <2>2 DEF RoomsInv
<1> QED BY <1>1, OpenInv, AirInv, StaffInv, CloserLooksInv, CloserReadsInv, CloserSavesInv
           DEF RoomsNext, CloserStep

LEMMA RoomsInvariant == RoomsSpec => []RoomsInv
BY RoomsInitInv, RoomsNextInv, PTL DEF RoomsSpec

-----------------------------------------------------------------------------

(* The rows, the copies and the tick of the closer keep their ranges; a tick  *)
(* never takes more than RoomsPerTick rooms.                                 *)
THEOREM RoomsTypeCorrect == RoomsSpec => []RoomsTypeOK
BY RoomsInvariant, PTL DEF RoomsInv

(* A persona is on air in one room at most, however many requests to start    *)
(* rooms overlap: the partial unique index of persistence/model.py:37.        *)
THEOREM OnePersonaOneRoom == RoomsSpec => []OneLiveRoom
BY RoomsInvariant, PTL DEF RoomsInv, TableInv

(* abandon.py:8-11: only the closer's own save writes its name, and it saves   *)
(* only a room it saw without viewers in this tick.                          *)
THEOREM WatchedRoomsStayOpen == RoomsSpec => ViewersKeepRoomOpen
<1>1. RoomsInv /\ [RoomsNext]_roomVars
        => [\A r \in Rooms : closedBy[r] # Closer /\ closedBy'[r] = Closer => r \in deserted]_roomVars
    <2> SUFFICES ASSUME RoomsInv, RoomsNext, NEW r \in Rooms,
                        closedBy[r] # Closer, closedBy'[r] = Closer
                 PROVE  r \in deserted
        OBVIOUS
    <2>1. CASE CloserSaves /\ Save(Closer)
        <3>1. r = copy[Closer].room
            BY <2>1, SaveKeeps
        <3> QED BY <2>1, <3>1 DEF CloserSaves, RoomsInv, TickIsFresh
    <2>2. ASSUME NEW c \in Staff, Save(c) PROVE FALSE
        <3>1. closedBy'[r] \in {Nobody, c}
            BY <2>2, SaveKeeps
        <3> QED BY <3>1, RoomsAssumption
    <2>3. CASE UNCHANGED closedBy
        BY <2>3
    <2>4. (CloserSaves /\ Save(Closer)) \/ (\E c \in Staff : Save(c)) \/ UNCHANGED closedBy
        BY DEF RoomsNext, CloserStep, Open, Watch, Hush, StaffReads, List, CheckViewers,
               CheckSilence, CloserReads, CloserSaves, StaffSaves, ReadAgain, tableVars
    <2> QED BY <2>1, <2>2, <2>3, <2>4
<1> QED BY <1>1, RoomsInvariant, PTL DEF RoomsSpec, ViewersKeepRoomOpen
=============================================================================
