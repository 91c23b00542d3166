------------------------- MODULE DeclarationPayload -------------------------
(***************************************************************************)
(* What a flight declaration is made of before it is checked for conflicts *)
(* (services/flight_declarations_svc.py): which payloads are refused, the  *)
(* row of the others, the answer to a bulk, and the pages of the list.     *)
(* FlightDeclarations takes rows from here as given.                       *)
(*                                                                         *)
(* A payload is [fields : every required one is there and has its type,    *)
(* features, start, end, state : a number or None]; a feature is [valid :  *)
(* its geometry is, low, high : altitudes or None, box].  A box is         *)
(* <<west, south, east, north>>; times are those of one clock.             *)
(***************************************************************************)
EXTENDS Integers, Sequences, FiniteSets, SequencesExt, FiniteSetsExt

CONSTANTS
  TwoDays, \* the furthest ahead a declaration may start or end
  None     \* what is not in a payload

NotSubmitted == 0
Accepted == 1
Rejected == 8

\* A collection without features, an invalid geometry, an altitude missing.
GeoJsonOk(features) ==
  /\ features # <<>>
  /\ \A k \in DOMAIN features : /\ features[k].valid
                                /\ features[k].low # None
                                /\ features[k].high # None

\* Each of the two times on its own: which is first is not looked at.
DatesOk(start, end, now) == {start, end} \subseteq now..(now + TwoDays)

Bounds(features) ==
  LET side(i) == {features[k].box[i] : k \in DOMAIN features} IN
  <<Min(side(1)), Min(side(2)), Max(side(3)), Max(side(4))>>

\* One volume a feature, each for the whole time of the declaration.
Volumes(p) ==
  [k \in DOMAIN p.features |->
     [outline |-> p.features[k].box, lower |-> p.features[k].low,
      upper |-> p.features[k].high, start |-> p.start, end |-> p.end]]

\* Any state the payload names is taken, and decides whether it is approved.
StateOf(p, ussp) ==
  IF p.state # None THEN p.state ELSE IF ussp THEN NotSubmitted ELSE Accepted

RowOf(p, ussp) ==
  LET state == StateOf(p, ussp) IN
  [bounds |-> Bounds(p.features), volumes |-> Volumes(p), start |-> p.start,
   end |-> p.end, state |-> state, approved |-> state \notin {NotSubmitted, Rejected}]

Created(p, now) == p.fields /\ GeoJsonOk(p.features) /\ DatesOk(p.start, p.end, now)

\* A bulk is created item by item; the answer tells of each, at its place.
Bulk(items, now) ==
  LET results == [k \in DOMAIN items |-> Created(items[k], now)]
      failed == Cardinality({k \in DOMAIN items : ~results[k]}) IN
  [results |-> results, submitted |-> Len(items) - failed, failed |-> failed,
   code |-> IF failed = 0 THEN 200 ELSE 207]

-----------------------------------------------------------------------------
(* The list of the declarations: those whose time lies within the days     *)
(* asked for, latest created first.  No state asked for is every state.    *)

Listed(rows, from, to, states) ==
  SortSeq(SelectSeq(rows, LAMBDA r : /\ from <= r.start /\ r.end <= to
                                     /\ states = {} \/ r.state \in states),
          LAMBDA a, b : a.created > b.created)

Page(items, page, size) ==
  LET offset == Max({page - 1, 0}) * size IN
  SubSeq(items, offset + 1, Min({offset + size, Len(items)}))

-----------------------------------------------------------------------------
(* The view of the declarations of the network: a box that has four sides  *)
(* and lies on the earth, with the longitudes of one turn and a half.      *)

ViewOk(v) ==
  /\ Len(v) = 4
  /\ LET lat == {v[1], v[3]}
         lng == {v[2], v[4]} IN
     /\ -90 <= Min(lat) /\ Min(lat) < 90 /\ -90 < Max(lat) /\ Max(lat) <= 90
     /\ -180 <= Min(lng) /\ Min(lng) < 360 /\ -180 < Max(lng) /\ Max(lng) <= 360
=============================================================================
