------------------------ MODULE MCFlightDeclarations ------------------------
(* Small instances of FlightDeclarations.                                  *)
EXTENDS FlightDeclarations, SequencesExt, TLC

CONSTANTS d1, d2, d3, d4, r1, r2

MCRequest == {r1, r2}

(* A bulk of three and a single declaration: d1 ends when d2 starts, d2    *)
(* and d3 overlap, and the single d4 overlaps d1.                          *)
BulkDecl == {d1, d2, d3, d4}
BulkItems == r1 :> <<d1, d2, d3>> @@ r2 :> <<d4>>
BulkStart == d1 :> 0 @@ d2 :> 3 @@ d3 :> 4 @@ d4 :> 1
BulkEnd == d1 :> 3 @@ d2 :> 5 @@ d3 :> 6 @@ d4 :> 2

(* Two single declarations and one created directly: d1 ends when d3       *)
(* starts (a conflict for the closed windows of the default engine) and d2 *)
(* is later than both.                                                     *)
PairDecl == {d1, d2, d3}
PairItems == r1 :> <<d1>> @@ r2 :> <<d2>>
PairStart == d1 :> 0 @@ d2 :> 6 @@ d3 :> 3
PairEnd == d1 :> 3 @@ d2 :> 8 @@ d3 :> 5

-----------------------------------------------------------------------------
(* The payloads of declarations: up to two features, a clock at 1, three   *)
(* units ahead allowed.                                                    *)

Payload == INSTANCE DeclarationPayload WITH TwoDays <- 3, None <- -7

Feature(valid, low, west, east) ==
  [valid |-> valid, low |-> low, high |-> 100, box |-> <<west, 0, east, 1>>]
Features == {Feature(TRUE, 10, 0, 2), Feature(TRUE, 20, 1, 4),
             Feature(FALSE, 10, 0, 2), Feature(TRUE, -7, 0, 2)}
Payloads == [fields : BOOLEAN, features : UNION {[1..n -> Features] : n \in 0..2},
             start : {0, 1, 4, 5}, end : {0, 1, 4, 5}, state : {-7, 0, 1, 5, 8}]
Rows == [start : 0..1, end : 0..1, state : 1..2, created : 1..2]

(* The row of a declaration covers all its features and no more than they  *)
(* reach, and each of its volumes is within it.  A payload that names its  *)
(* state is approved unless that is one of two, even where the state is    *)
(* not active, and one whose end is before its start is taken.  Each item  *)
(* of a bulk is judged on its own.  The pages make up the list, the page   *)
(* nought is the first again, and those past the end are empty.  A view is *)
(* judged alike whichever corner comes first.                              *)
ASSUME DeclarationsChecked ==
  /\ \A p \in Payloads : Payload!Created(p, 1) =>
       \A ussp \in BOOLEAN :
         LET r == Payload!RowOf(p, ussp) IN
         /\ \A i \in 1..4 : LET side == {v.outline[i] : v \in Range(r.volumes)} IN
              r.bounds[i] \in side /\ \A x \in side : IF i < 3 THEN r.bounds[i] <= x ELSE x <= r.bounds[i]
         /\ \A v \in Range(r.volumes) : v.start = p.start /\ v.end = p.end
         /\ p.state = -7 => (r.approved <=> r.state \in ActiveStates) /\ (ussp => ~r.approved)
         /\ p.state = 5 => r.approved /\ r.state \notin ActiveStates
  /\ \E p \in Payloads : Payload!Created(p, 1) /\ p.end < p.start
  /\ \A p, q \in [fields : BOOLEAN, features : {<<>>, <<Feature(TRUE, 10, 0, 2)>>},
                   start : {0, 4}, end : {1}, state : {1}] :
       LET b == Payload!Bulk(<<p, q, p>>, 1) IN
       /\ b.results = [k \in 1..3 |-> Payload!Created(IF k = 2 THEN q ELSE p, 1)]
       /\ b.submitted + b.failed = 3 /\ (b.code = 200 <=> b.submitted = 3)
  /\ \A n, size \in 1..4 :
       LET items == [k \in 1..n |-> k] IN
       /\ FlattenSeq([page \in 1..n |-> Payload!Page(items, page, size)]) = items
       /\ Payload!Page(items, 0, size) = Payload!Page(items, 1, size)
       /\ Payload!Page(items, n + 1, size) = <<>>
  /\ \A a, b, c \in Rows : \A states \in SUBSET (1..2) :
       LET l == Payload!Listed(<<a, b, c>>, 1, 1, states) IN
       /\ Range(l) = {r \in {a, b, c} : r.start = 1 /\ r.end <= 1 /\ (states = {} \/ r.state \in states)}
       /\ \A i, k \in DOMAIN l : i < k => l[i].created >= l[k].created
  /\ \A x, y \in {-181, -90, 0, 90, 180, 361} \X {-181, -90, 0, 90, 180, 361} :
       /\ Payload!ViewOk(x \o y) = Payload!ViewOk(y \o x)
       /\ Payload!ViewOk(x \o y) => ~Payload!ViewOk(x)
=============================================================================
