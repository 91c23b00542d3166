----------------------------- MODULE MCRidTests -----------------------------
(* An instance: two tests, one of which has an incomplete entry.           *)
EXTENDS RidTests, SequencesExt

CONSTANTS t1, t2

MCTelemetry == [t \in {t1, t2} |-> IF t = t1 THEN <<TRUE, FALSE>> ELSE <<TRUE>>]

-----------------------------------------------------------------------------
(* Polls of two providers with up to two flights each, and boxes of a few  *)
(* metres with an obfuscation of two.                                      *)

Display == INSTANCE RidDisplay WITH Nobody <- "nobody"

Flights == [id : 1..2, details : {200, 404}, state : BOOLEAN, position : BOOLEAN]
Providers == [token : BOOLEAN, status : {200, 500},
              flights : UNION {[1..n -> Flights] : n \in 0..1}]
Sound(p) == p.token /\ \A f \in Range(p.flights) : f.position \/ ~f.state
Boxes == {<<0, 0, x, y>> : x, y \in 0..6}
Wide(b) == b[3] - b[1] >= 4
High(b) == b[4] - b[2] >= 4

(* A subscription is reported only when the DSS made one.  A poll without  *)
(* errors writes each flight that is heard of in each round, and a single  *)
(* bad answer of one provider loses what all of them said.  Details that   *)
(* were refused are asked for again, those that are known never.  A        *)
(* cluster holds its positions and the whole view, so it is never scaled;  *)
(* one that is too narrow both ways is extended in height alone.           *)
ASSUME DisplayChecked ==
  /\ \A audience \in BOOLEAN, token \in {"granted", "refused"}, code \in {200, 409} :
       LET s == Display!Subscribe(audience, token, code) IN
       s.created = (s.subscription # "nobody") /\ (s.created => s.asked)
  /\ \A p, q \in Providers : \A rounds \in 1..2 :
       LET o == Display!Poll({1}, <<p, q>>, rounds)
           said == {f \in Range((IF p.status = 200 THEN p.flights ELSE <<>>)
                                  \o (IF q.status = 200 THEN q.flights ELSE <<>>)) : f.state} IN
       /\ Sound(p) /\ Sound(q) => ~o.raised /\ Range(o.written) = {f.id : f \in said}
       /\ o.raised => o.written = <<>> /\ o.known = {1}
       /\ Len(o.written) % rounds = 0
       /\ 1 \in o.known
  /\ \A b \in Boxes :
       LET e == Display!Extend(b, 2, 15, 0) IN
       /\ High(b) /\ Wide(b) => e = b
       /\ High(e) /\ (Wide(e) <=> Wide(b) \/ High(b))
  /\ \A v \in Boxes : \A p, q \in (-1..1) \X {0, 7} :
       LET c == Display!ClusterBox(v, {p, q}) IN
       /\ \A x \in {p, q} : c[1] <= x[1] /\ x[1] <= c[3] /\ c[2] <= x[2] /\ x[2] <= c[4]
       /\ Display!Extend(c, 2, 15, v[3] * v[4]) \notin {<<"raised">>, <<"scaled">>}
=============================================================================
