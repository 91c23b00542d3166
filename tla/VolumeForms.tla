---------------------------- MODULE VolumeForms ----------------------------
(***************************************************************************)
(* The forms of a volume and what is read out of them: three readers of    *)
(* the stored form (clients/dss_scd_client.py, services/                   *)
(* flight_declarations_svc.py, services/conformance_svc.py) and the extent *)
(* of several volumes as two converters work it out.                       *)
(*                                                                         *)
(* A volume is [polygon : its vertices, circle : a box, lower, upper,      *)
(* start, end].  What a program object leaves out is None; stored, it is   *)
(* there as Null, and only a volume of others may lack it (None).  Raised  *)
(* stands for an error.                                                    *)
(***************************************************************************)
EXTENDS Integers, Sequences, FiniteSets, SequencesExt, FiniteSetsExt

CONSTANTS None, Null, Raised

Stored(v) ==
  [v EXCEPT !.polygon = IF v.polygon = None THEN Null ELSE v.polygon,
            !.circle = IF v.circle = None THEN Null ELSE v.circle]

CircleOf(v) == IF v.circle \in {None, Null} THEN None ELSE v.circle

\* A polygon that is there but Null is an error.
Parse(v) ==
  IF v.polygon = Null THEN Raised ELSE [v EXCEPT !.circle = CircleOf(v)]

\* The reader of the operational intents an operator sends.
ParseSent(v) ==
  [v EXCEPT !.polygon = IF v.polygon = Null THEN None ELSE v.polygon,
            !.circle = CircleOf(v)]

\* The reader of the conformance check leaves the last vertex out, which a
\* closed ring repeats; a polygon without vertices is an error.
Cast(v) ==
  IF v.polygon \in {Null, <<>>} THEN Raised
  ELSE [v EXCEPT !.polygon = IF v.polygon = None THEN None ELSE Front(v.polygon),
                 !.circle = CircleOf(v)]

-----------------------------------------------------------------------------
(* The extent of volumes.                                                  *)

Box(polygon) ==
  LET x == {p[1] : p \in Range(polygon)}
      y == {p[2] : p \in Range(polygon)} IN
  <<Min(x), Min(y), Max(x), Max(y)>>

\* Its polygon and its circle, where it has them: both when it has both.
Outlines(v) == (IF v.polygon = None THEN <<>> ELSE <<Box(v.polygon)>>)
                 \o (IF v.circle = None THEN <<>> ELSE <<v.circle>>)

Union(outlines) ==
  LET side(i) == {o[i] : o \in Range(outlines)} IN
  <<Min(side(1)), Min(side(2)), Max(side(3)), Max(side(4))>>

\* The converter keeps the outlines of earlier calls; altitudes and times are
\* those of the last.  Without volumes there is no least time: an error.
Convert(kept, volumes) ==
  IF volumes = <<>> THEN Raised
  ELSE [outlines |-> kept \o FlattenSeq([k \in DOMAIN volumes |-> Outlines(volumes[k])]),
        lower |-> Min({v.lower : v \in Range(volumes)}),
        upper |-> Max({v.upper : v \in Range(volumes)}),
        start |-> Min({v.start : v \in Range(volumes)}),
        end |-> Max({v.end : v \in Range(volumes)})]

\* What is stored with an intent that was submitted; the extremes are found
\* one volume after the other.
Composite(volumes) ==
  LET wider(e, v) == [lower |-> Min({e.lower, v.lower}), upper |-> Max({e.upper, v.upper}),
                      start |-> Min({e.start, v.start}), end |-> Max({e.end, v.end})]
      own(v) == [lower |-> v.lower, upper |-> v.upper, start |-> v.start, end |-> v.end] IN
  IF volumes = <<>> THEN Raised
  ELSE [bounds |-> Union(FlattenSeq([k \in DOMAIN volumes |-> Outlines(volumes[k])])),
        extremes |-> FoldLeft(wider, own(Head(volumes)), Tail(volumes))]

\* Nearby constraints are turned into fences with one converter for them all.
Fences(constraints) ==
  LET next(fences, volumes) ==
        Append(fences, Convert(IF fences = <<>> THEN <<>> ELSE Last(fences).outlines, volumes)) IN
  FoldLeft(next, <<>>, constraints)
=============================================================================
