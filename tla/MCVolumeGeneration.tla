------------------------- MODULE MCVolumeGeneration -------------------------
(* Small instances of VolumeGeneration for TLC.                            *)
EXTENDS VolumeGeneration

(* Lines whose vertices coincide, lie on a cut (pieces are 6 m long), just *)
(* before and after one, and far apart.                                    *)
Lines == {<<0, 0>>, <<0, 6>>, <<0, 5, 7>>, <<0, 6, 6, 13>>, <<0, 1, 4, 12, 24>>, <<0, 19>>}

LineFeatures == [kind : {"line"}, id : {0, 1}, at : Lines, rise : {0, 5}, own : {<<>>}]
AreaFeatures == [kind : {"area"}, id : {0}, at : {<<0, 2, 4>>}, rise : {5},
                 own : {<<>>, <<3, 4>>}]

MCCollections ==
  {<<x>> : x \in LineFeatures \cup AreaFeatures}
    \cup {<<x, y>> : x \in LineFeatures, y \in LineFeatures \cup AreaFeatures}
    \cup {<<x, y, z>> : x, y \in AreaFeatures, z \in {w \in LineFeatures : w.id = 0}}

-----------------------------------------------------------------------------
(* The forms of a volume: with a polygon, a circle or both.                *)

Forms == INSTANCE VolumeForms WITH None <- <<"none">>, Null <- <<"null">>, Raised <- "raised"

Triangle(x) == <<<<x, 0>>, <<x + 2, 0>>, <<x, 2>>>>
Outlined == {<<Triangle(0), <<"none">>>>, <<<<"none">>, <<3, 1, 5, 3>>>>, <<Triangle(4), <<1, 1, 2, 9>>>>}
Volumes == {[polygon |-> o[1], circle |-> o[2], lower |-> a, upper |-> a + 2, start |-> t, end |-> t + 1]
              : o \in Outlined, a \in 0..1, t \in 0..1}

(* A stored volume is read back as it was by the reader of what operators  *)
(* send; the reader of intents fails on one without a polygon, and that of *)
(* the conformance check loses a vertex of polygons that are not closed.   *)
(* The two converters agree on the extremes, no volume reaches out of the  *)
(* extent, and its order makes no difference; the fence of each constraint *)
(* after the first covers the earlier ones too, at its own altitudes.      *)
ASSUME FormsChecked ==
  /\ \A v \in Volumes :
       /\ Forms!ParseSent(Forms!Stored(v)) = v
       /\ Forms!Parse(Forms!Stored(v)) = IF v.polygon = <<"none">> THEN "raised" ELSE v
       /\ v.polygon # <<"none">> =>
            Len(Forms!Cast(Forms!Stored(v)).polygon) = Len(v.polygon) - 1
  /\ Forms!Convert(<<>>, <<>>) = "raised" /\ Forms!Composite(<<>>) = "raised"
  /\ \A u, v, w \in Volumes :
       LET e == Forms!Convert(<<>>, <<u, v, w>>)
           c == Forms!Composite(<<u, v, w>>)
           b == Forms!Union(e.outlines) IN
       /\ c.bounds = b /\ c = Forms!Composite(<<w, v, u>>)
       /\ c.extremes = [lower |-> e.lower, upper |-> e.upper, start |-> e.start, end |-> e.end]
       /\ \A x \in {u, v, w} : x.lower >= e.lower /\ x.upper <= e.upper /\ x.start >= e.start /\ x.end <= e.end
       /\ LET fence == Forms!Fences(<<<<u>>, <<v, w>>>>) IN
          /\ Len(fence) = 2 /\ fence[2].outlines = e.outlines
          /\ fence[2].lower = Forms!Convert(<<>>, <<v, w>>).lower
=============================================================================
