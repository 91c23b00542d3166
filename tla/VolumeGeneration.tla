-------------------------- MODULE VolumeGeneration --------------------------
(***************************************************************************)
(* How a feature collection becomes the four-dimensional volumes of an     *)
(* operational intent: by the converter itself ("none": no plugin), by the *)
(* generator of the service ("custom"), or by the example plugin           *)
(* ("example"), as the setting FLIGHT_BLENDER_PLUGIN_VOLUME_4D_GENERATOR   *)
(* says.  It is a sequential computation; its loops are the actions.       *)
(*                                                                         *)
(* A line (or the ring of an area) is the distance of each of its vertices *)
(* from the first, in metres along it.  A stretch of a line is where it    *)
(* begins and ends and which vertices its polyline has: the shape drawn    *)
(* around it follows the line only if none in between is left out.  Times  *)
(* are whole seconds; the geodesic computations are taken as exact, and    *)
(* the shapes around a stretch, an area or a point are not modelled.       *)
(***************************************************************************)
EXTENDS Integers, Sequences, FiniteSets

CONSTANTS
  Collections, \* the feature collections one may ask about
  Generators,  \* the settings of the plugin
  StartTime, EndTime, \* start_datetime and end_datetime of the request
  Speed,       \* DEFAULT_UAV_SPEED_M_PER_S
  ClimbRate    \* DEFAULT_UAV_CLIMB_RATE_M_PER_S

Feature == [kind : {"line", "area"}, id : Nat, at : Seq(Nat), rise : Nat,
            own : Seq(Nat)] \* own times: none, or start_time and end_time

ASSUME VolumeAssumption ==
  /\ StartTime \in Nat /\ EndTime \in Nat /\ StartTime + 2 <= EndTime
  /\ Speed \in Nat \ {0}
  /\ ClimbRate \in Nat \ {0}
  /\ Generators \subseteq {"none", "custom", "example"}
  /\ Collections \subseteq Seq(Feature)
  /\ \A c \in Collections : c # <<>> /\ \A k \in DOMAIN c :
       /\ Len(c[k].at) >= 2
       /\ c[k].at[1] = 0
       /\ \A l, m \in DOMAIN c[k].at : l < m => c[k].at[l] <= c[k].at[m]
       /\ Len(c[k].own) \in {0, 2}

VARIABLES
  fc,      \* the features, in the order they are worked on
  gen,     \* the generator
  pc,      \* where the computation is
  feature, \* the feature it works on
  vertex,  \* the vertex it heads for
  piece,   \* current_piece
  run,     \* current_length
  pieces,  \* the pieces of the feature that are finished
  cursor,  \* the time the example plugin has handed out
  volumes  \* the result

loop == <<vertex, piece, run, pieces>>
generation == <<fc, gen, pc, feature, loop, cursor, volumes>>

-----------------------------------------------------------------------------
(* A stretch of a line; via names vertices.                                *)
Stretch(a, b, via) == [from |-> a, to |-> b, via |-> via]

Volume(k, s, a, b) == [of |-> k, path |-> s, start |-> a, end |-> b]

Line == fc[feature].at
Length(k) == fc[k].at[Len(fc[k].at)]
Whole(k) == Stretch(0, Length(k), 2..Len(fc[k].at))

PieceLength == 3 * Speed

AllLines == \A k \in DOMAIN fc : fc[k].kind = "line"

(* Sorted by id; features of the same id keep their order.                 *)
Before(c, k) == {m \in DOMAIN c : c[m].id < c[k].id \/ (c[m].id = c[k].id /\ m < k)}
Sorted(c) ==
  [n \in DOMAIN c |-> c[CHOOSE k \in DOMAIN c : Cardinality(Before(c, k)) = n - 1]]

(* When the UAV that flies feature k has taken off and climbed.            *)
Climbed(k) == StartTime + 1 + fc[k].rise \div ClimbRate

(* Mutant: the pieces are counted from one.                                *)
PieceStartFromOne(k, n) == Climbed(k) + 3 * n

(* The n-th piece of feature k: three seconds for each piece before it.    *)
(* Every feature starts again after the take-off.                          *)
PieceStart(k, n) == Climbed(k) + 3 * (n - 1)

OwnStart(k) == IF fc[k].own = <<>> THEN StartTime ELSE fc[k].own[1]
OwnEnd(k) == IF fc[k].own = <<>> THEN EndTime ELSE fc[k].own[2]

-----------------------------------------------------------------------------
GenerationInit ==
  /\ fc \in Collections
  /\ gen \in Generators
  /\ pc = "begin"
  /\ feature = 1
  /\ vertex = 2
  /\ piece = Stretch(0, 0, {})
  /\ run = 0
  /\ pieces = <<>>
  /\ cursor = StartTime
  /\ volumes = <<>>

(* All lines: a volume to take off at the start of the first, and one to   *)
(* land at the end of the last.                                            *)
BeginLines ==
  LET c == Sorted(fc)
      last == Len(c)
      down == c[last].at[Len(c[last].at)] IN
  /\ pc = "begin"
  /\ gen = "custom" /\ AllLines
  /\ fc' = c
  /\ volumes' = <<Volume(1, Stretch(0, 0, {}), StartTime, StartTime + 1),
                  Volume(last, Stretch(down, down, {}), EndTime - 1, EndTime)>>
  /\ pc' = "lines"
  /\ UNCHANGED <<gen, feature, loop, cursor>>

BeginOthers ==
  /\ pc = "begin"
  /\ ~(gen = "custom" /\ AllLines)
  /\ pc' = IF gen = "example" THEN "slices" ELSE "wholes"
  /\ UNCHANGED <<fc, gen, feature, loop, cursor, volumes>>

(* _break_linestring_to_smaller_pieces ------------------------------------*)

(* Mutant: the loop forgets to head for the next vertex.                   *)
ExtendStays ==
  /\ pc = "lines" /\ feature <= Len(fc) /\ vertex <= Len(Line)
  /\ run + (Line[vertex] - piece.to) <= PieceLength
  /\ piece' = Stretch(piece.from, Line[vertex], piece.via \cup {vertex})
  /\ run' = run + (Line[vertex] - piece.to)
  /\ UNCHANGED <<fc, gen, pc, feature, vertex, pieces, cursor, volumes>>

(* The next vertex fits into the piece.                                    *)
Extend ==
  /\ pc = "lines" /\ feature <= Len(fc) /\ vertex <= Len(Line)
  /\ run + (Line[vertex] - piece.to) <= PieceLength
  /\ piece' = Stretch(piece.from, Line[vertex], piece.via \cup {vertex})
  /\ run' = run + (Line[vertex] - piece.to)
  /\ vertex' = vertex + 1
  /\ UNCHANGED <<fc, gen, pc, feature, pieces, cursor, volumes>>

(* Mutant: the length so far is not reset.                                 *)
CutKeepsRun ==
  LET cut == piece.to + (PieceLength - run) IN
  /\ pc = "lines" /\ feature <= Len(fc) /\ vertex <= Len(Line)
  /\ run + (Line[vertex] - piece.to) > PieceLength
  /\ pieces' = Append(pieces, Stretch(piece.from, cut, piece.via))
  /\ piece' = Stretch(cut, cut, {})
  /\ UNCHANGED <<fc, gen, pc, feature, vertex, run, cursor, volumes>>

(* It does not: the piece ends on the way to it, and the next begins there.*)
Cut ==
  LET cut == piece.to + (PieceLength - run) IN
  /\ pc = "lines" /\ feature <= Len(fc) /\ vertex <= Len(Line)
  /\ run + (Line[vertex] - piece.to) > PieceLength
  /\ pieces' = Append(pieces, Stretch(piece.from, cut, piece.via))
  /\ piece' = Stretch(cut, cut, {})
  /\ run' = 0
  /\ UNCHANGED <<fc, gen, pc, feature, vertex, cursor, volumes>>

(* The last vertex is passed: every piece becomes a volume.                *)
Close ==
  LET all == Append(pieces, piece) IN
  /\ pc = "lines" /\ feature <= Len(fc) /\ vertex > Len(Line)
  /\ volumes' = volumes \o
       [n \in 1..Len(all) |->
          Volume(feature, all[n], PieceStart(feature, n), PieceStart(feature, n) + 3)]
  /\ feature' = feature + 1
  /\ vertex' = 2
  /\ piece' = Stretch(0, 0, {})
  /\ run' = 0
  /\ pieces' = <<>>
  /\ UNCHANGED <<fc, gen, pc, cursor>>

AppendWhole ==
  /\ pc = "wholes" /\ feature <= Len(fc)
  /\ volumes' = Append(volumes, Volume(feature, Whole(feature), OwnStart(feature), OwnEnd(feature)))
  /\ feature' = feature + 1
  /\ UNCHANGED <<fc, gen, pc, loop, cursor>>

(* The generator of the service, with an area among the features.          *)
TakeMixed == gen = "custom" /\ AppendWhole

(* No plugin: the converter does the same.                                 *)
TakePlain == gen = "none" /\ AppendWhole

(* The metres of all features.                                             *)
Total == Cardinality(UNION {{k} \X (1..Length(k)) : k \in DOMAIN fc})

(* The example plugin: a share of the time by length, one second at least, *)
(* never past the end, and the rest for the last.                          *)
TakeSlice ==
  LET share == IF Total = 0 THEN 0 ELSE ((EndTime - StartTime) * Length(feature)) \div Total
      till == cursor + (IF share < 1 THEN 1 ELSE share)
      upto == IF feature = Len(fc) \/ till > EndTime THEN EndTime ELSE till IN
  /\ pc = "slices" /\ feature <= Len(fc)
  /\ volumes' = Append(volumes, Volume(feature, Whole(feature), cursor, upto))
  /\ cursor' = upto
  /\ feature' = feature + 1
  /\ UNCHANGED <<fc, gen, pc, loop>>

Return ==
  /\ pc \in {"lines", "wholes", "slices"} /\ feature > Len(fc)
  /\ pc' = "done"
  /\ UNCHANGED <<fc, gen, feature, loop, cursor, volumes>>

GenerationNext ==
  \/ BeginLines \/ BeginOthers
  \/ Extend \/ Cut \/ Close
  \/ TakeMixed \/ TakePlain \/ TakeSlice
  \/ Return

GenerationSpec == GenerationInit /\ [][GenerationNext]_generation

(* It is one function call in one thread: it runs on.                      *)
FairGenerationSpec == GenerationSpec /\ WF_generation(GenerationNext)

-----------------------------------------------------------------------------
(* A stretch whose polyline has every vertex of the line between its ends, *)
(* and none outside them.                                                  *)
Follows(s, line) ==
  /\ \A m \in s.via : m \in DOMAIN line /\ s.from <= line[m] /\ line[m] <= s.to
  /\ \A m \in 2..Len(line) : s.from < line[m] /\ line[m] < s.to => m \in s.via

(* Breaking a line into pieces loses nothing of it: the pieces follow one  *)
(* another from its start to the point reached, every finished one is as   *)
(* long as the UAV flies in three seconds, the open one is not longer, and *)
(* each keeps the vertices it passes, wherever vertices and cuts fall      *)
(* (_break_linestring_to_smaller_pieces).                                  *)
PiecesCoverLine ==
  pc = "lines" /\ feature <= Len(fc) =>
    LET all == Append(pieces, piece) IN
    /\ all[1].from = 0
    /\ \A n \in 1..Len(pieces) :
         /\ all[n].to = all[n].from + PieceLength
         /\ all[n + 1].from = all[n].to
    /\ piece.to - piece.from \in 0..PieceLength
    /\ \A n \in 1..Len(all) : Follows(all[n], Line)
    /\ vertex > Len(Line) => piece.to = Length(feature)

(* A UAV that flies line k alone, at the default speed once it has climbed,*)
(* is at every second within a volume for that second.                     *)
FlownInside(k) ==
  \A t \in 0..(Length(k) \div Speed) :
    \E v \in {volumes[n] : n \in 3..Len(volumes)} :
      /\ v.of = k
      /\ v.path.from <= Speed * t /\ Speed * t <= v.path.to
      /\ v.start <= Climbed(k) + t /\ Climbed(k) + t <= v.end

(* The slices follow one another from the start of the request to its end. *)
Sliced ==
  /\ Len(volumes) = Len(fc)
  /\ volumes[1].start = StartTime
  /\ volumes[Len(fc)].end = EndTime
  /\ \A k \in 1..Len(fc) : volumes[k].start <= volumes[k].end
  /\ \A k \in 2..Len(fc) : volumes[k].start = volumes[k - 1].end

(* The times of the volumes fit the places: whoever flies a line by the    *)
(* default speed stays inside the volumes of build_v4d_from_linestrings,   *)
(* and the slices of the example plugin leave no second of the request     *)
(* without a volume, however the shares are rounded and clamped.           *)
VolumesFitTheFlight ==
  pc = "done" =>
    /\ gen = "custom" /\ AllLines => \A k \in DOMAIN fc : FlownInside(k)
    /\ gen = "example" => Sliced

(* The volumes of every collection are found: neither vertices that        *)
(* coincide nor pieces that end on a vertex keep the loop going.           *)
Generated == <>(pc = "done")

=============================================================================
