---------------------------- MODULE MCAirTraffic ----------------------------
(* Small instances of AirTraffic.                                          *)
EXTENDS AirTraffic, TLC

CONSTANTS p1, a1, a2, s1, s2, c1, c2

(* A post of two chunks, the second not full, about two aircraft; each of  *)
(* two sessions has a chain of track tasks.                                *)
MCSession == {s1, s2}
MCPost == {p1}
MCSize == p1 :> 3
MCAircraft == {a1, a2}
MCOf == [o \in {p1} \X (1..3) |-> IF o[2] = 2 THEN a2 ELSE a1]
MCReader == {c1, c2}
MCSessionOf == c1 :> s1 @@ c2 :> s2

=============================================================================
