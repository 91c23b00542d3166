----------------------------- MODULE MCGeoZones -----------------------------
(* A small instance of GeoZones: requests for two sources, zones of which  *)
(* one keeps its bounds when the axes are exchanged and one does not.      *)
EXTENDS GeoZones, TLC

CONSTANTS a, b, c1, c2, c3, o1

MCSource == {a, b}
MCHarness == {c1, c2, c3}
MCOperator == {o1}
MCShape == {<<1, 1, 1, 1>>, <<1, 2, 1, 2>>}
MCShape1 == {<<1, 2, 1, 2>>}
MCDocument1 == {<<<<1, 2, 1, 2>>>>}
MCPast == [c \in {c3} |-> b]
MCOutcome == {"Ready", "Error"}
MCDocument == {<<<<1, 1, 1, 1>>, <<1, 2, 1, 2>>>>}
MCPlace == {<<1, 2>>}

=============================================================================
