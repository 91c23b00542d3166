------------------------- MODULE MCFlightTelemetry -------------------------
(* An instance: two operations, requests that carry one flight or two.     *)
EXTENDS FlightTelemetry

CONSTANTS d1, d2

Place(area, alt) == [area |-> area, alt |-> alt]
Of(d, serial, form, places) ==
    [op |-> d, serial |-> serial, form |-> form, places |-> places]

\* One flight with two states; two flights of one aircraft; a second flight
\* that lacks a part or has one of a wrong type.
MCPayloads ==
    {<<Of(d1, "s1", "ok", <<Place("home", 0), Place("home", 0)>>)>>,
     <<Of(d1, "s1", "ok", <<Place("home", 0)>>), Of(d2, "s1", "ok", <<Place("home", 0)>>)>>,
     <<Of(d1, "s1", "ok", <<Place("home", 0)>>), Of(d2, "s1", "incomplete", <<Place("home", 0)>>)>>,
     <<Of(d2, "s1", "mistyped", <<Place("home", 0)>>)>>}

=============================================================================
