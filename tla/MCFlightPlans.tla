--------------------------- MODULE MCFlightPlans ---------------------------
(* Instances of FlightPlans for TLC.                                       *)
EXTENDS FlightPlans

(* Two areas that do not intersect although their boxes do.                *)
MCArea == {"west", "east"}
MCMeets == {<<a, a>> : a \in MCArea}
MCNear == MCArea \X MCArea

-----------------------------------------------------------------------------
(* fin87astrdge12kh-abc, the number of the tests, and others next to it.   *)
MCOperator == <<15, 18, 23, 8, 7, 10, 28, 29, 27, 13, 16, 14, 1, 2, 20, 17,
                Hyphen, 10, 11, 12>>
MCShouting == [MCOperator EXCEPT ![18] = 36]
MCSlip == [MCOperator EXCEPT ![5] = 9]

(* Four characters of the maker, and three after the 3.                    *)
MCSerial == <<1, 36, 37, 38, 3, 7, 36 + 14, 9>>

Good == [keys |-> {"flight_plan", "request_id"}, planKeys |-> ReadKeys, fits |-> TRUE,
         volumes |-> {[polygon |-> TRUE, vertices |-> 3, start |-> 30]},
         serial |-> MCSerial, operator |-> MCOperator]

MCPayload == {Good, [Good EXCEPT !.operator = MCSlip], [Good EXCEPT !.operator = MCShouting],
              [Good EXCEPT !.volumes = {}]}

(* One request asks for anything, the other for a plain activation or, as  *)
(* Deleters says, for a deletion.                                          *)
Plain == [plan : Plan, area : {"west"}, prio : {FALSE}, uas : {"Nominal"},
          usage : {"InUse"}, payload : {Good}]
Flying ==
  [plan : Plan, area : Area, prio : BOOLEAN, uas : {"Nominal"},
   usage : {"InUse"}, payload : {Good}]
Anything ==
  [plan : Plan, area : {"west"}, prio : {FALSE},
   uas : {"Nominal", "OffNominal", "Contingent", "NotSpecified"},
   usage : {"Planned", "InUse", "Closed"}, payload : MCPayload]

MCAsks == [r \in Request |-> IF r = "edit" THEN Anything \cup Flying ELSE Plain]

-----------------------------------------------------------------------------
(* What PayloadVerdict says of payloads next to a good one.                *)

Verdicts(f(_), S) == {<<x, PayloadVerdict(f(x), "Nominal", "InUse")>> : x \in S}
WithSerial(s) == [Good EXCEPT !.serial = s]
WithOperator(n) == [Good EXCEPT !.operator = n]
WithVolumes(V) == [Good EXCEPT !.volumes = V]
WithForm(f) == [Good EXCEPT !.keys = f[1], !.planKeys = f[2], !.fits = f[3]]

Accepted(f(_), S) == {v[1] : v \in {w \in Verdicts(f, S) : w[2] = "accepted"}}

Slips == {m \in {[MCOperator EXCEPT ![i] = c] : i \in 4..20, c \in Char} :
            Mistyped(MCOperator, m)}
Exchanges == {m \in {[MCOperator EXCEPT ![i] = MCOperator[i + 1], ![i + 1] = MCOperator[i]]
                       : i \in 4..14} : Exchanged(MCOperator, m)}

(* No slip and no exchange passes the check character; of the serials that *)
(* differ in one character those pass that the standard allows, and those  *)
(* with an O or an I after the fifth; a volume may start in thirty days    *)
(* and have no polygon.                                                    *)
ASSUME PayloadsChecked ==
  /\ Accepted(WithOperator, {MCOperator} \cup Slips \cup Exchanges) = {MCOperator}
  /\ {w[2] : w \in Verdicts(WithOperator, Slips)} = {"refused", "raises"}
  /\ \A i \in 1..8 :
       Accepted(WithSerial, {[MCSerial EXCEPT ![i] = c] : c \in Char}) =
         {[MCSerial EXCEPT ![i] = c] :
            c \in CASE i <= 4 -> Char \ {44, 50} [] i = 5 -> {3} [] OTHER -> Char}
  /\ Accepted(WithSerial, {SubSeq(MCSerial, 1, n) : n \in 0..8}) = {MCSerial}
  /\ Accepted(WithVolumes,
              {{v} : v \in [polygon : BOOLEAN, vertices : {0, 2, 3}, start : {-1, 30, 31}]}) =
       {{v} : v \in [polygon : {FALSE}, vertices : {0, 2, 3}, start : {-1, 30}]
                      \cup [polygon : {TRUE}, vertices : {3}, start : {-1, 30}]}
  /\ Verdicts(WithForm, {<<Good.keys, {}, TRUE>>, <<{"flight_plan"}, ReadKeys, TRUE>>,
                         <<Good.keys, ReadKeys, FALSE>>,
                         <<Good.keys, PlanKeys \ {"astm_f3548_21"}, TRUE>>}) =
       {<<<<Good.keys, {}, TRUE>>, "refused">>,
        <<<<{"flight_plan"}, ReadKeys, TRUE>>, "refused">>,
        <<<<Good.keys, ReadKeys, FALSE>>, "raises">>,
        <<<<Good.keys, PlanKeys \ {"astm_f3548_21"}, TRUE>>, "raises">>}
=============================================================================
