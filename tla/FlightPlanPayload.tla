------------------------- MODULE FlightPlanPayload -------------------------
(***************************************************************************)
(* What a request to plan a flight must hold before anything is done about *)
(* it (services/scd_svc.py, clients/dss_scd_client.py): the form of the    *)
(* payload, its volumes, the serial number of the aircraft and the         *)
(* registration number of the operator.                                    *)
(*                                                                         *)
(* A character is a number: 0..9 for a digit, 10..35 for a..z, 36..61 for  *)
(* A..Z, Hyphen, and Mark for any other.                                   *)
(***************************************************************************)
EXTENDS Integers, Sequences, FiniteSets

CodePoint == 0..35
Upper == 36..61
Hyphen == 62
Mark == 63
Char == CodePoint \cup Upper \cup {Hyphen, Mark}
Alnum == CodePoint \cup Upper

Verdict == {"accepted", "refused", "raises"}

-----------------------------------------------------------------------------
(* The payload: the keys of it and of its flight plan, and whether the     *)
(* values of the three that are read fit their types.                      *)

ReadKeys == {"basic_information", "astm_f3548_21", "uspace_flight_authorisation"}
PlanKeys == ReadKeys \cup {"rpas_operating_rules_2_6", "additional_information"}

(* A key that is missed while the processor is built is answered; one that *)
(* is missed by it later, or a value of another type, raises.              *)
FormVerdict(keys, planKeys, fits) ==
  CASE ~ ({"flight_plan", "request_id"} \subseteq keys) -> "refused"
    [] planKeys \cap PlanKeys = {} -> "refused"
    [] ~ (ReadKeys \subseteq planKeys /\ fits) -> "raises"
    [] OTHER -> "accepted"

(* No caller passes off-nominal volumes, and dacite has refused the states *)
(* that are none, so this holds of all that gets here.                     *)
TestDataOk(uas, usage, offNominal) ==
  /\ uas \in {"Nominal", "OffNominal", "Contingent", "NotSpecified"}
  /\ usage \in {"Planned", "InUse"} => offNominal = {}

(* A volume: the number of vertices of its outline, if that is a polygon,  *)
(* and the days from now to its start.                                     *)
Volume == [polygon : BOOLEAN, vertices : Nat, start : Int]

VolumeOk(v) == (v.polygon => v.vertices >= 3) /\ v.start <= 30

-----------------------------------------------------------------------------
(* The serial number (ANSI/CTA-2063-A): four characters of the maker, one  *)
(* that tells how many follow, and those.                                  *)

LengthOf == [c \in (1..9) \cup (36..41) |-> IF c <= 9 THEN c ELSE c - 26]

(* An O or an I is only looked for in the code of the maker.               *)
SerialOk(serial) ==
  /\ Len(serial) >= 5
  /\ \A i \in 1..4 : serial[i] \notin {36 + 8, 36 + 14}
  /\ serial[5] \in DOMAIN LengthOf
  /\ Len(serial) = 5 + LengthOf[serial[5]]

-----------------------------------------------------------------------------
(* The registration number (EN 4709-02): three characters of the country,  *)
(* twelve of the operator, a check character, a hyphen, three more.        *)

(* Positions of the fifteen characters the check character stands for, in  *)
(* the order in which they are taken.                                      *)
Covered == <<4, 5, 6, 7, 8, 9, 10, 11, 12, 13, 14, 15, 18, 19, 20>>

Double(c) == ((2 * c) \div 36) + ((2 * c) % 36)

(* What each of them adds: every other one is doubled.                     *)
Terms(n) ==
  [k \in 1..15 |-> IF k % 2 = 1 THEN Double(n[Covered[k]]) ELSE n[Covered[k]]]

Five(t, k) == t[k + 1] + t[k + 2] + t[k + 3] + t[k + 4] + t[k + 5]

Total(t) == Five(t, 0) + Five(t, 5) + Five(t, 10)

Weighed(n) == Total(Terms(n))

CheckCharacter(n) == (36 - (Weighed(n) % 36)) % 36

(* One hyphen, after sixteen characters and before three.                  *)
Shaped(n) == Len(n) = 20 /\ {i \in 1..20 : n[i] = Hyphen} = {17}

(* Letters in upper case are alphanumeric, and have no code point.         *)
RegistrationVerdict(n) ==
  IF ~Shaped(n) \/ \E k \in 1..15 : n[Covered[k]] \notin Alnum THEN "refused"
  ELSE IF \E k \in 1..15 : n[Covered[k]] \notin CodePoint THEN "raises"
  ELSE IF CheckCharacter(n) = n[16] THEN "accepted" ELSE "refused"

-----------------------------------------------------------------------------
PlanPayload == [keys : SUBSET {"flight_plan", "request_id"},
            planKeys : SUBSET PlanKeys, fits : BOOLEAN,
            volumes : SUBSET Volume, serial : Seq(Char), operator : Seq(Char)]

(* What upsert_flight_plan makes of a payload, one test after the other.   *)
PayloadVerdict(p, uas, usage) ==
  LET form == FormVerdict(p.keys, p.planKeys, p.fits) IN
  IF form # "accepted" THEN form
  ELSE IF /\ TestDataOk(uas, usage, {})
          /\ \A v \in p.volumes : VolumeOk(v)
          /\ SerialOk(p.serial)
    THEN RegistrationVerdict(p.operator)
    ELSE "refused"

-----------------------------------------------------------------------------
(* A number that differs from another in one of the characters the check   *)
(* character stands for, or in that character itself.                      *)
Mistyped(n, m) ==
  /\ Len(m) = Len(n)
  /\ \E i \in (4..16) \cup (18..20) :
       m[i] # n[i] /\ \A j \in DOMAIN n \ {i} : m[j] = n[j]

(* A number with two neighbours that were exchanged, both of the operator. *)
Exchanged(n, m) ==
  /\ Len(m) = Len(n)
  /\ \E i \in 4..14 :
       /\ n[i] # n[i + 1] /\ m[i] = n[i + 1] /\ m[i + 1] = n[i]
       /\ \A j \in DOMAIN n \ {i, i + 1} : m[j] = n[j]
=============================================================================
