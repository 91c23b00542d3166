------------------------------ MODULE Airspace ------------------------------
(***************************************************************************)
(* What the flight-planning interface promises of the airspace: every      *)
(* operational intent the DSS holds has one current version, each version  *)
(* is put in one step, and an intent of ours is put only if, at that very  *)
(* step, the deconfliction check passes against all the others, or the     *)
(* flight has priority or is off-nominal.  The check may still count       *)
(* intents that have been withdrawn since it looked.                       *)
(***************************************************************************)
EXTENDS Naturals

CONSTANTS Plan, Peer, Area, Blocked(_, _)

VARIABLE air \* the intents the DSS holds

Intent == Plan \cup Peer
Held == {i \in Intent : air[i].held}

Version(i, a, s, prio) ==
  [held |-> TRUE, ovn |-> air[i].ovn + 1, area |-> a, state |-> s, prio |-> prio]

Init ==
  \A i \in Intent : air[i].held /\ i \in Plan => air[i].state = "Accepted"

Admit(p) ==
  \E a \in Area, s \in {"Activated", "Nonconforming"}, prio \in BOOLEAN,
     gone \in SUBSET Area :
    /\ p \in Held
    /\ Held = Intent => gone = {}
    /\ \/ s = "Nonconforming"
       \/ prio
       \/ ~Blocked(a, {air[i].area : i \in Held \ {p}} \cup gone)
    /\ air' = [air EXCEPT ![p] = Version(p, a, s, prio)]

Withdraw(i) == i \in Held /\ air' = [air EXCEPT ![i].held = FALSE]

PeerPuts(q) == \E a \in Area : air' = [air EXCEPT ![q] = Version(q, a, "Activated", FALSE)]

Next ==
  \/ \E p \in Plan : Admit(p) \/ Withdraw(p)
  \/ \E q \in Peer : PeerPuts(q) \/ Withdraw(q)

Spec == Init /\ [][Next]_air
=============================================================================
