---------------------------- MODULE FlightPlans ----------------------------
(***************************************************************************)
(* The flight-planning interface: requests that put or delete a flight     *)
(* plan, each a chain of reads of the database, queries of the DSS and of  *)
(* the peers, one conditional write to the DSS and one commit at the end.  *)
(*                                                                         *)
(* A request works in its own transaction (async_get_db), but what it      *)
(* stores about our own intents while it looks around is committed at      *)
(* once, in sessions of their own.  Three server workers and the peers     *)
(* share the DSS, so requests interleave at every call.  Each write to the *)
(* DSS names the version (OVN) it replaces and a key: the OVNs of all the  *)
(* intents its author has seen; the DSS refuses it with 409 if it replaces *)
(* an old version or the key lacks a current one.  The OVN of an intent is *)
(* the number of its versions so far.                                      *)
(*                                                                         *)
(* No request of this version of the code can create a reference (see      *)
(* NewRaises): the plans with one are those the database already holds.    *)
(***************************************************************************)
EXTENDS FlightPlanPayload

CONSTANTS
  Plan,    \* flight plans: declarations of ours
  Peer,    \* operational intents of peers
  Request, \* requests, each used once
  Asks,    \* Asks[r]: what request r may ask for
  Deleters,\* the requests that may ask for a deletion
  Area,    \* the volumes an intent may claim
  Near,    \* pairs of areas whose bounding boxes intersect
  Meets,   \* pairs of areas that intersect
  MaxOvn,  \* bound: versions of one intent
  MaxZone  \* bound: versions of the constraint near by

Intent == Plan \cup Peer

Ask == [plan : Plan, area : Area, prio : BOOLEAN,
        uas : {"Nominal", "OffNominal", "Contingent", "NotSpecified"},
        usage : {"Planned", "InUse", "Closed"}, payload : PlanPayload]

ASSUME FlightPlansAssumption ==
  /\ Plan # {} /\ Area # {}
  /\ Plan \cap Peer = {}
  /\ Asks \in [Request -> SUBSET Ask]
  /\ Deleters \subseteq Request
  /\ Meets \subseteq Near
  /\ MaxOvn \in Nat /\ MaxZone \in Nat

VARIABLES
  dss,     \* what the DSS (and the peer it points to) holds of each intent
  zone,    \* the version of the constraint that holds near by, 0 for none
  row,     \* the committed declaration, reference and details of each plan
  req,     \* where each request is and what it remembers
  dropped  \* history: plans an operator deleted from the database

vars == <<dss, zone, row, req, dropped>>

-----------------------------------------------------------------------------
Version == [held : BOOLEAN, ovn : Nat, area : Area, prio : BOOLEAN,
            state : {"Accepted", "Activated", "Nonconforming"}]

(* "bare": a declaration without a reference; "full": with one.            *)
Row == [at : {"none", "bare", "full"}, ovn : Nat, area : Area,
        state : {"Accepted", "Activated", "Nonconforming"}]

Sight == [id : Intent, ovn : Nat, area : Area]

Waiting == {"found", "loaded", "stored", "queried", "resolved",
            "keyed", "updated",
            "new", "deleting", "deleted"}
Step == {"idle", "answered", "raised"} \cup Waiting

(* The operational intent state a request asks for; of the other pairs the *)
(* function returns a name it never bound, and raises.                     *)
Wanted(k) ==
  CASE k.uas = "Nominal" /\ k.usage = "Planned" -> "Accepted"
    [] k.uas = "Nominal" /\ k.usage = "InUse" -> "Activated"
    [] k.uas = "OffNominal" /\ k.usage = "InUse" -> "Nonconforming"
    [] OTHER -> "unbound"

Judged(k) == PayloadVerdict(k.payload, k.uas, k.usage)

(* Volumes of which there are none have no earliest start, and raise too.  *)
Usable(k) == k.payload.volumes # {} /\ Wanted(k) # "unbound"

Held == {i \in Intent : dss[i].held}
SameIdExists(p) == row[p].at = "full"
Become(r, s) == req' = [req EXCEPT ![r].at = s]

(* utils/spatial_rid.py: all the intents whose boxes intersect the area    *)
(* must meet it, and there must be one.                                    *)
Blocked(a, S) ==
  LET near == {b \in S : <<a, b>> \in Near} IN
  near # {} /\ \A b \in near : <<a, b>> \in Meets

Others(r) == {s \in req[r].seen : s.id # req[r].plan}
Conflict(r) == Blocked(req[r].area, {s.area : s \in Others(r)})

(* Mutant: an activation is sent whatever it meets.                        *)
ShouldSubmitActivation(r) ==
  \/ req[r].to \in {"Activated", "Nonconforming"}
  \/ ~Conflict(r)

(* check_if_update_payload_should_be_submitted_to_dss: the cases that      *)
(* submit (A, D, and E without a conflict).                                *)
ShouldSubmit(r) ==
  \/ req[r].to = "Nonconforming"
  \/ ~Conflict(r)
  \/ req[r].prio /\ req[r].cur # "Activated"

(* The version to replace: the DSS's as seen, or else the stored one.      *)
Base(r) ==
  IF \E s \in req[r].seen : s.id = req[r].plan
    THEN (CHOOSE s \in req[r].seen : s.id = req[r].plan).ovn
    ELSE req[r].ovn

(* Mutant: the keys are fetched afresh when the update is sent.            *)
KeyAtLast(r) == {<<i, dss[i].ovn>> : i \in Held}

Key(r) == {<<s.id, s.ovn>> : s \in req[r].seen}

(* What the DSS demands of an update.                                      *)
Accepts(r) ==
  LET p == req[r].plan IN
  /\ zone \in {0, req[r].zone}
  /\ dss[p].held
  /\ Base(r) = dss[p].ovn
  /\ \A i \in Held \ {p} : <<i, dss[i].ovn>> \in Key(r)

-----------------------------------------------------------------------------
Blank == [at |-> "idle", plan |-> CHOOSE p \in Plan : TRUE, to |-> "Accepted",
          area |-> CHOOSE a \in Area : TRUE, prio |-> FALSE,
          cur |-> "Accepted", ovn |-> 0, seen |-> {}, zone |-> 0]

NoRow == [at |-> "none", ovn |-> 0, area |-> Blank.area, state |-> "Accepted"]

Stored(v) == [at |-> "full", ovn |-> v.ovn, area |-> v.area, state |-> v.state]

Init ==
  /\ dss \in [Intent -> [held : BOOLEAN, ovn : {1}, area : Area, prio : {FALSE},
                         state : {"Accepted"}]]
  /\ row = [p \in Plan |-> IF dss[p].held THEN Stored(dss[p]) ELSE NoRow]
  /\ zone = 0
  /\ req = [r \in Request |-> Blank]
  /\ dropped = {}

(* The end of a request: an answer, or an exception and a rollback.        *)
End(r, how) == req' = [req EXCEPT ![r] = [Blank EXCEPT !.at = how]]

(* PUT of a flight plan ---------------------------------------------------*)

(* The payload is not accepted, or there is no token: an answer.           *)
Refuse(r) ==
  /\ req[r].at = "idle"
  /\ \E k \in Asks[r] : Judged(k) \in {"refused", "accepted"}
  /\ End(r, "answered")
  /\ UNCHANGED <<dss, zone, row, dropped>>

(* A payload that raises, at once or when its volumes are converted or the *)
(* pair of its states is looked up.                                        *)
ReceiveRaises(r) ==
  /\ req[r].at = "idle"
  /\ \E k \in Asks[r] :
       \/ Judged(k) = "raises"
       \/ Judged(k) = "accepted" /\ ~Usable(k)
  /\ End(r, "raised")
  /\ UNCHANGED <<dss, zone, row, dropped>>

Receive(r) ==
  /\ req[r].at = "idle"
  /\ \E k \in Asks[r] :
       /\ Judged(k) = "accepted" /\ Usable(k)
       /\ req' = [req EXCEPT ![r] =
                 CASE SameIdExists(k.plan) /\ Wanted(k) \in {"Activated", "Nonconforming"} ->
                        [Blank EXCEPT !.at = "found", !.plan = k.plan, !.area = k.area,
                                      !.prio = k.prio, !.to = Wanted(k)]
                   [] OTHER -> [Blank EXCEPT !.at = "new", !.plan = k.plan, !.to = Wanted(k)]]
  /\ UNCHANGED <<dss, zone, row, dropped>>

(* The state of the declaration is read in the request's own transaction.  *)
Load(r) ==
  LET p == req[r].plan IN
  /\ req[r].at = "found"
  /\ IF row[p].at # "none"
       THEN req' = [req EXCEPT ![r].at = "loaded", ![r].cur = row[p].state]
       ELSE End(r, "answered")
  /\ UNCHANGED <<dss, zone, row, dropped>>

(* The reference is read once more, in a session of its own: without one   *)
(* there is nothing to take the id from.                                   *)
Reread(r) ==
  LET p == req[r].plan IN
  /\ req[r].at = "loaded"
  /\ IF row[p].at = "full"
       THEN req' = [req EXCEPT ![r].at = "stored", ![r].ovn = row[p].ovn]
       ELSE End(r, "raised")
  /\ UNCHANGED <<dss, zone, row, dropped>>

(* Mutant: only the names are kept.                                        *)
QueryNames(r) ==
  /\ req[r].at = "stored"
  /\ req' = [req EXCEPT ![r].at = "queried", ![r].seen = Held]
  /\ UNCHANGED <<dss, zone, row, dropped>>

(* The DSS names the intents and their OVNs.  A failed query leaves the    *)
(* list empty and a failed GET leaves an intent out: both are only logged. *)
(* The volumes of an intent are not known before Resolve.                  *)
Query(r) ==
  /\ req[r].at = "stored"
  /\ \E S \in SUBSET Held :
       req' = [req EXCEPT ![r].at = "queried",
                 ![r].seen = {[id |-> i, ovn |-> dss[i].ovn, area |-> Blank.area] : i \in S}]
  /\ UNCHANGED <<dss, zone, row, dropped>>

SeenPlans(r) == {s \in req[r].seen : s.id \in Plan}

(* Our own intents get the OVN of the DSS, each in a transaction of its    *)
(* own, and are seen with the volumes of the database.                     *)
Heal(S) ==
  row' = [p \in Plan |->
            IF \E s \in S : s.id = p /\ row[p].at = "full"
              THEN [row[p] EXCEPT !.ovn = (CHOOSE s \in S : s.id = p).ovn]
              ELSE row[p]]

(* Peers are asked one by one and answer with the version they are at; one *)
(* that answers 4xx or 5xx, as it does of an intent it gave up, may be     *)
(* left out.                                                               *)
Resolve(r) ==
  /\ req[r].at = "queried"
  /\ \A s \in SeenPlans(r) : row[s.id].at = "full"
  /\ Heal(SeenPlans(r))
  /\ \E Q \in SUBSET {s.id : s \in req[r].seen \ SeenPlans(r)} :
       /\ Q \subseteq Held
       /\ req' = [req EXCEPT ![r].at = "resolved",
            ![r].seen = {[s EXCEPT !.area = row[s.id].area] : s \in SeenPlans(r)}
              \cup {[id |-> q, ovn |-> dss[q].ovn, area |-> dss[q].area] : q \in Q}]
  /\ UNCHANGED <<dss, zone, dropped>>

(* A peer that cannot be reached ends the request with an answer, one that *)
(* sends invalid data with an exception (no additional information to      *)
(* answer from), and so does an intent of ours that has no row.  What was  *)
(* healed by then stays.                                                   *)
ResolveFails(r) ==
  /\ req[r].at = "queried"
  /\ \E S \in SUBSET SeenPlans(r) : Heal(S)
  /\ \/ /\ \E s \in req[r].seen : s.id \in Peer
        /\ \E how \in {"answered", "raised"} : End(r, how)
     \/ /\ \E s \in SeenPlans(r) : row[s.id].at # "full"
        /\ End(r, "raised")
  /\ UNCHANGED <<dss, zone, dropped>>

(* The constraints near by and their OVNs: a query of the DSS that fails   *)
(* is only logged, and a peer that answers with an error is left out.      *)
FetchConstraints(r) ==
  /\ req[r].at = "resolved"
  /\ \E z \in {0, zone} :
       req' = [req EXCEPT ![r].at = "keyed", ![r].zone = z]
  /\ UNCHANGED <<dss, zone, row, dropped>>

(* A peer that cannot be reached raises, and so do no token and an answer  *)
(* that is none: nobody catches it here.                                   *)
ConstraintsRaise(r) ==
  /\ req[r].at = "resolved"
  /\ End(r, "raised")
  /\ UNCHANGED <<dss, zone, row, dropped>>

(* Status 999: the update is not submitted.                                *)
Decline(r) ==
  /\ req[r].at = "keyed"
  /\ ~ShouldSubmit(r)
  /\ End(r, "answered")
  /\ UNCHANGED <<dss, zone, row, dropped>>

(* The DSS takes the update; the answer may be lost (a timeout raises).    *)
PutAccepted(r) ==
  LET p == req[r].plan IN
  /\ req[r].at = "keyed"
  /\ ShouldSubmit(r)
  /\ Accepts(r)
  /\ dss[p].ovn < MaxOvn
  /\ dss' = [dss EXCEPT ![p] =
               [held |-> TRUE, ovn |-> dss[p].ovn + 1, area |-> req[r].area,
                prio |-> req[r].prio, state |-> req[r].to]]
  /\ \/ req' = [req EXCEPT ![r].at = "updated", ![r].ovn = dss[p].ovn + 1]
     \/ End(r, "raised")
  /\ UNCHANGED <<zone, row, dropped>>

(* 409 and the other listed codes are answered; 404 (the DSS no longer     *)
(* holds the intent), an unlisted code and an unreachable DSS raise.       *)
PutRefused(r) ==
  /\ req[r].at = "keyed"
  /\ ShouldSubmit(r)
  /\ \/ /\ dss[req[r].plan].held
        /\ End(r, "answered")
     \/ End(r, "raised")
  /\ UNCHANGED <<dss, zone, row, dropped>>

(* The subscribers are notified one after the other, then the transaction  *)
(* commits.  A row deleted meanwhile is answered for, or makes the flush   *)
(* raise; a state that is the one loaded is not written.                   *)
Commit(r) ==
  LET p == req[r].plan IN
  /\ req[r].at = "updated"
  /\ IF row[p].at = "full"
       THEN /\ row' = [row EXCEPT ![p].ovn = req[r].ovn, ![p].area = req[r].area,
                          ![p].state = IF req[r].to = req[r].cur THEN @ ELSE req[r].to]
            /\ End(r, "answered")
       ELSE /\ \E how \in {"answered", "raised"} : End(r, how)
            /\ UNCHANGED row
  /\ UNCHANGED <<dss, zone, dropped>>

(* A plan without a reference, or one asked for as Planned again, whose    *)
(* start lies in the past: the declaration stays, without a reference.     *)
NewTooLate(r) ==
  LET p == req[r].plan IN
  /\ req[r].at = "new"
  /\ row[p].at = "none"
  /\ req[r].to \in {"Accepted", "Activated"}
  /\ row' = [row EXCEPT ![p].at = "bare", ![p].state = req[r].to]
  /\ End(r, "answered")
  /\ UNCHANGED <<dss, zone, dropped>>

(* Otherwise the id may be taken (IntegrityError), the state unknown to    *)
(* OPERATION_STATES_LOOKUP, or the creation begins and raises, because     *)
(* get_latest_airspace_volumes is not awaited and its coroutine cannot be  *)
(* iterated: the declaration is rolled back.                               *)
NewRaises(r) ==
  /\ req[r].at = "new"
  /\ End(r, "raised")
  /\ UNCHANGED <<dss, zone, row, dropped>>

(* DELETE of a flight plan, clearing an area, failures --------------------*)

ReceiveDelete(r) ==
  /\ req[r].at = "idle"
  /\ r \in Deleters
  /\ \E p \in Plan :
       IF row[p].at = "full"
         THEN req' = [req EXCEPT ![r] = [Blank EXCEPT !.at = "deleting", !.plan = p,
                                                      !.ovn = row[p].ovn]]
         ELSE End(r, "answered")
  /\ UNCHANGED <<dss, zone, row, dropped>>

(* The DSS takes the deletion of the version named; its answer may be lost.*)
DssDelete(r) ==
  LET p == req[r].plan IN
  /\ req[r].at = "deleting"
  /\ dss[p].held
  /\ req[r].ovn = dss[p].ovn
  /\ dss' = [dss EXCEPT ![p].held = FALSE]
  /\ Become(r, "deleted") \/ End(r, "raised")
  /\ UNCHANGED <<zone, row, dropped>>

(* Mutant: any answer of the DSS is taken for a success.                   *)
DssRefusalDeletes(r) ==
  /\ req[r].at = "deleting"
  /\ Become(r, "deleted")
  /\ UNCHANGED <<dss, zone, row, dropped>>

(* 404, 409, 412, anything else: an answer; an unreachable DSS: a raise.   *)
DssRefusesDelete(r) ==
  /\ req[r].at = "deleting"
  /\ \E how \in {"answered", "raised"} : End(r, how)
  /\ UNCHANGED <<dss, zone, row, dropped>>

CommitDelete(r) ==
  /\ req[r].at = "deleted"
  /\ row' = [row EXCEPT ![req[r].plan] = NoRow]
  /\ End(r, "answered")
  /\ UNCHANGED <<dss, zone, dropped>>

(* The DSS is asked to delete the id of the composite row, not of the      *)
(* reference: it knows no such intent, and nothing is cleared.             *)
ClearArea(r) ==
  /\ req[r].at = "idle"
  /\ End(r, "answered")
  /\ UNCHANGED <<dss, zone, row, dropped>>

(* The worker dies, a notification raises, the database fails.             *)
Fail(r) ==
  /\ req[r].at \in Waiting
  /\ End(r, "raised")
  /\ UNCHANGED <<dss, zone, row, dropped>>

(* Others -----------------------------------------------------------------*)

(* DELETE of a flight declaration: the row goes with all that hangs on it  *)
(* (ON DELETE CASCADE); the DSS is not told.                               *)
OperatorDeletes(p) ==
  /\ row[p].at # "none"
  /\ row' = [row EXCEPT ![p] = NoRow]
  /\ dropped' = dropped \cup {p}
  /\ UNCHANGED <<dss, zone, req>>

PeerPuts(q) ==
  /\ dss[q].ovn < MaxOvn
  /\ \E a \in Area :
       dss' = [dss EXCEPT ![q] = [held |-> TRUE, ovn |-> @.ovn + 1, area |-> a,
                                  prio |-> FALSE, state |-> "Activated"]]
  /\ UNCHANGED <<zone, row, req, dropped>>

ConstraintChanges ==
  /\ zone < MaxZone
  /\ zone' = zone + 1
  /\ UNCHANGED <<dss, row, req, dropped>>

PeerWithdraws(q) ==
  /\ dss[q].held
  /\ dss' = [dss EXCEPT ![q].held = FALSE]
  /\ UNCHANGED <<zone, row, req, dropped>>

-----------------------------------------------------------------------------
Proceed(r) ==
  \/ Load(r) \/ Reread(r)
  \/ Query(r) \/ Resolve(r) \/ ResolveFails(r)
  \/ FetchConstraints(r) \/ ConstraintsRaise(r) \/ Decline(r)
  \/ PutAccepted(r) \/ PutRefused(r) \/ Commit(r)
  \/ NewTooLate(r) \/ NewRaises(r)
  \/ DssDelete(r) \/ DssRefusesDelete(r) \/ CommitDelete(r)

Next ==
  \/ \E r \in Request : Refuse(r) \/ ReceiveRaises(r) \/ Receive(r) \/ ReceiveDelete(r) \/ ClearArea(r)
                          \/ Proceed(r) \/ Fail(r)
  \/ \E p \in Plan : OperatorDeletes(p)
  \/ ConstraintChanges
  \/ \E q \in Peer : PeerPuts(q) \/ PeerWithdraws(q)

Spec == Init /\ [][Next]_vars

-----------------------------------------------------------------------------
Memory == [at : Step, plan : Plan, area : Area, prio : BOOLEAN, ovn : Nat,
           to : {"Accepted", "Activated", "Nonconforming"},
           cur : {"Accepted", "Activated", "Nonconforming"}, seen : SUBSET Sight,
           zone : Nat]

TypeOK ==
  /\ dss \in [Intent -> Version]
  /\ zone \in Nat
  /\ row \in [Plan -> Row]
  /\ req \in [Request -> Memory]
  /\ dropped \subseteq Plan

(* This step is the one in which the DSS takes the update of r.            *)
Puts(r) ==
  req[r].at = "keyed" /\ req'[r] # req[r] /\ dss'[req[r].plan] # dss[req[r].plan]

(* The decision about an update that the DSS takes was made on the current *)
(* version of every intent of a peer, and of the constraint, however long  *)
(* ago the airspace was queried and whatever the peers did since (the key  *)
(* of update_specified_operational_intent_reference is worth that much).   *)
DecidedOnCurrentPeers ==
  [][\A r \in Request :
       Puts(r) =>
         /\ zone # 0 => req[r].zone = zone
         /\ \A q \in Peer : dss[q].held =>
           \E s \in req[r].seen : s.id = q /\ s.area = dss[q].area]_vars

(* With one plan of ours, putting a plan is an atomic step of the airspace *)
(* for all its reads, lost answers and failures: it implements Airspace.   *)
DeconflictedAirspace == INSTANCE Airspace WITH air <- dss

AirspaceSpec == DeconflictedAirspace!Spec

(* An intent of ours that the DSS holds has its reference in the database, *)
(* unless an operator deleted the declaration: delete_flight_plan deletes  *)
(* the row only after the DSS has deleted the intent, so a failure or a    *)
(* race in between never leaves an intent nobody can withdraw.             *)
NoIntentWithoutRow ==
  \A p \in Plan : dss[p].held => row[p].at = "full" \/ p \in dropped

-----------------------------------------------------------------------------
(* What the repository says and the code does not do.                      *)

(* clients/dss_scd_client.py:944, of get_latest_airspace_volumes: "This    *)
(* method checks if a flight volume has conflicts with any other volume in *)
(* the airspace".  So an activation without priority that the DSS takes    *)
(* meets no other intent of the airspace.                                  *)
ActivatesClear ==
  [][\A r \in Request :
       Puts(r) /\ req[r].to = "Activated" /\ ~req[r].prio =>
         \A i \in Held \ {req[r].plan} : <<req[r].area, dss[i].area>> \notin Meets]_vars

=============================================================================
