------------------------- MODULE FlightPlans_proofs -------------------------
(* Theorems about FlightPlans, for every number of plans, peers, requests  *)
(* and areas: what a request remembers, what the database keeps of what    *)
(* the DSS holds, and what an update is decided on.                        *)
EXTENDS FlightPlans, TLAPS

-----------------------------------------------------------------------------
(* Types.                                                                  *)

LEMMA BlankType == Blank \in Memory
  BY FlightPlansAssumption DEF Blank, Memory, Step, Waiting

LEMMA NoRowType == NoRow \in Row
  BY FlightPlansAssumption DEF NoRow, Row, Blank

LEMMA InitType == Init => TypeOK
<1> SUFFICES ASSUME Init PROVE TypeOK
  OBVIOUS
<1>1. dss \in [Intent -> Version]
  <2> DEFINE First == [held : BOOLEAN, ovn : {1}, area : Area, prio : {FALSE},
                       state : {"Accepted"}]
  <2>1. dss \in [Intent -> First]
    BY DEF Init
  <2>2. \A v \in First : v \in Version
    <3> TAKE v \in First
    <3>1. v = [held |-> v.held, ovn |-> v.ovn, area |-> v.area, prio |-> v.prio,
               state |-> v.state]
      OBVIOUS
    <3>2. v.held \in BOOLEAN /\ v.ovn \in Nat /\ v.area \in Area /\ v.state = "Accepted"
      OBVIOUS
    <3>3. v.prio \in {FALSE}
      OBVIOUS
    <3>4. v.prio \in BOOLEAN
      BY <3>3, Zenon
    <3> QED
      BY <3>1, <3>2, <3>4 DEF Version
  <2> HIDE DEF First
  <2> QED
    BY <2>1, <2>2
<1>2. row \in [Plan -> Row]
  <2>1. ASSUME NEW p \in Plan PROVE Stored(dss[p]) \in Row
    BY <1>1 DEF Stored, Row, Version, Intent
  <2> QED
    BY <2>1, NoRowType DEF Init
<1>3. req \in [Request -> Memory]
  BY BlankType DEF Init
<1> QED
  BY <1>1, <1>2, <1>3 DEF Init, TypeOK

(* A request is handed on with a well-formed memory.                       *)
LEMMA SetType ==
  ASSUME TypeOK, NEW r \in Request, NEW m \in Memory, req' = [req EXCEPT ![r] = m]
  PROVE  req' \in [Request -> Memory]
  BY DEF TypeOK

LEMMA EndType ==
  ASSUME TypeOK, NEW r \in Request, NEW how \in {"answered", "raised"}, End(r, how)
  PROVE  req' \in [Request -> Memory]
<1>1. [Blank EXCEPT !.at = how] \in Memory
  BY BlankType DEF Memory, Step
<1> QED
  BY <1>1 DEF TypeOK, End

LEMMA EasyTypes ==
  ASSUME TypeOK, NEW r \in Request
  PROVE  /\ Refuse(r) \/ ReceiveRaises(r) \/ ClearArea(r) \/ Fail(r) => TypeOK'
         /\ Load(r) \/ Reread(r) => TypeOK'
         /\ FetchConstraints(r) \/ ConstraintsRaise(r) => TypeOK'
         /\ Decline(r) \/ PutRefused(r) \/ NewRaises(r) => TypeOK'
         /\ DssRefusesDelete(r) => TypeOK'
<1>1. Refuse(r) => TypeOK'
  BY EndType DEF TypeOK, Refuse
<1>2. ReceiveRaises(r) => TypeOK'
  BY EndType DEF TypeOK, ReceiveRaises
<1>3. ClearArea(r) => TypeOK'
  BY EndType DEF TypeOK, ClearArea
<1>4. Fail(r) => TypeOK'
  BY EndType DEF TypeOK, Fail
<1>5. Load(r) => TypeOK'
  <2> SUFFICES ASSUME Load(r) PROVE TypeOK'
    OBVIOUS
  <2>1. CASE row[req[r].plan].at # "none"
    <3> DEFINE m == [req[r] EXCEPT !.at = "loaded", !.cur = row[req[r].plan].state]
    <3>1. req[r] \in Memory /\ row[req[r].plan].state \in {"Accepted", "Activated", "Nonconforming"}
      BY DEF TypeOK, Memory, Row
    <3>2. m \in Memory
      BY <3>1 DEF Memory, Step, Waiting
    <3>3. req' = [req EXCEPT ![r] = m]
      BY <2>1 DEF Load, TypeOK
    <3> QED
      BY <3>2, <3>3, SetType DEF TypeOK, Load
  <2>2. CASE row[req[r].plan].at = "none"
    BY <2>2, EndType DEF TypeOK, Load
  <2> QED
    BY <2>1, <2>2
<1>6. Reread(r) => TypeOK'
  <2> SUFFICES ASSUME Reread(r) PROVE TypeOK'
    OBVIOUS
  <2>1. CASE row[req[r].plan].at = "full"
    <3> DEFINE m == [req[r] EXCEPT !.at = "stored", !.ovn = row[req[r].plan].ovn]
    <3>1. req[r] \in Memory /\ row[req[r].plan].ovn \in Nat
      BY DEF TypeOK, Memory, Row
    <3>2. m \in Memory
      BY <3>1 DEF Memory, Step, Waiting
    <3>3. req' = [req EXCEPT ![r] = m]
      BY <2>1 DEF Reread, TypeOK
    <3> QED
      BY <3>2, <3>3, SetType DEF TypeOK, Reread
  <2>2. CASE row[req[r].plan].at # "full"
    BY <2>2, EndType DEF TypeOK, Reread
  <2> QED
    BY <2>1, <2>2
<1>7. FetchConstraints(r) => TypeOK'
  <2> SUFFICES ASSUME FetchConstraints(r) PROVE TypeOK'
    OBVIOUS
  <2>1. PICK z \in {0, zone} : req' = [req EXCEPT ![r].at = "keyed", ![r].zone = z]
    BY DEF FetchConstraints
  <2> DEFINE m == [req[r] EXCEPT !.at = "keyed", !.zone = z]
  <2>2. m \in Memory
    <3>1. req[r] \in Memory /\ z \in Nat
      BY DEF TypeOK
    <3> QED
      BY <3>1 DEF Memory, Step, Waiting
  <2>3. req' = [req EXCEPT ![r] = m]
    BY <2>1 DEF TypeOK
  <2> QED
    BY <2>2, <2>3, SetType DEF TypeOK, FetchConstraints
<1>8. ConstraintsRaise(r) => TypeOK'
  BY EndType DEF TypeOK, ConstraintsRaise
<1>9. Decline(r) => TypeOK'
  BY EndType DEF TypeOK, Decline
<1>10. PutRefused(r) => TypeOK'
  BY EndType DEF TypeOK, PutRefused
<1>11. NewRaises(r) => TypeOK'
  BY EndType DEF TypeOK, NewRaises
<1>12. DssRefusesDelete(r) => TypeOK'
  BY EndType DEF TypeOK, DssRefusesDelete
<1> QED
  BY <1>1, <1>2, <1>3, <1>4, <1>5, <1>6, <1>7, <1>8, <1>9, <1>10, <1>11, <1>12

LEMMA ReceiveType ==
  ASSUME TypeOK, NEW r \in Request, Receive(r)
  PROVE  TypeOK'
<1>1. PICK k \in Asks[r] :
        /\ Judged(k) = "accepted" /\ Usable(k)
        /\ req' = [req EXCEPT ![r] =
             CASE SameIdExists(k.plan) /\ Wanted(k) \in {"Activated", "Nonconforming"} ->
                    [Blank EXCEPT !.at = "found", !.plan = k.plan, !.area = k.area,
                                  !.prio = k.prio, !.to = Wanted(k)]
               [] OTHER -> [Blank EXCEPT !.at = "new", !.plan = k.plan, !.to = Wanted(k)]]
  BY DEF Receive
<1>2. k.plan \in Plan /\ k.area \in Area /\ k.prio \in BOOLEAN
  BY FlightPlansAssumption DEF Ask
<1>3. Wanted(k) \in {"Accepted", "Activated", "Nonconforming"}
  BY <1>1 DEF Usable, Wanted
<1>4. CASE SameIdExists(k.plan) /\ Wanted(k) \in {"Activated", "Nonconforming"}
  <2>1. [Blank EXCEPT !.at = "found", !.plan = k.plan, !.area = k.area,
                      !.prio = k.prio, !.to = Wanted(k)] \in Memory
    BY <1>2, <1>3, BlankType DEF Memory, Step, Waiting
  <2> QED
    BY <1>1, <1>4, <2>1, SetType DEF TypeOK, Receive
<1>5. CASE ~ (SameIdExists(k.plan) /\ Wanted(k) \in {"Activated", "Nonconforming"})
  <2>1. [Blank EXCEPT !.at = "new", !.plan = k.plan, !.to = Wanted(k)] \in Memory
    BY <1>2, <1>3, BlankType DEF Memory, Step, Waiting
  <2> QED
    BY <1>1, <1>5, <2>1, SetType DEF TypeOK, Receive
<1> QED
  BY <1>4, <1>5

LEMMA ReceiveDeleteType ==
  ASSUME TypeOK, NEW r \in Request, ReceiveDelete(r)
  PROVE  TypeOK'
<1>1. PICK p \in Plan :
        IF row[p].at = "full"
          THEN req' = [req EXCEPT ![r] = [Blank EXCEPT !.at = "deleting", !.plan = p,
                                                       !.ovn = row[p].ovn]]
          ELSE End(r, "answered")
  BY DEF ReceiveDelete
<1>2. row[p].ovn \in Nat
  BY DEF TypeOK, Row
<1>3. [Blank EXCEPT !.at = "deleting", !.plan = p, !.ovn = row[p].ovn] \in Memory
  BY <1>2, BlankType DEF Memory, Step, Waiting
<1>4. req' \in [Request -> Memory]
  BY <1>1, <1>3, EndType, SetType
<1> QED
  BY <1>4 DEF TypeOK, ReceiveDelete

LEMMA QueryType ==
  ASSUME TypeOK, NEW r \in Request, Query(r)
  PROVE  TypeOK'
<1>1. PICK S \in SUBSET Held :
        req' = [req EXCEPT ![r].at = "queried",
                 ![r].seen = {[id |-> i, ovn |-> dss[i].ovn, area |-> Blank.area] : i \in S}]
  BY DEF Query
<1>2. ASSUME NEW i \in S
      PROVE  [id |-> i, ovn |-> dss[i].ovn, area |-> Blank.area] \in Sight
  BY FlightPlansAssumption DEF Sight, Held, TypeOK, Version, Blank
<1>3. {[id |-> i, ovn |-> dss[i].ovn, area |-> Blank.area] : i \in S} \subseteq Sight
  BY <1>2
<1> DEFINE m == [req[r] EXCEPT !.at = "queried",
       !.seen = {[id |-> i, ovn |-> dss[i].ovn, area |-> Blank.area] : i \in S}]
<1>4. m \in Memory
  BY <1>3 DEF TypeOK, Memory, Step, Waiting
<1>5. req' = [req EXCEPT ![r] = m]
  BY <1>1 DEF TypeOK
<1> QED
  BY <1>4, <1>5, SetType DEF TypeOK, Query

(* Healing changes only the versions of rows.                              *)
LEMMA HealType ==
  ASSUME TypeOK, NEW S \in SUBSET Sight, Heal(S)
  PROVE  /\ row' \in [Plan -> Row]
         /\ \A p \in Plan : row'[p].at = row[p].at
<1>1. ASSUME NEW p \in Plan, \E s \in S : s.id = p
      PROVE  (CHOOSE s \in S : s.id = p).ovn \in Nat
  BY <1>1 DEF Sight
<1>2. ASSUME NEW p \in Plan
      PROVE  row'[p] \in Row /\ row'[p].at = row[p].at
  BY <1>1, <1>2 DEF Heal, TypeOK, Row
<1> QED
  BY <1>2 DEF Heal

LEMMA SeenType ==
  ASSUME TypeOK, NEW r \in Request
  PROVE  req[r].seen \in SUBSET Sight /\ SeenPlans(r) \in SUBSET Sight
  BY DEF TypeOK, Memory, SeenPlans

LEMMA ResolveType ==
  ASSUME TypeOK, NEW r \in Request, Resolve(r)
  PROVE  TypeOK'
<1>1. row' \in [Plan -> Row]
  BY SeenType, HealType DEF Resolve
<1>2. PICK Q \in SUBSET {s.id : s \in req[r].seen \ SeenPlans(r)} :
        /\ Q \subseteq Held
        /\ req' = [req EXCEPT ![r].at = "resolved",
             ![r].seen = {[s EXCEPT !.area = row[s.id].area] : s \in SeenPlans(r)}
               \cup {[id |-> q, ovn |-> dss[q].ovn, area |-> dss[q].area] : q \in Q}]
  BY DEF Resolve
<1>3. ASSUME NEW s \in SeenPlans(r)
      PROVE  [s EXCEPT !.area = row[s.id].area] \in Sight
  <2>1. s \in Sight /\ s.id \in Plan
    BY SeenType DEF SeenPlans
  <2>2. row[s.id].area \in Area
    BY <2>1 DEF TypeOK, Row
  <2> QED
    BY <2>1, <2>2 DEF Sight
<1>4. ASSUME NEW q \in Q
      PROVE  [id |-> q, ovn |-> dss[q].ovn, area |-> dss[q].area] \in Sight
  <2>1. q \in Intent
    BY <1>2 DEF Held
  <2> QED
    BY <2>1 DEF TypeOK, Version, Sight
<1>5. {[s EXCEPT !.area = row[s.id].area] : s \in SeenPlans(r)}
        \cup {[id |-> q, ovn |-> dss[q].ovn, area |-> dss[q].area] : q \in Q} \subseteq Sight
  BY <1>3, <1>4
<1> DEFINE m == [req[r] EXCEPT !.at = "resolved",
       !.seen = {[s EXCEPT !.area = row[s.id].area] : s \in SeenPlans(r)}
         \cup {[id |-> q, ovn |-> dss[q].ovn, area |-> dss[q].area] : q \in Q}]
<1>6. req' \in [Request -> Memory]
  <2>1. m \in Memory
    BY <1>5 DEF TypeOK, Memory, Step, Waiting
  <2>2. req' = [req EXCEPT ![r] = m]
    BY <1>2 DEF TypeOK
  <2> QED
    BY <2>1, <2>2, SetType
<1> QED
  BY <1>1, <1>6 DEF TypeOK, Resolve

LEMMA ResolveFailsType ==
  ASSUME TypeOK, NEW r \in Request, ResolveFails(r)
  PROVE  TypeOK'
<1>1. PICK S \in SUBSET SeenPlans(r) : Heal(S)
  BY DEF ResolveFails
<1>2. S \in SUBSET Sight
  BY <1>1, SeenType
<1>3. row' \in [Plan -> Row]
  BY <1>1, <1>2, HealType
<1>4. req' \in [Request -> Memory]
  BY EndType DEF ResolveFails
<1> QED
  BY <1>3, <1>4 DEF TypeOK, ResolveFails

LEMMA PutAcceptedType ==
  ASSUME TypeOK, NEW r \in Request, PutAccepted(r)
  PROVE  TypeOK'
<1> DEFINE p == req[r].plan
<1>1. /\ req[r] \in Memory /\ p \in Intent /\ dss[p].ovn + 1 \in Nat
  BY DEF TypeOK, Memory, Intent, Version
<1>2. [held |-> TRUE, ovn |-> dss[p].ovn + 1, area |-> req[r].area,
       prio |-> req[r].prio, state |-> req[r].to] \in Version
  BY <1>1 DEF Memory, Version
<1>3. dss' \in [Intent -> Version]
  BY <1>2 DEF TypeOK, PutAccepted
<1>4. CASE req' = [req EXCEPT ![r].at = "updated", ![r].ovn = dss[p].ovn + 1]
  <2>1. req' \in [Request -> Memory]
    BY <1>1, <1>4 DEF TypeOK, Memory, Step, Waiting
  <2> QED
    BY <1>3, <2>1 DEF TypeOK, PutAccepted
<1>5. CASE End(r, "raised")
  BY <1>3, <1>5, EndType DEF TypeOK, PutAccepted
<1> QED
  BY <1>4, <1>5 DEF PutAccepted

LEMMA CommitType ==
  ASSUME TypeOK, NEW r \in Request, Commit(r)
  PROVE  TypeOK'
<1> DEFINE p == req[r].plan
<1>1. req[r] \in Memory /\ p \in Plan /\ row[p] \in Row
  BY DEF TypeOK, Memory
<1>2. req' \in [Request -> Memory]
  BY EndType DEF Commit
<1>3. CASE row[p].at = "full"
  <2>1. row' \in [Plan -> Row]
    BY <1>1, <1>3 DEF TypeOK, Commit, Memory, Row
  <2> QED
    BY <1>2, <2>1 DEF TypeOK, Commit
<1>4. CASE row[p].at # "full"
  BY <1>2, <1>4 DEF TypeOK, Commit
<1> QED
  BY <1>3, <1>4

LEMMA NewTooLateType ==
  ASSUME TypeOK, NEW r \in Request, NewTooLate(r)
  PROVE  TypeOK'
<1>1. req[r] \in Memory /\ req[r].plan \in Plan
  BY DEF TypeOK, Memory
<1>2. row' \in [Plan -> Row]
  BY <1>1 DEF TypeOK, NewTooLate, Row
<1>3. req' \in [Request -> Memory]
  BY EndType DEF NewTooLate
<1> QED
  BY <1>2, <1>3 DEF TypeOK, NewTooLate

LEMMA DeleteTypes ==
  ASSUME TypeOK, NEW r \in Request
  PROVE  /\ DssDelete(r) => TypeOK'
         /\ CommitDelete(r) => TypeOK'
<1>1. req[r] \in Memory /\ req[r].plan \in Plan /\ req[r].plan \in Intent
  BY DEF TypeOK, Memory, Intent
<1>2. ASSUME DssDelete(r) PROVE TypeOK'
  <2>1. dss' \in [Intent -> Version]
    BY <1>1, <1>2 DEF TypeOK, DssDelete, Version
  <2>2. req' \in [Request -> Memory]
    BY <1>2, EndType DEF TypeOK, DssDelete, Become, Memory, Step, Waiting
  <2> QED
    BY <1>2, <2>1, <2>2 DEF TypeOK, DssDelete
<1>3. ASSUME CommitDelete(r) PROVE TypeOK'
  BY <1>1, <1>3, EndType, NoRowType DEF TypeOK, CommitDelete
<1> QED
  BY <1>2, <1>3

LEMMA OthersType ==
  ASSUME TypeOK
  PROVE  /\ \A p \in Plan : OperatorDeletes(p) => TypeOK'
         /\ \A q \in Peer : PeerPuts(q) \/ PeerWithdraws(q) => TypeOK'
         /\ ConstraintChanges => TypeOK'
<1>1. ASSUME NEW p \in Plan, OperatorDeletes(p) PROVE TypeOK'
  BY <1>1, NoRowType DEF TypeOK, OperatorDeletes
<1>2. ASSUME NEW q \in Peer, PeerPuts(q) PROVE TypeOK'
  <2>1. dss[q] \in Version
    BY DEF TypeOK, Intent
  <2>2. PICK a \in Area :
          dss' = [dss EXCEPT ![q] = [held |-> TRUE, ovn |-> dss[q].ovn + 1, area |-> a,
                                     prio |-> FALSE, state |-> "Activated"]]
    BY <1>2 DEF PeerPuts
  <2>3. [held |-> TRUE, ovn |-> dss[q].ovn + 1, area |-> a,
         prio |-> FALSE, state |-> "Activated"] \in Version
    BY <2>1 DEF Version
  <2>4. dss' \in [Intent -> Version]
    BY <2>2, <2>3 DEF TypeOK
  <2> QED
    BY <1>2, <2>4 DEF TypeOK, PeerPuts
<1>3. ASSUME NEW q \in Peer, PeerWithdraws(q) PROVE TypeOK'
  <2>1. q \in Intent
    BY DEF Intent
  <2> QED
    BY <1>3, <2>1 DEF TypeOK, PeerWithdraws, Version
<1>4. ASSUME ConstraintChanges PROVE TypeOK'
  BY <1>4 DEF TypeOK, ConstraintChanges
<1> QED
  BY <1>1, <1>2, <1>3, <1>4

LEMMA NextType == TypeOK /\ [Next]_vars => TypeOK'
<1> SUFFICES ASSUME TypeOK, [Next]_vars PROVE TypeOK'
  OBVIOUS
<1>1. CASE UNCHANGED vars
  BY <1>1 DEF vars, TypeOK
<1>2. ASSUME NEW r \in Request,
             Refuse(r) \/ ReceiveRaises(r) \/ Receive(r) \/ ReceiveDelete(r) \/ ClearArea(r)
               \/ Fail(r)
      PROVE  TypeOK'
  BY <1>2, EasyTypes, ReceiveType, ReceiveDeleteType
<1>3. ASSUME NEW r \in Request, Proceed(r) PROVE TypeOK'
  BY <1>3, EasyTypes, QueryType, ResolveType, ResolveFailsType, PutAcceptedType,
     CommitType, NewTooLateType, DeleteTypes DEF Proceed
<1> QED
  BY <1>1, <1>2, <1>3, OthersType DEF Next

(* The state of every run is well formed: requests, rows and intents take  *)
(* only the values of flight_planning.py and of the models.                *)
THEOREM TypeCorrect == Spec => []TypeOK
  BY InitType, NextType, PTL DEF Spec

-----------------------------------------------------------------------------
(* What the steps leave alone.                                             *)

(* A step of one request is none of another.                               *)
LEMMA StepOfOne ==
  ASSUME TypeOK, NEW r \in Request, NEW o \in Request \ {r},
         \/ Refuse(r) \/ ReceiveRaises(r) \/ Receive(r) \/ ReceiveDelete(r) \/ ClearArea(r)
         \/ Proceed(r) \/ Fail(r)
  PROVE  req'[o] = req[o]
<1>1. \A how : End(r, how) => req'[o] = req[o]
  BY DEF End, TypeOK
<1>2. Refuse(r) \/ ReceiveRaises(r) \/ ReceiveDelete(r) \/ ClearArea(r) \/ Fail(r)
        => req'[o] = req[o]
  BY <1>1 DEF Refuse, ReceiveRaises, ReceiveDelete, ClearArea, Fail, TypeOK
<1>3. Receive(r) => req'[o] = req[o]
  BY DEF Receive, TypeOK
<1>4. Load(r) \/ Reread(r) \/ FetchConstraints(r) \/ ConstraintsRaise(r) => req'[o] = req[o]
  BY <1>1 DEF Load, Reread, FetchConstraints, ConstraintsRaise, TypeOK
<1>5. Query(r) \/ Resolve(r) => req'[o] = req[o]
  BY DEF Query, Resolve, TypeOK
<1>6. ResolveFails(r) \/ Decline(r) \/ PutRefused(r) \/ NewTooLate(r) \/ NewRaises(r)
        => req'[o] = req[o]
  BY <1>1 DEF ResolveFails, Decline, PutRefused, NewTooLate, NewRaises
<1>7. PutAccepted(r) \/ Commit(r) => req'[o] = req[o]
  BY <1>1 DEF PutAccepted, Commit, TypeOK
<1>8. DssDelete(r) \/ DssRefusesDelete(r) \/ CommitDelete(r) => req'[o] = req[o]
  BY <1>1 DEF DssDelete, DssRefusesDelete, CommitDelete, Become, TypeOK
<1> QED
  BY <1>2, <1>3, <1>4, <1>5, <1>6, <1>7, <1>8 DEF Proceed

(* Where a request of which the DSS has deleted the intent comes from.     *)
LEMMA OnlyDssDeleteDeletes ==
  ASSUME TypeOK, NEW r \in Request,
         \/ Refuse(r) \/ ReceiveRaises(r) \/ Receive(r) \/ ReceiveDelete(r) \/ ClearArea(r)
         \/ Proceed(r) \/ Fail(r)
  PROVE  req'[r].at = "deleted" => DssDelete(r) /\ req'[r].plan = req[r].plan
<1>1. \A how : End(r, how) => req'[r].at = how
  BY DEF End, TypeOK, Blank
<1>2. Refuse(r) \/ ReceiveRaises(r) \/ ClearArea(r) \/ Fail(r) => req'[r].at # "deleted"
  BY <1>1 DEF Refuse, ReceiveRaises, ClearArea, Fail
<1>3. ReceiveDelete(r) => req'[r].at # "deleted"
  BY <1>1 DEF ReceiveDelete, TypeOK, Blank
<1>4. Receive(r) => req'[r].at # "deleted"
  BY DEF Receive, TypeOK, Blank
<1>5. Load(r) \/ Reread(r) => req'[r].at # "deleted"
  BY <1>1 DEF Load, Reread, TypeOK, Memory
<1>6. FetchConstraints(r) \/ ConstraintsRaise(r) => req'[r].at # "deleted"
  BY <1>1 DEF FetchConstraints, ConstraintsRaise, TypeOK, Memory
<1>7. Query(r) \/ Resolve(r) => req'[r].at # "deleted"
  BY DEF Query, Resolve, TypeOK, Memory
<1>8. ResolveFails(r) \/ Decline(r) \/ PutRefused(r) \/ NewTooLate(r) \/ NewRaises(r)
        => req'[r].at # "deleted"
  BY <1>1 DEF ResolveFails, Decline, PutRefused, NewTooLate, NewRaises
<1>9. PutAccepted(r) \/ Commit(r) => req'[r].at # "deleted"
  BY <1>1 DEF PutAccepted, Commit, TypeOK, Memory
<1>10. DssRefusesDelete(r) \/ CommitDelete(r) => req'[r].at # "deleted"
  BY <1>1 DEF DssRefusesDelete, CommitDelete
<1>11. DssDelete(r) /\ req'[r].at = "deleted" => req'[r].plan = req[r].plan
  BY <1>1 DEF DssDelete, Become, TypeOK, Memory
<1> QED
  BY <1>2, <1>3, <1>4, <1>5, <1>6, <1>7, <1>8, <1>9, <1>10, <1>11 DEF Proceed

(* What a request does to the DSS.                                         *)
LEMMA RequestAndDss ==
  ASSUME TypeOK, NEW r \in Request,
         \/ Refuse(r) \/ ReceiveRaises(r) \/ Receive(r) \/ ReceiveDelete(r) \/ ClearArea(r)
         \/ Proceed(r) \/ Fail(r)
  PROVE  \/ dss' = dss
         \/ PutAccepted(r)
         \/ DssDelete(r)
  BY DEF Refuse, ReceiveRaises, Receive, ReceiveDelete, ClearArea, Fail, Proceed, Load, Reread,
     FetchConstraints, ConstraintsRaise, Query, Resolve, ResolveFails, Decline, PutRefused,
     NewTooLate, NewRaises, Commit, DssRefusesDelete, CommitDelete

(* A reference is only lost by the commit of a deletion.                   *)
LEMMA RequestAndRow ==
  ASSUME TypeOK, NEW r \in Request,
         \/ Refuse(r) \/ ReceiveRaises(r) \/ Receive(r) \/ ReceiveDelete(r) \/ ClearArea(r)
         \/ Proceed(r) \/ Fail(r)
  PROVE  /\ dropped' = dropped
         /\ \A p \in Plan : row[p].at = "full" =>
              row'[p].at = "full" \/ (CommitDelete(r) /\ p = req[r].plan)
<1>1. CASE row' = row /\ dropped' = dropped
  BY <1>1
<1>2. CASE Resolve(r)
  BY <1>2, SeenType, HealType DEF Resolve
<1>3. CASE ResolveFails(r)
  <2>1. PICK S \in SUBSET SeenPlans(r) : Heal(S)
    BY <1>3 DEF ResolveFails
  <2>2. S \in SUBSET Sight
    BY <2>1, SeenType
  <2> QED
    BY <1>3, <2>1, <2>2, HealType DEF ResolveFails
<1>4. CASE Commit(r)
  BY <1>4 DEF Commit, TypeOK, Row
<1>5. CASE NewTooLate(r)
  BY <1>5 DEF NewTooLate, TypeOK, Row
<1>6. CASE CommitDelete(r)
  BY <1>6 DEF CommitDelete, TypeOK
<1> QED
  BY <1>1, <1>2, <1>3, <1>4, <1>5, <1>6
  DEF Refuse, ReceiveRaises, Receive, ReceiveDelete, ClearArea, Fail, Proceed, Load, Reread,
      FetchConstraints, ConstraintsRaise, Query, Decline, PutAccepted, PutRefused,
      NewRaises, DssDelete, DssRefusesDelete

-----------------------------------------------------------------------------
(* Intents and their rows.                                                 *)

(* What a request that is about to delete its row knows.                   *)
DeletedGone ==
  \A r \in Request : req[r].at = "deleted" => ~dss[req[r].plan].held

RowInv == TypeOK /\ NoIntentWithoutRow /\ DeletedGone

LEMMA RowInit == Init => RowInv
<1> SUFFICES ASSUME Init PROVE RowInv
  OBVIOUS
<1>1. DeletedGone
  BY DEF Init, DeletedGone, Blank
<1>2. NoIntentWithoutRow
  BY DEF Init, NoIntentWithoutRow, Stored
<1> QED
  BY <1>1, <1>2, InitType DEF RowInv

(* The DSS holds no plan of ours after a step that it did not hold before. *)
LEMMA HeldBefore ==
  ASSUME TypeOK, [Next]_vars, NEW p \in Plan, dss'[p].held
  PROVE  dss[p].held
<1>0. p \in Intent /\ p \notin Peer
  BY FlightPlansAssumption DEF Intent
<1>1. CASE dss' = dss
  BY <1>1
<1>2. ASSUME NEW r \in Request, PutAccepted(r) PROVE dss[p].held
  BY <1>0, <1>2 DEF PutAccepted, Accepts, TypeOK
<1>3. ASSUME NEW r \in Request, DssDelete(r) PROVE dss[p].held
  BY <1>0, <1>3 DEF DssDelete, TypeOK, Version
<1>4. ASSUME NEW q \in Peer, PeerPuts(q) \/ PeerWithdraws(q) PROVE dss[p].held
  BY <1>0, <1>4 DEF PeerPuts, PeerWithdraws, TypeOK
<1> QED
  BY <1>1, <1>2, <1>3, <1>4, RequestAndDss
  DEF Next, vars, OperatorDeletes, ConstraintChanges

LEMMA RowNext == RowInv /\ [Next]_vars => RowInv'
<1> SUFFICES ASSUME RowInv, [Next]_vars PROVE RowInv'
  OBVIOUS
<1> USE DEF RowInv
<1>1. TypeOK'
  BY NextType
<1>2. CASE UNCHANGED vars
  BY <1>1, <1>2 DEF vars, NoIntentWithoutRow, DeletedGone
<1>3. ASSUME NEW r \in Request,
             \/ Refuse(r) \/ ReceiveRaises(r) \/ Receive(r) \/ ReceiveDelete(r)
             \/ ClearArea(r) \/ Proceed(r) \/ Fail(r)
      PROVE  NoIntentWithoutRow' /\ DeletedGone'
  <2>1. ASSUME NEW p \in Plan, dss'[p].held
        PROVE  row'[p].at = "full" \/ p \in dropped'
    <3>1. dss[p].held
      BY <2>1, HeldBefore
    <3>2. CASE p \in dropped
      BY <1>3, <3>2, RequestAndRow
    <3>3. CASE row[p].at = "full"
      <4>1. CASE CommitDelete(r) /\ p = req[r].plan
        BY <3>1, <4>1 DEF CommitDelete, DeletedGone
      <4> QED
        BY <1>3, <3>3, <4>1, RequestAndRow
    <3> QED
      BY <3>1, <3>2, <3>3 DEF NoIntentWithoutRow
  <2>2. ASSUME NEW o \in Request, req'[o].at = "deleted"
        PROVE  ~dss'[req'[o].plan].held
    <3>1. CASE o = r
      <4>1. DssDelete(r) /\ req'[r].plan = req[r].plan
        BY <1>3, <2>2, <3>1, OnlyDssDeleteDeletes
      <4>2. req[r].plan \in Intent /\ dss[req[r].plan] \in Version
        BY DEF TypeOK, Memory, Intent
      <4> QED
        BY <3>1, <4>1, <4>2 DEF DssDelete, TypeOK, Version
    <3>2. CASE o # r
      <4>1. req'[o] = req[o]
        BY <1>3, <3>2, StepOfOne
      <4>2. req[o].plan \in Plan /\ ~dss[req[o].plan].held
        BY <2>2, <4>1 DEF DeletedGone, TypeOK, Memory
      <4> QED
        BY <4>1, <4>2, HeldBefore
    <3> QED
      BY <3>1, <3>2
  <2> QED
    BY <2>1, <2>2 DEF NoIntentWithoutRow, DeletedGone
<1>4. ASSUME NEW p \in Plan, OperatorDeletes(p)
      PROVE  NoIntentWithoutRow' /\ DeletedGone'
  BY <1>4 DEF OperatorDeletes, NoIntentWithoutRow, DeletedGone, TypeOK
<1>5. ASSUME ConstraintChanges \/ \E q \in Peer : PeerPuts(q) \/ PeerWithdraws(q)
      PROVE  NoIntentWithoutRow' /\ DeletedGone'
  <2>1. UNCHANGED <<row, req, dropped>>
    BY <1>5 DEF ConstraintChanges, PeerPuts, PeerWithdraws
  <2>2. \A r \in Request : req[r].plan \in Plan
    BY DEF TypeOK, Memory
  <2>3. \A p \in Plan : dss'[p].held => dss[p].held
    BY HeldBefore
  <2> QED
    BY <2>1, <2>2, <2>3 DEF NoIntentWithoutRow, DeletedGone
<1> QED
  BY <1>1, <1>2, <1>3, <1>4, <1>5 DEF Next

(* No failure, race, lost answer or late commit of a request leaves an     *)
(* intent in the DSS without its reference in the database: only an        *)
(* operator who deletes the declaration does (delete_flight_plan of        *)
(* flight_planning.py and the order in which it deletes).                  *)
THEOREM IntentsHaveRows == Spec => []NoIntentWithoutRow
<1>1. RowInv => NoIntentWithoutRow
  BY DEF RowInv
<1> QED
  BY <1>1, RowInit, RowNext, PTL DEF Spec

-----------------------------------------------------------------------------
(* What an update is decided on.                                           *)

(* What a request has seen of a peer's intent is a version it has had, and *)
(* is what the peer holds now if the version is still the same.            *)
SeenOnce(r) ==
  req[r].at \in {"resolved", "keyed"} =>
    \A s \in req[r].seen : s.id \in Peer =>
      /\ s.ovn <= dss[s.id].ovn
      /\ s.ovn = dss[s.id].ovn => s.area = dss[s.id].area

SeenInv == TypeOK /\ \A r \in Request : SeenOnce(r)

(* Only the requests that end their look around begin to have seen.        *)
LEMMA WhoHasSeen ==
  ASSUME TypeOK, NEW r \in Request, req'[r].at \in {"resolved", "keyed"},
         \/ Refuse(r) \/ ReceiveRaises(r) \/ Receive(r) \/ ReceiveDelete(r) \/ ClearArea(r)
         \/ Proceed(r) \/ Fail(r)
  PROVE  \/ Resolve(r)
         \/ req[r].at = "resolved" /\ req'[r].seen = req[r].seen
<1>1. \A how : End(r, how) => req'[r].at = how
  BY DEF End, TypeOK, Blank
<1>2. ~ (Refuse(r) \/ ReceiveRaises(r) \/ ClearArea(r) \/ Fail(r))
  BY <1>1 DEF Refuse, ReceiveRaises, ClearArea, Fail
<1>3. ~ReceiveDelete(r)
  BY <1>1 DEF ReceiveDelete, TypeOK, Blank
<1>4. ~Receive(r)
  <2>1. Receive(r) => req'[r].at = "found" \/ req'[r].at = "new"
    BY DEF Receive, TypeOK, Blank
  <2> QED
    BY <2>1
<1>5. ~ (Load(r) \/ Reread(r) \/ ConstraintsRaise(r))
  BY <1>1 DEF Load, Reread, ConstraintsRaise, TypeOK, Memory
<1>6. FetchConstraints(r) => req[r].at = "resolved" /\ req'[r].seen = req[r].seen
  BY DEF FetchConstraints, TypeOK, Memory
<1>7. ~Query(r)
  BY DEF Query, TypeOK, Memory
<1>8. ~ (ResolveFails(r) \/ Decline(r) \/ PutRefused(r) \/ NewTooLate(r) \/ NewRaises(r))
  BY <1>1 DEF ResolveFails, Decline, PutRefused, NewTooLate, NewRaises
<1>9. ~ (PutAccepted(r) \/ Commit(r))
  BY <1>1 DEF PutAccepted, Commit, TypeOK, Memory
<1>10. ~ (DssRefusesDelete(r) \/ CommitDelete(r) \/ DssDelete(r))
  BY <1>1 DEF DssRefusesDelete, CommitDelete, DssDelete, Become, TypeOK, Memory
<1> QED
  BY <1>2, <1>3, <1>4, <1>5, <1>6, <1>7, <1>8, <1>9, <1>10 DEF Proceed

(* An intent of a peer keeps its volumes or gets a later version.          *)
LEMMA PeersGoOn ==
  ASSUME TypeOK, [Next]_vars, NEW q \in Peer
  PROVE  \/ dss'[q].ovn = dss[q].ovn /\ dss'[q].area = dss[q].area
         \/ dss'[q].ovn = dss[q].ovn + 1
<1>0. q \in Intent /\ q \notin Plan
  BY FlightPlansAssumption DEF Intent
<1>1. CASE dss' = dss
  BY <1>1
<1>2. ASSUME NEW r \in Request, PutAccepted(r) \/ DssDelete(r) PROVE dss'[q] = dss[q]
  <2>1. req[r].plan # q
    BY <1>0 DEF TypeOK, Memory
  <2> QED
    BY <1>0, <1>2, <2>1 DEF PutAccepted, DssDelete, TypeOK
<1>3. ASSUME NEW p \in Peer, PeerPuts(p)
      PROVE  dss'[q] = dss[q] \/ dss'[q].ovn = dss[q].ovn + 1
  BY <1>0, <1>3 DEF PeerPuts, TypeOK
<1>4. ASSUME NEW p \in Peer, PeerWithdraws(p)
      PROVE  dss'[q].ovn = dss[q].ovn /\ dss'[q].area = dss[q].area
  BY <1>0, <1>4 DEF PeerWithdraws, TypeOK, Version
<1> QED
  BY <1>1, <1>2, <1>3, <1>4, RequestAndDss
  DEF Next, vars, OperatorDeletes, ConstraintChanges

(* What was seen once stays so whatever the peers do.                      *)
LEMMA StillSeen ==
  ASSUME TypeOK, [Next]_vars, NEW s \in Sight, s.id \in Peer,
         s.ovn <= dss[s.id].ovn, s.ovn = dss[s.id].ovn => s.area = dss[s.id].area
  PROVE  /\ s.ovn <= dss'[s.id].ovn
         /\ s.ovn = dss'[s.id].ovn => s.area = dss'[s.id].area
<1>1. s.ovn \in Nat /\ dss[s.id].ovn \in Nat
  BY DEF Sight, TypeOK, Version
<1>2. CASE dss'[s.id].ovn = dss[s.id].ovn /\ dss'[s.id].area = dss[s.id].area
  BY <1>1, <1>2
<1>3. CASE dss'[s.id].ovn = dss[s.id].ovn + 1
  BY <1>1, <1>3
<1> QED
  BY <1>2, <1>3, PeersGoOn

LEMMA ResolveSees ==
  ASSUME TypeOK, NEW r \in Request, Resolve(r)
  PROVE  \A s \in req'[r].seen : s.id \in Peer =>
           s.ovn = dss'[s.id].ovn /\ s.area = dss'[s.id].area
<1>0. PICK Q \in SUBSET {s.id : s \in req[r].seen \ SeenPlans(r)} :
        req' = [req EXCEPT ![r].at = "resolved",
          ![r].seen = {[s EXCEPT !.area = row[s.id].area] : s \in SeenPlans(r)}
            \cup {[id |-> q, ovn |-> dss[q].ovn, area |-> dss[q].area] : q \in Q}]
  BY DEF Resolve
<1>1. req'[r].seen = {[s EXCEPT !.area = row[s.id].area] : s \in SeenPlans(r)}
            \cup {[id |-> q, ovn |-> dss[q].ovn, area |-> dss[q].area] : q \in Q}
  BY <1>0 DEF TypeOK, Memory
<1>2. ASSUME NEW t \in SeenPlans(r)
      PROVE  [t EXCEPT !.area = row[t.id].area].id \notin Peer
  <2>1. t \in Sight /\ t.id \in Plan
    BY SeenType DEF SeenPlans
  <2>2. [t EXCEPT !.area = row[t.id].area].id = t.id
    BY <2>1 DEF Sight
  <2> QED
    BY <2>1, <2>2, FlightPlansAssumption
<1>3. dss' = dss
  BY DEF Resolve
<1>4. ASSUME NEW s \in req'[r].seen, s.id \in Peer
      PROVE  s.ovn = dss'[s.id].ovn /\ s.area = dss'[s.id].area
  <2>1. s \notin {[t EXCEPT !.area = row[t.id].area] : t \in SeenPlans(r)}
    BY <1>2, <1>4
  <2>2. PICK q \in Q : s = [id |-> q, ovn |-> dss[q].ovn, area |-> dss[q].area]
    BY <1>1, <1>4, <2>1
  <2> QED
    BY <1>3, <2>2
<1> QED
  BY <1>4

LEMMA SeenInit == Init => SeenInv
<1> SUFFICES ASSUME Init PROVE SeenInv
  OBVIOUS
<1>1. \A r \in Request : req[r].at = "idle"
  BY DEF Init, Blank
<1> QED
  BY <1>1, InitType DEF SeenInv, SeenOnce

LEMMA SeenNext == SeenInv /\ [Next]_vars => SeenInv'
<1> SUFFICES ASSUME SeenInv, [Next]_vars PROVE SeenInv'
  OBVIOUS
<1>1. TypeOK /\ TypeOK'
  BY NextType DEF SeenInv
<1>2. ASSUME NEW r \in Request, req'[r] = req[r] PROVE SeenOnce(r)'
  <2>1. req[r].seen \in SUBSET Sight
    BY <1>1, SeenType
  <2> QED
    BY <1>1, <1>2, <2>1, StillSeen DEF SeenInv, SeenOnce
<1>3. ASSUME NEW r \in Request,
             \/ Refuse(r) \/ ReceiveRaises(r) \/ Receive(r) \/ ReceiveDelete(r)
             \/ ClearArea(r) \/ Proceed(r) \/ Fail(r)
      PROVE  \A o \in Request : SeenOnce(o)'
  <2>1. ASSUME NEW o \in Request \ {r} PROVE SeenOnce(o)'
    BY <1>1, <1>2, <1>3, StepOfOne
  <2>2. CASE Resolve(r)
    <3>1. \A s \in req'[r].seen : s \in Sight
      BY <1>1 DEF TypeOK, Memory
    <3>2. \A s \in Sight : s.ovn \in Nat
      BY DEF Sight
    <3> QED
      BY <1>1, <2>1, <2>2, <3>1, <3>2, ResolveSees DEF SeenOnce
  <2>3. CASE ~Resolve(r)
    <3>1. req'[r].at \in {"resolved", "keyed"} =>
            req[r].at = "resolved" /\ req'[r].seen = req[r].seen
      BY <1>1, <1>3, <2>3, WhoHasSeen
    <3>2. req[r].seen \in SUBSET Sight
      BY <1>1, SeenType
    <3>3. SeenOnce(r)'
      BY <1>1, <3>1, <3>2, StillSeen DEF SeenInv, SeenOnce
    <3> QED
      BY <2>1, <3>3
  <2> QED
    BY <2>2, <2>3
<1>4. CASE req' = req
  BY <1>1, <1>2, <1>4 DEF SeenInv
<1> QED
  BY <1>1, <1>3, <1>4
  DEF SeenInv, Next, vars, OperatorDeletes, ConstraintChanges, PeerPuts, PeerWithdraws

(* The step in which the DSS takes the update of a request is that one's.  *)
LEMMA WhoPuts ==
  ASSUME TypeOK, [Next]_vars, NEW r \in Request, Puts(r)
  PROVE  PutAccepted(r)
<1>1. req' # req /\ dss' # dss
  BY DEF Puts
<1>2. PICK o \in Request : PutAccepted(o) \/ DssDelete(o)
  BY <1>1, RequestAndDss
  DEF Next, vars, OperatorDeletes, ConstraintChanges, PeerPuts, PeerWithdraws
<1>3. CASE o = r
  BY <1>2, <1>3 DEF Puts, DssDelete
<1>4. CASE o # r
  BY <1>2, <1>4, StepOfOne DEF Puts, Proceed
<1> QED
  BY <1>3, <1>4

LEMMA PutDecides ==
  ASSUME SeenInv, NEW r \in Request, PutAccepted(r)
  PROVE  /\ zone # 0 => req[r].zone = zone
         /\ \A q \in Peer : dss[q].held =>
              \E s \in req[r].seen : s.id = q /\ s.area = dss[q].area
<1>1. zone # 0 => req[r].zone = zone
  BY DEF PutAccepted, Accepts
<1>2. ASSUME NEW q \in Peer, dss[q].held
      PROVE  \E s \in req[r].seen : s.id = q /\ s.area = dss[q].area
  <2>1. q \in Held \ {req[r].plan}
    BY <1>2, FlightPlansAssumption DEF SeenInv, TypeOK, Memory, Held, Intent
  <2>2. <<q, dss[q].ovn>> \in Key(r)
    BY <2>1 DEF PutAccepted, Accepts
  <2>3. PICK s \in req[r].seen : s.id = q /\ s.ovn = dss[q].ovn
    BY <2>2 DEF Key
  <2>4. s.area = dss[q].area
    BY <2>3 DEF SeenInv, SeenOnce, PutAccepted
  <2> QED
    BY <2>3, <2>4
<1> QED
  BY <1>1, <1>2

(* An update the DSS takes was decided on the current volumes of every     *)
(* peer and the current constraint: what a request remembers of a peer may *)
(* be old, but then its version is, and the key is refused (Key, of        *)
(* update_specified_operational_intent_reference).                         *)
THEOREM CurrentPeersDecide == Spec => DecidedOnCurrentPeers
<1> DEFINE Decided ==
      \A r \in Request :
        Puts(r) =>
          /\ zone # 0 => req[r].zone = zone
          /\ \A q \in Peer : dss[q].held =>
               \E s \in req[r].seen : s.id = q /\ s.area = dss[q].area
<1>1. SeenInv /\ [Next]_vars => Decided
  BY WhoPuts, PutDecides DEF SeenInv
<1>2. SeenInv /\ [Next]_vars => [Decided]_vars
  BY <1>1
<1>3. Spec => [][Decided]_vars
  BY <1>2, SeenInit, SeenNext, PTL DEF Spec
<1> QED
  BY <1>3 DEF DecidedOnCurrentPeers

-----------------------------------------------------------------------------
(* The airspace: with one plan of ours, every step is one of Airspace.     *)

(* A request that looks around asks for an activation or a deviation, and  *)
(* remembers one version of each peer.                                     *)
Looking == {"found", "loaded", "stored", "queried", "resolved", "keyed"}

AsksFor(r) == req[r].at \in Looking => req[r].to \in {"Activated", "Nonconforming"}

SeenApart(r) ==
  req[r].at \in {"resolved", "keyed"} =>
    \A s, t \in req[r].seen : s.id \in Peer /\ s.id = t.id => s = t

AirInv == SeenInv /\ \A r \in Request : AsksFor(r) /\ SeenApart(r)

(* What a request asks for is settled when it is received.                 *)
LEMMA WhoLooks ==
  ASSUME TypeOK, NEW r \in Request, req'[r].at \in Looking,
         \/ Refuse(r) \/ ReceiveRaises(r) \/ Receive(r) \/ ReceiveDelete(r) \/ ClearArea(r)
         \/ Proceed(r) \/ Fail(r)
  PROVE  Receive(r) \/ (req[r].at \in Looking /\ req'[r].to = req[r].to)
<1>1. \A how \in {"answered", "raised"} : ~End(r, how)
  BY DEF End, TypeOK, Blank, Looking
<1>2. ~ (Refuse(r) \/ ReceiveRaises(r) \/ ClearArea(r) \/ Fail(r))
  BY <1>1 DEF Refuse, ReceiveRaises, ClearArea, Fail
<1>3. ~ReceiveDelete(r)
  <2>1. ReceiveDelete(r) => req'[r].at = "deleting" \/ End(r, "answered")
    BY DEF ReceiveDelete, TypeOK, Blank
  <2> QED
    BY <1>1, <2>1 DEF Looking
<1>4. Load(r) \/ Reread(r) => req[r].at \in Looking /\ req'[r].to = req[r].to
  BY <1>1 DEF Load, Reread, TypeOK, Memory, Looking
<1>5. Query(r) => req[r].at \in Looking /\ req'[r].to = req[r].to
  BY DEF Query, TypeOK, Memory, Looking
<1>6. Resolve(r) => req[r].at \in Looking /\ req'[r].to = req[r].to
  BY DEF Resolve, TypeOK, Memory, Looking
<1>7. FetchConstraints(r) => req[r].at \in Looking /\ req'[r].to = req[r].to
  BY DEF FetchConstraints, TypeOK, Memory, Looking
<1>8. ~ (ResolveFails(r) \/ ConstraintsRaise(r) \/ Decline(r) \/ PutRefused(r)
           \/ NewTooLate(r) \/ NewRaises(r))
  BY <1>1 DEF ResolveFails, ConstraintsRaise, Decline, PutRefused, NewTooLate, NewRaises
<1>9. ~ (PutAccepted(r) \/ Commit(r))
  BY <1>1 DEF PutAccepted, Commit, TypeOK, Memory, Looking
<1>10. ~ (DssRefusesDelete(r) \/ CommitDelete(r) \/ DssDelete(r))
  BY <1>1 DEF DssRefusesDelete, CommitDelete, DssDelete, Become, TypeOK, Memory, Looking
<1> QED
  BY <1>2, <1>3, <1>4, <1>5, <1>6, <1>7, <1>8, <1>9, <1>10 DEF Proceed

LEMMA ReceiveAsks ==
  ASSUME TypeOK, NEW r \in Request, Receive(r)
  PROVE  AsksFor(r)'
<1>1. PICK k \in Asks[r] :
        req' = [req EXCEPT ![r] =
             CASE SameIdExists(k.plan) /\ Wanted(k) \in {"Activated", "Nonconforming"} ->
                    [Blank EXCEPT !.at = "found", !.plan = k.plan, !.area = k.area,
                                  !.prio = k.prio, !.to = Wanted(k)]
               [] OTHER -> [Blank EXCEPT !.at = "new", !.plan = k.plan, !.to = Wanted(k)]]
  BY DEF Receive
<1>2. CASE SameIdExists(k.plan) /\ Wanted(k) \in {"Activated", "Nonconforming"}
  BY <1>1, <1>2 DEF TypeOK, AsksFor, Blank
<1>3. CASE ~ (SameIdExists(k.plan) /\ Wanted(k) \in {"Activated", "Nonconforming"})
  BY <1>1, <1>3 DEF TypeOK, AsksFor, Blank, Looking
<1> QED
  BY <1>2, <1>3

LEMMA AirInit == Init => AirInv
<1> SUFFICES ASSUME Init PROVE AirInv
  OBVIOUS
<1>1. \A r \in Request : req[r].at = "idle"
  BY DEF Init, Blank
<1> QED
  BY <1>1, SeenInit DEF AirInv, AsksFor, SeenApart, Looking

LEMMA AirNext == AirInv /\ [Next]_vars => AirInv'
<1> SUFFICES ASSUME AirInv, [Next]_vars PROVE AirInv'
  OBVIOUS
<1>1. TypeOK /\ TypeOK' /\ SeenInv /\ SeenInv'
  BY SeenNext, NextType DEF AirInv, SeenInv
<1>2. ASSUME NEW o \in Request, req'[o] = req[o] PROVE AsksFor(o)' /\ SeenApart(o)'
  BY <1>2 DEF AirInv, AsksFor, SeenApart
<1>3. ASSUME NEW r \in Request,
             \/ Refuse(r) \/ ReceiveRaises(r) \/ Receive(r) \/ ReceiveDelete(r)
             \/ ClearArea(r) \/ Proceed(r) \/ Fail(r)
      PROVE  \A o \in Request : AsksFor(o)' /\ SeenApart(o)'
  <2>1. ASSUME NEW o \in Request \ {r} PROVE AsksFor(o)' /\ SeenApart(o)'
    BY <1>1, <1>2, <1>3, StepOfOne
  <2>2. AsksFor(r)'
    BY <1>1, <1>3, WhoLooks, ReceiveAsks DEF AirInv, AsksFor
  <2>3. SeenApart(r)'
    <3>1. CASE Resolve(r)
      <4>1. ASSUME NEW s \in req'[r].seen, NEW t \in req'[r].seen, s.id \in Peer, s.id = t.id
            PROVE  s = t
        <5>1. s.ovn = t.ovn /\ s.area = t.area
          BY <1>1, <3>1, <4>1, ResolveSees
        <5>2. s \in Sight /\ t \in Sight
          BY <1>1 DEF TypeOK, Memory
        <5> QED
          BY <4>1, <5>1, <5>2 DEF Sight
      <4> QED
        BY <4>1 DEF SeenApart
    <3>2. CASE ~Resolve(r)
      BY <1>1, <1>3, <3>2, WhoHasSeen DEF AirInv, SeenApart
    <3> QED
      BY <3>1, <3>2
  <2> QED
    BY <2>1, <2>2, <2>3
<1>4. CASE req' = req
  BY <1>1, <1>2, <1>4 DEF AirInv
<1> QED
  BY <1>1, <1>3, <1>4
  DEF AirInv, Next, vars, OperatorDeletes, ConstraintChanges, PeerPuts, PeerWithdraws

Alone == \A p, q \in Plan : p = q

(* What the decision sees is every other intent that stands, and perhaps   *)
(* some that were withdrawn; not those, if none is missing.                *)
LEMMA SeesOthers ==
  ASSUME Alone, AirInv, NEW r \in Request, PutAccepted(r)
  PROVE  \E gone \in SUBSET Area :
           /\ Held = Intent => gone = {}
           /\ {s.area : s \in Others(r)}
                = {dss[i].area : i \in Held \ {req[r].plan}} \cup gone
<1> DEFINE p == req[r].plan
           gone == {s.area : s \in {t \in Others(r) : t.id \notin Held}}
<1>1. TypeOK /\ p \in Plan /\ req[r].seen \in SUBSET Sight
  BY DEF AirInv, SeenInv, TypeOK, Memory
<1>2. ASSUME NEW s \in Others(r) PROVE s \in Sight /\ s \in req[r].seen /\ s.id \in Peer
  BY <1>1 DEF Others, Sight, Intent, Alone
<1>3. gone \in SUBSET Area
  BY <1>2 DEF Sight
<1>4. Held = Intent => gone = {}
  BY <1>2 DEF Intent
<1>5. ASSUME NEW i \in Held \ {p}
      PROVE  \E s \in Others(r) : s.id = i /\ s.ovn = dss[i].ovn /\ s.area = dss[i].area
  <2>1. i \in Peer
    BY <1>1 DEF Held, Intent, Alone
  <2>2. PICK s \in req[r].seen : s.id = i /\ s.ovn = dss[i].ovn
    BY DEF PutAccepted, Accepts, Key
  <2>3. s.area = dss[i].area
    BY <2>1, <2>2 DEF AirInv, SeenInv, SeenOnce, PutAccepted
  <2> QED
    BY <2>2, <2>3 DEF Others
<1>6. ASSUME NEW s \in Others(r), s.id \in Held PROVE s.area = dss[s.id].area /\ s.id # p
  <2>1. s.id # p
    BY DEF Others
  <2>2. PICK t \in Others(r) : t.id = s.id /\ t.area = dss[s.id].area
    BY <1>5, <1>6, <2>1
  <2>3. s = t
    BY <1>2, <2>2 DEF AirInv, SeenApart, PutAccepted
  <2> QED
    BY <2>1, <2>2, <2>3
<1>7. {s.area : s \in Others(r)} \subseteq {dss[i].area : i \in Held \ {p}} \cup gone
  BY <1>6
<1>8. {dss[i].area : i \in Held \ {p}} \cup gone \subseteq {s.area : s \in Others(r)}
  BY <1>5
<1> HIDE DEF gone
<1> QED
  BY <1>3, <1>4, <1>7, <1>8

LEMMA PutAdmits ==
  ASSUME Alone, AirInv, NEW r \in Request, PutAccepted(r)
  PROVE  DeconflictedAirspace!Admit(req[r].plan)
<1> DEFINE p == req[r].plan
<1>1. /\ TypeOK /\ p \in Plan /\ p \in Intent /\ req[r].area \in Area
      /\ req[r].prio \in BOOLEAN
  BY DEF AirInv, SeenInv, TypeOK, Memory, Intent
<1>2. req[r].to \in {"Activated", "Nonconforming"}
  BY DEF PutAccepted, AirInv, AsksFor, Looking
<1>3. PICK gone \in SUBSET Area :
        /\ Held = Intent => gone = {}
        /\ {s.area : s \in Others(r)} = {dss[i].area : i \in Held \ {p}} \cup gone
  BY SeesOthers
<1>4. \/ req[r].to = "Nonconforming"
      \/ req[r].prio
      \/ ~Blocked(req[r].area, {dss[i].area : i \in Held \ {p}} \cup gone)
  BY <1>3 DEF PutAccepted, ShouldSubmit, Conflict
<1>5. p \in Held
  BY <1>1 DEF PutAccepted, Accepts, Held
<1>6. dss' = [dss EXCEPT ![p] = DeconflictedAirspace!Version(p, req[r].area, req[r].to,
                                                            req[r].prio)]
  BY DEF PutAccepted, DeconflictedAirspace!Version
<1>7. DeconflictedAirspace!Held = Held /\ DeconflictedAirspace!Intent = Intent
  BY DEF DeconflictedAirspace!Held, DeconflictedAirspace!Intent, Held, Intent
<1> QED
  BY <1>1, <1>2, <1>3, <1>4, <1>5, <1>6, <1>7 DEF DeconflictedAirspace!Admit

LEMMA StepIsAStepOfTheAirspace ==
  ASSUME Alone, AirInv, [Next]_vars
  PROVE  [DeconflictedAirspace!Next]_dss
<1>1. CASE dss' = dss
  BY <1>1
<1>2. ASSUME NEW r \in Request, PutAccepted(r) PROVE DeconflictedAirspace!Next
  <2>1. req[r].plan \in Plan
    BY DEF AirInv, SeenInv, TypeOK, Memory
  <2> QED
    BY <1>2, <2>1, PutAdmits DEF DeconflictedAirspace!Next
<1>3. ASSUME NEW r \in Request, DssDelete(r) PROVE DeconflictedAirspace!Next
  <2>1. req[r].plan \in Plan
    BY DEF AirInv, SeenInv, TypeOK, Memory
  <2>2. DeconflictedAirspace!Withdraw(req[r].plan)
    BY <1>3, <2>1 DEF DssDelete, DeconflictedAirspace!Withdraw, DeconflictedAirspace!Held,
                      DeconflictedAirspace!Intent
  <2> QED
    BY <2>1, <2>2 DEF DeconflictedAirspace!Next
<1>4. ASSUME NEW q \in Peer, PeerPuts(q) PROVE DeconflictedAirspace!PeerPuts(q)
  BY <1>4 DEF PeerPuts, DeconflictedAirspace!PeerPuts, DeconflictedAirspace!Version
<1>5. ASSUME NEW q \in Peer, PeerWithdraws(q) PROVE DeconflictedAirspace!Withdraw(q)
  BY <1>5 DEF PeerWithdraws, DeconflictedAirspace!Withdraw, DeconflictedAirspace!Held,
              DeconflictedAirspace!Intent
<1>6. ASSUME NEW q \in Peer, PeerPuts(q) \/ PeerWithdraws(q)
      PROVE  DeconflictedAirspace!Next
  BY <1>4, <1>5, <1>6 DEF DeconflictedAirspace!Next
<1>7. TypeOK
  BY DEF AirInv, SeenInv
<1> QED
  BY <1>1, <1>2, <1>3, <1>6, <1>7, RequestAndDss
  DEF Next, vars, OperatorDeletes, ConstraintChanges

(* With one plan of ours, the chain of reads, queries and one conditional  *)
(* write of a request puts its intent as if the check and the write were   *)
(* one step, whatever peers, operators, failures and other requests do     *)
(* between them (put_flight_plan and update_specified_operational_intent_  *)
(* reference).                                                             *)
THEOREM ImplementsAirspace ==
  ASSUME Alone
  PROVE  Spec => AirspaceSpec
<1>1. Init => DeconflictedAirspace!Init
  <2> SUFFICES ASSUME Init, NEW i \in Intent
               PROVE  dss[i].state = "Accepted"
    BY DEF DeconflictedAirspace!Init, DeconflictedAirspace!Intent, Intent
  <2> QED
    BY DEF Init
<1>2. AirInv /\ [Next]_vars => [DeconflictedAirspace!Next]_dss
  BY StepIsAStepOfTheAirspace
<1> QED
  BY <1>1, <1>2, AirInit, AirNext, PTL
  DEF Spec, AirspaceSpec, DeconflictedAirspace!Spec

-----------------------------------------------------------------------------
(* What the check character of a registration number is worth.             *)

(* Doubled in base 36, the two digits added: a permutation of the digits.  *)
LEMMA DoubleValue ==
  ASSUME NEW c \in CodePoint
  PROVE  Double(c) = IF c < 18 THEN 2 * c ELSE 2 * c - 35
<1>1. CASE c < 18
  <2>1. 2 * c \in 0..35
    BY <1>1 DEF CodePoint
  <2>2. (2 * c) \div 36 = 0 /\ (2 * c) % 36 = 2 * c
    BY <2>1
  <2> QED
    BY <1>1, <2>2 DEF Double, CodePoint
<1>2. CASE ~ (c < 18)
  <2>1. 2 * c - 36 \in 0..35
    BY <1>2 DEF CodePoint
  <2>2. (2 * c) \div 36 = 1 /\ (2 * c) % 36 = 2 * c - 36
    BY <2>1 DEF CodePoint
  <2> QED
    BY <1>2, <2>2 DEF Double, CodePoint
<1> QED
  BY <1>1, <1>2

LEMMA DoubleIsDigit ==
  ASSUME NEW c \in CodePoint
  PROVE  Double(c) \in CodePoint
  BY DoubleValue DEF CodePoint

LEMMA DoubleInjective ==
  ASSUME NEW c \in CodePoint, NEW d \in CodePoint, Double(c) = Double(d)
  PROVE  c = d
  BY DoubleValue DEF CodePoint

(* Two sums with one check character differ by a multiple of 36.           *)
LEMMA SameCheck ==
  ASSUME NEW a \in Nat, NEW b \in Nat, (36 - (a % 36)) % 36 = (36 - (b % 36)) % 36
  PROVE  a % 36 = b % 36
<1>1. a % 36 \in 0..35 /\ b % 36 \in 0..35
  OBVIOUS
<1>2. ASSUME NEW x \in 0..35
      PROVE  (36 - x) % 36 = IF x = 0 THEN 0 ELSE 36 - x
  OBVIOUS
<1> QED
  BY <1>1, <1>2

LEMMA CloseAndCongruent ==
  ASSUME NEW a \in Nat, NEW b \in Nat, a % 36 = b % 36
  PROVE  a - b \notin (-35 .. 35) \ {0}
  OBVIOUS

LEMMA DigitsDiffer ==
  ASSUME NEW a \in 0..35, NEW b \in 0..35, a # b
  PROVE  a - b \in (-35 .. 35) \ {0}
  OBVIOUS

Digits(n) == \A k \in 1..15 : n[Covered[k]] \in CodePoint

(* What a number that is accepted looks like.                              *)
LEMMA AcceptedNumber ==
  ASSUME NEW n \in Seq(Char), RegistrationVerdict(n) = "accepted"
  PROVE  Len(n) = 20 /\ n[17] = Hyphen /\ Digits(n) /\ n[16] = CheckCharacter(n)
<1>1. Shaped(n) /\ Digits(n) /\ CheckCharacter(n) = n[16]
  BY DEF RegistrationVerdict, Digits
<1>2. 17 \in {i \in 1..20 : n[i] = Hyphen}
  BY <1>1 DEF Shaped
<1> QED
  BY <1>1, <1>2 DEF Shaped

Weights == [1..15 -> 0..35]

LEMMA FiveNat ==
  ASSUME NEW t \in Weights, NEW b \in {0, 5, 10}
  PROVE  Five(t, b) \in Nat
<1>1. /\ b + 1 \in 1..15 /\ b + 2 \in 1..15 /\ b + 3 \in 1..15
      /\ b + 4 \in 1..15 /\ b + 5 \in 1..15
  OBVIOUS
<1>2. /\ t[b + 1] \in Nat /\ t[b + 2] \in Nat /\ t[b + 3] \in Nat
      /\ t[b + 4] \in Nat /\ t[b + 5] \in Nat
  BY <1>1 DEF Weights
<1> QED
  BY <1>2 DEF Five

LEMMA TotalNat ==
  ASSUME NEW t \in Weights
  PROVE  Total(t) \in Nat
<1>1. Five(t, 0) \in Nat /\ Five(t, 5) \in Nat /\ Five(t, 10) \in Nat
  BY FiveNat
<1> QED
  BY <1>1 DEF Total

(* Sums of weights that differ in one place differ by what those do.       *)
LEMMA FiveDiffers ==
  ASSUME NEW t \in Weights, NEW u \in Weights, NEW k \in 1..15, NEW b \in {0, 5, 10},
         \A j \in 1..15 \ {k} : u[j] = t[j]
  PROVE  Five(t, b) - Five(u, b) = IF k \in (b + 1)..(b + 5) THEN t[k] - u[k] ELSE 0
<1>1. /\ b + 1 \in 1..15 /\ b + 2 \in 1..15 /\ b + 3 \in 1..15
      /\ b + 4 \in 1..15 /\ b + 5 \in 1..15
  OBVIOUS
<1>2. t \in [1..15 -> Int] /\ u \in [1..15 -> Int]
  BY DEF Weights
<1>3. CASE k \notin (b + 1)..(b + 5)
  <2>1. /\ u[b + 1] = t[b + 1] /\ u[b + 2] = t[b + 2] /\ u[b + 3] = t[b + 3]
        /\ u[b + 4] = t[b + 4] /\ u[b + 5] = t[b + 5]
    BY <1>1, <1>3
  <2>2. /\ u[b + 1] \in Int /\ u[b + 2] \in Int /\ u[b + 3] \in Int
        /\ u[b + 4] \in Int /\ u[b + 5] \in Int
    BY <1>1, <1>2
  <2> QED
    BY <1>3, <2>1, <2>2 DEF Five
<1>4. CASE k \in (b + 1)..(b + 5)
  BY <1>1, <1>2, <1>4 DEF Five
<1> QED
  BY <1>3, <1>4

LEMMA TotalDiffers ==
  ASSUME NEW t \in Weights, NEW u \in Weights, NEW k \in 1..15,
         \A j \in 1..15 \ {k} : u[j] = t[j]
  PROVE  Total(t) - Total(u) = t[k] - u[k]
<1>1. \A b \in {0, 5, 10} :
        Five(t, b) - Five(u, b) = IF k \in (b + 1)..(b + 5) THEN t[k] - u[k] ELSE 0
  <2> TAKE b \in {0, 5, 10}
  <2> QED
    BY FiveDiffers
<1>2. /\ Five(t, 0) \in Nat /\ Five(t, 5) \in Nat /\ Five(t, 10) \in Nat
      /\ Five(u, 0) \in Nat /\ Five(u, 5) \in Nat /\ Five(u, 10) \in Nat
  BY FiveNat
<1>3. /\ Five(t, 0) - Five(u, 0) = IF k \in 1..5 THEN t[k] - u[k] ELSE 0
      /\ Five(t, 5) - Five(u, 5) = IF k \in 6..10 THEN t[k] - u[k] ELSE 0
      /\ Five(t, 10) - Five(u, 10) = IF k \in 11..15 THEN t[k] - u[k] ELSE 0
  BY <1>1
<1> QED
  BY <1>2, <1>3 DEF Total

(* The terms of a number are weights, and differ wherever it does.         *)
LEMMA TermsAreWeights ==
  ASSUME NEW n, Digits(n)
  PROVE  Terms(n) \in Weights
<1>1. ASSUME NEW k \in 1..15
      PROVE  Terms(n)[k] \in 0..35
  <2>1. n[Covered[k]] \in CodePoint
    BY DEF Digits
  <2>2. Double(n[Covered[k]]) \in CodePoint
    BY <2>1, DoubleIsDigit
  <2> QED
    BY <2>1, <2>2 DEF Terms, CodePoint
<1> QED
  BY <1>1 DEF Terms, Weights

LEMMA TermsDiffer ==
  ASSUME NEW n, NEW m, Digits(n), Digits(m), NEW k \in 1..15,
         n[Covered[k]] # m[Covered[k]]
  PROVE  Terms(n)[k] # Terms(m)[k]
<1>1. n[Covered[k]] \in CodePoint /\ m[Covered[k]] \in CodePoint
  BY DEF Digits
<1>2. Double(n[Covered[k]]) # Double(m[Covered[k]])
  BY <1>1, DoubleInjective
<1> QED
  BY <1>2 DEF Terms

LEMMA CoveredPlaces ==
  /\ \A i \in (4..15) \cup (18..20) : \E k \in 1..15 : Covered[k] = i
  /\ \A k \in 1..15 : Covered[k] \in 1..20 /\ Covered[k] # 16
  /\ \A j, k \in 1..15 : j # k => Covered[j] # Covered[k]
<1>1. \A k \in 1..15 : Covered[k] = IF k <= 12 THEN k + 3 ELSE k + 5
  BY DEF Covered
<1>2. ASSUME NEW i \in 4..15 PROVE i - 3 \in 1..15 /\ Covered[i - 3] = i
  BY <1>1
<1>3. ASSUME NEW i \in 18..20 PROVE i - 5 \in 1..15 /\ Covered[i - 5] = i
  BY <1>1
<1> QED
  BY <1>1, <1>2, <1>3

(* The check character catches every slip of one character, among those it *)
(* stands for or of itself: whatever is typed for one of them, a number    *)
(* next to an accepted one is not accepted (gen_checksum and is_valid of   *)
(* OperatorRegistrationNumberValidator).                                   *)
THEOREM SlipIsCaught ==
  ASSUME NEW n \in Seq(Char), NEW m \in Seq(Char),
         RegistrationVerdict(n) = "accepted", Mistyped(n, m)
  PROVE  RegistrationVerdict(m) # "accepted"
<1> SUFFICES ASSUME RegistrationVerdict(m) = "accepted"
             PROVE  FALSE
  OBVIOUS
<1>1. /\ Len(n) = 20 /\ Digits(n) /\ n[16] = CheckCharacter(n)
      /\ Digits(m) /\ m[16] = CheckCharacter(m)
  BY AcceptedNumber
<1>2. PICK i \in (4..16) \cup (18..20) :
        m[i] # n[i] /\ \A j \in DOMAIN n \ {i} : m[j] = n[j]
  BY DEF Mistyped
<1>3. \A j \in 1..20 \ {i} : m[j] = n[j]
  <2>1. DOMAIN n = 1..20
    BY <1>1
  <2> QED
    BY <1>2, <2>1
<1>4. CASE i = 16
  <2>1. \A k \in 1..15 : m[Covered[k]] = n[Covered[k]]
    <3> TAKE k \in 1..15
    <3>1. Covered[k] \in 1..20 /\ Covered[k] # 16
      BY CoveredPlaces
    <3> QED
      BY <1>3, <1>4, <3>1
  <2>2. Terms(m) = Terms(n)
    BY <2>1 DEF Terms
  <2> QED
    BY <1>1, <1>2, <1>4, <2>2 DEF CheckCharacter, Weighed
<1>5. CASE i # 16
  <2> i \in (4..15) \cup (18..20)
    BY <1>5
  <2>1. PICK k \in 1..15 : Covered[k] = i
    BY CoveredPlaces
  <2>2. \A j \in 1..15 \ {k} : m[Covered[j]] = n[Covered[j]]
    <3> TAKE j \in 1..15 \ {k}
    <3>0. j \in 1..15 /\ j # k
      OBVIOUS
    <3>1. Covered[j] \in 1..20
      BY <3>0, CoveredPlaces
    <3>2. Covered[j] # i
      BY <3>0, <2>1, CoveredPlaces
    <3> QED
      BY <1>3, <3>1, <3>2
  <2>3. \A j \in 1..15 \ {k} : Terms(m)[j] = Terms(n)[j]
    BY <2>2 DEF Terms
  <2>4. Terms(n) \in Weights /\ Terms(m) \in Weights
    BY <1>1, TermsAreWeights
  <2>5. Weighed(n) - Weighed(m) = Terms(n)[k] - Terms(m)[k]
    BY <2>3, <2>4, TotalDiffers DEF Weighed
  <2>6. Terms(n)[k] # Terms(m)[k]
    BY <1>1, <1>2, <2>1, TermsDiffer
  <2>7. Terms(n)[k] \in 0..35 /\ Terms(m)[k] \in 0..35
    BY <2>4 DEF Weights
  <2>8. Weighed(n) \in Nat /\ Weighed(m) \in Nat
    BY <2>4, TotalNat DEF Weighed
  <2>9. m[16] = n[16]
    BY <1>3, <1>5
  <2>10. (36 - (Weighed(n) % 36)) % 36 = (36 - (Weighed(m) % 36)) % 36
    BY <1>1, <2>9 DEF CheckCharacter
  <2>11. Weighed(n) % 36 = Weighed(m) % 36
    BY <2>8, <2>10, SameCheck
  <2>12. Weighed(n) - Weighed(m) \in (-35 .. 35) \ {0}
    BY <2>5, <2>6, <2>7, DigitsDiffer
  <2> QED
    BY <2>8, <2>11, <2>12, CloseAndCongruent
<1> QED
  BY <1>4, <1>5

=============================================================================
