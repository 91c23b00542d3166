---------------------- MODULE FlightDeclarations_proofs ----------------------
(***************************************************************************)
(* Proofs about FlightDeclarations, for every set of declarations and      *)
(* requests, all windows, both engines and both settings of the USSP       *)
(* network.  The inductive invariant is IInv: a request that has not begun *)
(* has touched nothing, and what the engine approved stays free of settled *)
(* conflicts until the request commits.  Then proofs about                 *)
(* VolumeGeneration, which finds the volumes of a declaration, for every   *)
(* collection of features, speed and request, and about VolumeForms and    *)
(* DeclarationPayload: the extent of volumes, the fences made of several   *)
(* constraints, the row of a declaration, the pages of the list.           *)
(***************************************************************************)
EXTENDS FlightDeclarations, VolumeGeneration, VolumeForms, FoldLemmas, FunctionTheorems

Untouched ==
  \A r \in Request : phase[r] = "idle" =>
    /\ next[r] = 1
    /\ \A d \in ItemsOf(r) : verdict[d] = "none"

IInv == TypeOK /\ Untouched /\ SettledConflicts

(* The items of a request that has not committed are not in the table.     *)
NotYetBorn ==
  \A r \in Request : phase[r] # "done" =>
    \A d \in ItemsOf(r) : row[d].at = "unborn"

-----------------------------------------------------------------------------
(* Facts about the constants.                                              *)

(* Each declaration is an item of at most one request, at one place.       *)
LEMMA ItemsApart ==
  /\ \A r \in Request : ItemsOf(r) \subseteq Decl
  /\ \A r, q \in Request : r # q => ItemsOf(r) \cap ItemsOf(q) = {}
  /\ \A r \in Request : \A i \in DOMAIN Items[r] :
        Items[r][i] \in ItemsOf(r) /\ Items[r][i] \in Decl
  BY DeclarationAssumption DEF ItemsOf

(* The default state is 0 or 1, the two states of its definition.          *)
LEMMA DefaultStateType == DefaultState \in {0, 1} /\ DefaultState \in Nat
  BY DEF DefaultState, NotSubmitted, Accepted

(* An item the engine has answered enters with a well-formed row.          *)
LEMMA CommittedRowType ==
  ASSUME NEW d \in Decl
  PROVE  CommittedRow(d) \in Row
  BY DefaultStateType DEF CommittedRow, Row, Rejected

(* An item the engine has answered enters with a well-formed history.      *)
LEMMA CommittedTrailType ==
  ASSUME NEW d \in Decl
  PROVE  CommittedTrail(d) \in Seq(Entry)
<1> DEFINE created == [from |-> Start, to |-> DefaultState]
           refused == [from |-> Original(DefaultState), to |-> Rejected]
<1>1. created \in Entry /\ refused \in Entry
  BY DefaultStateType DEF Entry, Start, Original, Rejected
<1>2. <<created>> \in Seq(Entry) /\ <<created, refused>> \in Seq(Entry)
  BY <1>1
<1> QED BY <1>2 DEF CommittedTrail

-----------------------------------------------------------------------------
(* Initially nothing has happened.                                         *)
LEMMA InitIInv == Init => IInv
<1> SUFFICES ASSUME Init PROVE IInv
  OBVIOUS
<1>1. TypeOK
  BY DEF Init, TypeOK, NoRow, Row, NotSubmitted, Phase, Verdict, TaskState, Entry
<1>2. Untouched
  BY ItemsApart DEF Init, Untouched
<1>3. SettledConflicts
  BY DEF Init, SettledConflicts, InFlight
<1> QED BY <1>1, <1>2, <1>3 DEF IInv

(* Advance keeps the item pointer on the items of the request.             *)
LEMMA AdvanceType ==
  ASSUME TypeOK, Untouched, NEW r \in Request, NEW p \in {"answering", "committing"},
         phase[r] \in {"checking", "answering"}, Advance(r, p)
  PROVE  /\ phase' \in [Request -> Phase]
         /\ next' \in [Request -> Nat]
         /\ \A q \in Request : phase'[q] \in {"checking", "answering"}
                                 => next'[q] \in DOMAIN Items[q]
         /\ \A q \in Request \ {r} : phase'[q] = phase[q] /\ next'[q] = next[q]
         /\ phase'[r] \in {phase[r], p}
<1> USE DEF TypeOK
<1>1. next[r] \in DOMAIN Items[r] /\ DOMAIN Items[r] = 1..Len(Items[r])
      /\ Len(Items[r]) \in Nat
  BY DeclarationAssumption
<1>2. CASE next[r] = Len(Items[r])
  <2>1. phase' = [phase EXCEPT ![r] = p] /\ next' = [next EXCEPT ![r] = 1]
    BY <1>2 DEF Advance
  <2>2. 1 \in DOMAIN Items[r]
    BY <1>1
  <2>3. p \in Phase
    BY DEF Phase
  <2> QED BY <2>1, <2>2, <2>3
<1>3. CASE next[r] # Len(Items[r])
  <2>1. next' = [next EXCEPT ![r] = @ + 1] /\ phase' = phase
    BY <1>3 DEF Advance
  <2>2. next'[r] \in DOMAIN Items[r] /\ next'[r] \in Nat
    BY <1>1, <1>3, <2>1
  <2> QED BY <2>1, <2>2
<1> QED BY <1>2, <1>3

(* Every step keeps the types.                                             *)
LEMMA NextType == TypeOK /\ Untouched /\ [Next]_vars => TypeOK'
<1> SUFFICES ASSUME TypeOK, Untouched, [Next]_vars PROVE TypeOK'
  OBVIOUS
<1> USE DEF TypeOK
<1>1. ASSUME NEW r \in Request, Begin(r) PROVE TypeOK'
  <2>1. next[r] = 1
    BY <1>1 DEF Begin, Untouched
  <2>2. Items[r] \in Seq(Decl) /\ Items[r] # <<>>
    BY <1>1, DeclarationAssumption DEF Begin
  <2>3. 1 \in DOMAIN Items[r]
    BY <2>2
  <2> QED BY <1>1, <2>1, <2>3 DEF Begin, Phase, table
<1>2. ASSUME NEW r \in Request, CheckDefault(r) PROVE TypeOK'
  <2> DEFINE d == Items[r][next[r]]
  <2>1. d \in Decl
    BY <1>2, ItemsApart DEF CheckDefault
  <2>2. CASE Conflicts(r, d) = {} /\ Advance(r, "answering")
             /\ \E fenced \in BOOLEAN :
                  verdict' = [verdict EXCEPT ![d] = IF fenced THEN "rejected"
                                                              ELSE "approved"]
    BY <1>2, <2>1, <2>2, AdvanceType DEF CheckDefault, Verdict, table
  <2>3. CASE phase' = [phase EXCEPT ![r] = "raised"] /\ UNCHANGED <<next, verdict>>
    BY <1>2, <2>3 DEF CheckDefault, Phase, table
  <2> QED BY <1>2, <2>2, <2>3 DEF CheckDefault
<1>3. ASSUME NEW r \in Request, CheckTimeWindow(r) PROVE TypeOK'
  <2>1. Items[r][next[r]] \in Decl
    BY <1>3, ItemsApart DEF CheckTimeWindow
  <2> QED BY <1>3, <2>1, AdvanceType DEF CheckTimeWindow, Verdict, table
<1>4. ASSUME NEW r \in Request, Answer(r) PROVE TypeOK'
  BY <1>4, AdvanceType DEF Answer, TaskState, table
<1>5. ASSUME NEW r \in Request, Commit(r) PROVE TypeOK'
  <2>1. row' \in [Decl -> Row] /\ trail' \in [Decl -> Seq(Entry)]
    BY <1>5, CommittedRowType, CommittedTrailType DEF Commit
  <2>2. raced' \in [Request -> SUBSET Decl]
    BY <1>5, ItemsApart DEF Commit, Remember
  <2> QED BY <1>5, <2>1, <2>2 DEF Commit, Phase
<1>6. ASSUME NEW r \in Request, Abort(r) PROVE TypeOK'
  BY <1>6 DEF Abort, Phase, table
<1>7. ASSUME NEW d \in Decl, Create(d) PROVE TypeOK'
  <2>1. row' \in [Decl -> Row]
    <3>1. PICK s \in ProvidedStates \cup {DefaultState} :
            row' = [row EXCEPT ![d] = [at |-> "live", state |-> s,
                                       approved |-> s \notin {0, 8}]]
      BY <1>7 DEF Create
    <3>2. s \in Nat /\ (s \notin {0, 8}) \in BOOLEAN
      BY DeclarationAssumption, DefaultStateType
    <3>3. [at |-> "live", state |-> s, approved |-> s \notin {0, 8}] \in Row
      BY <3>2 DEF Row
    <3> QED BY <3>1, <3>3
  <2>2. raced' \in [Request -> SUBSET Decl]
    BY <1>7 DEF Create, Remember
  <2> QED BY <1>7, <2>1, <2>2 DEF Create, request
<1>8. ASSUME NEW d \in Decl, NEW s \in OperatorStates, SetState(d, s) PROVE TypeOK'
  <2>1. row' \in [Decl -> Row]
    <3>1. s \in Nat /\ row[d] \in Row
      BY DeclarationAssumption
    <3>2. [row[d] EXCEPT !.state = s] \in Row
      BY <3>1 DEF Row
    <3> QED BY <1>8, <3>2 DEF SetState
  <2>2. raced' \in [Request -> SUBSET Decl]
    BY <1>8 DEF SetState, Remember
  <2> QED BY <1>8, <2>1, <2>2 DEF SetState, request
<1>9. ASSUME NEW d \in Decl, NEW b \in BOOLEAN, SetApproval(d, b) PROVE TypeOK'
  <2>1. row[d] \in Row
    OBVIOUS
  <2>2. [row[d] EXCEPT !.approved = b] \in Row
    BY <2>1 DEF Row
  <2> QED BY <1>9, <2>2 DEF SetApproval, request
<1>10. ASSUME NEW d \in Decl, Delete(d) PROVE TypeOK'
  <2>1. row' \in [Decl -> Row]
    BY <1>10 DEF Delete, Row, NoRow, NotSubmitted
  <2> QED BY <1>10, <2>1 DEF Delete, request
<1>11. ASSUME NEW d \in Decl, RequestSubmission(d) PROVE TypeOK'
  BY <1>11 DEF RequestSubmission, request, table
<1>12. ASSUME NEW d \in Decl, Worker(d) PROVE TypeOK'
  BY <1>12 DEF Worker, ValidateTask, SubmitTask, TaskState, request, table
<1>13. CASE UNCHANGED vars
  BY <1>13 DEF vars
<1> QED BY <1>1, <1>2, <1>3, <1>4, <1>5, <1>6, <1>7, <1>8, <1>9, <1>10, <1>11,
           <1>12, <1>13 DEF Next, Step, Operator

-----------------------------------------------------------------------------
(* What has become active while r was in flight is in raced[r]; a step that*)
(* activates a declaration remembers it for every request in flight.       *)
LEMMA ActivationRemembered ==
  ASSUME TypeOK, [Next]_vars, NEW r \in Request, phase[r] \in InFlight,
         phase'[r] \in InFlight, NEW e \in Decl, ~Active(e), Active(e)'
  PROVE  e \in raced'[r]
<1> USE DEF TypeOK
<1>1. ASSUME NEW q \in Request, Commit(q) PROVE e \in raced'[r]
  <2>1. e \in ItemsOf(q)
    BY <1>1 DEF Commit, Active, Live
  <2>2. CommittedRow(e).state \in ActiveStates
    BY <1>1, <2>1 DEF Commit, Active
  <2> QED BY <1>1, <2>1, <2>2 DEF Commit, Remember
<1>2. ASSUME NEW d \in Decl, Create(d) PROVE e \in raced'[r]
  <2>1. PICK s \in ProvidedStates \cup {DefaultState} :
          /\ row' = [row EXCEPT ![d] = [at |-> "live", state |-> s,
                                        approved |-> s \notin {0, 8}]]
          /\ Remember(IF s \in ActiveStates THEN {d} ELSE {})
    BY <1>2 DEF Create
  <2>2. e = d /\ row'[d].state = s
    BY <2>1 DEF Active, Live
  <2>3. s \in ActiveStates
    BY <2>2 DEF Active
  <2> QED BY <2>1, <2>2, <2>3 DEF Remember
<1>3. ASSUME NEW d \in Decl, NEW s \in OperatorStates, SetState(d, s)
      PROVE  e \in raced'[r]
  <2>1. e = d
    BY <1>3 DEF SetState, Active, Live
  <2>2. s \in ActiveStates
    BY <1>3, <2>1 DEF SetState, Active, Row
  <2> QED BY <1>3, <2>1, <2>2 DEF SetState, Remember
<1>4. ASSUME NEW d \in Decl, NEW b \in BOOLEAN, SetApproval(d, b) PROVE FALSE
  BY <1>4 DEF SetApproval, Active, Live, Row
<1>5. ASSUME NEW d \in Decl, Delete(d) PROVE FALSE
  BY <1>5 DEF Delete, Active, Live, NoRow
<1>6. ASSUME row' = row PROVE FALSE
  BY <1>6 DEF Active, Live
<1> QED
  BY <1>1, <1>2, <1>3, <1>4, <1>5, <1>6
     DEF Next, Step, Operator, Worker, Begin, CheckDefault, CheckTimeWindow, Answer,
         Abort, RequestSubmission, ValidateTask, SubmitTask, table, vars

(* Nothing is forgotten of a request in flight.                            *)
LEMMA RacedGrows ==
  ASSUME TypeOK, [Next]_vars, NEW r \in Request
  PROVE  raced[r] \subseteq raced'[r]
<1> USE DEF TypeOK
<1>1. ASSUME NEW S, Remember(S) PROVE raced[r] \subseteq raced'[r]
  BY <1>1 DEF Remember
<1>2. raced' = raced \/ \E S : Remember(S)
  BY DEF Next, Step, Operator, Worker, Begin, CheckDefault, CheckTimeWindow, Answer,
         Commit, Abort, Create, SetState, SetApproval, Delete, RequestSubmission,
         ValidateTask, SubmitTask, vars
<1> QED BY <1>1, <1>2

(* A verdict that turns to approved does so in the check of its own        *)
(* request, and then the query of active declarations came back empty.     *)
LEMMA ApprovedByCheck ==
  ASSUME TypeOK, [Next]_vars, NEW r \in Request, NEW d \in ItemsOf(r),
         verdict'[d] = "approved"
  PROVE  \/ verdict[d] = "approved"
         \/ phase[r] = "checking" /\ Conflicts(r, d) = {} /\ row' = row
<1> USE DEF TypeOK
<1>1. ASSUME NEW q \in Request, CheckDefault(q), verdict[d] # "approved"
      PROVE  phase[r] = "checking" /\ Conflicts(r, d) = {} /\ row' = row
  <2> DEFINE i == Items[q][next[q]]
  <2>1. phase[q] = "checking" /\ i \in ItemsOf(q) /\ verdict' # verdict
    BY <1>1, ItemsApart DEF CheckDefault
  <2>2. PICK v : verdict' = [verdict EXCEPT ![i] = v] /\ Conflicts(q, i) = {}
    BY <1>1, <2>1 DEF CheckDefault
  <2>3. d = i
    BY <1>1, <2>2
  <2>4. q = r
    BY <2>1, <2>3, ItemsApart
  <2> QED BY <1>1, <2>1, <2>2, <2>3, <2>4 DEF CheckDefault, table
<1>2. ASSUME NEW q \in Request, CheckTimeWindow(q), verdict[d] # "approved"
      PROVE  phase[r] = "checking" /\ Conflicts(r, d) = {} /\ row' = row
  <2>1. d = Items[q][next[q]] /\ phase[q] = "checking"
    BY <1>2 DEF CheckTimeWindow
  <2>2. q = r
    BY <2>1, ItemsApart
  <2>3. d \in Decl /\ verdict'[d] = IF Conflicts(r, d) = {} THEN "approved" ELSE "rejected"
    BY <1>2, <2>1, <2>2, ItemsApart DEF CheckTimeWindow
  <2>4. Conflicts(r, d) = {}
    BY <2>3
  <2> QED BY <1>2, <2>1, <2>2, <2>4 DEF CheckTimeWindow, table
<1>3. ASSUME verdict' = verdict PROVE verdict[d] = "approved"
  BY <1>3
<1> QED
  BY <1>1, <1>2, <1>3
     DEF Next, Step, Operator, Worker, Begin, Answer, Commit, Abort, Create, SetState,
         SetApproval, Delete, RequestSubmission, ValidateTask, SubmitTask, request, vars

(* A request in flight after a step was in flight before it, or has just   *)
(* begun and touched nothing.                                              *)
LEMMA InFlightBefore ==
  ASSUME TypeOK, [Next]_vars, NEW r \in Request, phase'[r] \in InFlight
  PROVE  phase[r] \in InFlight \/ (phase[r] = "idle" /\ verdict' = verdict)
<1> USE DEF TypeOK, InFlight
<1>1. ASSUME NEW q \in Request, CheckDefault(q) \/ CheckTimeWindow(q) \/ Answer(q)
      PROVE  phase[r] \in InFlight
  <2>1. phase[q] \in {"checking", "answering"}
    BY <1>1 DEF CheckDefault, CheckTimeWindow, Answer
  <2>2. CASE q = r
    BY <2>1, <2>2
  <2>3. CASE q # r
    BY <1>1, <2>3 DEF CheckDefault, CheckTimeWindow, Answer, Advance
  <2> QED BY <2>2, <2>3
<1>2. ASSUME NEW q \in Request, Begin(q)
      PROVE  phase[r] \in InFlight \/ (phase[r] = "idle" /\ verdict' = verdict)
  BY <1>2 DEF Begin
<1>3. ASSUME NEW q \in Request, Commit(q) \/ Abort(q) PROVE phase[r] \in InFlight
  BY <1>3 DEF Commit, Abort
<1>4. ASSUME phase' = phase PROVE phase[r] \in InFlight
  BY <1>4
<1> QED
  BY <1>1, <1>2, <1>3, <1>4
     DEF Next, Step, Operator, Worker, Create, SetState, SetApproval, Delete,
         RequestSubmission, ValidateTask, SubmitTask, request, vars

(* What another step adds to the conflicts of an item is remembered.       *)
LEMMA NextSettled == TypeOK /\ Untouched /\ SettledConflicts /\ [Next]_vars
                       => SettledConflicts'
<1> SUFFICES ASSUME TypeOK, Untouched, SettledConflicts, [Next]_vars,
                    NEW r \in Request, phase'[r] \in InFlight,
                    NEW d \in ItemsOf(r), verdict'[d] = "approved",
                    NEW e \in Conflicts(r, d)'
             PROVE  e \in raced'[r]
  BY DEF SettledConflicts
<1>1. e \in Decl /\ e # d /\ WindowsMeet(d, e)
      /\ (Active(e)' \/ (DefaultState \in ActiveStates /\ e \in ItemsOf(r)))
  BY ItemsApart DEF Conflicts, VisibleActive, WindowsMeet
<1>2. phase[r] \in InFlight
  <2>1. CASE phase[r] = "idle" /\ verdict' = verdict
    BY <2>1 DEF Untouched
  <2> QED BY <2>1, InFlightBefore
<1>3. CASE Active(e)' /\ ~Active(e)
  BY <1>1, <1>2, <1>3, ActivationRemembered
<1>4. CASE ~(Active(e)' /\ ~Active(e))
  <2>1. e \in Conflicts(r, d)
    BY <1>1, <1>4 DEF Conflicts, VisibleActive
  <2>2. verdict[d] = "approved"
    BY <2>1, ApprovedByCheck
  <2>3. e \in raced[r]
    BY <1>2, <2>1, <2>2 DEF SettledConflicts
  <2> QED BY <2>3, RacedGrows
<1> QED BY <1>3, <1>4

(* A request that has not begun is left alone by every step but its own.   *)
LEMMA NextUntouched == TypeOK /\ Untouched /\ [Next]_vars => Untouched'
<1> SUFFICES ASSUME TypeOK, Untouched, [Next]_vars,
                    NEW r \in Request, phase'[r] = "idle"
             PROVE  next'[r] = 1 /\ \A d \in ItemsOf(r) : verdict'[d] = "none"
  BY DEF Untouched
<1> USE DEF TypeOK
<1>1. ASSUME NEW q \in Request, CheckDefault(q) \/ CheckTimeWindow(q) \/ Answer(q)
      PROVE  /\ phase[r] = "idle" /\ q # r /\ next'[r] = next[r]
             /\ \A d \in ItemsOf(r) : verdict'[d] = verdict[d]
  <2>1. phase[q] \in {"checking", "answering"}
    BY <1>1 DEF CheckDefault, CheckTimeWindow, Answer
  <2>2. q # r
    BY <1>1, <2>1 DEF CheckDefault, CheckTimeWindow, Answer, Advance
  <2>3. Items[q][next[q]] \in ItemsOf(q)
    BY <2>1, ItemsApart
  <2>4. \A d \in ItemsOf(r) : d \in Decl /\ d # Items[q][next[q]]
    BY <2>2, <2>3, ItemsApart
  <2>5. \A d \in ItemsOf(r) : verdict'[d] = verdict[d]
    BY <1>1, <2>4 DEF CheckDefault, CheckTimeWindow, Answer
  <2>6. phase[r] = "idle" /\ next'[r] = next[r]
    BY <1>1, <2>2 DEF CheckDefault, CheckTimeWindow, Answer, Advance
  <2> QED BY <2>2, <2>5, <2>6
<1>2. ASSUME NEW q \in Request, Begin(q) \/ Commit(q) \/ Abort(q)
      PROVE  phase[r] = "idle" /\ next' = next /\ verdict' = verdict
  BY <1>2 DEF Begin, Commit, Abort, InFlight
<1>3. ASSUME UNCHANGED request
      PROVE  phase[r] = "idle" /\ next' = next /\ verdict' = verdict
  BY <1>3 DEF request
<1>4. phase[r] = "idle" /\ next'[r] = next[r]
      /\ \A d \in ItemsOf(r) : verdict'[d] = verdict[d]
  BY <1>1, <1>2, <1>3
     DEF Next, Step, Operator, Worker, Create, SetState, SetApproval, Delete,
         RequestSubmission, ValidateTask, SubmitTask, request, vars
<1> QED BY <1>4 DEF Untouched

LEMMA NextIInv == IInv /\ [Next]_vars => IInv'
  BY NextType, NextUntouched, NextSettled DEF IInv

(* IInv holds throughout.                                                  *)
LEMMA Inductive == Spec => []IInv
  BY InitIInv, NextIInv, PTL DEF Spec

(* Every reachable state is well typed.                                    *)
THEOREM TypeCorrect == Spec => []TypeOK
<1>1. IInv => TypeOK
  BY DEF IInv
<1> QED BY <1>1, Inductive, PTL

(* Nothing between the check and the commit adds a settled conflict to     *)
(* what the engine approved, whatever the requests and operators do.       *)
THEOREM Settled == Spec => []SettledConflicts
<1>1. IInv => SettledConflicts
  BY DEF IInv
<1> QED BY <1>1, Inductive, PTL

(* A request that commits admits no approved declaration in conflict with  *)
(* one that was active before the request began, nor with one of its bulk. *)
THEOREM Admits == Spec => AdmitsNoSettledConflict
<1>1. ASSUME IInv, [Next]_vars, NEW r \in Request,
             phase[r] = "committing", phase'[r] = "done",
             NEW d \in ItemsOf(r), NEW e \in Decl, d # e,
             row'[d].approved, Active(e)', WindowsMeet(d, e)
      PROVE  e \in raced[r]
  <2> USE DEF IInv, TypeOK
  <2>1. Commit(r)
    <3>1. ASSUME NEW q \in Request, Commit(q) PROVE q = r
      BY <1>1, <3>1 DEF Commit
    <3>2. ASSUME NEW q \in Request, CheckDefault(q) \/ CheckTimeWindow(q) \/ Answer(q)
          PROVE  FALSE
      BY <1>1, <3>2 DEF CheckDefault, CheckTimeWindow, Answer, Advance
    <3> QED
      BY <1>1, <3>1, <3>2
         DEF Next, Step, Operator, Worker, Begin, Abort, Create, SetState, SetApproval,
             Delete, RequestSubmission, ValidateTask, SubmitTask, request, vars
  <2>2. d \in Decl /\ row'[d] = CommittedRow(d)
    BY <2>1, ItemsApart DEF Commit
  <2>3. verdict[d] = "approved"
    BY <1>1, <2>2 DEF CommittedRow
  <2>4. Conflicts(r, d) \subseteq raced[r]
    BY <1>1, <2>3 DEF SettledConflicts, InFlight
  <2>5. Active(e) \/ (DefaultState \in ActiveStates /\ e \in ItemsOf(r))
    <3>1. CASE e \in ItemsOf(r)
      <4>1. row'[e] = CommittedRow(e)
        BY <2>1, <3>1 DEF Commit
      <4>2. CommittedRow(e).state \in {DefaultState, Rejected}
        BY DEF CommittedRow
      <4> QED BY <1>1, <3>1, <4>1, <4>2 DEF Active, ActiveStates, Rejected
    <3>2. CASE e \notin ItemsOf(r)
      BY <1>1, <2>1, <3>2 DEF Commit, Active, Live
    <3> QED BY <3>1, <3>2
  <2>6. e \in Conflicts(r, d)
    BY <1>1, <2>5 DEF Conflicts, VisibleActive
  <2> QED BY <2>4, <2>6
<1>2. IInv /\ [Next]_vars
        => [\A r \in Request : phase[r] = "committing" /\ phase'[r] = "done" =>
              \A d \in ItemsOf(r), e \in Decl :
                /\ d # e
                /\ row'[d].approved
                /\ Active(e)'
                /\ WindowsMeet(d, e)
                => e \in raced[r]]_vars
  BY <1>1
<1> QED BY <1>2, Inductive, PTL DEF Spec, AdmitsNoSettledConflict

-----------------------------------------------------------------------------
(* A task past its first check names a row that existed.                   *)
LEMMA InitSubmitted == Init => OnlyCommittedSubmitted
  BY DEF Init, OnlyCommittedSubmitted

(* Rows never become unborn again, and only ValidateTask, which reads the  *)
(* table, takes a task past its first check.                               *)
LEMMA NextSubmitted ==
  TypeOK /\ OnlyCommittedSubmitted /\ [Next]_vars => OnlyCommittedSubmitted'
<1> SUFFICES ASSUME TypeOK, OnlyCommittedSubmitted, [Next]_vars, NEW d \in Decl,
                    task'[d] \in {"validated", "missing", "crashed"}
             PROVE  row'[d].at # "unborn"
  BY DEF OnlyCommittedSubmitted
<1> USE DEF TypeOK
<1>1. row[d].at # "unborn" => row'[d].at # "unborn"
  <2>1. ASSUME NEW r \in Request, Commit(r), row[d].at # "unborn"
        PROVE  row'[d].at # "unborn"
    BY <2>1 DEF Commit, CommittedRow
  <2>2. ASSUME NEW e \in Decl, Create(e) PROVE row'[d].at \in {"live", row[d].at}
    BY <2>2 DEF Create
  <2>3. ASSUME NEW e \in Decl, NEW s \in OperatorStates, SetState(e, s)
        PROVE  row'[d].at = row[d].at
    BY <2>3 DEF SetState, Row
  <2>4. ASSUME NEW e \in Decl, NEW b \in BOOLEAN, SetApproval(e, b)
        PROVE  row'[d].at = row[d].at
    BY <2>4 DEF SetApproval, Row
  <2>5. ASSUME NEW e \in Decl, Delete(e) PROVE row'[d].at \in {"deleted", row[d].at}
    BY <2>5 DEF Delete, NoRow
  <2>6. ASSUME row' = row PROVE row'[d].at = row[d].at
    BY <2>6
  <2> QED
    BY <2>1, <2>2, <2>3, <2>4, <2>5, <2>6
       DEF Next, Step, Operator, Worker, Begin, CheckDefault, CheckTimeWindow, Answer,
           Abort, RequestSubmission, ValidateTask, SubmitTask, table, vars
<1>2. task[d] \in {"validated", "missing", "crashed"} \/ row[d].at # "unborn"
  <2>1. ASSUME NEW e \in Decl, ValidateTask(e)
        PROVE  task[d] \in {"validated", "missing", "crashed"} \/ row[d].at # "unborn"
    BY <2>1 DEF ValidateTask, Live
  <2>2. ASSUME NEW e \in Decl, SubmitTask(e)
        PROVE  task[d] \in {"validated", "missing", "crashed"}
    BY <2>2 DEF SubmitTask
  <2>3. ASSUME NEW r \in Request, Answer(r)
        PROVE  task[d] \in {"validated", "missing", "crashed"}
    BY <2>3 DEF Answer
  <2>4. ASSUME task' = task PROVE task[d] \in {"validated", "missing", "crashed"}
    BY <2>4
  <2> QED
    BY <2>1, <2>2, <2>3, <2>4
       DEF Next, Step, Operator, Worker, Begin, CheckDefault, CheckTimeWindow, Commit,
           Abort, Create, SetState, SetApproval, Delete, RequestSubmission, vars
<1> QED BY <1>1, <1>2 DEF OnlyCommittedSubmitted

(* No declaration that never existed is taken to the DSS, whenever the     *)
(* broker delivers its task.                                               *)
THEOREM Submitted == Spec => []OnlyCommittedSubmitted
  BY InitSubmitted, NextSubmitted, TypeCorrect, PTL DEF Spec

-----------------------------------------------------------------------------
(* The table implements the registry.                                      *)
board == {d \in Decl : Live(d)}
gone == {d \in Decl : row[d].at = "deleted"}

(* Initially no item of any request is in the table.                       *)
LEMMA InitNotYetBorn == Init => NotYetBorn
  BY ItemsApart DEF Init, NotYetBorn, NoRow

(* Only the commit of a request, and direct creations of other             *)
(* identifiers, bring rows into the table.                                 *)
LEMMA NextNotYetBorn == TypeOK /\ NotYetBorn /\ [Next]_vars => NotYetBorn'
<1> SUFFICES ASSUME TypeOK, NotYetBorn, [Next]_vars,
                    NEW r \in Request, phase'[r] # "done", NEW d \in ItemsOf(r)
             PROVE  row'[d].at = "unborn"
  BY DEF NotYetBorn
<1> USE DEF TypeOK
<1>d. d \in Decl /\ d \in Batched
  BY ItemsApart DEF Batched
<1>1. phase[r] # "done"
  <2>1. ASSUME NEW q \in Request, CheckDefault(q) \/ CheckTimeWindow(q) \/ Answer(q)
        PROVE  phase[r] # "done"
    BY <2>1 DEF CheckDefault, CheckTimeWindow, Answer, Advance
  <2>2. ASSUME NEW q \in Request, Begin(q) \/ Commit(q) \/ Abort(q)
        PROVE  phase[r] # "done"
    BY <2>2 DEF Begin, Commit, Abort, InFlight
  <2>3. ASSUME phase' = phase PROVE phase[r] # "done"
    BY <2>3
  <2> QED
    BY <2>1, <2>2, <2>3
       DEF Next, Step, Operator, Worker, Create, SetState, SetApproval, Delete,
           RequestSubmission, ValidateTask, SubmitTask, request, vars
<1>2. row[d].at = "unborn"
  BY <1>1 DEF NotYetBorn
<1>3. ASSUME NEW q \in Request, Commit(q) PROVE row'[d] = row[d]
  <2>1. q # r
    BY <1>3 DEF Commit
  <2>2. d \notin ItemsOf(q)
    BY <2>1, ItemsApart
  <2> QED BY <1>3, <1>d, <2>2 DEF Commit
<1>4. ASSUME NEW e \in Decl, Create(e) PROVE row'[d] = row[d]
  BY <1>4, <1>d DEF Create, Direct
<1>5. ASSUME NEW e \in Decl, Live(e),
             \/ \E s \in OperatorStates : SetState(e, s)
             \/ \E b \in BOOLEAN : SetApproval(e, b)
             \/ Delete(e)
      PROVE  row'[d] = row[d]
  BY <1>2, <1>5, <1>d DEF SetState, SetApproval, Delete, Live
<1>6. ASSUME row' = row PROVE row'[d] = row[d]
  BY <1>6
<1>7. row'[d] = row[d]
  BY <1>3, <1>4, <1>5, <1>6
     DEF Next, Step, Operator, Worker, Begin, CheckDefault, CheckTimeWindow, Answer,
         Abort, SetState, SetApproval, Delete, RequestSubmission, ValidateTask,
         SubmitTask, table, vars
<1> QED BY <1>2, <1>7

(* A commit enters the whole bulk, a direct creation one identifier, a     *)
(* deletion removes one for good; every other step leaves the board alone. *)
LEMMA StepImplements ==
  TypeOK /\ NotYetBorn /\ [Next]_vars => [Registry!Next]_<<board, gone>>
<1> SUFFICES ASSUME TypeOK, NotYetBorn, [Next]_vars
             PROVE  Registry!Next \/ UNCHANGED <<board, gone>>
  BY DEF board, gone
<1> USE DEF TypeOK
<1>1. ASSUME NEW r \in Request, Commit(r) PROVE Registry!Next
  <2>1. \A d \in ItemsOf(r) : d \in Decl /\ row[d].at = "unborn"
    BY <1>1, ItemsApart DEF Commit, NotYetBorn
  <2>2. \A d \in Decl : row'[d].at = IF d \in ItemsOf(r) THEN "live" ELSE row[d].at
    BY <1>1 DEF Commit, CommittedRow
  <2>3. Registry!Enter(ItemsOf(r))
    BY <2>1, <2>2 DEF Registry!Enter, Live
  <2> QED BY <2>3 DEF Registry!Next
<1>2. ASSUME NEW d \in Decl, Create(d) PROVE Registry!Next
  <2>1. d \in Direct /\ row[d].at = "unborn"
    BY <1>2 DEF Create
  <2>2. \A e \in Decl : row'[e].at = IF e = d THEN "live" ELSE row[e].at
    BY <1>2 DEF Create
  <2>3. Registry!Enter({d})
    BY <2>1, <2>2 DEF Registry!Enter, Live
  <2> QED BY <2>1, <2>3 DEF Registry!Next
<1>3. ASSUME NEW d \in Decl, Delete(d) PROVE Registry!Next
  <2>1. row[d].at = "live"
    BY <1>3 DEF Delete, Live
  <2>2. \A e \in Decl : row'[e].at = IF e = d THEN "deleted" ELSE row[e].at
    BY <1>3 DEF Delete, NoRow
  <2>3. Registry!Leave(d)
    BY <2>1, <2>2 DEF Registry!Leave, Live
  <2> QED BY <2>1, <2>3 DEF Registry!Next, Live
<1>4. ASSUME NEW d \in Decl,
             \/ \E s \in OperatorStates : SetState(d, s)
             \/ \E b \in BOOLEAN : SetApproval(d, b)
      PROVE  \A e \in Decl : row'[e].at = row[e].at
  <2>1. PICK s, b : row' = [row EXCEPT ![d].state = s] \/ row' = [row EXCEPT ![d].approved = b]
    BY <1>4 DEF SetState, SetApproval
  <2>2. /\ [row[d] EXCEPT !.state = s].at = row[d].at
        /\ [row[d] EXCEPT !.approved = b].at = row[d].at
    BY DEF Row
  <2> QED BY <2>1, <2>2
<1>5. ASSUME row' = row PROVE \A e \in Decl : row'[e].at = row[e].at
  BY <1>5
<1>6. ASSUME \A e \in Decl : row'[e].at = row[e].at PROVE UNCHANGED <<board, gone>>
  BY <1>6 DEF board, gone, Live
<1> QED
  BY <1>1, <1>2, <1>3, <1>4, <1>5, <1>6
     DEF Next, Step, Operator, Worker, Begin, CheckDefault, CheckTimeWindow, Answer,
         Abort, RequestSubmission, ValidateTask, SubmitTask, table, vars

(* The items of a bulk enter the table together or not at all, every       *)
(* identifier enters once, and what was deleted stays deleted.             *)
THEOREM ImplementsRegistry == Spec => RegistrySpec
<1>1. Init => Registry!Init
  BY DEF Init, Registry!Init, Live, NoRow
<1>2. Spec => []NotYetBorn
  BY InitNotYetBorn, NextNotYetBorn, TypeCorrect, PTL DEF Spec
<1>3. TypeOK /\ NotYetBorn /\ [Next]_vars
        => [Registry!Next]_<<{d \in Decl : Live(d)}, {d \in Decl : row[d].at = "deleted"}>>
  BY StepImplements DEF board, gone
<1> QED BY <1>1, <1>2, <1>3, TypeCorrect, PTL DEF Spec, RegistrySpec, Registry!Spec

-----------------------------------------------------------------------------
(* The volumes of a declaration (VolumeGeneration).  Its invariant is      *)
(* GenerationInv: where the computation is and what it works on; how far   *)
(* the loop that breaks a line has come, in pieces of one length; and what *)
(* the volumes of the features behind it already cover.                    *)

IsLine(at) ==
  /\ at \in Seq(Nat) /\ Len(at) >= 2 /\ at[1] = 0
  /\ \A l, m \in DOMAIN at : l < m => at[l] <= at[m]

Features ==
  /\ fc \in Seq(Feature) /\ fc # <<>>
  /\ \A k \in DOMAIN fc : IsLine(fc[k].at) /\ Len(fc[k].own) \in {0, 2}

Mode == IF gen = "custom" /\ AllLines THEN "lines"
        ELSE IF gen = "example" THEN "slices" ELSE "wholes"

LoopIsFresh ==
  vertex = 2 /\ piece = Stretch(0, 0, {}) /\ run = 0 /\ pieces = <<>>

Progress ==
  /\ Features
  /\ feature \in 1..(Len(fc) + 1)
  /\ pc \in {"begin", Mode, "done"}
  /\ pc = "begin" => feature = 1 /\ volumes = <<>> /\ cursor = StartTime
  /\ pc = "done" => feature = Len(fc) + 1
  /\ pc # "lines" \/ feature = Len(fc) + 1 => LoopIsFresh

Leg == [from : Nat, to : Nat, via : SUBSET Nat]

(* What a stretch that has come to its end leaves: the vertices behind it. *)
Piece(s, line, ahead) ==
  /\ s \in Leg
  /\ \A m \in s.via : m \in 2..(ahead - 1) /\ s.from <= line[m] /\ line[m] <= s.to
  /\ \A m \in 2..(ahead - 1) : s.from < line[m] => m \in s.via

Breaking ==
  pc = "lines" /\ feature <= Len(fc) =>
    /\ vertex \in 2..(Len(Line) + 1)
    /\ Piece(piece, Line, vertex)
    /\ Line[vertex - 1] <= piece.to
    /\ piece.to <= Line[IF vertex > Len(Line) THEN Len(Line) ELSE vertex]
    /\ run = piece.to - piece.from /\ run \in 0..PieceLength
    /\ piece.from = Len(pieces) * PieceLength
    /\ pieces \in Seq(Leg)
    /\ \A n \in 1..Len(pieces) :
         /\ pieces[n].from = (n - 1) * PieceLength
         /\ pieces[n].to = pieces[n].from + PieceLength
         /\ Follows(pieces[n], Line)

Flown ==
  Mode = "lines" /\ pc # "begin" =>
    /\ Len(volumes) >= 2
    /\ \A k \in 1..(feature - 1) : FlownInside(k)

Slices ==
  Mode = "slices" =>
    /\ Len(volumes) = feature - 1
    /\ cursor \in StartTime..EndTime
    /\ feature = 1 => cursor = StartTime
    /\ feature > 1 => volumes[1].start = StartTime /\ volumes[feature - 1].end = cursor
    /\ feature > Len(fc) => cursor = EndTime
    /\ \A k \in 1..(feature - 1) :
         volumes[k].start <= volumes[k].end
    /\ \A k \in 2..(feature - 1) : volumes[k].start = volumes[k - 1].end

Slot == [of : Nat, path : Leg, start : Nat, end : Nat]

GenerationInv == Progress /\ Breaking /\ Flown /\ Slices /\ volumes \in Seq(Slot)

-----------------------------------------------------------------------------
(* Facts about the operators.                                              *)

(* The features are still there when they are sorted: a rank is nobody     *)
(* else's, so each place is taken.                                         *)
LEMMA SortedKeepsFeatures ==
  ASSUME NEW c \in Seq(Feature)
  PROVE  /\ Sorted(c) \in Seq(Feature) /\ Len(Sorted(c)) = Len(c)
         /\ \A n \in DOMAIN c : \E k \in DOMAIN c : Sorted(c)[n] = c[k]
<1> DEFINE N == 1..Len(c)
           rank(k) == Cardinality(Before(c, k))
           place == [k \in N |-> rank(k) + 1]
<1>0. DOMAIN c = N /\ Len(c) \in Nat /\ \A k \in N : c[k] \in Feature
  OBVIOUS
<1>1. \A k \in N : c[k].id \in Nat
  <2>1. \A x \in Feature : x.id \in Nat
    BY DEF Feature
  <2> SUFFICES ASSUME NEW k \in N
               PROVE  c[k].id \in Nat
    OBVIOUS
  <2>2. c[k] \in Feature
    BY <1>0
  <2> QED
    BY <2>1, <2>2
<1>2. IsFiniteSet(N) /\ Cardinality(N) = Len(c)
  <2>1. Len(c) \in Int /\ 1 \in Int
    OBVIOUS
  <2>2. /\ IsFiniteSet(1..Len(c))
        /\ Cardinality(1..Len(c)) = IF 1 > Len(c) THEN 0 ELSE Len(c) - 1 + 1
    BY <2>1, FS_Interval
  <2> QED
    BY <2>2
<1>3. ASSUME NEW k \in N
      PROVE  IsFiniteSet(Before(c, k)) /\ rank(k) \in 0..(Len(c) - 1)
  <2>1. Before(c, k) \in SUBSET (N \ {k})
    BY <1>0, <1>1 DEF Before
  <2>2. IsFiniteSet(N \ {k}) /\ Cardinality(N \ {k}) = Len(c) - 1
    BY <1>2, FS_RemoveElement
  <2>3. IsFiniteSet(Before(c, k)) /\ rank(k) <= Len(c) - 1
    BY <2>1, <2>2, FS_Subset
  <2> QED
    BY <2>3, <1>0, <1>1, FS_CardinalityType
<1>4. ASSUME NEW k \in N, NEW l \in N, k \in Before(c, l)
      PROVE  rank(k) # rank(l)
  <2>1. Before(c, k) \in SUBSET Before(c, l)
    BY <1>0, <1>1, <1>4 DEF Before
  <2>2. k \notin Before(c, k)
    BY <1>0, <1>1 DEF Before
  <2> QED
    BY <2>1, <2>2, <1>3, <1>4, FS_Subset
<1>5. ASSUME NEW k \in N, NEW l \in N, rank(k) = rank(l)
      PROVE  k = l
  <2>1. k # l => k \in Before(c, l) \/ l \in Before(c, k)
    BY <1>0, <1>1 DEF Before
  <2> QED
    BY <2>1, <1>4, <1>5
<1>6. place \in [N -> N]
  BY <1>0, <1>1, <1>3
<1>7. \A k, l \in N : place[k] = place[l] => k = l
  <2>1. ASSUME NEW k \in N, NEW l \in N, place[k] = place[l]
        PROVE  rank(k) = rank(l)
    <3> HIDE DEF rank
    <3> QED
      BY <2>1, <1>3
  <2> QED
    BY <2>1, <1>5
<1>8. place \in Surjection(N, N)
  <2> HIDE DEF place, N
  <2>1. place \in Injection(N, N)
    BY <1>6, <1>7, Fun_IsInj
  <2> QED
    BY <2>1, <1>2, FS_Injection
<1>9. ASSUME NEW n \in N
      PROVE  \E k \in N : rank(k) = n - 1
  <2>1. PICK k \in N : place[k] = n
    <3> HIDE DEF place, N
    <3> QED
      BY <1>8, Fun_SurjectionProperties
  <2>2. rank(k) = n - 1
    <3> HIDE DEF rank
    <3> QED
      BY <2>1, <1>3
  <2> QED
    BY <2>2
<1> DEFINE nth(n) == CHOOSE k \in DOMAIN c : Cardinality(Before(c, k)) = n - 1
<1>10. \A n \in N : nth(n) \in N
  BY <1>9, <1>0, <1>1
<1> HIDE DEF nth
<1>11. Sorted(c) = [n \in N |-> c[nth(n)]]
  BY <1>0, <1>1 DEF Sorted, nth
<1>12. Sorted(c) \in [N -> Feature]
  BY <1>11, <1>10, <1>0, <1>1
<1>13. Sorted(c) \in Seq(Feature) /\ Len(Sorted(c)) = Len(c)
  BY <1>12, <1>0, <1>1
<1> QED
  BY <1>0, <1>1, <1>10, <1>11, <1>13

(* The metres of the features are counted.                                 *)
LEMMA TotalType ==
  ASSUME Features
  PROVE  Total \in Nat
<1> DEFINE metres == [k \in DOMAIN fc |-> {k} \X (1..Length(k))]
           each == {{k} \X (1..Length(k)) : k \in DOMAIN fc}
<1>1. DOMAIN fc = 1..Len(fc) /\ Len(fc) \in Nat /\ \A k \in DOMAIN fc : Length(k) \in Nat
  BY DEF Features, IsLine, Length
<1>2. metres \in Surjection(DOMAIN fc, each)
  BY DEF Surjection
<1>3. IsFiniteSet(DOMAIN fc)
  BY <1>1, FS_Interval
<1>4. IsFiniteSet(each)
  <2> HIDE DEF metres, each
  <2> QED
    BY <1>2, <1>3, FS_Surjection
<1>5. ASSUME NEW k \in DOMAIN fc
      PROVE  IsFiniteSet({k} \X (1..Length(k)))
  <2>1. IsFiniteSet(1..Length(k))
    BY <1>1, FS_Interval
  <2>2. IsFiniteSet({k})
    BY FS_Singleton
  <2> QED
    BY <2>1, <2>2, FS_Product
<1>6. \A T \in each : IsFiniteSet(T)
  BY <1>5
<1> HIDE DEF each
<1>7. IsFiniteSet(UNION each)
  BY <1>4, <1>6, FS_UNION
<1>8. Cardinality(UNION each) \in Nat
  BY <1>7, FS_CardinalityType
<1> QED
  BY <1>8 DEF Total, each

(* Products of the speed grow with the other factor.                       *)
LEMMA FasterIsFarther ==
  ASSUME NEW a \in Int, NEW b \in Int, a <= b
  PROVE  Speed * a <= Speed * b
<1>1. Speed \in Nat /\ b - a \in Nat
  BY VolumeAssumption
<1>2. Speed * (b - a) >= 0
  BY <1>1
<1>3. Speed * (b - a) = Speed * b - Speed * a
  BY <1>1
<1>4. Speed * a \in Int /\ Speed * b \in Int
  BY <1>1
<1> QED
  BY <1>2, <1>3, <1>4

(* Whoever has flown for t seconds is on the piece of that time: the       *)
(* (t div 3)-th after the first, or the last if its end is reached.        *)
LEMMA OnItsPiece ==
  ASSUME NEW N \in Nat, NEW far \in Nat, NEW t \in Nat, Speed * t <= far,
         N * PieceLength <= far, far <= N * PieceLength + PieceLength
  PROVE  \E n \in 1..(N + 1) :
           /\ (n - 1) * PieceLength <= Speed * t
           /\ n <= N => Speed * t <= (n - 1) * PieceLength + PieceLength
           /\ 3 * (n - 1) <= t /\ t <= 3 * (n - 1) + 3
<1> DEFINE d == t \div 3
<1>1. Speed \in Nat /\ Speed > 0
  BY VolumeAssumption
<1>2. d \in Nat /\ 3 * d <= t /\ t < 3 * d + 3
  OBVIOUS
<1>3. \A m \in Nat : m * PieceLength = Speed * (3 * m)
  BY <1>1 DEF PieceLength
<1>4. PieceLength = Speed * 3
  BY <1>1 DEF PieceLength
<1>5. \A m \in Nat : m * PieceLength + PieceLength = Speed * (3 * m + 3)
  BY <1>1 DEF PieceLength
<1> HIDE DEF d
<1>6. CASE d <= N
  <2>1. Speed * (3 * d) <= Speed * t /\ Speed * t <= Speed * (3 * d + 3)
    BY <1>2, FasterIsFarther
  <2>2. d * PieceLength <= Speed * t /\ Speed * t <= d * PieceLength + PieceLength
    BY <2>1, <1>2, <1>3, <1>5
  <2>3. d + 1 \in 1..(N + 1) /\ (d + 1) - 1 = d
    BY <1>2, <1>6
  <2> QED
    BY <2>2, <2>3, <1>2
<1>7. CASE d > N
  <2>1. 3 * N + 3 <= t
    BY <1>2, <1>7
  <2>2. Speed * (3 * N + 3) <= Speed * t
    BY <2>1, FasterIsFarther
  <2>3. Speed * t <= Speed * (3 * N + 3)
    <3>1. N * PieceLength + PieceLength = Speed * (3 * N + 3)
      BY <1>5
    <3> QED
      BY <3>1, <1>1
  <2>4. t <= 3 * N + 3
    <3> SUFFICES ASSUME t >= 3 * N + 4
                 PROVE  FALSE
      OBVIOUS
    <3>1. Speed * (3 * N + 4) <= Speed * t
      BY FasterIsFarther
    <3>2. Speed * (3 * N + 4) = Speed * (3 * N + 3) + Speed
      BY <1>1
    <3>3. Speed * (3 * N + 3) \in Int /\ Speed * t \in Int
      BY <1>1
    <3> QED
      BY <3>1, <3>2, <3>3, <2>3, <1>1
  <2>5. Speed * (3 * N) <= Speed * t
    BY <2>1, FasterIsFarther
  <2>6. N * PieceLength <= Speed * t
    BY <2>5, <1>3
  <2> QED
    BY <2>1, <2>4, <2>6
<1> QED
  BY <1>2, <1>6, <1>7

(* Quotients of natural numbers are rounded down.                          *)
LEMMA QuotientType ==
  ASSUME NEW a \in Nat, NEW b \in Nat, b # 0
  PROVE  a \div b \in Nat /\ b * (a \div b) <= a
  OBVIOUS

-----------------------------------------------------------------------------
(* Where the computation is.                                               *)

LEMMA ModeType == Mode \in {"lines", "slices", "wholes"}
  BY DEF Mode

LEMMA ProgressStep ==
  ASSUME Progress, GenerationNext
  PROVE  Progress'
<1>1. CASE BeginLines
  <2>1. /\ Sorted(fc) \in Seq(Feature) /\ Len(Sorted(fc)) = Len(fc)
        /\ \A n \in DOMAIN fc : \E k \in DOMAIN fc : Sorted(fc)[n] = fc[k]
    BY SortedKeepsFeatures DEF Progress, Features
  <2>2. fc' = Sorted(fc) /\ DOMAIN fc' = DOMAIN fc
    BY <1>1, <2>1 DEF BeginLines, Progress, Features
  <2>3. Features'
    <3>1. \A k \in DOMAIN fc : IsLine(fc'[k].at) /\ Len(fc'[k].own) \in {0, 2}
      BY <2>1, <2>2 DEF Progress, Features
    <3>2. fc' # <<>>
      BY <2>1, <2>2 DEF Progress, Features
    <3> QED
      BY <2>1, <2>2, <3>1, <3>2 DEF Features
  <2>4. AllLines'
    BY <1>1, <2>1, <2>2 DEF BeginLines, AllLines
  <2>5. pc' = "lines" /\ Mode' = "lines"
    BY <1>1, <2>4 DEF BeginLines, Mode
  <2>6. feature' = 1 /\ Len(fc') \in Nat /\ Len(fc') # 0
    BY <1>1, <2>1, <2>2 DEF BeginLines, Progress, Features
  <2> QED
    BY <2>3, <2>5, <2>6 DEF Progress
<1>2. ASSUME fc' = fc, gen' = gen
      PROVE  Features' /\ Mode' = Mode
  BY <1>2 DEF Progress, Features, Mode, AllLines
<1>3. CASE BeginOthers
  BY <1>2, <1>3 DEF BeginOthers, Progress, Mode, AllLines, LoopIsFresh, loop, Features
<1>4. CASE Extend \/ Cut
  BY <1>2, <1>4, ModeType DEF Extend, Cut, Progress, LoopIsFresh
<1>5. CASE Close
  BY <1>2, <1>5, ModeType DEF Close, Progress, LoopIsFresh, Features
<1>6. CASE TakeMixed \/ TakePlain \/ TakeSlice
  BY <1>2, <1>6, ModeType DEF TakeMixed, TakePlain, AppendWhole, TakeSlice, Progress, LoopIsFresh, loop, Features
<1>7. CASE Return
  BY <1>2, <1>7, ModeType DEF Return, Progress, LoopIsFresh, loop, Features
<1> QED
  BY <1>1, <1>3, <1>4, <1>5, <1>6, <1>7 DEF GenerationNext

-----------------------------------------------------------------------------
(* How a line is broken.                                                   *)

(* The line the loop works on.                                             *)
LEMMA LineType ==
  ASSUME Progress, feature <= Len(fc)
  PROVE  IsLine(Line) /\ feature \in DOMAIN fc /\ Length(feature) = Line[Len(Line)]
  BY DEF Progress, Features, Line, Length

(* A loop that begins has passed the first vertex.                         *)
LEMMA FreshBreaks == Progress /\ LoopIsFresh => Breaking
<1> SUFFICES ASSUME Progress, LoopIsFresh, pc = "lines", feature <= Len(fc)
             PROVE  /\ vertex \in 2..(Len(Line) + 1)
                    /\ Piece(piece, Line, vertex)
                    /\ Line[vertex - 1] <= piece.to
                    /\ piece.to <= Line[IF vertex > Len(Line) THEN Len(Line) ELSE vertex]
                    /\ run = piece.to - piece.from /\ run \in 0..PieceLength
                    /\ piece.from = Len(pieces) * PieceLength
                    /\ pieces \in Seq(Leg)
                    /\ \A n \in 1..Len(pieces) :
                         /\ pieces[n].from = (n - 1) * PieceLength
                         /\ pieces[n].to = pieces[n].from + PieceLength
                         /\ Follows(pieces[n], Line)
  BY DEF Breaking
<1>1. IsLine(Line)
  BY LineType
<1>2. PieceLength \in Nat
  BY VolumeAssumption DEF PieceLength
<1>3. piece \in Leg /\ piece.from = 0 /\ piece.to = 0 /\ piece.via = {}
  BY DEF LoopIsFresh, Stretch, Leg
<1>4. vertex = 2 /\ run = 0 /\ pieces = <<>> /\ Len(pieces) = 0 /\ pieces \in Seq(Leg)
  BY DEF LoopIsFresh
<1>5. Line[2] \in Nat /\ Line[1] = 0 /\ Len(Line) \in Nat /\ Len(Line) >= 2
  BY <1>1 DEF IsLine
<1> QED
  BY <1>2, <1>3, <1>4, <1>5 DEF Piece

(* What is known while the loop heads for a vertex.                        *)
LEMMA HeadsForVertex ==
  ASSUME Progress, Breaking, pc = "lines", feature <= Len(fc), vertex <= Len(Line)
  PROVE  /\ PieceLength \in Nat
         /\ Len(Line) \in Nat /\ DOMAIN Line = 1..Len(Line) /\ vertex \in 2..Len(Line)
         /\ \A m \in 1..Len(Line) : Line[m] \in Nat
         /\ \A l, m \in 1..Len(Line) : l < m => Line[l] <= Line[m]
         /\ Line[vertex - 1] <= piece.to /\ piece.to <= Line[vertex]
         /\ piece \in Leg /\ piece.from \in Nat /\ piece.to \in Nat
         /\ piece.via \in SUBSET Nat
         /\ Piece(piece, Line, vertex)
         /\ run = piece.to - piece.from /\ run \in 0..PieceLength
         /\ piece.from = Len(pieces) * PieceLength
         /\ pieces \in Seq(Leg)
         /\ \A n \in 1..Len(pieces) :
              /\ pieces[n].from = (n - 1) * PieceLength
              /\ pieces[n].to = pieces[n].from + PieceLength
              /\ Follows(pieces[n], Line)
<1>1. PieceLength \in Nat
  BY VolumeAssumption DEF PieceLength
<1>2. IsLine(Line)
  BY LineType
<1>3. Len(Line) \in Nat /\ DOMAIN Line = 1..Len(Line) /\ \A m \in 1..Len(Line) : Line[m] \in Nat
  BY <1>2 DEF IsLine
<1>4. \A l, m \in 1..Len(Line) : l < m => Line[l] <= Line[m]
  BY <1>2, <1>3 DEF IsLine
<1>5. vertex \in 2..Len(Line)
  BY <1>3 DEF Breaking
<1>6. ~(vertex > Len(Line))
  BY <1>3, <1>5
<1>7. Piece(piece, Line, vertex)
  BY DEF Breaking
<1>8. piece \in Leg /\ piece.from \in Nat /\ piece.to \in Nat /\ piece.via \in SUBSET Nat
  BY <1>7 DEF Piece, Leg
<1> QED
  BY <1>1, <1>3, <1>4, <1>5, <1>6, <1>7, <1>8 DEF Breaking

(* An extended piece reaches the vertex, and the next is not before it.    *)
LEMMA BreakingExtends ==
  ASSUME Progress, Breaking, Extend
  PROVE  Breaking'
<1> DEFINE to == Line[vertex]
<1>1. /\ pc = "lines" /\ feature <= Len(fc) /\ vertex <= Len(Line)
      /\ run + (to - piece.to) <= PieceLength
      /\ piece' = Stretch(piece.from, to, piece.via \cup {vertex})
      /\ run' = run + (to - piece.to)
      /\ vertex' = vertex + 1
      /\ fc' = fc /\ feature' = feature /\ pieces' = pieces /\ pc' = pc
  BY DEF Extend
<1>2. Line' = Line
  BY <1>1 DEF Line
<1>3. /\ Len(Line) \in Nat /\ vertex \in 2..Len(Line) /\ to \in Nat /\ PieceLength \in Nat
      /\ \A m \in 1..Len(Line) : Line[m] \in Nat
      /\ Line[vertex - 1] <= piece.to /\ piece.to <= to
      /\ run = piece.to - piece.from /\ run \in 0..PieceLength
      /\ piece.from \in Nat /\ piece.to \in Nat /\ piece.via \in SUBSET Nat
  BY <1>1, HeadsForVertex
<1>4. /\ piece'.from = piece.from /\ piece'.to = to /\ piece'.via = piece.via \cup {vertex}
      /\ piece' \in Leg
  <2>1. piece' = [from |-> piece.from, to |-> to, via |-> piece.via \cup {vertex}]
    BY <1>1 DEF Stretch
  <2>2. piece.via \cup {vertex} \in SUBSET Nat
    BY <1>3
  <2> HIDE DEF to
  <2> QED
    BY <2>1, <2>2, <1>3 DEF Leg
<1>5. Piece(piece', Line, vertex + 1)
  <2>1. ASSUME NEW m \in piece'.via
        PROVE  m \in 2..vertex /\ piece.from <= Line[m] /\ Line[m] <= to
    <3>1. CASE m = vertex
      BY <3>1, <1>3
    <3>2. CASE m \in piece.via
      <4>1. m \in 2..(vertex - 1) /\ piece.from <= Line[m] /\ Line[m] <= piece.to
        BY <3>2, <1>1, HeadsForVertex DEF Piece
      <4>2. Line[m] \in Nat
        BY <4>1, <1>3
      <4> QED
        BY <4>1, <4>2, <1>3
    <3> QED
      BY <2>1, <3>1, <3>2, <1>4
  <2>2. ASSUME NEW m \in 2..vertex, piece.from < Line[m]
        PROVE  m \in piece'.via
    <3>1. CASE m = vertex
      BY <3>1, <1>4
    <3>2. CASE m \in 2..(vertex - 1)
      BY <2>2, <3>2, <1>1, <1>4, HeadsForVertex DEF Piece
    <3> QED
      BY <3>1, <3>2, <1>3
  <2>3. (vertex + 1) - 1 = vertex
    BY <1>3
  <2> QED
    BY <2>1, <2>2, <2>3, <1>4 DEF Piece
<1>6. to <= Line[IF vertex + 1 > Len(Line) THEN Len(Line) ELSE vertex + 1]
  <2>1. \A l, m \in 1..Len(Line) : l < m => Line[l] <= Line[m]
    BY <1>1, HeadsForVertex
  <2>2. CASE vertex + 1 > Len(Line)
    BY <2>2, <1>3
  <2>3. CASE vertex + 1 <= Len(Line)
    BY <2>1, <2>3, <1>3
  <2> QED
    BY <2>2, <2>3, <1>3
<1>7. run' = to - piece.from /\ run' \in 0..PieceLength
  BY <1>1, <1>3
<1>8. Line[(vertex + 1) - 1] <= to /\ vertex + 1 \in 2..(Len(Line) + 1)
  BY <1>3
<1>9. /\ piece.from = Len(pieces) * PieceLength
      /\ pieces \in Seq(Leg)
      /\ \A n \in 1..Len(pieces) :
           /\ pieces[n].from = (n - 1) * PieceLength
           /\ pieces[n].to = pieces[n].from + PieceLength
           /\ Follows(pieces[n], Line)
  BY <1>1, HeadsForVertex
<1> HIDE DEF to
<1>10. /\ vertex' \in 2..(Len(Line') + 1)
       /\ Piece(piece', Line', vertex')
       /\ Line'[vertex' - 1] <= piece'.to
       /\ piece'.to <= Line'[IF vertex' > Len(Line') THEN Len(Line') ELSE vertex']
       /\ run' = piece'.to - piece'.from /\ run' \in 0..PieceLength
  BY <1>1, <1>2, <1>4, <1>5, <1>6, <1>7, <1>8
<1> QED
  BY <1>1, <1>2, <1>4, <1>9, <1>10 DEF Breaking

(* A cut finishes a piece of full length short of the vertex.              *)
LEMMA BreakingCuts ==
  ASSUME Progress, Breaking, Cut
  PROVE  Breaking'
<1> DEFINE cut == piece.to + (PieceLength - run)
           full == Stretch(piece.from, cut, piece.via)
<1>1. /\ pc = "lines" /\ feature <= Len(fc) /\ vertex <= Len(Line)
      /\ run + (Line[vertex] - piece.to) > PieceLength
      /\ pieces' = Append(pieces, full)
      /\ piece' = Stretch(cut, cut, {})
      /\ run' = 0
      /\ vertex' = vertex /\ fc' = fc /\ feature' = feature /\ pc' = pc
  BY DEF Cut
<1>2. Line' = Line
  BY <1>1 DEF Line
<1>3. /\ Len(Line) \in Nat /\ vertex \in 2..Len(Line) /\ PieceLength \in Nat
      /\ Line[vertex - 1] <= piece.to /\ piece.to <= Line[vertex]
      /\ run = piece.to - piece.from /\ run \in 0..PieceLength
      /\ piece.from \in Nat /\ piece.to \in Nat /\ piece.via \in SUBSET Nat
  BY <1>1, HeadsForVertex
<1>4. /\ Piece(piece, Line, vertex)
      /\ piece.from = Len(pieces) * PieceLength
      /\ pieces \in Seq(Leg)
      /\ \A n \in 1..Len(pieces) :
           /\ pieces[n].from = (n - 1) * PieceLength
           /\ pieces[n].to = pieces[n].from + PieceLength
           /\ Follows(pieces[n], Line)
  BY <1>1, HeadsForVertex
<1>5. /\ DOMAIN Line = 1..Len(Line)
      /\ \A m \in 1..Len(Line) : Line[m] \in Nat
      /\ \A l, m \in 1..Len(Line) : l < m => Line[l] <= Line[m]
  BY <1>1, HeadsForVertex
<1>6. run + (Line[vertex] - piece.to) > PieceLength /\ Line[vertex] \in Nat /\ Line[vertex - 1] \in Nat
  BY <1>1, <1>3, <1>5
<1>7. cut = piece.from + PieceLength /\ cut \in Nat /\ piece.to <= cut /\ cut < Line[vertex]
  <2>1. cut = piece.from + PieceLength
    BY <1>3
  <2>2. piece.to <= piece.from + PieceLength
    BY <1>3
  <2>3. piece.from + PieceLength < Line[vertex]
    BY <1>3, <1>6
  <2> QED
    BY <2>1, <2>2, <2>3, <1>3
<1> HIDE DEF cut
<1>8. full \in Leg /\ full.from = piece.from /\ full.to = cut /\ full.via = piece.via
  BY <1>3, <1>7 DEF Stretch, Leg
<1>9. Follows(full, Line)
  <2>1. ASSUME NEW m \in full.via
        PROVE  m \in DOMAIN Line /\ full.from <= Line[m] /\ Line[m] <= full.to
    <3>1. m \in 2..(vertex - 1) /\ piece.from <= Line[m] /\ Line[m] <= piece.to
      BY <2>1, <1>4, <1>8 DEF Piece
    <3>2. m \in DOMAIN Line /\ Line[m] \in Nat
      BY <3>1, <1>3, <1>5
    <3> QED
      BY <3>1, <3>2, <1>3, <1>7, <1>8
  <2>2. ASSUME NEW m \in 2..Len(Line), full.from < Line[m], Line[m] < full.to
        PROVE  m \in full.via
    <3>1. m < vertex
      <4>1. Line[m] < Line[vertex] /\ Line[m] \in Nat
        BY <2>2, <1>5, <1>6, <1>7, <1>8
      <4>2. m \in 1..Len(Line) /\ vertex \in 1..Len(Line)
        BY <1>3
      <4>3. ~(vertex < m) /\ vertex # m
        BY <4>1, <4>2, <1>5, <1>6
      <4> QED
        BY <4>2, <4>3, <1>3
    <3> QED
      BY <2>2, <3>1, <1>3, <1>4, <1>8 DEF Piece
  <2> QED
    BY <2>1, <2>2 DEF Follows
<1> HIDE DEF full
<1>10. /\ pieces' \in Seq(Leg) /\ Len(pieces') = Len(pieces) + 1
       /\ \A n \in 1..Len(pieces) : pieces'[n] = pieces[n]
       /\ pieces'[Len(pieces) + 1] = full
  BY <1>1, <1>4, <1>8
<1>11. cut = (Len(pieces) + 1) * PieceLength
  BY <1>3, <1>4, <1>7
<1>12. ASSUME NEW n \in 1..Len(pieces')
       PROVE  /\ pieces'[n].from = (n - 1) * PieceLength
              /\ pieces'[n].to = pieces'[n].from + PieceLength
              /\ Follows(pieces'[n], Line)
  <2>1. CASE n \in 1..Len(pieces)
    BY <2>1, <1>4, <1>10
  <2>2. CASE n = Len(pieces) + 1
    BY <2>2, <1>4, <1>7, <1>8, <1>9, <1>10
  <2> QED
    BY <2>1, <2>2, <1>4, <1>10
<1>13. piece' \in Leg /\ piece'.from = cut /\ piece'.to = cut /\ piece'.via = {}
  BY <1>1, <1>7 DEF Stretch, Leg
<1>14. Line[vertex - 1] <= cut
  BY <1>3, <1>6, <1>7
<1>15. Piece(piece', Line, vertex)
  <2>1. ASSUME NEW m \in 2..(vertex - 1)
        PROVE  ~(cut < Line[m])
    <3>1. Line[m] <= Line[vertex - 1] /\ Line[m] \in Nat
      <4>1. m \in 1..Len(Line) /\ vertex - 1 \in 1..Len(Line) /\ (m < vertex - 1 \/ m = vertex - 1)
        BY <1>3
      <4> QED
        BY <4>1, <1>5, <1>6
    <3>2. Line[m] <= cut
      BY <3>1, <1>6, <1>7, <1>14
    <3> QED
      BY <3>1, <3>2, <1>7
  <2> QED
    BY <2>1, <1>13 DEF Piece
<1>16. cut <= Line[IF vertex > Len(Line) THEN Len(Line) ELSE vertex]
  <2>1. ~(vertex > Len(Line))
    BY <1>3
  <2>2. cut <= Line[vertex]
    BY <1>6, <1>7
  <2> QED
    BY <2>1, <2>2
<1>17. run' = cut - cut /\ run' \in 0..PieceLength
  BY <1>1, <1>3, <1>7
<1>18. /\ vertex' \in 2..(Len(Line') + 1)
       /\ Piece(piece', Line', vertex')
       /\ Line'[vertex' - 1] <= piece'.to
       /\ piece'.to <= Line'[IF vertex' > Len(Line') THEN Len(Line') ELSE vertex']
       /\ run' = piece'.to - piece'.from /\ run' \in 0..PieceLength
  BY <1>1, <1>2, <1>3, <1>13, <1>14, <1>15, <1>16, <1>17
<1>19. piece'.from = Len(pieces') * PieceLength
  BY <1>10, <1>11, <1>13
<1> QED
  BY <1>1, <1>2, <1>10, <1>12, <1>18, <1>19 DEF Breaking

LEMMA FreshBreaksNext == (Progress /\ LoopIsFresh => Breaking)'
  BY FreshBreaks, PTL

LEMMA BreakingStep ==
  ASSUME Progress, Breaking, GenerationNext
  PROVE  Breaking'
<1>1. Progress'
  BY ProgressStep
<1>2. CASE Close \/ BeginLines
  <2>1. LoopIsFresh'
    BY <1>2 DEF Close, BeginLines, Progress, LoopIsFresh, loop
  <2> QED
    BY <1>1, <2>1, FreshBreaksNext
<1>3. CASE BeginOthers \/ TakeMixed \/ TakePlain \/ TakeSlice \/ Return
  BY <1>3 DEF BeginOthers, TakeMixed, TakePlain, AppendWhole, TakeSlice, Return, Breaking
<1> QED
  BY <1>2, <1>3, BreakingExtends, BreakingCuts DEF GenerationNext

(* What is known of the pieces and the open one, wherever the loop is.     *)
LEMMA PiecesInARow ==
  ASSUME Progress, Breaking, pc = "lines", feature <= Len(fc)
  PROVE  LET all == Append(pieces, piece)
         IN  /\ all \in Seq(Leg) /\ Len(all) = Len(pieces) + 1 /\ Len(pieces) \in Nat
             /\ all[Len(pieces) + 1] = piece
             /\ \A n \in 1..Len(all) : all[n].from = (n - 1) * PieceLength
             /\ \A n \in 1..Len(pieces) : all[n].to = all[n].from + PieceLength
             /\ \A n \in 1..Len(all) : Follows(all[n], Line)
             /\ piece.to - piece.from \in 0..PieceLength
             /\ vertex > Len(Line) => piece.to = Line[Len(Line)]
<1> DEFINE all == Append(pieces, piece)
<1>1. IsLine(Line)
  BY LineType
<1>2. /\ Len(Line) \in Nat /\ DOMAIN Line = 1..Len(Line) /\ Len(Line) >= 2
      /\ \A m \in 1..Len(Line) : Line[m] \in Nat
      /\ \A l, m \in 1..Len(Line) : l < m => Line[l] <= Line[m]
  BY <1>1 DEF IsLine
<1>3. vertex \in 2..(Len(Line) + 1) /\ Piece(piece, Line, vertex)
  BY DEF Breaking
<1>4. piece \in Leg /\ piece.from \in Nat /\ piece.to \in Nat
  BY <1>3 DEF Piece, Leg
<1>5. /\ pieces \in Seq(Leg) /\ piece.from = Len(pieces) * PieceLength
      /\ \A n \in 1..Len(pieces) :
           /\ pieces[n].from = (n - 1) * PieceLength
           /\ pieces[n].to = pieces[n].from + PieceLength
           /\ Follows(pieces[n], Line)
  BY DEF Breaking
<1>6. /\ all \in Seq(Leg) /\ Len(all) = Len(pieces) + 1 /\ Len(pieces) \in Nat
      /\ all[Len(pieces) + 1] = piece
      /\ \A n \in 1..Len(pieces) : all[n] = pieces[n]
  BY <1>4, <1>5
<1>7. Follows(piece, Line)
  <2>1. ASSUME NEW m \in piece.via
        PROVE  m \in DOMAIN Line /\ piece.from <= Line[m] /\ Line[m] <= piece.to
    BY <2>1, <1>2, <1>3 DEF Piece
  <2>2. ASSUME NEW m \in 2..Len(Line), piece.from < Line[m], Line[m] < piece.to
        PROVE  m \in piece.via
    <3>1. CASE m < vertex
      BY <2>2, <3>1, <1>3 DEF Piece
    <3>2. CASE vertex <= m
      <4>1. vertex \in 1..Len(Line) /\ m \in 1..Len(Line) /\ ~(vertex > Len(Line))
        BY <3>2, <1>2, <1>3
      <4>2. piece.to <= Line[vertex]
        BY <4>1 DEF Breaking
      <4>3. Line[vertex] <= Line[m] /\ Line[vertex] \in Nat /\ Line[m] \in Nat
        BY <3>2, <4>1, <1>2
      <4> QED
        BY <2>2, <4>2, <4>3, <1>4
    <3> QED
      BY <3>1, <3>2, <1>3
  <2> QED
    BY <2>1, <2>2 DEF Follows
<1>8. ASSUME vertex > Len(Line)
      PROVE  piece.to = Line[Len(Line)]
  <2>1. vertex - 1 = Len(Line)
    BY <1>8, <1>2, <1>3
  <2>2. Line[vertex - 1] <= piece.to /\ piece.to <= Line[Len(Line)]
    BY <1>8 DEF Breaking
  <2>3. Line[Len(Line)] \in Nat
    BY <1>2
  <2> QED
    BY <2>1, <2>2, <2>3, <1>4
<1>9. piece.to - piece.from \in 0..PieceLength
  BY DEF Breaking
<1>10. ASSUME NEW n \in 1..Len(all)
       PROVE  all[n].from = (n - 1) * PieceLength /\ Follows(all[n], Line)
  <2>1. CASE n \in 1..Len(pieces)
    BY <2>1, <1>5, <1>6
  <2>2. CASE n = Len(pieces) + 1
    <3>1. n - 1 = Len(pieces)
      BY <2>2, <1>6
    <3> QED
      BY <2>2, <3>1, <1>5, <1>6, <1>7
  <2> QED
    BY <2>1, <2>2, <1>6
<1>11. \A n \in 1..Len(pieces) : all[n].to = all[n].from + PieceLength
  BY <1>5, <1>6
<1> HIDE DEF all
<1> QED
  BY <1>6, <1>8, <1>9, <1>10, <1>11 DEF all

LEMMA BreakingCovers ==
  ASSUME Progress, Breaking
  PROVE  PiecesCoverLine
<1> SUFFICES ASSUME pc = "lines", feature <= Len(fc)
             PROVE  LET all == Append(pieces, piece) IN
                    /\ all[1].from = 0
                    /\ \A n \in 1..Len(pieces) :
                         /\ all[n].to = all[n].from + PieceLength
                         /\ all[n + 1].from = all[n].to
                    /\ piece.to - piece.from \in 0..PieceLength
                    /\ \A n \in 1..Len(all) : Follows(all[n], Line)
                    /\ vertex > Len(Line) => piece.to = Length(feature)
  BY DEF PiecesCoverLine
<1> DEFINE all == Append(pieces, piece)
<1>1. /\ Len(all) = Len(pieces) + 1 /\ Len(pieces) \in Nat
      /\ \A n \in 1..Len(all) : all[n].from = (n - 1) * PieceLength
      /\ \A n \in 1..Len(pieces) : all[n].to = all[n].from + PieceLength
      /\ \A n \in 1..Len(all) : Follows(all[n], Line)
      /\ piece.to - piece.from \in 0..PieceLength
      /\ vertex > Len(Line) => piece.to = Line[Len(Line)]
  BY PiecesInARow
<1>2. Length(feature) = Line[Len(Line)]
  BY LineType
<1>3. PieceLength \in Nat
  BY VolumeAssumption DEF PieceLength
<1> HIDE DEF all
<1>4. all[1].from = 0
  <2>1. 1 \in 1..Len(all) /\ (1 - 1) * PieceLength = 0
    BY <1>1, <1>3
  <2> QED
    BY <2>1, <1>1
<1>5. ASSUME NEW n \in 1..Len(pieces)
      PROVE  all[n + 1].from = all[n].to
  <2>1. n \in 1..Len(all) /\ n + 1 \in 1..Len(all) /\ n \in Nat
    BY <1>1
  <2>2. all[n + 1].from = ((n + 1) - 1) * PieceLength /\ all[n].from = (n - 1) * PieceLength
    BY <2>1, <1>1
  <2>3. ((n + 1) - 1) * PieceLength = (n - 1) * PieceLength + PieceLength
    BY <2>1, <1>3
  <2> QED
    BY <2>2, <2>3, <1>1
<1> QED
  BY <1>1, <1>2, <1>4, <1>5 DEF all

-----------------------------------------------------------------------------
(* What the volumes cover.                                                 *)

(* The times and places of a feature are natural numbers.                  *)
LEMMA FeatureType ==
  ASSUME Features, NEW k \in DOMAIN fc
  PROVE  /\ k \in Nat /\ Length(k) \in Nat /\ Climbed(k) \in Nat
         /\ OwnStart(k) \in Nat /\ OwnEnd(k) \in Nat /\ Whole(k) \in Leg
<1>1. fc[k] \in Feature /\ IsLine(fc[k].at) /\ Len(fc[k].own) \in {0, 2} /\ k \in Nat
  BY DEF Features
<1>2. fc[k].rise \in Nat /\ fc[k].own \in Seq(Nat)
  BY <1>1 DEF Feature
<1>3. Length(k) \in Nat /\ Len(fc[k].at) \in Nat
  BY <1>1 DEF IsLine, Length
<1>4. Climbed(k) \in Nat
  <2>1. fc[k].rise \div ClimbRate \in Nat
    BY <1>2, VolumeAssumption, QuotientType
  <2> QED
    BY <2>1, VolumeAssumption DEF Climbed
<1>5. OwnStart(k) \in Nat /\ OwnEnd(k) \in Nat
  BY <1>1, <1>2, VolumeAssumption DEF OwnStart, OwnEnd
<1>6. Whole(k) \in Leg
  BY <1>3 DEF Whole, Stretch, Leg
<1> QED
  BY <1>1, <1>3, <1>4, <1>5, <1>6

(* What Close adds.                                                        *)
LEMMA ClosedVolumes ==
  ASSUME Progress, Breaking, volumes \in Seq(Slot), Close
  PROVE  LET all == Append(pieces, piece)
             more == [n \in 1..Len(all) |->
                        Volume(feature, all[n], PieceStart(feature, n), PieceStart(feature, n) + 3)]
         IN  /\ more \in Seq(Slot) /\ Len(more) = Len(pieces) + 1 /\ volumes' = volumes \o more
             /\ \A n \in 1..(Len(pieces) + 1) :
                  more[n] = Volume(feature, all[n], PieceStart(feature, n), PieceStart(feature, n) + 3)
<1> DEFINE all == Append(pieces, piece)
           vol(n) == Volume(feature, all[n], PieceStart(feature, n), PieceStart(feature, n) + 3)
<1>1. pc = "lines" /\ feature <= Len(fc)
  BY DEF Close
<1>2. all \in Seq(Leg) /\ Len(all) = Len(pieces) + 1 /\ Len(pieces) \in Nat
  BY <1>1, PiecesInARow
<1>3. feature \in Nat /\ Climbed(feature) \in Nat
  BY <1>1, FeatureType, LineType DEF Progress
<1>4. volumes' = volumes \o [n \in 1..Len(all) |-> vol(n)]
  BY DEF Close
<1> HIDE DEF all
<1>5. ASSUME NEW n \in 1..Len(all)
      PROVE  vol(n) \in Slot
  <2>1. PieceStart(feature, n) \in Nat /\ PieceStart(feature, n) + 3 \in Nat
    BY <1>2, <1>3 DEF PieceStart
  <2>2. all[n] \in Leg
    BY <1>2
  <2> HIDE DEF PieceStart
  <2> QED
    BY <2>1, <2>2, <1>3 DEF Volume, Slot
<1> HIDE DEF vol
<1>6. [n \in 1..Len(all) |-> vol(n)] \in Seq(Slot) /\ Len([n \in 1..Len(all) |-> vol(n)]) = Len(all)
  BY <1>2, <1>5
<1> QED
  BY <1>2, <1>4, <1>6 DEF all, vol

(* The next share of the time begins at the cursor and does not go back.   *)
LEMMA ShareType ==
  ASSUME Progress, Slices, TakeSlice
  PROVE  /\ cursor' \in cursor..EndTime /\ cursor \in StartTime..EndTime
         /\ feature = Len(fc) => cursor' = EndTime
         /\ volumes' = Append(volumes, Volume(feature, Whole(feature), cursor, cursor'))
         /\ feature' = feature + 1 /\ fc' = fc /\ gen' = gen /\ pc' = pc
         /\ pc = "slices" /\ Mode = "slices" /\ feature \in 1..Len(fc)
<1> DEFINE share == IF Total = 0 THEN 0
                    ELSE ((EndTime - StartTime) * Length(feature)) \div Total
           till == cursor + (IF share < 1 THEN 1 ELSE share)
           upto == IF feature = Len(fc) \/ till > EndTime THEN EndTime ELSE till
<1>1. /\ pc = "slices" /\ feature <= Len(fc)
      /\ volumes' = Append(volumes, Volume(feature, Whole(feature), cursor, upto))
      /\ cursor' = upto /\ feature' = feature + 1
      /\ fc' = fc /\ gen' = gen /\ pc' = pc
  BY DEF TakeSlice
<1>2. Mode = "slices" /\ feature \in 1..Len(fc) /\ feature \in DOMAIN fc /\ Features
  BY <1>1, ModeType DEF Progress, Features
<1>3. cursor \in StartTime..EndTime /\ StartTime \in Nat /\ EndTime \in Nat /\ EndTime - StartTime \in Nat
  BY <1>2, VolumeAssumption DEF Slices
<1>4. share \in Nat
  <2>1. Total \in Nat /\ Length(feature) \in Nat
    BY <1>2, TotalType, FeatureType
  <2>2. (EndTime - StartTime) * Length(feature) \in Nat
    BY <1>3, <2>1
  <2> QED
    BY <2>1, <2>2, QuotientType
<1> HIDE DEF share
<1>5. till \in Nat /\ till > cursor
  BY <1>3, <1>4
<1> HIDE DEF till
<1>6. upto \in cursor..EndTime /\ (feature = Len(fc) => upto = EndTime)
  BY <1>3, <1>5
<1> HIDE DEF upto
<1> QED
  BY <1>1, <1>2, <1>3, <1>6

LEMMA VolumesTyped ==
  ASSUME Progress, Breaking, Slices, volumes \in Seq(Slot), GenerationNext
  PROVE  volumes' \in Seq(Slot)
<1>0. Features /\ Len(fc) \in Nat /\ Len(fc) > 0 /\ DOMAIN fc = 1..Len(fc)
  BY DEF Progress, Features
<1>1. CASE BeginLines
  <2> DEFINE c == Sorted(fc)
             last == Len(c)
             down == c[last].at[Len(c[last].at)]
             first == Volume(1, Stretch(0, 0, {}), StartTime, StartTime + 1)
             final == Volume(last, Stretch(down, down, {}), EndTime - 1, EndTime)
  <2>1. volumes' = <<first, final>>
    BY <1>1 DEF BeginLines
  <2>2. last = Len(fc) /\ \E k \in DOMAIN fc : c[last] = fc[k]
    <3>1. /\ Len(Sorted(fc)) = Len(fc)
          /\ \A n \in DOMAIN fc : \E k \in DOMAIN fc : Sorted(fc)[n] = fc[k]
      BY <1>0, SortedKeepsFeatures DEF Features
    <3>2. Len(fc) \in DOMAIN fc
      BY <1>0
    <3> QED
      BY <3>1, <3>2
  <2>3. down \in Nat
    BY <2>2, <1>0 DEF Features, IsLine
  <2>4. last \in Nat /\ EndTime - 1 \in Nat /\ EndTime \in Nat /\ StartTime \in Nat /\ StartTime + 1 \in Nat
    BY <2>2, <1>0, VolumeAssumption
  <2> HIDE DEF c, last, down
  <2>5. first \in Slot /\ final \in Slot
    BY <2>3, <2>4 DEF Volume, Stretch, Slot, Leg
  <2> HIDE DEF first, final
  <2> QED
    BY <2>1, <2>5
<1>2. CASE Close
  <2>1. PICK more \in Seq(Slot) : volumes' = volumes \o more
    BY <1>2, ClosedVolumes
  <2> QED
    BY <2>1
<1>3. CASE TakeMixed \/ TakePlain
  <2>1. /\ feature \in DOMAIN fc
        /\ volumes' = Append(volumes, Volume(feature, Whole(feature), OwnStart(feature), OwnEnd(feature)))
    BY <1>3, <1>0 DEF TakeMixed, TakePlain, AppendWhole, Progress
  <2>2. Volume(feature, Whole(feature), OwnStart(feature), OwnEnd(feature)) \in Slot
    BY <2>1, <1>0, FeatureType DEF Volume, Slot
  <2> QED
    BY <2>1, <2>2
<1>4. CASE TakeSlice
  <2>1. /\ feature \in DOMAIN fc /\ cursor \in Nat /\ cursor' \in Nat
        /\ volumes' = Append(volumes, Volume(feature, Whole(feature), cursor, cursor'))
    BY <1>4, <1>0, ShareType, VolumeAssumption
  <2>2. Volume(feature, Whole(feature), cursor, cursor') \in Slot
    BY <2>1, <1>0, FeatureType DEF Volume, Slot
  <2> QED
    BY <2>1, <2>2
<1>5. CASE BeginOthers \/ Extend \/ Cut \/ Return
  BY <1>5 DEF BeginOthers, Extend, Cut, Return
<1> QED
  BY <1>1, <1>2, <1>3, <1>4, <1>5 DEF GenerationNext

(* Who was inside stays inside when volumes are added.                     *)
LEMMA FlownStays ==
  ASSUME volumes \in Seq(Slot), NEW more \in Seq(Slot), volumes' = volumes \o more,
         fc' = fc, NEW k, FlownInside(k)
  PROVE  FlownInside(k)'
<1>1. Len(volumes') = Len(volumes) + Len(more) /\ Len(volumes) \in Nat /\ Len(more) \in Nat
  OBVIOUS
<1>2. \A n \in 3..Len(volumes) : n \in 3..Len(volumes') /\ volumes'[n] = volumes[n]
  BY <1>1
<1>3. {volumes[n] : n \in 3..Len(volumes)} \subseteq {volumes'[n] : n \in 3..Len(volumes')}
  BY <1>2
<1>4. Length(k)' = Length(k) /\ Climbed(k)' = Climbed(k)
  BY DEF Length, Climbed
<1> QED
  BY <1>3, <1>4 DEF FlownInside

(* A line that is closed is flown inside its volumes.                      *)
LEMMA ClosedIsFlown ==
  ASSUME Progress, Breaking, volumes \in Seq(Slot), Len(volumes) >= 2, Close,
         NEW k, k = feature
  PROVE  FlownInside(k)'
<1> DEFINE all == Append(pieces, piece)
           N == Len(pieces)
           far == Length(k)
           vol(n) == Volume(k, all[n], PieceStart(k, n), PieceStart(k, n) + 3)
<1>1. pc = "lines" /\ feature <= Len(fc) /\ vertex > Len(Line) /\ fc' = fc /\ feature' = k + 1
  BY DEF Close
<1>2. /\ all \in Seq(Leg) /\ Len(all) = N + 1 /\ N \in Nat /\ all[N + 1] = piece
      /\ \A n \in 1..Len(all) : all[n].from = (n - 1) * PieceLength
      /\ \A n \in 1..Len(pieces) : all[n].to = all[n].from + PieceLength
      /\ piece.to - piece.from \in 0..PieceLength
      /\ piece.to = Line[Len(Line)]
  BY <1>1, PiecesInARow
<1>3. far = Line[Len(Line)] /\ k \in DOMAIN fc /\ far \in Nat /\ Climbed(k) \in Nat
  BY <1>1, LineType, FeatureType DEF Progress
<1>4. PICK more \in Seq(Slot) :
        /\ Len(more) = N + 1 /\ volumes' = volumes \o more
        /\ \A n \in 1..(N + 1) : more[n] = vol(n)
  BY ClosedVolumes
<1>5. PieceLength \in Nat /\ Speed \in Nat /\ Speed # 0
  BY VolumeAssumption DEF PieceLength
<1>6. piece.from = N * PieceLength /\ N * PieceLength <= far /\ far <= N * PieceLength + PieceLength
  <2>1. piece.from = ((N + 1) - 1) * PieceLength /\ (N + 1) - 1 = N
    <3>1. N + 1 \in 1..Len(all) /\ (N + 1) - 1 = N
      BY <1>2
    <3>2. all[N + 1].from = ((N + 1) - 1) * PieceLength
      BY <3>1, <1>2
    <3> QED
      BY <3>1, <3>2, <1>2
  <2>2. N * PieceLength \in Nat /\ piece.to = far
    BY <1>2, <1>3, <1>5
  <2> QED
    BY <2>1, <2>2, <1>2, <1>3, <1>5
<1>7. ASSUME NEW n \in 1..(N + 1)
      PROVE  vol(n) \in {volumes'[m] : m \in 3..Len(volumes')}
  <2>1. volumes'[Len(volumes) + n] = more[n] /\ Len(volumes) + n \in 3..Len(volumes')
    BY <1>2, <1>4
  <2> QED
    BY <2>1, <1>4
<1>8. ASSUME NEW t \in 0..(far \div Speed)
      PROVE  \E v \in {volumes'[m] : m \in 3..Len(volumes')} :
               /\ v.of = k
               /\ v.path.from <= Speed * t /\ Speed * t <= v.path.to
               /\ v.start <= Climbed(k) + t /\ Climbed(k) + t <= v.end
  <2>1. t \in Nat /\ Speed * t <= far
    <3>1. far \div Speed \in Nat /\ Speed * (far \div Speed) <= far
      BY <1>3, <1>5, QuotientType
    <3>2. t \in Nat /\ t <= far \div Speed
      BY <3>1
    <3>3. Speed * t <= Speed * (far \div Speed)
      BY <3>1, <3>2, FasterIsFarther
    <3> QED
      BY <3>1, <3>2, <3>3, <1>3, <1>5
  <2> HIDE DEF N, far
  <2>2. PICK n \in 1..(N + 1) :
          /\ (n - 1) * PieceLength <= Speed * t
          /\ n <= N => Speed * t <= (n - 1) * PieceLength + PieceLength
          /\ 3 * (n - 1) <= t /\ t <= 3 * (n - 1) + 3
    BY <2>1, <1>2, <1>3, <1>6, OnItsPiece
  <2>3. all[n].from = (n - 1) * PieceLength
    BY <1>2
  <2>4. Speed * t <= all[n].to
    <3>1. CASE n \in 1..N
      BY <3>1, <2>2, <2>3, <1>2 DEF N
    <3>2. CASE n = N + 1
      BY <3>2, <2>1, <1>2, <1>3
    <3> QED
      BY <3>1, <3>2, <1>2
  <2>5. vol(n).of = k /\ vol(n).path = all[n] /\ vol(n).start = PieceStart(k, n)
        /\ vol(n).end = PieceStart(k, n) + 3
    BY DEF Volume
  <2>6. PieceStart(k, n) <= Climbed(k) + t /\ Climbed(k) + t <= PieceStart(k, n) + 3
    BY <2>1, <2>2, <1>2, <1>3 DEF PieceStart
  <2> HIDE DEF vol, all
  <2> QED
    BY <2>2, <2>3, <2>4, <2>5, <2>6, <1>7
<1>9. Length(k)' = Length(k) /\ Climbed(k)' = Climbed(k)
  BY <1>1 DEF Length, Climbed
<1> QED
  BY <1>8, <1>9 DEF FlownInside

LEMMA ModeStays ==
  ASSUME Progress, GenerationNext, pc # "begin"
  PROVE  fc' = fc /\ gen' = gen /\ Mode' = Mode /\ pc = Mode
<1>1. fc' = fc /\ gen' = gen /\ pc # "done"
  BY DEF GenerationNext, BeginLines, BeginOthers, Extend, Cut, Close, TakeMixed, TakePlain,
         AppendWhole, TakeSlice, Return
<1>2. Mode' = Mode
  BY <1>1 DEF Mode, AllLines
<1> QED
  BY <1>1, <1>2 DEF Progress

LEMMA FlownStep ==
  ASSUME Progress, Breaking, Flown, volumes \in Seq(Slot), GenerationNext
  PROVE  Flown'
<1> SUFFICES ASSUME Mode' = "lines", pc' # "begin"
             PROVE  Len(volumes') >= 2 /\ \A k \in 1..(feature' - 1) : FlownInside(k)'
  BY DEF Flown
<1>1. CASE BeginLines
  <2>1. feature' = 1 /\ Len(volumes') = 2
    BY <1>1 DEF BeginLines, Progress
  <2> QED
    BY <2>1
<1>2. CASE BeginOthers
  <2>1. Mode' = Mode
    BY <1>2 DEF BeginOthers, Mode, AllLines
  <2>2. Mode # "lines"
    BY <1>2 DEF BeginOthers, Mode
  <2> QED
    BY <2>1, <2>2
<1>3. CASE Close
  <2>1. pc # "begin" /\ feature' = feature + 1 /\ feature <= Len(fc)
    BY <1>3 DEF Close
  <2>2. fc' = fc /\ Mode = "lines"
    BY <2>1, ModeStays
  <2>3. Len(volumes) >= 2 /\ \A k \in 1..(feature - 1) : FlownInside(k)
    BY <2>1, <2>2 DEF Flown
  <2>4. PICK more \in Seq(Slot) : volumes' = volumes \o more
    BY <1>3, ClosedVolumes
  <2>5. Len(volumes') >= 2
    BY <2>3, <2>4
  <2>6. ASSUME NEW k \in 1..(feature' - 1)
        PROVE  FlownInside(k)'
    <3>1. feature \in Nat
      BY DEF Progress
    <3>2. CASE k = feature
      BY <3>2, <1>3, <2>3, ClosedIsFlown
    <3>3. CASE k \in 1..(feature - 1)
      BY <3>3, <2>2, <2>3, <2>4, FlownStays
    <3> QED
      BY <3>1, <3>2, <3>3, <2>1
  <2> QED
    BY <2>5, <2>6
<1>4. CASE Extend \/ Cut \/ Return
  <2>1. pc # "begin" /\ feature' = feature /\ volumes' = volumes
    BY <1>4 DEF Extend, Cut, Return
  <2>2. fc' = fc /\ Mode = "lines"
    BY <2>1, ModeStays
  <2>3. Len(volumes) >= 2 /\ \A k \in 1..(feature - 1) : FlownInside(k)
    BY <2>1, <2>2 DEF Flown
  <2>4. \A k : FlownInside(k)' <=> FlownInside(k)
    BY <2>1, <2>2 DEF FlownInside, Length, Climbed
  <2> QED
    BY <2>1, <2>3, <2>4
<1>5. CASE TakeMixed \/ TakePlain \/ TakeSlice
  <2>1. pc \in {"wholes", "slices"}
    BY <1>5 DEF TakeMixed, TakePlain, AppendWhole, TakeSlice
  <2> QED
    BY <2>1, ModeStays
<1> QED
  BY <1>1, <1>2, <1>3, <1>4, <1>5 DEF GenerationNext

LEMMA SlicesStep ==
  ASSUME Progress, Slices, volumes \in Seq(Slot), GenerationNext
  PROVE  Slices'
<1>0. /\ feature \in 1..(Len(fc) + 1) /\ Len(fc) \in Nat /\ Len(fc) > 0
      /\ StartTime \in Nat /\ EndTime \in Nat /\ StartTime <= EndTime
  BY VolumeAssumption DEF Progress, Features
<1> SUFFICES ASSUME Mode' = "slices"
             PROVE  Slices'
  BY DEF Slices
<1>1. CASE BeginLines \/ BeginOthers
  <2>1. gen' = gen /\ feature' = 1 /\ cursor' = StartTime
    BY <1>1 DEF BeginLines, BeginOthers, Progress, loop
  <2>2. gen # "custom"
    BY <2>1 DEF Mode
  <2>3. fc' = fc /\ volumes' = <<>>
    BY <1>1, <2>2 DEF BeginLines, BeginOthers, Progress
  <2> QED
    BY <2>1, <2>3, <1>0 DEF Slices
<1>2. CASE TakeSlice
  <2>1. /\ cursor' \in cursor..EndTime /\ cursor \in StartTime..EndTime
        /\ feature = Len(fc) => cursor' = EndTime
        /\ volumes' = Append(volumes, Volume(feature, Whole(feature), cursor, cursor'))
        /\ feature' = feature + 1 /\ fc' = fc
        /\ Mode = "slices" /\ feature \in 1..Len(fc)
    BY <1>2, ShareType
  <2>2. /\ Len(volumes) = feature - 1
        /\ feature = 1 => cursor = StartTime
        /\ feature > 1 => volumes[1].start = StartTime /\ volumes[feature - 1].end = cursor
        /\ \A k \in 1..(feature - 1) : volumes[k].start <= volumes[k].end
        /\ \A k \in 2..(feature - 1) : volumes[k].start = volumes[k - 1].end
    BY <2>1 DEF Slices
  <2>3. /\ Len(volumes') = feature /\ volumes'[feature].start = cursor
        /\ volumes'[feature].end = cursor'
        /\ \A k \in 1..(feature - 1) : volumes'[k] = volumes[k]
    BY <2>1, <2>2, <1>0 DEF Volume
  <2>4. Len(volumes') = feature' - 1 /\ cursor' \in StartTime..EndTime /\ feature' # 1
    BY <2>1, <2>3, <1>0
  <2>5. volumes'[1].start = StartTime /\ volumes'[feature' - 1].end = cursor'
    <3>1. CASE feature = 1
      BY <3>1, <2>1, <2>2, <2>3
    <3>2. CASE feature > 1
      BY <3>2, <2>1, <2>2, <2>3
    <3> QED
      BY <3>1, <3>2, <1>0
  <2>6. feature' > Len(fc') => cursor' = EndTime
    BY <2>1, <1>0
  <2>7. ASSUME NEW k \in 1..(feature' - 1)
        PROVE  volumes'[k].start <= volumes'[k].end
    <3>1. CASE k = feature
      BY <3>1, <2>1, <2>3, <1>0
    <3>2. CASE k \in 1..(feature - 1)
      BY <3>2, <2>2, <2>3
    <3>3. k = feature \/ k \in 1..(feature - 1)
      <4>1. feature \in Nat /\ feature' = feature + 1
        BY <2>1, <1>0
      <4> QED
        BY <4>1
    <3> QED
      BY <3>1, <3>2, <3>3
  <2>8. ASSUME NEW k \in 2..(feature' - 1)
        PROVE  volumes'[k].start = volumes'[k - 1].end
    <3>1. CASE k = feature
      <4>1. feature > 1 /\ feature - 1 \in 1..(feature - 1)
        BY <3>1, <1>0
      <4> QED
        BY <3>1, <4>1, <2>2, <2>3
    <3>2. CASE k \in 2..(feature - 1)
      <4>1. k \in 1..(feature - 1) /\ k - 1 \in 1..(feature - 1)
        BY <3>2, <1>0
      <4> QED
        BY <3>2, <4>1, <2>2, <2>3
    <3>3. k = feature \/ k \in 2..(feature - 1)
      <4>1. feature \in Nat /\ feature' = feature + 1
        BY <2>1, <1>0
      <4> QED
        BY <4>1
    <3> QED
      BY <3>1, <3>2, <3>3
  <2> QED
    BY <2>4, <2>5, <2>6, <2>7, <2>8 DEF Slices
<1>3. CASE Return
  <2>1. fc' = fc /\ feature' = feature /\ volumes' = volumes /\ cursor' = cursor
    BY <1>3 DEF Return
  <2>2. Mode = "slices"
    BY <1>3, ModeStays DEF Return
  <2> QED
    BY <2>1, <2>2 DEF Slices
<1>4. CASE Extend \/ Cut \/ Close \/ TakeMixed \/ TakePlain
  <2>1. pc \in {"lines", "wholes"}
    BY <1>4 DEF Extend, Cut, Close, TakeMixed, TakePlain, AppendWhole
  <2> QED
    BY <2>1, ModeStays
<1> QED
  BY <1>1, <1>2, <1>3, <1>4 DEF GenerationNext

-----------------------------------------------------------------------------
LEMMA GenerationBegins == GenerationInit => GenerationInv
<1> SUFFICES ASSUME GenerationInit
             PROVE  GenerationInv
  OBVIOUS
<1>1. Features
  <2>1. fc \in Seq(Feature) /\ fc # <<>>
    BY VolumeAssumption DEF GenerationInit
  <2>2. ASSUME NEW k \in DOMAIN fc
        PROVE  IsLine(fc[k].at) /\ Len(fc[k].own) \in {0, 2}
    <3>1. fc[k] \in Feature
      BY <2>1
    <3>2. fc[k].at \in Seq(Nat)
      BY <3>1 DEF Feature
    <3> QED
      BY <3>2, VolumeAssumption DEF GenerationInit, IsLine
  <2> QED
    BY <2>1, <2>2 DEF Features
<1>2. Progress
  <2>1. Len(fc) \in Nat
    BY <1>1 DEF Features
  <2> QED
    BY <1>1, <2>1 DEF GenerationInit, Progress, LoopIsFresh
<1>3. Breaking /\ Flown
  BY DEF GenerationInit, Breaking, Flown
<1>4. Slices
  <2>1. Len(fc) \in Nat /\ Len(fc) > 0
    BY <1>1 DEF Features
  <2> QED
    BY <2>1, VolumeAssumption DEF GenerationInit, Slices
<1>5. volumes \in Seq(Slot)
  BY DEF GenerationInit
<1> QED
  BY <1>2, <1>3, <1>4, <1>5 DEF GenerationInv

LEMMA GenerationGoesOn ==
  GenerationInv /\ [GenerationNext]_generation => GenerationInv'
<1>1. ASSUME GenerationInv, GenerationNext
      PROVE  GenerationInv'
  BY <1>1, ProgressStep, BreakingStep, FlownStep, SlicesStep, VolumesTyped DEF GenerationInv
<1>2. ASSUME GenerationInv, UNCHANGED generation
      PROVE  GenerationInv'
  <2>1. /\ fc' = fc /\ gen' = gen /\ pc' = pc /\ feature' = feature /\ vertex' = vertex
        /\ piece' = piece /\ run' = run /\ pieces' = pieces /\ cursor' = cursor
        /\ volumes' = volumes
    BY <1>2 DEF generation, loop
  <2>2. Progress'
    BY <1>2, <2>1 DEF GenerationInv, Progress, Features, Mode, AllLines, LoopIsFresh
  <2>3. Breaking'
    BY <1>2, <2>1 DEF GenerationInv, Breaking, Line
  <2>4. Mode' = Mode
    BY <2>1 DEF Mode, AllLines
  <2>5. Flown'
    BY <1>2, <2>1, <2>4 DEF GenerationInv, Flown, FlownInside, Length, Climbed
  <2>6. Slices'
    BY <1>2, <2>1, <2>4 DEF GenerationInv, Slices
  <2> QED
    BY <1>2, <2>1, <2>2, <2>3, <2>5, <2>6 DEF GenerationInv
<1> QED
  BY <1>1, <1>2

LEMMA GenerationInvHolds == GenerationSpec => []GenerationInv
  BY GenerationBegins, GenerationGoesOn, PTL DEF GenerationSpec

(* Lines of any number of vertices, at any distances, are broken without a *)
(* gap, an overlap or a vertex left out, for every speed.                  *)
THEOREM PiecesCover == GenerationSpec => []PiecesCoverLine
<1>1. GenerationInv => PiecesCoverLine
  BY BreakingCovers DEF GenerationInv
<1> QED
  BY <1>1, GenerationInvHolds, PTL

(* Whoever flies any of the lines at the default speed stays inside the    *)
(* volumes of build_v4d_from_linestrings, and the slices of the example    *)
(* plugin share out the whole request, for every collection of features.   *)
THEOREM VolumesFit == GenerationSpec => []VolumesFitTheFlight
<1>1. ASSUME GenerationInv, pc = "done"
      PROVE  /\ gen = "custom" /\ AllLines => \A k \in DOMAIN fc : FlownInside(k)
             /\ gen = "example" => Sliced
  <2>1. feature = Len(fc) + 1 /\ Len(fc) \in Nat /\ Len(fc) > 0 /\ DOMAIN fc = 1..Len(fc)
    BY <1>1 DEF GenerationInv, Progress, Features
  <2>2. ASSUME gen = "custom", AllLines
        PROVE  \A k \in DOMAIN fc : FlownInside(k)
    <3>1. Mode = "lines" /\ pc # "begin"
      BY <1>1, <2>2 DEF Mode
    <3>2. \A k \in 1..(feature - 1) : FlownInside(k)
      BY <1>1, <3>1 DEF GenerationInv, Flown
    <3>3. DOMAIN fc = 1..(feature - 1)
      BY <2>1
    <3> QED
      BY <3>2, <3>3
  <2>3. ASSUME gen = "example"
        PROVE  Sliced
    <3>1. Mode = "slices"
      BY <2>3 DEF Mode
    <3>2. /\ Len(volumes) = feature - 1
          /\ feature > 1 => volumes[1].start = StartTime /\ volumes[feature - 1].end = cursor
          /\ feature > Len(fc) => cursor = EndTime
          /\ \A k \in 1..(feature - 1) : volumes[k].start <= volumes[k].end
          /\ \A k \in 2..(feature - 1) : volumes[k].start = volumes[k - 1].end
      BY <1>1, <3>1 DEF GenerationInv, Slices
    <3>3. feature - 1 = Len(fc) /\ feature > 1 /\ feature > Len(fc)
      BY <2>1
    <3> QED
      BY <3>2, <3>3 DEF Sliced
  <2> QED
    BY <2>2, <2>3
<1>2. GenerationInv => VolumesFitTheFlight
  BY <1>1 DEF VolumesFitTheFlight
<1> QED
  BY <1>2, GenerationInvHolds, PTL

-----------------------------------------------------------------------------
(* VolumeForms: the extent of volumes, for any number of them.             *)

CONSTANT Outline \* the polygons and circles of volumes, as they come

Extent == [lower : Int, upper : Int, start : Int, end : Int]
Shape == [polygon : Outline, circle : Outline, lower : Int, upper : Int, start : Int, end : Int]

(* Extent e holds the first k volumes, and each of them reaches no further *)
(* than some of them do.                                                   *)
Spans(e, shapes, k) ==
  /\ e \in Extent
  /\ \A i \in 1..k : /\ e.lower <= shapes[i].lower /\ shapes[i].upper <= e.upper
                     /\ e.start <= shapes[i].start /\ shapes[i].end <= e.end
  /\ \E i \in 1..k : e.lower = shapes[i].lower
  /\ \E i \in 1..k : e.upper = shapes[i].upper
  /\ \E i \in 1..k : e.start = shapes[i].start
  /\ \E i \in 1..k : e.end = shapes[i].end

(* Some volumes have one extent only.                                      *)
LEMMA OneExtent ==
  ASSUME NEW shapes \in Seq(Shape), NEW k \in 1..Len(shapes), NEW e, NEW f,
         Spans(e, shapes, k), Spans(f, shapes, k)
  PROVE  e = f
<1>1. \A i \in 1..k : /\ shapes[i].lower \in Int /\ shapes[i].upper \in Int
                      /\ shapes[i].start \in Int /\ shapes[i].end \in Int
  <2>1. \A i \in 1..k : shapes[i] \in Shape
    OBVIOUS
  <2> QED
    BY <2>1 DEF Shape
<1>2. e \in Extent /\ f \in Extent
  BY DEF Spans
<1>3. e.lower = f.lower /\ e.upper = f.upper
  <2>1. e.lower <= f.lower /\ f.lower <= e.lower
    BY DEF Spans
  <2>2. e.upper <= f.upper /\ f.upper <= e.upper
    BY DEF Spans
  <2> QED
    BY <1>2, <2>1, <2>2 DEF Extent
<1>4. e.start = f.start /\ e.end = f.end
  <2>1. e.start <= f.start /\ f.start <= e.start
    BY DEF Spans
  <2>2. e.end <= f.end /\ f.end <= e.end
    BY DEF Spans
  <2> QED
    BY <1>2, <2>1, <2>2 DEF Extent
<1> QED
  BY <1>2, <1>3, <1>4 DEF Extent

(* The converter takes the extremes of all values at once.                 *)
LEMMA ConvertSpans ==
  ASSUME NEW shapes \in Seq(Shape), shapes # <<>>, NEW kept
  PROVE  LET c == Convert(kept, shapes)
         IN  Spans([lower |-> c.lower, upper |-> c.upper, start |-> c.start, end |-> c.end],
                   shapes, Len(shapes))
<1> DEFINE n == Len(shapes)
           L == {v.lower : v \in Range(shapes)}
           U == {v.upper : v \in Range(shapes)}
           S == {v.start : v \in Range(shapes)}
           E == {v.end : v \in Range(shapes)}
<1>1. /\ n \in Nat /\ n > 0
      /\ DOMAIN shapes = 1..n /\ \A i \in 1..n : shapes[i] \in Shape
  OBVIOUS
<1>2. /\ Convert(kept, shapes).lower = Min(L) /\ Convert(kept, shapes).upper = Max(U)
      /\ Convert(kept, shapes).start = Min(S) /\ Convert(kept, shapes).end = Max(E)
  BY DEF Convert
<1>3. Range(shapes) = {shapes[i] : i \in 1..n}
  BY <1>1 DEF Range
<1>4. /\ L = {shapes[i].lower : i \in 1..n} /\ U = {shapes[i].upper : i \in 1..n}
      /\ S = {shapes[i].start : i \in 1..n} /\ E = {shapes[i].end : i \in 1..n}
  BY <1>3
<1> HIDE DEF L, U, S, E
<1>5. \A i \in 1..n : /\ shapes[i].lower \in L /\ shapes[i].upper \in U
                      /\ shapes[i].start \in S /\ shapes[i].end \in E
  BY <1>4
<1>6. /\ \A x \in L : \E i \in 1..n : x = shapes[i].lower
      /\ \A x \in U : \E i \in 1..n : x = shapes[i].upper
      /\ \A x \in S : \E i \in 1..n : x = shapes[i].start
      /\ \A x \in E : \E i \in 1..n : x = shapes[i].end
  BY <1>4
<1>7. /\ [i \in 1..n |-> shapes[i].lower] \in [1..n -> Int]
      /\ [i \in 1..n |-> shapes[i].upper] \in [1..n -> Int]
      /\ [i \in 1..n |-> shapes[i].start] \in [1..n -> Int]
      /\ [i \in 1..n |-> shapes[i].end] \in [1..n -> Int]
  BY <1>1 DEF Shape
<1> HIDE DEF n
<1>8. /\ L \subseteq Int /\ Min(L) \in L /\ \A y \in L : Min(L) <= y
      /\ S \subseteq Int /\ Min(S) \in S /\ \A y \in S : Min(S) <= y
  <2> DEFINE f == [i \in 1..n |-> shapes[i].lower]
             g == [i \in 1..n |-> shapes[i].start]
  <2>1. f \in [1..n -> Int] /\ g \in [1..n -> Int]
    BY <1>7
  <2>2. L = {f[i] : i \in 1..n} /\ S = {g[i] : i \in 1..n}
    BY <1>4
  <2> HIDE DEF f, g
  <2> QED
    BY <1>1, <2>1, <2>2, ManyExtremes
<1>9. /\ U \subseteq Int /\ Max(U) \in U /\ \A y \in U : Max(U) >= y
      /\ E \subseteq Int /\ Max(E) \in E /\ \A y \in E : Max(E) >= y
  <2> DEFINE f == [i \in 1..n |-> shapes[i].upper]
             g == [i \in 1..n |-> shapes[i].end]
  <2>1. f \in [1..n -> Int] /\ g \in [1..n -> Int]
    BY <1>7
  <2>2. U = {f[i] : i \in 1..n} /\ E = {g[i] : i \in 1..n}
    BY <1>4
  <2> HIDE DEF f, g
  <2> QED
    BY <1>1, <2>1, <2>2, ManyExtremes
<1> DEFINE e == [lower |-> Min(L), upper |-> Max(U), start |-> Min(S), end |-> Max(E)]
<1>10. e \in Extent
  BY <1>8, <1>9 DEF Extent
<1>11. \A i \in 1..n : /\ e.lower <= shapes[i].lower /\ shapes[i].upper <= e.upper
                       /\ e.start <= shapes[i].start /\ shapes[i].end <= e.end
  BY <1>5, <1>8, <1>9
<1>12. /\ \E i \in 1..n : e.lower = shapes[i].lower
       /\ \E i \in 1..n : e.upper = shapes[i].upper
       /\ \E i \in 1..n : e.start = shapes[i].start
       /\ \E i \in 1..n : e.end = shapes[i].end
  BY <1>6, <1>8, <1>9
<1>13. Spans(e, shapes, n)
  <2> HIDE DEF e
  <2> QED
    BY <1>10, <1>11, <1>12 DEF Spans
<1> QED
  BY <1>2, <1>13 DEF n

(* The other goes through the volumes one by one.                          *)
LEMMA WiderSpans ==
  ASSUME NEW shapes \in Seq(Shape), NEW k \in Nat, k > 0, k + 1 <= Len(shapes),
         NEW e, Spans(e, shapes, k)
  PROVE  LET v == shapes[k + 1]
         IN  Spans([lower |-> Min({e.lower, v.lower}), upper |-> Max({e.upper, v.upper}),
                    start |-> Min({e.start, v.start}), end |-> Max({e.end, v.end})],
                   shapes, k + 1)
<1> DEFINE v == shapes[k + 1]
           f == [lower |-> Min({e.lower, v.lower}), upper |-> Max({e.upper, v.upper}),
                 start |-> Min({e.start, v.start}), end |-> Max({e.end, v.end})]
<1>1. /\ \A i \in 1..(k + 1) : shapes[i] \in Shape
      /\ k + 1 \in 1..(k + 1) /\ \A i \in 1..(k + 1) : i \in 1..k \/ i = k + 1
      /\ 1..k \subseteq 1..(k + 1)
  OBVIOUS
<1>2. /\ e.lower \in Int /\ e.upper \in Int /\ e.start \in Int /\ e.end \in Int
      /\ \A i \in 1..(k + 1) : /\ shapes[i].lower \in Int /\ shapes[i].upper \in Int
                               /\ shapes[i].start \in Int /\ shapes[i].end \in Int
  BY <1>1 DEF Spans, Extent, Shape
<1>3. /\ f.lower = (IF e.lower <= v.lower THEN e.lower ELSE v.lower)
      /\ f.upper = (IF e.upper <= v.upper THEN v.upper ELSE e.upper)
      /\ f.start = (IF e.start <= v.start THEN e.start ELSE v.start)
      /\ f.end = (IF e.end <= v.end THEN v.end ELSE e.end)
  BY <1>1, <1>2, LesserAndGreater
<1>4. f \in Extent
  <2>1. f.lower \in Int /\ f.upper \in Int /\ f.start \in Int /\ f.end \in Int
    BY <1>1, <1>2, <1>3
  <2> QED
    BY <2>1 DEF Extent
<1> HIDE DEF f
<1>5. \A i \in 1..(k + 1) : /\ f.lower <= shapes[i].lower /\ shapes[i].upper <= f.upper
                            /\ f.start <= shapes[i].start /\ shapes[i].end <= f.end
  <2> SUFFICES ASSUME NEW i \in 1..(k + 1)
               PROVE  /\ f.lower <= shapes[i].lower /\ shapes[i].upper <= f.upper
                      /\ f.start <= shapes[i].start /\ shapes[i].end <= f.end
    OBVIOUS
  <2>1. CASE i = k + 1
    BY <1>1, <1>2, <1>3, <2>1
  <2>2. CASE i \in 1..k
    <3>1. /\ e.lower <= shapes[i].lower /\ shapes[i].upper <= e.upper
          /\ e.start <= shapes[i].start /\ shapes[i].end <= e.end
      BY <2>2 DEF Spans
    <3>2. f.lower <= e.lower /\ e.upper <= f.upper /\ f.start <= e.start /\ e.end <= f.end
      BY <1>1, <1>2, <1>3
    <3>3. /\ f.lower \in Int /\ f.upper \in Int /\ f.start \in Int /\ f.end \in Int
          /\ shapes[i].lower \in Int /\ shapes[i].upper \in Int
          /\ shapes[i].start \in Int /\ shapes[i].end \in Int
      BY <1>2, <1>4 DEF Extent
    <3>4. e.lower \in Int /\ e.upper \in Int /\ e.start \in Int /\ e.end \in Int
      BY <1>2
    <3>5. \A a, b, c \in Int : a <= b /\ b <= c => a <= c
      OBVIOUS
    <3> QED
      BY <3>1, <3>2, <3>3, <3>4, <3>5, Zenon
  <2> QED
    BY <1>1, <2>1, <2>2
<1>6. /\ \E i \in 1..(k + 1) : f.lower = shapes[i].lower
      /\ \E i \in 1..(k + 1) : f.upper = shapes[i].upper
      /\ \E i \in 1..(k + 1) : f.start = shapes[i].start
      /\ \E i \in 1..(k + 1) : f.end = shapes[i].end
  BY <1>1, <1>3 DEF Spans
<1>7. Spans(f, shapes, k + 1)
  BY <1>4, <1>5, <1>6 DEF Spans
<1> QED
  BY <1>7 DEF f

LEMMA CompositeSpans ==
  ASSUME NEW shapes \in Seq(Shape), shapes # <<>>
  PROVE  Spans(Composite(shapes).extremes, shapes, Len(shapes))
<1> DEFINE own(v) == [lower |-> v.lower, upper |-> v.upper, start |-> v.start, end |-> v.end]
           wider(e, v) == [lower |-> Min({e.lower, v.lower}), upper |-> Max({e.upper, v.upper}),
                           start |-> Min({e.start, v.start}), end |-> Max({e.end, v.end})]
           rest == Tail(shapes)
           n == Len(shapes) - 1
           first == own(Head(shapes))
           step == [x \in (1..n) \X Extent |-> wider(x[2], rest[x[1]])]
           F == CHOOSE f : f = [s \in SUBSET (DOMAIN rest) |->
                  IF s = {} THEN first ELSE wider(f[s \ {Max(s)}], rest[Max(s)])]
<1>1. /\ n \in Nat /\ Len(shapes) = n + 1 /\ DOMAIN rest = 1..n
      /\ \A k \in 1..n : rest[k] = shapes[k + 1] /\ rest[k] \in Shape
      /\ Head(shapes) = shapes[1] /\ shapes[1] \in Shape
  OBVIOUS
<1>2. Composite(shapes).extremes = F[DOMAIN rest]
  BY DEF Composite, FoldLeft, MapThenFoldSet
<1>3. first \in Extent
  BY <1>1 DEF Shape, Extent
<1>4. step \in [(1..n) \X Extent -> Extent]
  <2>1. ASSUME NEW e \in Extent, NEW v \in Shape PROVE wider(e, v) \in Extent
    <3>1. /\ e.lower \in Int /\ e.upper \in Int /\ e.start \in Int /\ e.end \in Int
          /\ v.lower \in Int /\ v.upper \in Int /\ v.start \in Int /\ v.end \in Int
      BY DEF Extent, Shape
    <3>2. /\ Min({e.lower, v.lower}) \in Int /\ Max({e.upper, v.upper}) \in Int
          /\ Min({e.start, v.start}) \in Int /\ Max({e.end, v.end}) \in Int
      BY <3>1, LesserAndGreater
    <3> QED
      BY <3>2 DEF Extent
  <2> HIDE DEF wider
  <2> QED
    BY <1>1, <2>1
<1> HIDE DEF n, rest, first, wider
<1>5. PICK g \in [SUBSET (1..n) -> Extent] : Folds(g, n, first, step)
  <2> HIDE DEF step
  <2> QED
    BY <1>1, <1>3, <1>4, FoldExists
<1>6. g = [s \in SUBSET (DOMAIN rest) |-> IF s = {} THEN first ELSE wider(g[s \ {Max(s)}], rest[Max(s)])]
  <2>1. \A s \in SUBSET (1..n) : s # {} => Max(s) \in 1..n /\ g[s \ {Max(s)}] \in Extent
    BY <1>1, GreatestIndex
  <2> QED
    BY <1>1, <1>5, <2>1 DEF Folds
<1>7. F = [s \in SUBSET (DOMAIN rest) |-> IF s = {} THEN first ELSE wider(F[s \ {Max(s)}], rest[Max(s)])]
  BY <1>6
<1> HIDE DEF F
<1>8. PICK w : Passes(w, n, Extent, first, step) /\ F[1..n] = w[n]
  <2>1. Obeys(F, n, Extent, first, step)
    <3>1. F[{}] = first
      BY <1>1, <1>7
    <3>2. \A s \in SUBSET (1..n) : s # {} /\ Max(s) \in 1..n /\ F[s \ {Max(s)}] \in Extent
            => F[s] = step[<<Max(s), F[s \ {Max(s)}]>>]
      BY <1>1, <1>7
    <3> HIDE DEF step
    <3> QED
      BY <1>3, <1>4, <3>1, <3>2 DEF Obeys
  <2> HIDE DEF step
  <2> QED
    BY <1>1, <2>1, FoldPasses
<1> DEFINE OK(k) == Spans(w[k], shapes, k + 1)
           P == {k \in Nat : k <= n => OK(k)}
<1>9. 0 \in P
  <2>1. w[0] = first /\ 1..1 = {1} /\ 0 + 1 = 1
    BY <1>8 DEF Passes
  <2>2. /\ shapes[1].lower \in Int /\ shapes[1].upper \in Int
        /\ shapes[1].start \in Int /\ shapes[1].end \in Int
    BY <1>1 DEF Shape
  <2>3. Spans(first, shapes, 1)
    BY <1>1, <1>3, <2>1, <2>2 DEF Spans, first
  <2> QED
    BY <2>1, <2>3
<1>10. ASSUME NEW k \in Nat, k \in P, k + 1 <= n PROVE OK(k + 1)
  <2>1. k + 1 \in 1..n /\ (k + 1) - 1 = k /\ k \in 0..n /\ k <= n
    BY <1>1, <1>10
  <2>2. w[k + 1] = wider(w[k], shapes[(k + 1) + 1])
    BY <1>1, <1>8, <2>1 DEF Passes
  <2>3. Spans(w[k], shapes, k + 1)
    BY <1>10, <2>1
  <2>4. k + 1 \in Nat /\ k + 1 > 0 /\ (k + 1) + 1 <= Len(shapes)
    BY <1>1, <2>1
  <2> QED
    BY <2>2, <2>3, <2>4, WiderSpans DEF wider
<1>11. OK(n)
  <2> HIDE DEF OK
  <2>1. \A k \in Nat : k \in P => k + 1 \in P
    <3> SUFFICES ASSUME NEW k \in Nat, k \in P, k + 1 <= n PROVE OK(k + 1)
      OBVIOUS
    <3> QED
      BY <1>10
  <2>2. n \in P
    <3> HIDE DEF P
    <3> QED
      BY <1>1, <1>9, <2>1, SetInduction
  <2> QED
    BY <1>1, <2>2
<1> QED
  BY <1>1, <1>2, <1>8, <1>11

(* The fences of constraints: what is around some volumes, and what a      *)
(* converter adds to the outlines it kept.                                 *)
Around(shapes) == UNION {Range(Outlines(shapes[i])) : i \in 1..Len(shapes)}

Fence(S) == [outlines : Seq(S), lower : Int, upper : Int, start : Int, end : Int]
ExtentOf(f) == [lower |-> f.lower, upper |-> f.upper, start |-> f.start, end |-> f.end]

LEMMA OutlinesOfOne ==
  ASSUME NEW v, NEW S, Range(Outlines(v)) \subseteq S
  PROVE  Outlines(v) \in Seq(S)
<1> DEFINE a == Box(v.polygon)
           b == v.circle
<1>1. CASE v.polygon = None /\ v.circle = None
  BY <1>1 DEF Outlines
<1>2. CASE v.polygon # None /\ v.circle = None
  <2>1. Outlines(v) = <<a>> /\ Range(<<a>>) = {a}
    BY <1>2 DEF Outlines, Range
  <2> QED
    BY <2>1
<1>3. CASE v.polygon = None /\ v.circle # None
  <2>1. Outlines(v) = <<b>> /\ Range(<<b>>) = {b}
    BY <1>3 DEF Outlines, Range
  <2> QED
    BY <2>1
<1>4. CASE v.polygon # None /\ v.circle # None
  <2> HIDE DEF a
  <2>1. Outlines(v) = <<a>> \o <<b>>
    BY <1>4 DEF Outlines, a
  <2>2. /\ <<a>> \in Seq({a, b}) /\ <<b>> \in Seq({a, b})
        /\ Range(<<a>>) = {a} /\ Range(<<b>>) = {b}
    BY DEF Range
  <2>3. /\ <<a>> \o <<b>> \in Seq({a, b})
        /\ Range(<<a>> \o <<b>>) = Range(<<a>>) \cup Range(<<b>>)
    BY <2>2, Joined
  <2>4. {a, b} \subseteq S
    BY <2>1, <2>2, <2>3
  <2>5. <<a>> \in Seq(S) /\ <<b>> \in Seq(S)
    BY <2>4
  <2> QED
    BY <2>1, <2>5
<1> QED
  BY <1>1, <1>2, <1>3, <1>4

LEMMA ConvertKeeps ==
  ASSUME NEW shapes \in Seq(Shape), shapes # <<>>,
         NEW S, Around(shapes) \subseteq S, NEW kept \in Seq(S)
  PROVE  LET c == Convert(kept, shapes)
         IN  /\ c \in Fence(S)
             /\ Range(c.outlines) = Range(kept) \cup Around(shapes)
             /\ Spans(ExtentOf(c), shapes, Len(shapes))
<1> DEFINE c == Convert(kept, shapes)
           ss == [k \in DOMAIN shapes |-> Outlines(shapes[k])]
<1>1. Len(shapes) \in Nat /\ DOMAIN shapes = 1..Len(shapes)
  OBVIOUS
<1>2. ss \in Seq(Seq(S)) /\ Len(ss) = Len(shapes) /\ \A i \in 1..Len(shapes) : ss[i] = Outlines(shapes[i])
  <2>1. \A i \in 1..Len(shapes) : Outlines(shapes[i]) \in Seq(S)
    BY OutlinesOfOne DEF Around
  <2>2. ss \in [1..Len(shapes) -> Seq(S)]
    BY <1>1, <2>1
  <2> QED
    BY <1>1, <2>2
<1>3. c.outlines = kept \o FlattenSeq(ss)
  BY DEF Convert
<1> HIDE DEF ss
<1>4. FlattenSeq(ss) \in Seq(S) /\ Range(FlattenSeq(ss)) = Around(shapes)
  <2>1. /\ FlattenSeq(ss) \in Seq(S)
        /\ Range(FlattenSeq(ss)) = UNION {Range(ss[i]) : i \in 1..Len(ss)}
    BY <1>2, Flattened
  <2>2. UNION {Range(ss[i]) : i \in 1..Len(ss)} = Around(shapes)
    BY <1>2 DEF Around
  <2> QED
    BY <2>1, <2>2
<1>5. c.outlines \in Seq(S) /\ Range(c.outlines) = Range(kept) \cup Around(shapes)
  BY <1>3, <1>4, Joined
<1>6. Spans(ExtentOf(c), shapes, Len(shapes))
  BY ConvertSpans DEF ExtentOf
<1>7. c = [outlines |-> c.outlines, lower |-> c.lower, upper |-> c.upper, start |-> c.start, end |-> c.end]
  BY DEF Convert
<1> HIDE DEF c
<1>8. c.lower \in Int /\ c.upper \in Int /\ c.start \in Int /\ c.end \in Int
  BY <1>6 DEF Spans, Extent, ExtentOf
<1>9. c \in Fence(S)
  BY <1>5, <1>7, <1>8 DEF Fence
<1> QED
  BY <1>5, <1>6, <1>9 DEF c

(* The two converters of volumes give one extent: the least one that holds *)
(* every volume, and the bounds of the same outlines, unless an earlier    *)
(* call has left outlines behind.                                          *)
THEOREM ExtentsAgree ==
  ASSUME NEW shapes \in Seq(Shape), shapes # <<>>
  PROVE  LET c == Convert(<<>>, shapes)
             e == Composite(shapes)
         IN  /\ e.extremes = ExtentOf(c) /\ e.bounds = Union(c.outlines)
             /\ Range(c.outlines) = Around(shapes)
             /\ Spans(e.extremes, shapes, Len(shapes))
<1> DEFINE c == Convert(<<>>, shapes)
           e == Composite(shapes)
           ss == [k \in DOMAIN shapes |-> Outlines(shapes[k])]
           S == Around(shapes)
<1>1. <<>> \in Seq(S) /\ S \subseteq S /\ Range(<<>>) = {}
  BY DEF Range
<1>2. c.outlines = <<>> \o FlattenSeq(ss) /\ e.bounds = Union(FlattenSeq(ss))
  BY DEF Convert, Composite
<1>3. /\ Range(c.outlines) = Around(shapes)
      /\ Spans(ExtentOf(c), shapes, Len(shapes))
  <2> HIDE DEF S
  <2>1. /\ Range(Convert(<<>>, shapes).outlines) = Range(<<>>) \cup Around(shapes)
        /\ Spans(ExtentOf(Convert(<<>>, shapes)), shapes, Len(shapes))
    BY <1>1, ConvertKeeps DEF S
  <2> QED
    BY <1>1, <2>1
<1>4. Spans(e.extremes, shapes, Len(shapes))
  BY CompositeSpans
<1>5. Len(shapes) \in 1..Len(shapes)
  OBVIOUS
<1>6. FlattenSeq(ss) \in Seq(S)
  <2>1. \A i \in 1..Len(shapes) : Outlines(shapes[i]) \in Seq(S)
    BY OutlinesOfOne DEF Around
  <2>2. ss \in [1..Len(shapes) -> Seq(S)]
    <3>1. DOMAIN shapes = 1..Len(shapes)
      OBVIOUS
    <3> HIDE DEF S
    <3> QED
      BY <2>1, <3>1
  <2>3. ss \in Seq(Seq(S))
    <3> HIDE DEF ss, S
    <3> QED
      BY <1>5, <2>2
  <2> HIDE DEF ss, S
  <2> QED
    BY <2>3, Flattened
<1>7. e.bounds = Union(c.outlines)
  <2>1. <<>> \o FlattenSeq(ss) = FlattenSeq(ss)
    <3> HIDE DEF ss, S
    <3> QED
      BY <1>6
  <2> QED
    BY <1>2, <2>1
<1> HIDE DEF c, e
<1>8. e.extremes = ExtentOf(c)
  BY <1>3, <1>4, <1>5, OneExtent
<1> QED
  BY <1>3, <1>4, <1>7, <1>8 DEF c, e

(* The fences of the first k constraints.                                  *)
Piled(fences, constraints, k) ==
  /\ DOMAIN fences = 1..k
  /\ \A j \in 1..k :
       /\ Range(fences[j].outlines) = UNION {Around(constraints[i]) : i \in 1..j}
       /\ Spans(ExtentOf(fences[j]), constraints[j], Len(constraints[j]))

(* The fence of a constraint covers, besides its own volumes, those of all *)
(* constraints before it, for the altitudes and times of its own: the      *)
(* converter they share never forgets an outline.                          *)
THEOREM FencesPileUp ==
  ASSUME NEW constraints \in Seq(Seq(Shape)), \A i \in DOMAIN constraints : constraints[i] # <<>>
  PROVE  Piled(Fences(constraints), constraints, Len(constraints))
<1> DEFINE n == Len(constraints)
           S == UNION {Around(constraints[i]) : i \in 1..n}
           D == Seq(Fence(S))
           added(fences, shapes) ==
             Append(fences, Convert(IF fences = <<>> THEN <<>> ELSE Last(fences).outlines, shapes))
           step == [x \in (1..n) \X D |-> added(x[2], constraints[x[1]])]
           F == CHOOSE f : f = [s \in SUBSET (DOMAIN constraints) |->
                  IF s = {} THEN <<>> ELSE added(f[s \ {Max(s)}], constraints[Max(s)])]
<1>1. /\ n \in Nat /\ DOMAIN constraints = 1..n
      /\ \A k \in 1..n : constraints[k] \in Seq(Shape) /\ constraints[k] # <<>>
  OBVIOUS
<1>2. Fences(constraints) = F[DOMAIN constraints]
  BY DEF Fences, FoldLeft, MapThenFoldSet
<1> HIDE DEF S
<1>3. ASSUME NEW fences \in D, NEW k \in 1..n
      PROVE  LET kept == IF fences = <<>> THEN <<>> ELSE Last(fences).outlines
                 c == Convert(kept, constraints[k])
             IN  /\ kept \in Seq(S) /\ c \in Fence(S)
                 /\ Range(c.outlines) = Range(kept) \cup Around(constraints[k])
                 /\ Spans(ExtentOf(c), constraints[k], Len(constraints[k]))
                 /\ added(fences, constraints[k]) \in D
  <2> DEFINE kept == IF fences = <<>> THEN <<>> ELSE Last(fences).outlines
  <2>1. kept \in Seq(S)
    <3>1. CASE fences = <<>>
      BY <3>1
    <3>2. CASE fences # <<>>
      <4>1. Last(fences) \in Fence(S)
        BY <3>2 DEF Last
      <4> QED
        BY <3>2, <4>1 DEF Fence
    <3> QED
      BY <3>1, <3>2
  <2>2. Around(constraints[k]) \subseteq S
    BY DEF S
  <2> DEFINE c == Convert(kept, constraints[k])
  <2>3. added(fences, constraints[k]) = Append(fences, c)
    OBVIOUS
  <2> HIDE DEF kept, c
  <2>4. /\ c \in Fence(S) /\ Range(c.outlines) = Range(kept) \cup Around(constraints[k])
        /\ Spans(ExtentOf(c), constraints[k], Len(constraints[k]))
    <3> DEFINE shapes == constraints[k]
    <3>1. shapes \in Seq(Shape) /\ shapes # <<>>
      BY <1>1
    <3> HIDE DEF shapes
    <3>2. Around(shapes) \subseteq S
      BY <2>2 DEF shapes
    <3>3. /\ Convert(kept, shapes) \in Fence(S)
          /\ Range(Convert(kept, shapes).outlines) = Range(kept) \cup Around(shapes)
          /\ Spans(ExtentOf(Convert(kept, shapes)), shapes, Len(shapes))
      BY <2>1, <3>1, <3>2, ConvertKeeps
    <3> QED
      BY <3>3 DEF shapes, c
  <2>5. Append(fences, c) \in D
    BY <2>4
  <2> HIDE DEF added, D
  <2> QED
    BY <2>1, <2>3, <2>4, <2>5 DEF kept, c
<1> HIDE DEF n
<1>4. step \in [(1..n) \X D -> D] /\ <<>> \in D
  <2> HIDE DEF added
  <2> QED
    BY <1>3
<1> HIDE DEF D, added
<1>5. PICK g \in [SUBSET (1..n) -> D] : Folds(g, n, <<>>, step)
  <2> HIDE DEF step
  <2> QED
    BY <1>1, <1>4, FoldExists
<1>6. g = [s \in SUBSET (DOMAIN constraints) |->
             IF s = {} THEN <<>> ELSE added(g[s \ {Max(s)}], constraints[Max(s)])]
  <2>1. \A s \in SUBSET (1..n) : s # {} => Max(s) \in 1..n /\ g[s \ {Max(s)}] \in D
    BY <1>1, GreatestIndex
  <2> QED
    BY <1>1, <1>5, <2>1 DEF Folds
<1>7. F = [s \in SUBSET (DOMAIN constraints) |->
             IF s = {} THEN <<>> ELSE added(F[s \ {Max(s)}], constraints[Max(s)])]
  BY <1>6
<1> HIDE DEF F
<1>8. PICK w : Passes(w, n, D, <<>>, step) /\ F[1..n] = w[n]
  <2>1. Obeys(F, n, D, <<>>, step)
    <3>1. F[{}] = <<>>
      BY <1>1, <1>7
    <3>2. \A s \in SUBSET (1..n) : s # {} /\ Max(s) \in 1..n /\ F[s \ {Max(s)}] \in D
            => F[s] = step[<<Max(s), F[s \ {Max(s)}]>>]
      BY <1>1, <1>7
    <3> HIDE DEF step
    <3> QED
      BY <1>4, <3>1, <3>2 DEF Obeys
  <2> HIDE DEF step
  <2> QED
    BY <1>1, <2>1, FoldPasses
<1> DEFINE OK(k) == Piled(w[k], constraints, k)
           P == {k \in Nat : k <= n => OK(k)}
<1>9. 0 \in P
  <2>1. w[0] = <<>> /\ 1..0 = {}
    BY <1>8 DEF Passes
  <2> QED
    BY <2>1 DEF Piled
<1>10. ASSUME NEW k \in Nat, k \in P, k + 1 <= n PROVE OK(k + 1)
  <2> DEFINE fences == w[k]
             kept == IF fences = <<>> THEN <<>> ELSE Last(fences).outlines
             c == Convert(kept, constraints[k + 1])
  <2>1. k + 1 \in 1..n /\ (k + 1) - 1 = k /\ k \in 0..n /\ k <= n
    BY <1>1, <1>10
  <2>2. w[k + 1] = added(fences, constraints[k + 1]) /\ fences \in D
    BY <1>8, <2>1 DEF Passes
  <2>3. Piled(fences, constraints, k)
    BY <1>10, <2>1
  <2>4. w[k + 1] = Append(fences, c)
    BY <2>2 DEF added
  <2>5. /\ Range(c.outlines) = Range(kept) \cup Around(constraints[k + 1])
        /\ Spans(ExtentOf(c), constraints[k + 1], Len(constraints[k + 1]))
    BY <1>3, <2>1, <2>2 DEF D
  <2>6. fences \in Seq(Fence(S)) /\ DOMAIN fences = 1..k /\ Len(fences) = k
    BY <2>2, <2>3 DEF D, Piled
  <2>7. Range(kept) = UNION {Around(constraints[i]) : i \in 1..k}
    <3>1. CASE k = 0
      <4>1. fences = <<>> /\ 1..0 = {}
        BY <2>6, <3>1
      <4> QED
        BY <3>1, <4>1 DEF Range
    <3>2. CASE k # 0
      <4>1. fences # <<>> /\ Last(fences) = fences[k] /\ k \in 1..k
        BY <2>6, <3>2 DEF Last
      <4> QED
        BY <2>3, <4>1 DEF Piled
    <3> QED
      BY <3>1, <3>2
  <2> HIDE DEF kept
  <2> HIDE DEF c, fences
  <2>8. /\ DOMAIN w[k + 1] = 1..(k + 1) /\ w[k + 1][k + 1] = c
        /\ \A j \in 1..k : w[k + 1][j] = fences[j]
    BY <2>4, <2>6
  <2>9. 1..(k + 1) = 1..k \cup {k + 1}
    OBVIOUS
  <2>10. Range(c.outlines) = UNION {Around(constraints[i]) : i \in 1..(k + 1)}
    BY <2>5, <2>7, <2>9
  <2>11. \A j \in 1..(k + 1) : j \in 1..k \/ j = k + 1
    OBVIOUS
  <2>12. ASSUME NEW j \in 1..(k + 1)
         PROVE  /\ Range(w[k + 1][j].outlines) = UNION {Around(constraints[i]) : i \in 1..j}
                /\ Spans(ExtentOf(w[k + 1][j]), constraints[j], Len(constraints[j]))
    <3>1. CASE j = k + 1
      BY <2>5, <2>8, <2>10, <3>1
    <3>2. CASE j \in 1..k
      BY <2>3, <2>8, <3>2 DEF Piled
    <3> QED
      BY <2>11, <3>1, <3>2
  <2> QED
    BY <2>8, <2>12 DEF Piled
<1>11. OK(n)
  <2> HIDE DEF OK
  <2>1. \A k \in Nat : k \in P => k + 1 \in P
    <3> SUFFICES ASSUME NEW k \in Nat, k \in P, k + 1 <= n PROVE OK(k + 1)
      OBVIOUS
    <3> QED
      BY <1>10
  <2>2. n \in P
    <3> HIDE DEF P
    <3> QED
      BY <1>1, <1>9, <2>1, SetInduction
  <2> QED
    BY <1>1, <2>2
<1> QED
  BY <1>1, <1>2, <1>8, <1>11 DEF n

-----------------------------------------------------------------------------
(* DeclarationPayload: the row of a declaration and the pages of the list, *)
(* for any number of features and rows.                                    *)

CONSTANT TwoDays

Payload == INSTANCE DeclarationPayload

Corners == Int \X Int \X Int \X Int
Drawn == [valid : BOOLEAN, low : Int \cup {None}, high : Int \cup {None}, box : Corners]

LEMMA SameExtremes == \A T : Payload!Min(T) = Min(T) /\ Payload!Max(T) = Max(T)
  BY DEF Payload!Min, Payload!Max, Min, Max

LEMMA SidesReached ==
  ASSUME NEW q \in Seq(Drawn), q # <<>>
  PROVE  LET b == Payload!Bounds(q)
         IN  /\ b \in Corners
             /\ \A k \in 1..Len(q) : /\ b[1] <= q[k].box[1] /\ b[2] <= q[k].box[2]
                                     /\ q[k].box[3] <= b[3] /\ q[k].box[4] <= b[4]
             /\ \A i \in 1..4 : \E k \in 1..Len(q) : b[i] = q[k].box[i]
<1> DEFINE n == Len(q)
           S1 == {q[k].box[1] : k \in 1..n}
           S2 == {q[k].box[2] : k \in 1..n}
           S3 == {q[k].box[3] : k \in 1..n}
           S4 == {q[k].box[4] : k \in 1..n}
           b == Payload!Bounds(q)
<1>1. n \in Nat /\ n > 0 /\ DOMAIN q = 1..n /\ \A k \in 1..n : q[k] \in Drawn
  OBVIOUS
<1>2. \A k \in 1..n : /\ q[k].box[1] \in Int /\ q[k].box[2] \in Int
                      /\ q[k].box[3] \in Int /\ q[k].box[4] \in Int
  BY <1>1 DEF Drawn, Corners
<1>3. b = <<Min(S1), Min(S2), Max(S3), Max(S4)>>
  BY <1>1, SameExtremes DEF Payload!Bounds
<1> HIDE DEF n, b
<1>4. /\ S1 \subseteq Int /\ Min(S1) \in S1 /\ \A y \in S1 : Min(S1) <= y
      /\ S2 \subseteq Int /\ Min(S2) \in S2 /\ \A y \in S2 : Min(S2) <= y
  <2> DEFINE f == [k \in 1..n |-> q[k].box[1]]
             g == [k \in 1..n |-> q[k].box[2]]
  <2>1. f \in [1..n -> Int] /\ g \in [1..n -> Int]
    BY <1>2
  <2>2. S1 = {f[k] : k \in 1..n} /\ S2 = {g[k] : k \in 1..n}
    OBVIOUS
  <2> HIDE DEF f, g, S1, S2
  <2> QED
    BY <1>1, <2>1, <2>2, ManyExtremes
<1>5. /\ S3 \subseteq Int /\ Max(S3) \in S3 /\ \A y \in S3 : Max(S3) >= y
      /\ S4 \subseteq Int /\ Max(S4) \in S4 /\ \A y \in S4 : Max(S4) >= y
  <2> DEFINE f == [k \in 1..n |-> q[k].box[3]]
             g == [k \in 1..n |-> q[k].box[4]]
  <2>1. f \in [1..n -> Int] /\ g \in [1..n -> Int]
    BY <1>2
  <2>2. S3 = {f[k] : k \in 1..n} /\ S4 = {g[k] : k \in 1..n}
    OBVIOUS
  <2> HIDE DEF f, g, S3, S4
  <2> QED
    BY <1>1, <2>1, <2>2, ManyExtremes
<1>6. \A k \in 1..n : /\ q[k].box[1] \in S1 /\ q[k].box[2] \in S2
                      /\ q[k].box[3] \in S3 /\ q[k].box[4] \in S4
  OBVIOUS
<1>7. /\ \A x \in S1 : \E k \in 1..n : x = q[k].box[1]
      /\ \A x \in S2 : \E k \in 1..n : x = q[k].box[2]
      /\ \A x \in S3 : \E k \in 1..n : x = q[k].box[3]
      /\ \A x \in S4 : \E k \in 1..n : x = q[k].box[4]
  OBVIOUS
<1> HIDE DEF S1, S2, S3, S4
<1>8. /\ b[1] = Min(S1) /\ b[2] = Min(S2) /\ b[3] = Max(S3) /\ b[4] = Max(S4)
      /\ b \in Corners
  BY <1>3, <1>4, <1>5 DEF Corners
<1>9. \A k \in 1..n : /\ b[1] <= q[k].box[1] /\ b[2] <= q[k].box[2]
                      /\ q[k].box[3] <= b[3] /\ q[k].box[4] <= b[4]
  BY <1>2, <1>4, <1>5, <1>6, <1>8
<1>10. \A i \in 1..4 : \E k \in 1..n : b[i] = q[k].box[i]
  <2>1. /\ \E k \in 1..n : b[1] = q[k].box[1]
        /\ \E k \in 1..n : b[2] = q[k].box[2]
        /\ \E k \in 1..n : b[3] = q[k].box[3]
        /\ \E k \in 1..n : b[4] = q[k].box[4]
    BY <1>4, <1>5, <1>7, <1>8
  <2>2. \A i \in 1..4 : i = 1 \/ i = 2 \/ i = 3 \/ i = 4
    OBVIOUS
  <2> QED
    BY <2>1, <2>2, Zenon
<1> QED
  BY <1>8, <1>9, <1>10 DEF n, b

(* A declaration that is taken has a volume a feature, each for its whole  *)
(* time, and the bounds of its row hold the outline of each and reach on   *)
(* every side as far as one of them.                                       *)
THEOREM RowCovers ==
  ASSUME NEW p, NEW now, p.features \in Seq(Drawn), Payload!Created(p, now), NEW ussp \in BOOLEAN
  PROVE  LET r == Payload!RowOf(p, ussp)
             v == r.volumes
         IN  /\ DOMAIN v = DOMAIN p.features /\ r.bounds \in Corners
             /\ \A k \in DOMAIN v :
                  /\ r.bounds[1] <= v[k].outline[1] /\ r.bounds[2] <= v[k].outline[2]
                  /\ v[k].outline[3] <= r.bounds[3] /\ v[k].outline[4] <= r.bounds[4]
                  /\ v[k].start = r.start /\ v[k].end = r.end
             /\ \A i \in 1..4 : \E k \in DOMAIN v : r.bounds[i] = v[k].outline[i]
<1> DEFINE q == p.features
           r == Payload!RowOf(p, ussp)
           v == r.volumes
<1>1. q \in Seq(Drawn) /\ q # <<>> /\ DOMAIN q = 1..Len(q)
  BY DEF Payload!Created, Payload!GeoJsonOk
<1>2. /\ r.bounds = Payload!Bounds(q) /\ v = Payload!Volumes(p)
      /\ r.start = p.start /\ r.end = p.end
  BY DEF Payload!RowOf
<1>3. /\ DOMAIN v = 1..Len(q)
      /\ \A k \in 1..Len(q) : /\ v[k].outline = q[k].box
                              /\ v[k].start = p.start /\ v[k].end = p.end
  BY <1>1, <1>2 DEF Payload!Volumes
<1> HIDE DEF q, r, v
<1>4. /\ r.bounds \in Corners
      /\ \A k \in 1..Len(q) : /\ r.bounds[1] <= q[k].box[1] /\ r.bounds[2] <= q[k].box[2]
                              /\ q[k].box[3] <= r.bounds[3] /\ q[k].box[4] <= r.bounds[4]
      /\ \A i \in 1..4 : \E k \in 1..Len(q) : r.bounds[i] = q[k].box[i]
  BY <1>1, <1>2, SidesReached
<1>5. /\ DOMAIN v = DOMAIN q
      /\ \A k \in DOMAIN v :
           /\ r.bounds[1] <= v[k].outline[1] /\ r.bounds[2] <= v[k].outline[2]
           /\ v[k].outline[3] <= r.bounds[3] /\ v[k].outline[4] <= r.bounds[4]
           /\ v[k].start = r.start /\ v[k].end = r.end
  BY <1>1, <1>2, <1>3, <1>4
<1>6. \A i \in 1..4 : \E k \in DOMAIN v : r.bounds[i] = v[k].outline[i]
  BY <1>3, <1>4
<1> QED
  BY <1>4, <1>5, <1>6 DEF q, r, v

(* What is on a page that begins after o items.                            *)
LEMMA PageHolds ==
  ASSUME NEW S, NEW items \in Seq(S), NEW size \in Nat, size # 0, NEW page \in Nat, page # 0,
         NEW o \in Nat, o = (page - 1) * size
  PROVE  LET q == Payload!Page(items, page, size)
         IN  /\ Len(q) = IF o >= Len(items) THEN 0
                         ELSE IF o + size <= Len(items) THEN size ELSE Len(items) - o
             /\ q \in Seq(S) /\ \A i \in 1..Len(q) : o + i \in 1..Len(items) /\ q[i] = items[o + i]
<1> DEFINE n == Len(items)
           last == IF o + size <= n THEN o + size ELSE n
           q == Payload!Page(items, page, size)
<1>1. Max({page - 1, 0}) = page - 1
  <2>1. page - 1 \in Int /\ 0 \in Int /\ (page - 1 <= 0 => page - 1 = 0)
    OBVIOUS
  <2> QED
    BY <2>1, LesserAndGreater
<1>2. Min({o + size, n}) = last
  BY LesserAndGreater
<1>3. q = SubSeq(items, o + 1, last)
  BY <1>1, <1>2, SameExtremes DEF Payload!Page
<1>4. last \in Nat /\ last <= n /\ n \in Nat
  OBVIOUS
<1>5. last = IF o + size <= n THEN o + size ELSE n
  OBVIOUS
<1> HIDE DEF q, last, n
<1> DEFINE m == IF o + 1 <= last THEN last - o ELSE 0
<1>6. q = [i \in 1..m |-> items[o + i]]
  BY <1>3, <1>4
<1>7. m \in Nat /\ \A i \in 1..m : o + i \in 1..n
  BY <1>4, <1>5
<1>8. DOMAIN items = 1..n /\ \A i \in 1..n : items[i] \in S
  BY DEF n
<1>9. q \in Seq(S) /\ Len(q) = m /\ \A i \in 1..m : q[i] = items[o + i]
  <2> HIDE DEF m
  <2>1. q \in [1..m -> S]
    BY <1>6, <1>7, <1>8
  <2>2. m \in Nat
    BY <1>7
  <2>3. q \in Seq(S) /\ Len(q) = m
    BY <2>1, <2>2
  <2>4. \A i \in 1..m : q[i] = items[o + i]
    BY <1>6
  <2> QED
    BY <2>3, <2>4
<1>10. m = IF o >= n THEN 0 ELSE IF o + size <= n THEN size ELSE n - o
  BY <1>4, <1>5
<1> HIDE DEF m
<1> QED
  BY <1>7, <1>9, <1>10 DEF q, n

(* The pages of the list of declarations, whatever their size: every item  *)
(* has a page and a place on it, and no two items the same; the page       *)
(* nought is the first again, and the pages past the end are empty, and no *)
(* other.                                                                  *)
THEOREM PagesMakeTheList ==
  ASSUME NEW S, NEW items \in Seq(S), NEW size \in Nat, size # 0
  PROVE  /\ \A k \in 1..Len(items) : \E page \in Nat \ {0}, i \in 1..size :
              /\ k = (page - 1) * size + i
              /\ i \in 1..Len(Payload!Page(items, page, size))
              /\ Payload!Page(items, page, size)[i] = items[k]
         /\ \A page, other \in Nat \ {0} : \A i, j \in 1..size :
              (page - 1) * size + i = (other - 1) * size + j => page = other /\ i = j
         /\ Payload!Page(items, 0, size) = Payload!Page(items, 1, size)
         /\ \A page \in Nat \ {0} :
              (page - 1) * size >= Len(items) <=> Payload!Page(items, page, size) = <<>>
<1>1. ASSUME NEW k \in 1..Len(items)
      PROVE  \E page \in Nat \ {0}, i \in 1..size :
               /\ k = (page - 1) * size + i
               /\ i \in 1..Len(Payload!Page(items, page, size))
               /\ Payload!Page(items, page, size)[i] = items[k]
  <2> DEFINE d == (k - 1) \div size
             i == ((k - 1) % size) + 1
             o == d * size
  <2>1. k - 1 \in Nat /\ Len(items) \in Nat /\ k <= Len(items)
    OBVIOUS
  <2>2. d \in Nat /\ i \in 1..size /\ k = o + i /\ o \in Nat
    BY <2>1
  <2> DEFINE page == d + 1
  <2>3. page \in Nat /\ page # 0 /\ page - 1 = d /\ o = (page - 1) * size
    BY <2>2
  <2> HIDE DEF d, i
  <2> DEFINE q == Payload!Page(items, page, size)
  <2>4. /\ Len(q) = IF o >= Len(items) THEN 0
                    ELSE IF o + size <= Len(items) THEN size ELSE Len(items) - o
        /\ \A j \in 1..Len(q) : q[j] = items[o + j]
    <3> HIDE DEF page, o
    <3> QED
      BY <2>2, <2>3, PageHolds
  <2> HIDE DEF o, page, q
  <2>5. i \in 1..Len(q)
    BY <2>1, <2>2, <2>4
  <2>6. q[i] = items[k]
    BY <2>2, <2>4, <2>5
  <2> QED
    BY <2>2, <2>3, <2>5, <2>6 DEF q
<1>2. ASSUME NEW page \in Nat \ {0}, NEW other \in Nat \ {0}, NEW i \in 1..size, NEW j \in 1..size,
             (page - 1) * size + i = (other - 1) * size + j
      PROVE  page = other /\ i = j
  <2>1. ASSUME NEW a \in Nat, NEW b \in Nat, a < b PROVE a * size + size <= b * size
    <3>1. a + 1 <= b /\ (a + 1) * size = a * size + size
      BY <2>1
    <3> QED
      BY <3>1
  <2>2. PICK a \in Nat, b \in Nat : a = page - 1 /\ b = other - 1
    OBVIOUS
  <2>3. a * size \in Nat /\ b * size \in Nat /\ a * size + i = b * size + j
    BY <1>2, <2>2
  <2>4. ~(a < b)
    <3> SUFFICES ASSUME a < b PROVE FALSE
      OBVIOUS
    <3>1. a * size + size <= b * size
      BY <2>1
    <3> DEFINE x == a * size
               y == b * size
    <3>2. x \in Nat /\ y \in Nat /\ x + i = y + j /\ x + size <= y
      BY <2>3, <3>1
    <3> HIDE DEF x, y
    <3> QED
      BY <3>2
  <2>5. ~(b < a)
    <3> SUFFICES ASSUME b < a PROVE FALSE
      OBVIOUS
    <3>1. b * size + size <= a * size
      BY <2>1
    <3> DEFINE x == a * size
               y == b * size
    <3>2. x \in Nat /\ y \in Nat /\ x + i = y + j /\ y + size <= x
      BY <2>3, <3>1
    <3> HIDE DEF x, y
    <3> QED
      BY <3>2
  <2>6. a = b
    BY <2>4, <2>5
  <2>7. i = j
    <3> DEFINE x == a * size
    <3>1. x \in Nat /\ x + i = x + j
      BY <2>3, <2>6
    <3> HIDE DEF x
    <3> QED
      BY <3>1
  <2> QED
    BY <2>2, <2>6, <2>7
<1>3. Payload!Page(items, 0, size) = Payload!Page(items, 1, size)
  <2>1. Max({0 - 1, 0}) = 0 /\ Max({1 - 1, 0}) = 0
    <3>1. 0 - 1 \in Int /\ 0 \in Int /\ 1 - 1 = 0 /\ 0 - 1 <= 0
      OBVIOUS
    <3> QED
      BY <3>1, LesserAndGreater
  <2> QED
    BY <2>1, SameExtremes DEF Payload!Page
<1>4. ASSUME NEW page \in Nat \ {0}
      PROVE  (page - 1) * size >= Len(items) <=> Payload!Page(items, page, size) = <<>>
  <2> DEFINE o == (page - 1) * size
             q == Payload!Page(items, page, size)
             n == Len(items)
  <2>1. o \in Nat
    <3>1. page - 1 \in Nat
      OBVIOUS
    <3> QED
      BY <3>1
  <2>2. /\ Len(q) = IF o >= n THEN 0 ELSE IF o + size <= n THEN size ELSE n - o
        /\ q \in Seq(S)
    BY <2>1, PageHolds
  <2>3. n \in Nat
    OBVIOUS
  <2> HIDE DEF o, q, n
  <2>4. o >= n <=> q = <<>>
    <3>1. o >= n <=> Len(q) = 0
      BY <2>1, <2>2, <2>3
    <3>2. Len(q) = 0 <=> q = <<>>
      BY <2>2
    <3> QED
      BY <3>1, <3>2
  <2> QED
    BY <2>4 DEF o, q, n
<1> QED
  BY <1>1, <1>2, <1>3, <1>4

=============================================================================
