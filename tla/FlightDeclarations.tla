------------------------- MODULE FlightDeclarations -------------------------
(***************************************************************************)
(* The flight declaration table of Flight Blender and what its service     *)
(* does to it: the requests that set operational intents (one or a bulk),  *)
(* the requests that create a declaration directly from GeoJSON, the       *)
(* operator's edits of a row, and the Celery task that should submit a     *)
(* declaration to the DSS.  Conformance monitoring also sets the state of  *)
(* a row; SetState stands for it as for an operator.                       *)
(*                                                                         *)
(* An HTTP request runs in one READ COMMITTED transaction that commits     *)
(* after its handler returns (db/session.py, async_get_db).  The handler   *)
(* of an operational-intent request awaits the database between its steps, *)
(* and three server workers share the database, so requests interleave at  *)
(* every step.  A declaration inserted by a request is visible to that     *)
(* request at once and to the others only after the commit.                *)
(*                                                                         *)
(* The deconfliction engine is a plugin.  Two engines of the repository    *)
(* are modelled: the built-in one ("default") and the time-window example  *)
(* ("time_window").                                                        *)
(***************************************************************************)
EXTENDS Naturals, Integers, Sequences, FiniteSets

CONSTANTS
  Decl,           \* declaration identifiers
  Request,        \* operational-intent requests, each used once
  Items,          \* Items[r]: the declarations request r creates, in order
  WindowStart,    \* start_datetime of each declaration
  WindowEnd,      \* end_datetime of each declaration
  ProvidedStates, \* values of "flight_state" a direct creation may carry
  OperatorStates, \* values an operator may PUT as the state of a row
  OperatorMayEdit,\* whether operators use the approval and delete endpoints
  UsspEnabled,    \* settings.USSP_NETWORK_ENABLED
  AutoSubmit,     \* settings.AUTO_SUBMIT_TO_DSS
  Engine          \* settings.FLIGHT_BLENDER_PLUGIN_DECONFLICTION_ENGINE

(* domain_types/common.py: the codes this module names.                    *)
NotSubmitted == 0
Accepted     == 1
Rejected     == 8
ActiveStates == {1, 2, 3, 4}

ItemsOf(r) == {Items[r][i] : i \in DOMAIN Items[r]}
Batched    == UNION {ItemsOf(r) : r \in Request}
Direct     == Decl \ Batched

ASSUME DeclarationAssumption ==
  /\ Items \in [Request -> Seq(Decl)]
  /\ \A r, q \in Request : \A i \in DOMAIN Items[r], j \in DOMAIN Items[q] :
        Items[r][i] = Items[q][j] => r = q /\ i = j
  /\ WindowStart \in [Decl -> Nat]
  /\ WindowEnd \in [Decl -> Nat]
  /\ ProvidedStates \subseteq Nat
  /\ OperatorStates \subseteq Nat
  /\ OperatorMayEdit \in BOOLEAN
  /\ UsspEnabled \in BOOLEAN
  /\ AutoSubmit \in BOOLEAN
  /\ Engine \in {"default", "time_window"}

VARIABLES
  row,       \* the committed table: one row per declaration identifier
  trail,     \* the committed state history of each declaration
  phase,     \* where each request is
  next,      \* the item the request works on
  verdict,   \* what the engine answered about each declaration
  task,      \* the DSS submission task of each declaration
  initiated, \* declarations an operator was told are being submitted
  raced      \* history: what became active while a request was in flight

table == <<row, trail>>
request == <<phase, next, verdict>>
vars == <<row, trail, phase, next, verdict, task, initiated, raced>>

-----------------------------------------------------------------------------
Row == [at : {"unborn", "live", "deleted"}, state : Nat, approved : BOOLEAN]
Phase == {"idle", "checking", "answering", "committing", "done", "raised", "failed"}
InFlight == {"checking", "answering", "committing"}
Verdict == {"none", "approved", "rejected"}
TaskState == {"none", "queued", "validated", "invalid", "missing", "crashed"}

NoRow == [at |-> "unborn", state |-> NotSubmitted, approved |-> FALSE]

(* The state a declaration is created with, whoever creates it.            *)
DefaultState == IF UsspEnabled THEN NotSubmitted ELSE Accepted

(* The history row keeps "original_state or 'start'": the code 0 is falsy, *)
(* so a declaration that was Not Submitted is logged as new.               *)
Start == -1
Original(s) == IF s = 0 THEN Start ELSE s
Entry == [from : Int, to : Nat]

Live(d) == row[d].at = "live"
Active(d) == Live(d) /\ row[d].state \in ActiveStates

(* Time windows: closed in the repository query of the default engine,     *)
(* open in the query of the time-window plugin.                            *)
WindowsMeet(d, e) ==
  IF Engine = "default"
    THEN WindowStart[e] <= WindowEnd[d] /\ WindowEnd[e] >= WindowStart[d]
    ELSE WindowStart[e] < WindowEnd[d] /\ WindowEnd[e] > WindowStart[d]

(* What a query of active declarations returns inside request r: the       *)
(* committed rows and the rows r itself has inserted.                      *)
VisibleActive(r) ==
  {e \in Decl : Active(e)}
    \cup (IF DefaultState \in ActiveStates THEN ItemsOf(r) ELSE {})

Conflicts(r, d) == {e \in VisibleActive(r) \ {d} : WindowsMeet(d, e)}

(* History: each request in flight remembers the declarations in S.        *)
Remember(S) ==
  raced' = [q \in Request |->
              IF phase[q] \in InFlight THEN raced[q] \cup S ELSE raced[q]]

-----------------------------------------------------------------------------
Init ==
  /\ row = [d \in Decl |-> NoRow]
  /\ trail = [d \in Decl |-> <<>>]
  /\ phase = [r \in Request |-> "idle"]
  /\ next = [r \in Request |-> 1]
  /\ verdict = [d \in Decl |-> "none"]
  /\ task = [d \in Decl |-> "none"]
  /\ initiated = {}
  /\ raced = [r \in Request |-> {}]

(* Requests that set operational intents ----------------------------------*)

(* The payload passed validation; every item is inserted (not committed),  *)
(* with the default state, approved, and a first history entry.            *)
Begin(r) ==
  /\ phase[r] = "idle"
  /\ Items[r] # <<>>
  /\ phase' = [phase EXCEPT ![r] = "checking"]
  /\ UNCHANGED <<table, next, verdict, task, initiated, raced>>

(* Mutants of Advance: one item too many; and the last item never leaves.  *)
AdvanceTooFar(r, following) ==
  IF next[r] > Len(Items[r])
    THEN /\ phase' = [phase EXCEPT ![r] = following]
         /\ next' = [next EXCEPT ![r] = 1]
    ELSE /\ next' = [next EXCEPT ![r] = @ + 1]
         /\ UNCHANGED phase

AdvanceForever(r, following) ==
  /\ next' = [next EXCEPT ![r] = IF @ = Len(Items[r]) THEN 1 ELSE @ + 1]
  /\ UNCHANGED phase

(* The loops over the items of a bulk: check all, then answer all.         *)
Advance(r, following) ==
  IF next[r] = Len(Items[r])
    THEN /\ phase' = [phase EXCEPT ![r] = following]
         /\ next' = [next EXCEPT ![r] = 1]
    ELSE /\ next' = [next EXCEPT ![r] = @ + 1]
         /\ UNCHANGED phase

(* The default engine: a geofence hit rejects; any active declaration in   *)
(* the time window makes the engine call asyncio.run inside the running    *)
(* loop, which raises, and the request fails.                              *)
CheckDefault(r) ==
  LET d == Items[r][next[r]] IN
  /\ Engine = "default"
  /\ phase[r] = "checking"
  /\ \/ /\ Conflicts(r, d) = {}
        /\ \E fenced \in BOOLEAN :
             verdict' = [verdict EXCEPT ![d] = IF fenced THEN "rejected"
                                                         ELSE "approved"]
        /\ Advance(r, "answering")
     \/ /\ Conflicts(r, d) # {}
        /\ phase' = [phase EXCEPT ![r] = "raised"]
        /\ UNCHANGED <<next, verdict>>
  /\ UNCHANGED <<table, task, initiated, raced>>

(* Mutant: the bulk checks an item against the committed rows only.        *)
CheckCommittedOnly(r) ==
  LET d == Items[r][next[r]] IN
  /\ Engine = "time_window"
  /\ phase[r] = "checking"
  /\ verdict' = [verdict EXCEPT ![d] =
                   IF \E e \in Decl \ {d} : Active(e) /\ WindowsMeet(d, e)
                     THEN "rejected" ELSE "approved"]
  /\ Advance(r, "answering")
  /\ UNCHANGED <<table, task, initiated, raced>>

(* The time-window engine: rejects when the query returns a row.           *)
CheckTimeWindow(r) ==
  LET d == Items[r][next[r]] IN
  /\ Engine = "time_window"
  /\ phase[r] = "checking"
  /\ verdict' = [verdict EXCEPT ![d] =
                   IF Conflicts(r, d) = {} THEN "approved" ELSE "rejected"]
  /\ Advance(r, "answering")
  /\ UNCHANGED <<table, task, initiated, raced>>

(* The submission task goes to the broker at once, before the commit.      *)
Answer(r) ==
  LET d == Items[r][next[r]]
      submit == verdict[d] = "approved" /\ UsspEnabled /\ AutoSubmit IN
  /\ phase[r] = "answering"
  /\ task' = IF submit THEN [task EXCEPT ![d] = "queued"] ELSE task
  /\ Advance(r, "committing")
  /\ UNCHANGED <<table, verdict, initiated, raced>>

(* Mutant: a rejection sets the state and leaves is_approved as created.   *)
CommittedStateOnly(d) ==
  [at |-> "live", approved |-> TRUE,
   state |-> IF verdict[d] = "approved" THEN DefaultState ELSE Rejected]

(* What the transaction leaves of an item once the engine has answered.    *)
CommittedRow(d) ==
  IF verdict[d] = "approved"
    THEN [at |-> "live", state |-> DefaultState, approved |-> TRUE]
    ELSE [at |-> "live", state |-> Rejected, approved |-> FALSE]

CommittedTrail(d) ==
  LET created == [from |-> Start, to |-> DefaultState]
      refused == [from |-> Original(DefaultState), to |-> Rejected]
  IN  IF verdict[d] = "approved" THEN <<created>> ELSE <<created, refused>>

(* async_get_db commits once the handler has returned.                     *)
Commit(r) ==
  /\ phase[r] = "committing"
  /\ phase' = [phase EXCEPT ![r] = "done"]
  /\ row' = [d \in Decl |-> IF d \in ItemsOf(r) THEN CommittedRow(d) ELSE row[d]]
  /\ trail' = [d \in Decl |-> IF d \in ItemsOf(r) THEN CommittedTrail(d)
                                                  ELSE trail[d]]
  /\ Remember({d \in ItemsOf(r) : CommittedRow(d).state \in ActiveStates})
  /\ UNCHANGED <<next, verdict, task, initiated>>

(* Mutant: each item is committed as soon as it is answered.               *)
AbortAfterCommits(r) ==
  /\ phase[r] \in InFlight
  /\ phase' = [phase EXCEPT ![r] = "failed"]
  /\ row' = [d \in Decl |->
               IF phase[r] = "answering" /\ d = Items[r][1]
                 THEN CommittedRow(d) ELSE row[d]]
  /\ UNCHANGED <<trail, next, verdict, task, initiated, raced>>

(* The worker dies, a broker call of Answer raises, or the database fails: *)
(* the transaction rolls back, the tasks already sent stay in the broker.  *)
Abort(r) ==
  /\ phase[r] \in InFlight
  /\ phase' = [phase EXCEPT ![r] = "failed"]
  /\ UNCHANGED <<table, next, verdict, task, initiated, raced>>

(* Direct creations and operators -----------------------------------------*)

(* No deconfliction, no history entry; the caller may choose the state.    *)
Create(d) ==
  /\ d \in Direct
  /\ row[d].at = "unborn"
  /\ \E s \in ProvidedStates \cup {DefaultState} :
       /\ row' = [row EXCEPT ![d] = [at |-> "live", state |-> s,
                                     approved |-> s \notin {0, 8}]]
       /\ Remember(IF s \in ActiveStates THEN {d} ELSE {})
  /\ UNCHANGED <<trail, request, task, initiated>>

(* PUT state: any integer, no transition rule, no history entry.           *)
SetState(d, s) ==
  /\ Live(d)
  /\ row' = [row EXCEPT ![d].state = s]
  /\ Remember(IF s \in ActiveStates /\ ~Active(d) THEN {d} ELSE {})
  /\ UNCHANGED <<trail, request, task, initiated>>

SetApproval(d, b) ==
  /\ OperatorMayEdit
  /\ Live(d)
  /\ row' = [row EXCEPT ![d].approved = b]
  /\ UNCHANGED <<trail, request, task, initiated, raced>>

(* The history rows go with the declaration (ON DELETE CASCADE).           *)
Delete(d) ==
  /\ OperatorMayEdit
  /\ Live(d)
  /\ row' = [row EXCEPT ![d] = [NoRow EXCEPT !.at = "deleted"]]
  /\ trail' = [trail EXCEPT ![d] = <<>>]
  /\ UNCHANGED <<request, task, initiated, raced>>

(* The submit_to_dss endpoint: it answers, and sends nothing.              *)
RequestSubmission(d) ==
  /\ UsspEnabled
  /\ Live(d)
  /\ row[d].state = NotSubmitted
  /\ initiated' = initiated \cup {d}
  /\ UNCHANGED <<table, request, task, raced>>

(* The Celery submission task ---------------------------------------------*)

(* Mutant: the task trusts that a queued declaration exists.               *)
ValidateTimesOnly(d) ==
  /\ task[d] = "queued"
  /\ \E timely \in BOOLEAN :
       task' = [task EXCEPT ![d] = IF timely THEN "validated" ELSE "invalid"]
  /\ UNCHANGED <<table, request, initiated, raced>>

(* First session of the task: the row must exist and both its times lie    *)
(* within the next two hours.                                              *)
ValidateTask(d) ==
  /\ task[d] = "queued"
  /\ \E timely \in BOOLEAN :
       task' = [task EXCEPT ![d] =
                  IF Live(d) /\ timely THEN "validated" ELSE "invalid"]
  /\ UNCHANGED <<table, request, initiated, raced>>

(* Second session: the stored operational intent of such a declaration is  *)
(* a list of volumes, which from_dict refuses: the task raises before it   *)
(* reaches the DSS.                                                        *)
SubmitTask(d) ==
  /\ task[d] = "validated"
  /\ task' = [task EXCEPT ![d] = IF Live(d) THEN "crashed" ELSE "missing"]
  /\ UNCHANGED <<table, request, initiated, raced>>

-----------------------------------------------------------------------------
Step(r) ==
  Begin(r) \/ CheckDefault(r) \/ CheckTimeWindow(r) \/ Answer(r) \/ Commit(r)

Operator(d) ==
  \/ Create(d)
  \/ \E s \in OperatorStates : SetState(d, s)
  \/ \E b \in BOOLEAN : SetApproval(d, b)
  \/ Delete(d)
  \/ RequestSubmission(d)

Worker(d) == ValidateTask(d) \/ SubmitTask(d)

Next ==
  \/ \E r \in Request : Step(r) \/ Abort(r)
  \/ \E d \in Decl : Operator(d) \/ Worker(d)

Spec == Init /\ [][Next]_vars

(* A handler that has begun runs on, and Celery executes what it received. *)
(* Nobody is obliged to send a request.                                    *)
Fairness ==
  /\ \A r \in Request : WF_vars(Step(r) /\ phase[r] # "idle")
  /\ \A d \in Decl : WF_vars(Worker(d))

FairSpec == Spec /\ Fairness

-----------------------------------------------------------------------------
TypeOK ==
  /\ row \in [Decl -> Row]
  /\ trail \in [Decl -> Seq(Entry)]
  /\ phase \in [Request -> Phase]
  /\ next \in [Request -> Nat]
  /\ \A r \in Request : phase[r] \in {"checking", "answering"}
                           => next[r] \in DOMAIN Items[r]
  /\ verdict \in [Decl -> Verdict]
  /\ task \in [Decl -> TaskState]
  /\ initiated \subseteq Decl
  /\ raced \in [Request -> SUBSET Decl]

(* A declaration the engine approved, as long as its request is in flight, *)
(* meets no active declaration, committed or of its own bulk, but those    *)
(* that became active after the request began.  This is all the check of   *)
(* services/deconfliction_engine.py is worth without a lock on the table:  *)
(* nothing between the check and the commit may add a settled conflict.    *)
SettledConflicts ==
  \A r \in Request : phase[r] \in InFlight =>
    \A d \in ItemsOf(r) : verdict[d] = "approved" =>
      Conflicts(r, d) \subseteq raced[r]

(* When a request commits, a declaration that enters the table as approved *)
(* meets no declaration active before the request began, and no other      *)
(* declaration of its bulk that enters active: _run_deconfliction_sa runs  *)
(* over the whole bulk before _process_intersection_result_sa touches it.  *)
AdmitsNoSettledConflict ==
  [][\A r \in Request : phase[r] = "committing" /\ phase'[r] = "done" =>
       \A d \in ItemsOf(r), e \in Decl :
         /\ d # e
         /\ row'[d].approved
         /\ Active(e)'
         /\ WindowsMeet(d, e)
         => e \in raced[r]]_vars

(* The table behaves as a registry: the items of a bulk enter it together  *)
(* or never (async_get_db commits once, or rolls back), each identifier    *)
(* enters once, and what an operator deleted does not come back.           *)
Registry == INSTANCE DeclarationRegistry WITH
  Id <- Decl,
  Batch <- {ItemsOf(r) : r \in Request} \cup {{d} : d \in Direct},
  board <- {d \in Decl : Live(d)},
  gone <- {d \in Decl : row[d].at = "deleted"}

RegistrySpec == Registry!Spec

(* A submission task that outlived its request never gets past its first   *)
(* check: the broker may deliver it before the commit or after a rollback  *)
(* (submit_flight_declaration_to_dss_async is sent before either), and no  *)
(* declaration that never existed is taken to the DSS.                     *)
OnlyCommittedSubmitted ==
  \A d \in Decl : task[d] \in {"validated", "missing", "crashed"}
                     => row[d].at # "unborn"

(* Every request that began ends, and every task the broker holds is run   *)
(* to an end, whatever the others do.                                      *)
RequestsSettle ==
  /\ \A r \in Request : phase[r] \in InFlight ~> phase[r] \notin InFlight
  /\ \A d \in Decl : task[d] = "queued" ~> task[d] \notin {"queued", "validated"}

=============================================================================
