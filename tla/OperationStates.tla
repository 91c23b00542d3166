-------------------------- MODULE OperationStates --------------------------
(***************************************************************************)
(* The states of an operation (services/conformance_svc.py): the machine   *)
(* of ASTM F3548-21 that verifies a change of state, what the handlers of   *)
(* a change do about the operational intent in the DSS, and the change the *)
(* receiver of a deviation asks for.                                       *)
(*                                                                         *)
(* The program consults the machine in one place, for the event            *)
(* "dss_accepts" (tasks/flight_declarations_task.py), and raises before it *)
(* gets there.  The receivers store the change they ask for unverified.    *)
(***************************************************************************)
EXTENDS Naturals

NotSubmitted == 0
Accepted == 1
Activated == 2
Nonconforming == 3
Contingent == 4
Ended == 5
Withdrawn == 6
Cancelled == 7
Rejected == 8
OperationState == 0..8

(* The events that move the machine, and those only handlers or receivers  *)
(* know.                                                                   *)
MachineEvent ==
  {"dss_accepts", "operator_withdraws", "operator_cancels", "operator_activates",
   "operator_confirms_ended", "ua_departs_early_late_outside_op_intent",
   "ua_exits_coordinated_op_intent", "operator_initiates_contingent",
   "operator_return_to_coordinated_op_intent", "timeout", "operator_confirms_contingent"}
Event == MachineEvent \cup {"ua_departs_early_late", "flight_blender_confirms_contingent"}

Edges ==
  {<<NotSubmitted, "dss_accepts", Accepted>>,
   <<NotSubmitted, "operator_withdraws", Withdrawn>>,
   <<NotSubmitted, "operator_cancels", Cancelled>>,
   <<Accepted, "operator_activates", Activated>>,
   <<Accepted, "ua_departs_early_late_outside_op_intent", Nonconforming>>,
   <<Activated, "ua_exits_coordinated_op_intent", Nonconforming>>,
   <<Activated, "operator_initiates_contingent", Contingent>>,
   <<Nonconforming, "operator_return_to_coordinated_op_intent", Activated>>,
   <<Nonconforming, "timeout", Contingent>>,
   <<Nonconforming, "operator_confirms_contingent", Contingent>>}
  \cup ({Accepted, Activated, Nonconforming, Contingent} \X {"operator_confirms_ended"} \X {Ended})

(* An event a state has no edge for leaves it as it is.                    *)
OnEvent(s, e) ==
  IF \E n \in OperationState : <<s, e, n>> \in Edges
    THEN CHOOSE n \in OperationState : <<s, e, n>> \in Edges
    ELSE s

(* A state that is none raises: there is nothing to construct.             *)
Verified(s, n, e) ==
  IF s \notin OperationState THEN "raises"
  ELSE IF OnEvent(s, e) = n THEN "yes" ELSE "no"

-----------------------------------------------------------------------------
(* manage_operation_state_transition, for a declaration that still has its *)
(* reference: the end of an operation is told to the DSS if the event is   *)
(* the one that belongs to it; of the other changes none leaves the logs.  *)
Ends == {<<"operator_confirms_ended", Ended>>, <<"operator_withdraws", Withdrawn>>,
         <<"operator_cancels", Cancelled>>}

ClearsDss(n, e, ussp) == ussp /\ <<e, n>> \in Ends

(* The handlers of the other changes, each with the states it takes them   *)
(* from.                                                                   *)
Heeded(s, n, e) ==
  CASE n = Contingent ->
         \/ s = Activated /\ e \in {"operator_initiates_contingent",
                                    "flight_blender_confirms_contingent"}
         \/ s = Nonconforming /\ e \in {"timeout", "operator_confirms_contingent"}
    [] n = Nonconforming ->
         /\ s \in {Accepted, Activated}
         /\ e \in {"ua_exits_coordinated_op_intent", "ua_departs_early_late"}
    [] n = Activated -> s = Accepted /\ e = "operator_activates"
    [] OTHER -> <<e, n>> \in Ends

-----------------------------------------------------------------------------
(* What the receiver of a deviation asks for, by the code of the deviation.*)
(* Of C2 and C8 there is a record, and no change.                          *)
Asking(e, n) == [event |-> e, to |-> n]

Code == {"C3", "C4", "C5", "C6", "C7a", "C7b", "C9a", "C9b", "C10", "C11"}

AskedFor(code) ==
  CASE code = "C6" -> Asking("ua_departs_early_late", Nonconforming)
    [] code \in {"C4", "C5"} -> Asking("flight_blender_confirms_contingent", Nonconforming)
    [] code \in {"C7a", "C7b"} -> Asking("ua_exits_coordinated_op_intent", Nonconforming)
    [] code = "C9a" -> Asking("timeout", Contingent)
    [] OTHER -> Asking("flight_blender_confirms_contingent", Contingent)

(* The work it leaves on the loop stores the state whatever the machine    *)
(* says of it.                                                             *)
StateAfter(s, code) == IF code \in Code THEN AskedFor(code).to ELSE s

(* The deviations whose change the machine would have made from state s.   *)
Sanctioned(s) ==
  {code \in Code : Verified(s, AskedFor(code).to, AskedFor(code).event) = "yes"
                     /\ AskedFor(code).to # s}
=============================================================================
