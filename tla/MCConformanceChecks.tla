------------------------ MODULE MCConformanceChecks ------------------------
(* An instance: one operation over a field and a hill, a fence on the hill. *)
EXTENDS ConformanceChecks, OperationStates

CONSTANTS d1

Place(area, alt) == [area |-> area, alt |-> alt]
By(serial, places) ==
    <<[op |-> d1, serial |-> serial, form |-> "ok", places |-> places]>>

MCPayloads ==
    {By("s1", <<Place("field", 0), Place("away", 0)>>),
     By("s1", <<Place("field", 60), Place("hill", 0)>>),
     By("s2", <<Place("field", 0)>>)}
MCAircraft == [d \in {d1} |-> "s1"]
MCVolumes == [d \in {d1} |-> {[area |-> "field", lower |-> 0, upper |-> 120],
                              [area |-> "hill", lower |-> 50, upper |-> 170]}]

-----------------------------------------------------------------------------
(* The machine makes three of the changes the receivers ask for, each from *)
(* one state; an operation of any state is stored as they ask all the same.*)
(* Three edges no handler heeds; of what the handlers heed the machine     *)
(* refuses a departure at the wrong time, an exit before the activation    *)
(* and a contingency found here.                                           *)
ASSUME StatesChecked ==
    /\ \A s \in OperationState, e \in Event :
          Cardinality({n \in OperationState : <<s, e, n>> \in Edges}) <= 1
    /\ [s \in OperationState |-> Sanctioned(s)] =
          [s \in OperationState |-> CASE s = Activated -> {"C7a", "C7b"}
                                      [] s = Nonconforming -> {"C9a"}
                                      [] OTHER -> {}]
    /\ \A code \in Code : StateAfter(Ended, code) # Ended
    /\ {<<ed[2], ed[3]>> : ed \in {x \in Edges : ~Heeded(x[1], x[3], x[2])}} =
          {<<"dss_accepts", Accepted>>,
           <<"ua_departs_early_late_outside_op_intent", Nonconforming>>,
           <<"operator_return_to_coordinated_op_intent", Activated>>}
    /\ {<<s, e, n>> \in {Accepted, Activated, Nonconforming} \X Event \X {2, 3, 4} :
           Heeded(s, n, e) /\ Verified(s, n, e) = "no"} =
          {<<Accepted, "ua_departs_early_late", Nonconforming>>,
           <<Activated, "ua_departs_early_late", Nonconforming>>,
           <<Accepted, "ua_exits_coordinated_op_intent", Nonconforming>>,
           <<Activated, "flight_blender_confirms_contingent", Contingent>>}

=============================================================================
