-------------------------- MODULE MCSensorHealth --------------------------
(* A small instance of SensorHealth: two updates may overlap, on the same  *)
(* or on two sensors, each never reported before or up again after an      *)
(* outage; with the updates a history has up to five changes.              *)
EXTENDS SensorHealth, ServiceMetrics, TLC

CONSTANTS s1, s2, u1, u2

MCSensor == {s1, s2}
MCUpdate == {u1, u2}
MCReports == {<<"operational", "automatic">>, <<"operational", "manual">>,
              <<"degraded", "none">>, <<"outage", "none">>}

Row(status, recovery, at) ==
  [status |-> status, recovery |-> recovery, at |-> at]
MCHistories ==
  {<<>>, <<Row("operational", "none", 1), Row("outage", "none", 2),
           Row("operational", "automatic", 3)>>}

-----------------------------------------------------------------------------
(* The metrics of the service on up to three heartbeats of one session in   *)
(* four seconds, dispatched at whole seconds.                              *)

Beats == UNION {[1..n -> [session : {1}, at : {1000 * t : t \in 0..3}, onTime : BOOLEAN]]
                  : n \in 0..3}
Steady(n) == [k \in 1..n |-> [session |-> 1, at |-> 1000 * k, onTime |-> TRUE]]
AllOf(beats) == EventsOf(beats, 1, 0, 3000)

(* A heartbeat every second is a rate of one whatever the window cuts off; *)
(* a burst at one instant is a rate of nought however many there are; the  *)
(* order in which they were stored makes no difference; what is delivered  *)
(* is a share; the share of ticks with a track is one or nought whatever   *)
(* was tracked; sensors without a value do not count, and each other sensor*)
(* counts once, however often it recovered.                                *)
ASSUME MetricsChecked ==
  /\ \A from, to \in {500 * t : t \in 0..10} :
       LET seen == EventsOf(Steady(4), 1, from, to) IN
       HeartbeatRate(seen) = IF Len(seen) >= 2 THEN <<1000 * (Len(seen) - 1), 1000 * (Len(seen) - 1)>>
                             ELSE Zero
  /\ \A b \in Beats :
       LET seen == AllOf(b) IN
       /\ Len(seen) = Len(b) /\ HeartbeatRate(seen) = HeartbeatRate(AllOf(Reverse(b)))
       /\ Cardinality({e.at : e \in Range(b)}) = 1 => HeartbeatRate(seen) = Zero
       /\ DeliveryProbability(seen)[1] <= DeliveryProbability(seen)[2]
       /\ EventsOf(b, 2, 0, 3000) = <<>>
       /\ \A from, to \in {0, 1500, 2000} :
            /\ SessionsInWindow({1, 2}, b, <<>>, from, to) =
                 IF EventsOf(b, 1, from, to) = <<>> THEN {} ELSE {1}
            /\ ToProcess({2}, {1}, b, b, from, to) = {2}
  /\ \A S \in SUBSET (0..3) : \A from, to \in 0..4 :
       Same(TrackUpdateProbability(S, from, to),
            IF \E o \in S : Within(o, from, to) THEN <<1, 1>> ELSE Zero)
  /\ Same(Average(<<<<2, 1>>, <<>>, <<12, 1>>>>), <<7, 1>>)
  /\ Average(<<<<>>, <<>>>>) = <<>>
  /\ ActiveSessions([s \in 1..3 |-> s], 2) = {2, 3}
=============================================================================
