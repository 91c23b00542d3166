--------------------------- MODULE ServiceMetrics ---------------------------
(***************************************************************************)
(* The metrics of the surveillance service over a window of time, beside   *)
(* those of a single sensor (SensorHealth): which sessions they are about, *)
(* the rate of their heartbeats, the share delivered on time, the share of *)
(* the ticks with a track, and the averages over the sensors               *)
(* (services/surveillance_svc.py, get_service_metrics).                    *)
(*                                                                         *)
(* Times are milliseconds.  A number is a fraction <<n, d>>; the rounding  *)
(* of the answers is left out.                                             *)
(***************************************************************************)
EXTENDS Integers, Sequences, FiniteSets, SequencesExt

Event == [session : Nat, at : Nat, onTime : BOOLEAN]

Zero == <<0, 1>>
Fraction(n, d) == IF d > 0 THEN <<n, d>> ELSE Zero
Same(x, y) == x[1] * y[2] = y[1] * x[2]

Within(t, from, to) == from <= t /\ t <= to

(* The events of a session in the window, in the order of dispatched_at.   *)
EventsOf(events, s, from, to) ==
  SortSeq(SelectSeq(events, LAMBDA e : e.session = s /\ Within(e.at, from, to)),
          LAMBDA a, b : a.at < b.at)

(* The sessions that had a heartbeat or a track in the window, or the one  *)
(* that was asked for, whether it is known or not.                         *)
SessionsInWindow(sessions, beats, ticks, from, to) ==
  {s \in sessions : \E q \in {beats, ticks} : \E k \in DOMAIN q :
                      q[k].session = s /\ Within(q[k].at, from, to)}

ToProcess(asked, sessions, beats, ticks, from, to) ==
  IF asked # {} THEN asked ELSE SessionsInWindow(sessions, beats, ticks, from, to)

ActiveSessions(validUntil, now) == {s \in DOMAIN validUntil : validUntil[s] >= now}

(* Heartbeats per second, from the first to the last of the window.        *)
HeartbeatRate(beats) ==
  LET n == Len(beats) IN
  IF n >= 2 THEN Fraction(1000 * (n - 1), beats[n].at - beats[1].at) ELSE Zero

(* What was dispatched stands for what was expected.                       *)
DeliveryProbability(beats) ==
  Fraction(Len(SelectSeq(beats, LAMBDA e : e.onTime)), Len(beats))

(* Observations of all sessions in the window stand for the ticks, and for *)
(* the ticks with a track too.                                             *)
TrackUpdateProbability(observations, from, to) ==
  LET total == Cardinality({o \in observations : Within(o, from, to)}) IN
  Fraction(total, total)

(* The average over the sensors that have a value at all.                  *)
Average(values) ==
  LET some == SelectSeq(values, LAMBDA v : v # <<>>) IN
  IF some = <<>> THEN <<>>
  ELSE FoldLeft(LAMBDA sum, v : <<sum[1] * v[2] + v[1] * sum[2], sum[2] * v[2]>>,
                <<0, 1>>, [k \in DOMAIN some |-> <<some[k][1], some[k][2] * Len(some)>>])
=============================================================================
