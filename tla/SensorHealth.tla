---------------------------- MODULE SensorHealth ----------------------------
(***************************************************************************)
(* The health of the surveillance sensors.  An update of a sensor reads    *)
(* its record and writes, in one flush, a failure notification, the record *)
(* and a tracking record; several updates may be under way, each in a      *)
(* transaction of its own (READ COMMITTED), and only the statement that    *)
(* writes the record waits for another transaction of the same sensor.     *)
(* The health of the service is put together sensor by sensor while they   *)
(* change, and the metrics of a window from the tracking records in it.    *)
(*                                                                         *)
(* A report of an unknown sensor, status or recovery type is refused, and  *)
(* one of the status the sensor has changes nothing: they are no steps.    *)
(* Times are those of the clock when a row is inserted; no two are equal.  *)
(***************************************************************************)
EXTENDS Naturals, Integers, FiniteSets, Sequences, SequencesExt

CONSTANTS
  Sensor,    \* active sensors (nothing here deactivates one)
  Update,    \* requests that report the health of a sensor, each used once
  Reports,   \* what they may say: pairs of a status and a recovery type
  Histories, \* the records a sensor may start with
  Begun      \* the time by which they were made

Failing == {"degraded", "outage"}
Status == Failing \cup {"operational"}
Recovery == {"automatic", "manual", "none"}
Record == [status : Status, recovery : Recovery, at : Nat]

ASSUME SensorHealthAssumption ==
  /\ IsFiniteSet(Sensor)
  /\ Reports \subseteq Status \X Recovery
  /\ Begun \in Nat
  /\ \A h \in Histories : /\ h \in Seq(Record)
                         /\ Len(h) <= Begun
                         /\ \A i \in 1..Len(h) : h[i].at = i

VARIABLES
  health,  \* the committed record of each sensor, or "none"
  history, \* the committed tracking records, in the order of recorded_at
  notices, \* the committed failure notifications
  update,  \* where each update is and what it has read and stamped
  clock,   \* the time of the last row inserted
  probe    \* a request for the health of the service

healthVars == <<health, history, notices, update, clock, probe>>

-----------------------------------------------------------------------------
Fresh == [at |-> "idle"]
NoProbe == [at |-> "idle"]
StatusOf(h) == IF h = <<>> THEN "none" ELSE h[Len(h)].status

\* The notification of the i-th change of a history made without overlap.
NoticeOf(h, i) == [at |-> h[i].at, was |-> h[IF i = 1 THEN 1 ELSE i - 1].status,
                   now |-> h[i].status]

HealthInit ==
  /\ history \in [Sensor -> Histories]
  /\ health = [s \in Sensor |-> StatusOf(history[s])]
  /\ notices = [s \in Sensor |->
                  {NoticeOf(history[s], i) : i \in 1..Len(history[s])}]
  /\ update = [u \in Update |-> Fresh]
  /\ clock = Begun
  /\ probe = NoProbe

-----------------------------------------------------------------------------
(* An update.                                                              *)

\* Mutant: the status is set before the notification is made from it.
ReadAfterSet(u, s, new, recovery) ==
  /\ update[u].at = "idle"
  /\ health[s] # new
  /\ update' = [update EXCEPT ![u] =
       [at |-> "read", sensor |-> s, new |-> new, recovery |-> recovery,
        first |-> health[s] = "none", since |-> Len(history[s]), was |-> new]]
  /\ UNCHANGED <<health, history, notices, clock, probe>>

\* The record is read: its status goes into the notification as the
\* previous one, and the first report of a sensor inserts the record.
\* since, how many changes came before, is only there for a property.
ReadRecord(u, s, new, recovery) ==
  /\ update[u].at = "idle"
  /\ health[s] # new
  /\ update' = [update EXCEPT ![u] =
       [at |-> "read", sensor |-> s, new |-> new, recovery |-> recovery,
        first |-> health[s] = "none", since |-> Len(history[s]),
        was |-> IF health[s] = "none" THEN new ELSE health[s]]]
  /\ UNCHANGED <<health, history, notices, clock, probe>>

\* The flush inserts the notification, which waits for nobody.
InsertNotice(u) ==
  /\ update[u].at = "read"
  /\ clock' = clock + 1
  /\ update' = [update EXCEPT ![u] =
       [at |-> "noted", sensor |-> @.sensor, new |-> @.new, first |-> @.first,
        since |-> @.since, recovery |-> @.recovery, was |-> @.was,
        noted |-> clock']]
  /\ UNCHANGED <<health, history, notices, probe>>

\* Mutant: nobody waits for the row.
NeverHeld(s) == FALSE

\* A transaction that has written the record of the sensor holds its row.
Held(s) == \E v \in Update : update[v].at = "flushed" /\ update[v].sensor = s

\* The record is inserted or updated, then the tracking record is inserted.
\* A record that appeared since it was looked for breaks the unique key:
\* the flush raises and the request rolls back.
WriteRecord(u) ==
  /\ update[u].at = "noted"
  /\ ~Held(update[u].sensor)
  /\ IF update[u].first /\ health[update[u].sensor] # "none"
     THEN /\ update' = [update EXCEPT ![u] = [at |-> "done"]]
          /\ UNCHANGED clock
     ELSE /\ clock' = clock + 1
          /\ update' = [update EXCEPT ![u] =
               [at |-> "flushed", sensor |-> @.sensor, was |-> @.was,
                noted |-> @.noted, since |-> @.since,
                row |-> [status |-> @.new, recovery |-> @.recovery,
                         at |-> clock']]]
  /\ UNCHANGED <<health, history, notices, probe>>

\* The records of a sensor in the order of recorded_at.
Placed(h, row) ==
  LET p == CHOOSE p \in 1..(Len(h) + 1) :
             /\ \A k \in 1..(p - 1) : h[k].at < row.at
             /\ \A k \in p..Len(h) : row.at < h[k].at
  IN  [k \in 1..(Len(h) + 1) |->
         IF k < p THEN h[k] ELSE IF k = p THEN row ELSE h[k - 1]]

\* What a commit of the health of a sensor means to a probe being answered.
Witness(p, h) ==
  IF p.at = "reading"
  THEN [p EXCEPT !.commits = @ + 1, !.moments = @ \cup {h}] ELSE p

CommitUpdate(u) ==
  /\ update[u].at = "flushed"
  /\ LET s == update[u].sensor
         row == update[u].row
     IN  /\ health' = [health EXCEPT ![s] = row.status]
         /\ history' = [history EXCEPT ![s] = Placed(@, row)]
         /\ notices' = [notices EXCEPT ![s] = @ \cup
              {[at |-> update[u].noted, was |-> update[u].was,
                now |-> row.status]}]
  /\ update' = [update EXCEPT ![u] = [at |-> "done"]]
  /\ probe' = Witness(probe, health')
  /\ UNCHANGED clock

\* The connection or the client is lost: everything is rolled back.
AbortUpdate(u) ==
  /\ update[u].at \in {"read", "noted", "flushed"}
  /\ update' = [update EXCEPT ![u] = [at |-> "done"]]
  /\ UNCHANGED <<health, history, notices, clock, probe>>

-----------------------------------------------------------------------------
(* The health of the service.  moments are the records as they were at     *)
(* some time of the reading, commits counts their changes.                 *)

Overall(statuses) ==
  IF statuses \subseteq {"outage"} THEN "outage"
  ELSE IF statuses \cap Failing # {} THEN "degraded" ELSE "operational"

\* Mutant: the statuses of the last answer are kept.
StartProbeAgain ==
  /\ probe.at # "reading"
  /\ probe' = [at |-> "reading", todo |-> Sensor, commits |-> 0,
               seen |-> IF probe.at = "idle" THEN {} ELSE {probe.says},
               moments |-> {health}]
  /\ UNCHANGED <<health, history, notices, update, clock>>

StartProbe ==
  /\ probe.at # "reading"
  /\ probe' = [at |-> "reading", todo |-> Sensor, seen |-> {},
               commits |-> 0, moments |-> {health}]
  /\ UNCHANGED <<health, history, notices, update, clock>>

\* One query for each sensor, in whatever order they came.
ReadSensor(s) ==
  /\ probe.at = "reading" /\ s \in probe.todo
  /\ probe' = [probe EXCEPT !.todo = @ \ {s},
                            !.seen = @ \cup ({health[s]} \ {"none"})]
  /\ UNCHANGED <<health, history, notices, update, clock>>

AnswerProbe ==
  /\ probe.at = "reading" /\ probe.todo = {}
  /\ probe' = [at |-> "answered", says |-> Overall(probe.seen),
               commits |-> probe.commits, moments |-> probe.moments]
  /\ UNCHANGED <<health, history, notices, update, clock>>

-----------------------------------------------------------------------------
(* The metrics of a window: a walk over its tracking records.              *)

Unset == -1

InWindow(r, from, to) == from <= r.at /\ r.at <= to

\* The status of the latest record before t.
StatusBefore(h, t) ==
  LET before == {i \in DOMAIN h : h[i].at < t}
  IN  IF before = {} THEN "none" ELSE h[Max(before)].status

\* A failing sensor starts an outage, which ends the time it was up.
Fail(m, r) ==
  IF m.onset # Unset THEN m
  ELSE [m EXCEPT !.onset = r.at, !.up = Unset, !.intervals =
          IF m.up = Unset THEN @
          ELSE Append(@, [secs |-> r.at - m.up, by |-> "none"])]

\* Mutant: the outage does not end with it.
RecoverOnce(m, r) ==
  [m EXCEPT !.up = r.at, !.recoveries =
     IF m.onset = Unset THEN @
     ELSE Append(@, [secs |-> r.at - m.onset, by |-> r.recovery])]

\* A recovery ends the outage and is charged to the time up before it.
Recover(m, r) ==
  IF m.onset # Unset
  THEN [m EXCEPT !.onset = Unset, !.up = r.at,
          !.recoveries = Append(@, [secs |-> r.at - m.onset, by |-> r.recovery]),
          !.intervals = IF @ = <<>> THEN @
                        ELSE [@ EXCEPT ![Len(@)].by = r.recovery]]
  ELSE [m EXCEPT !.up = IF @ = Unset THEN r.at ELSE @]

Metrics(h, from, to) ==
  LET before == StatusBefore(h, from)
  IN  FoldLeft(LAMBDA m, r : IF ~InWindow(r, from, to) THEN m
                             ELSE IF r.status \in Failing THEN Fail(m, r)
                             ELSE Recover(m, r),
               [onset |-> IF before \in Failing THEN from ELSE Unset,
                up |-> IF before = "operational" THEN from ELSE Unset,
                recoveries |-> <<>>, intervals |-> <<>>], h)

NewestFirst(some) ==
  [k \in 1..Cardinality(some) |->
     CHOOSE n \in some : Cardinality({m \in some : m.at > n.at}) = k - 1]

\* The notifications of a window, newest first.
Listing(s, from, to) ==
  NewestFirst({n \in notices[s] : from <= n.at /\ n.at <= to})

-----------------------------------------------------------------------------
Step(u) == InsertNotice(u) \/ WriteRecord(u) \/ CommitUpdate(u)

HealthNext ==
  \/ \E u \in Update, s \in Sensor, r \in Reports : ReadRecord(u, s, r[1], r[2])
  \/ \E u \in Update : Step(u) \/ AbortUpdate(u)
  \/ StartProbe
  \/ \E s \in Sensor : ReadSensor(s)
  \/ AnswerProbe

HealthSpec == HealthInit /\ [][HealthNext]_healthVars
-----------------------------------------------------------------------------
(* Properties.                                                             *)

\* The latest tracking record of a sensor, by recorded_at, is about the
\* status its record has, whatever updates overlap: the metrics of a window
\* up to now end where the health of the service is (repositories/
\* surveillance_repo.py:182-221 against 92-121).
HistoryEndsInStatus ==
  \A s \in Sensor : health[s] = StatusOf(history[s])

Later(h, t, to, set) ==
  \E i \in DOMAIN h : t < h[i].at /\ h[i].at <= to /\ h[i].status \in set
Times(h, from, to, set, until) ==
  {t \in from..(to - 1) : StatusBefore(h, t + 1) \in set /\ Later(h, t, to, until)}
Total(seq) == FoldLeft(LAMBDA n, x : n + x.secs, 0, seq)
Automatic(seq) == {i \in DOMAIN seq : seq[i].by = "automatic"}

\* What the walk over the records of a window adds up is what the history
\* says of each instant of it: the time to recover is the time the sensor
\* was failing before it recovered in the window, the time between failures
\* the time it was operational before it failed, and there are as many
\* automatic recoveries as automatic reports that ended an outage
\* (services/surveillance_svc.py:240-308).
WindowMatchesHistory ==
  \A s \in Sensor : \A from \in 0..clock : \A to \in from..clock :
    LET h == history[s]
        m == Metrics(h, from, to)
    IN  /\ Total(m.recoveries) =
             Cardinality(Times(h, from, to, Failing, {"operational"}))
        /\ Total(m.intervals) =
             Cardinality(Times(h, from, to, {"operational"}, Failing))
        /\ Cardinality(Automatic(m.recoveries)) =
             Cardinality({i \in 2..Len(h) :
               /\ InWindow(h[i], from, to)
               /\ h[i].status = "operational" /\ h[i].recovery = "automatic"
               /\ h[i - 1].status \in Failing})

\* The health of the service is put together from one query per sensor.
\* While at most one update commits meanwhile, the answer is that of the
\* records as they were at one moment of the reading (two updates can make
\* it a mixture no moment had).
HealthOfAMoment ==
  probe.at = "answered" /\ probe.commits <= 1 =>
    \E h \in probe.moments :
      probe.says = Overall({h[s] : s \in Sensor} \ {"none"})

\* An update during which no other update of its sensor committed adds the
\* newest notification of the sensor, and the previous status it names is
\* the one the sensor had (its own status, for the first report of all).
\* Updates that overlap may name a status the sensor no longer had, in the
\* order they were flushed (repositories/surveillance_repo.py:184-218).
NoticesTellTheChange ==
  [][\A u \in Update, s \in Sensor :
       /\ update[u].at = "flushed" /\ update[u].sensor = s
       /\ history'[s] # history[s] /\ update[u].since = Len(history[s])
       => LET n == Listing(s, 0, clock)'[1]
          IN  /\ n.at = update[u].noted
              /\ n.was = IF health[s] = "none" THEN n.now ELSE health[s]
              /\ n.now = health'[s]]_healthVars

=============================================================================
