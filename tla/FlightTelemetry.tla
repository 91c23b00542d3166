-------------------------- MODULE FlightTelemetry --------------------------
(***************************************************************************)
(* Telemetry of declared operations: the two submission endpoints           *)
(* (services/flight_feed_svc.py, submit_telemetry and                       *)
(* submit_signed_telemetry), the task that stamps the declaration and       *)
(* writes one observation per state (tasks/rid_task.py,                     *)
(* stream_rid_telemetry_data; tasks/flight_feed_task.py,                    *)
(* write_incoming_air_traffic_data), and the readers that poll the stored   *)
(* observations from the time of their last reading.                        *)
(*                                                                         *)
(* Every read and every transaction is a step.  A dispatch sends the        *)
(* flights examined so far, so its task is named by the request and the     *)
(* number n of flights it carries, and a write task by the state it         *)
(* stores: flight i of dispatch n, state j.  Times are ticks of one clock;  *)
(* a row is stamped when it is flushed and seen when it is committed.       *)
(***************************************************************************)
EXTENDS Integers, FiniteSets, Sequences

CONSTANTS
    Operations,  \* ids of flight declarations (the row of one is never recreated)
    Requests,    \* submissions, each made once
    Payloads,    \* the observation lists that are submitted
    Pollers,     \* readers of one session's key, one poll each
    Session,     \* the operation that session belongs to
    Narrow,      \* the pollers that ask for the rows of that session only
    Lookback,    \* ticks a poll without a last reading looks back (20 s)
    Ussp,        \* settings.USSP_NETWORK_ENABLED
    StartStates, \* the states declarations begin in: accepted, activated
    Moves,       \* the states an operator moves a declaration to
    MaxChanges,  \* bound on what happens to declarations and to the key
    Gone, None

\* A sequence of one element at least.
IsList(s) == Len(s) \in Nat \ {0} /\ DOMAIN s = 1..Len(s)

ASSUME TelemetryAssumption ==
    /\ {Lookback, MaxChanges} \subseteq Nat /\ Ussp \in BOOLEAN
    /\ StartStates \subseteq {1, 2} /\ Moves \subseteq 2..5
    /\ Session \in Operations /\ Narrow \subseteq Pollers
    /\ Gone \notin 0..8 /\ None \notin Nat
    /\ \A fs \in Payloads : IsList(fs) /\ \A i \in DOMAIN fs :
          /\ fs[i].op \in Operations
          /\ fs[i].form \in {"ok", "incomplete", "mistyped"}
          /\ IsList(fs[i].places)

VARIABLES
    state,    \* the state of each declaration, or Gone
    current,  \* operations whose start and end enclose the present
    heard,    \* latest_telemetry_datetime: never, within 15 s, or older
    request,  \* each submission: where it is, its flights, the one it examines
    streams,  \* stream tasks: the step each stands before
    queued,   \* write tasks not begun
    open,     \* observations flushed, not committed
    rows,     \* observations committed
    clock,
    reading,  \* the Redis key last_reading_for_<session>, or None
    poll,     \* each poll: where it is, where its window begins, the rows in it
    excused,  \* history: rows no poll owes an answer
    changes   \* how much has happened to declarations and the key

vars == <<state, current, heard, request, streams, queued, open, rows, clock,
          reading, poll, excused, changes>>
declaration == <<state, current, heard, changes>>
store == <<queued, open, rows>>
readers == <<reading, poll, excused>>

-----------------------------------------------------------------------------
Init ==
    /\ state \in [Operations -> StartStates]
    /\ current = Operations
    /\ heard = [d \in Operations |-> "never"]
    /\ request = [r \in Requests |->
                     [at |-> "idle", flights |-> <<>>, next |-> 1, signed |-> FALSE]]
    /\ streams = <<>>
    /\ queued = {} /\ open = {} /\ rows = {}
    /\ clock = 0
    /\ reading = None
    /\ poll = [p \in Pollers |-> [at |-> "idle", after |-> 0, window |-> {}]]
    /\ excused = {}
    /\ changes = 0

Flight(id) == request[id[1]].flights[id[3]]
Operation(id) == Flight(id).op

\* A poll presents, of the rows of every session that lie in its view, the
\* latest of each aircraft; the reader that feeds tracks keeps them all.
LatestPerAircraft(obs) ==
    {o \in obs : \A other \in obs :
        Flight(other.id).serial = Flight(o.id).serial => other.at <= o.at}

Shown(p) == LatestPerAircraft(poll[p].window)

-----------------------------------------------------------------------------
(* The endpoints.                                                          *)

Submit(r, fs, signed) ==
    /\ request[r].at = "idle"
    /\ request' = [request EXCEPT ![r] =
                      [at |-> "flight", flights |-> fs, next |-> 1, signed |-> signed]]
    /\ UNCHANGED <<declaration, streams, store, clock, readers>>

\* set_telemetry: any form of flights, which are examined one by one.
SubmitTelemetry(r) == \E fs \in Payloads : Submit(r, fs, FALSE)

\* set_signed_telemetry, after the signature of the message was verified.
SubmitSignedTelemetry(r) == \E fs \in Payloads : Submit(r, fs, TRUE)

Answer(r, what) == request' = [request EXCEPT ![r].at = what]

\* The next flight is parsed and its operation looked for among those of the
\* present.  Signed telemetry lets the errors of dacite through.
CheckActive(r) ==
    /\ request[r].at = "flight"
    /\ LET f == request[r].flights[request[r].next]
           found == f.form = "ok" /\ state[f.op] # Gone /\ f.op \in current
       IN  \/ found /\ Answer(r, "state")
           \/ ~found /\ Answer(r, IF f.form = "mistyped" /\ request[r].signed
                                  THEN "crashed" ELSE "refused")
    /\ UNCHANGED <<declaration, streams, store, clock, readers>>

AllowedStates(signed) == {2, 3, 4} \union (IF Ussp \/ signed THEN {} ELSE {1})

\* The task of the flights examined so far joins the others: its first step
\* stamps the declaration of its first flight.
Sent(r) ==
    [t \in DOMAIN streams \union {<<r, request[r].next>>} |->
        IF t = <<r, request[r].next>> THEN <<1, 0>> ELSE streams[t]]

\* Mutant: the flights are sent on before the state is looked at.
SendThenCheck(r) ==
    LET q == request[r]
        s == state[q.flights[q.next].op]
    IN  /\ q.at = "state"
        /\ streams' = Sent(r)
        /\ IF s \notin AllowedStates(q.signed) THEN Answer(r, "refused")
           ELSE IF q.next = Len(q.flights) THEN Answer(r, "accepted")
           ELSE request' = [request EXCEPT ![r].at = "flight", ![r].next = @ + 1]
        /\ UNCHANGED <<declaration, store, clock, readers>>

\* The declaration is read again; an allowed state sends on all the flights
\* examined so far, another ends the request after the ones already sent.
CheckState(r) ==
    LET q == request[r]
        s == state[q.flights[q.next].op]
    IN  /\ q.at = "state"
        /\ \/ /\ s \in AllowedStates(q.signed)
              /\ streams' = Sent(r)
              /\ IF q.next = Len(q.flights)
                 THEN Answer(r, "accepted")
                 ELSE request' = [request EXCEPT ![r].at = "flight", ![r].next = @ + 1]
           \/ /\ s \notin AllowedStates(q.signed)
              /\ Answer(r, IF s = Gone THEN "crashed" ELSE "refused")
              /\ UNCHANGED streams
        /\ UNCHANGED <<declaration, store, clock, readers>>

-----------------------------------------------------------------------------
(* The tasks.                                                              *)

\* Mutant: only the first declaration is stamped.
StampOnce(fs, step) ==
    IF step[2] < Len(fs[step[1]].places) THEN <<step[1], step[2] + 1>> ELSE <<step[1] + 1, 1>>

\* Mutant: the last state of each flight is left out.
LoseLastState(fs, step) ==
    IF step[2] + 1 < Len(fs[step[1]].places) THEN <<step[1], step[2] + 1>> ELSE <<step[1] + 1, 0>>

\* For each flight the declaration is stamped (state 0), then every state is
\* passed on, and then the next flight begins.
Following(fs, step) ==
    IF step[2] < Len(fs[step[1]].places) THEN <<step[1], step[2] + 1>> ELSE <<step[1] + 1, 0>>

\* One step of a stream task: a transaction that stamps the declaration, if
\* it still exists, or one call of write_incoming_air_traffic_data.
StreamStep(t) ==
    LET fs == request[t[1]].flights
        step == streams[t]
        d == fs[step[1]].op
    IN  /\ step[1] <= t[2]
        /\ \/ /\ step[2] = 0
              /\ heard' = IF state[d] = Gone THEN heard ELSE [heard EXCEPT ![d] = "fresh"]
              /\ UNCHANGED queued
           \/ /\ step[2] > 0
              /\ queued' = queued \union {<<t[1], t[2], step[1], step[2]>>}
              /\ UNCHANGED heard
        /\ streams' = [streams EXCEPT ![t] = Following(fs, step)]
        /\ UNCHANGED <<state, current, changes, request, open, rows, clock, readers>>

FlushRow(id) ==
    /\ queued' = queued \ {id}
    /\ clock' = clock + 1
    /\ open' = open \union {[id |-> id, at |-> clock']}
    /\ UNCHANGED <<declaration, request, streams, rows, readers>>

\* A row that is committed after a later reading began is excused: it lies
\* before every window to come.
CommitRow(o) ==
    /\ open' = open \ {o}
    /\ rows' = rows \union {o}
    /\ excused' = excused \union (IF reading # None /\ o.at < reading THEN {o} ELSE {})
    /\ UNCHANGED <<declaration, request, streams, queued, clock, reading, poll>>

-----------------------------------------------------------------------------
(* The readers.                                                            *)

\* The window begins at the last reading, whose place the present takes
\* before the rows are asked for.  Without a last reading the rows too old
\* for the fixed window are excused.
BeginPoll(p) ==
    /\ poll[p].at = "idle"
    /\ clock' = clock + 1
    /\ LET after == IF reading = None THEN clock' - Lookback ELSE reading
       IN  /\ poll' = [poll EXCEPT ![p].at = "asking", ![p].after = after]
           /\ excused' = excused \union {o \in rows : reading = None /\ o.at < after}
    /\ reading' = clock'
    /\ UNCHANGED <<declaration, request, streams, store>>

\* The rows of a window: of all sessions for get_air_traffic and
\* get_flight_observations, of the one for the reader of tracks.
Rows(p) ==
    {o \in rows : o.at >= poll[p].after /\ (p \in Narrow => Operation(o.id) = Session)}

\* Mutant: the time of the last reading is set when the rows have come.
ReadingSetLate(p) ==
    /\ poll[p].at = "asking"
    /\ poll' = [poll EXCEPT ![p].at = "done", ![p].window = Rows(p)]
    /\ clock' = clock + 1
    /\ reading' = clock'
    /\ UNCHANGED <<declaration, request, streams, store, excused>>

QueryRows(p) ==
    /\ poll[p].at = "asking"
    /\ poll' = [poll EXCEPT ![p].at = "done", ![p].window = Rows(p)]
    /\ UNCHANGED <<declaration, request, streams, store, clock, reading, excused>>

Change == changes < MaxChanges /\ changes' = changes + 1

\* The key outlives its reading by 300 s.
ReadingExpires ==
    /\ reading # None
    /\ reading' = None
    /\ Change
    /\ UNCHANGED <<state, current, heard, request, streams, store, clock, poll, excused>>

-----------------------------------------------------------------------------
(* What happens to declarations meanwhile.                                 *)

OperatorMoves(d, s) ==
    /\ state[d] # Gone
    /\ state' = [state EXCEPT ![d] = s] /\ Change
    /\ UNCHANGED <<current, heard, request, streams, store, clock, readers>>

Delete(d) ==
    /\ state[d] # Gone
    /\ state' = [state EXCEPT ![d] = Gone] /\ Change
    /\ UNCHANGED <<current, heard, request, streams, store, clock, readers>>

WindowEnds(d) ==
    /\ d \in current
    /\ current' = current \ {d} /\ Change
    /\ UNCHANGED <<state, heard, request, streams, store, clock, readers>>

FallsSilent(d) ==
    /\ heard[d] = "fresh"
    /\ heard' = [heard EXCEPT ![d] = "stale"] /\ Change
    /\ UNCHANGED <<state, current, request, streams, store, clock, readers>>

-----------------------------------------------------------------------------
Serve == \E r \in Requests : CheckActive(r) \/ CheckState(r)
Work ==
    \/ \E t \in DOMAIN streams : StreamStep(t)
    \/ \E id \in queued : FlushRow(id)
    \/ \E o \in open : CommitRow(o)
Read == \E p \in Pollers : QueryRows(p)

Surroundings ==
    \/ \E r \in Requests : SubmitTelemetry(r) \/ SubmitSignedTelemetry(r)
    \/ \E p \in Pollers : BeginPoll(p)
    \/ ReadingExpires
    \/ \E d \in Operations :
          \/ \E s \in Moves : OperatorMoves(d, s)
          \/ Delete(d) \/ WindowEnds(d) \/ FallsSilent(d)

Next == Serve \/ Work \/ Read \/ Surroundings

\* The server goes on with each request, and the broker delivers every task
\* to a worker that finishes it.
Spec ==
    /\ Init /\ [][Next]_vars
    /\ \A r \in Requests : WF_vars(CheckActive(r) \/ CheckState(r))
    /\ WF_vars(Work) /\ WF_vars(Read)

-----------------------------------------------------------------------------
(* Properties.                                                             *)

Instants == {"idle", "flight", "state", "accepted", "refused", "crashed"}
\* A step of the task of n of the flights fs, or the end of that task.
IsStep(fs, n, step) ==
    /\ step \in Nat \X Nat
    /\ \/ step[1] \in 1..n /\ step[2] <= Len(fs[step[1]].places)
       \/ step = <<n + 1, 0>>
IsWrite(id) ==
    /\ id \in Requests \X Nat \X Nat \X Nat
    /\ {id[2], id[3]} \subseteq DOMAIN request[id[1]].flights
    /\ id[4] \in DOMAIN Flight(id).places

TypeOK ==
    /\ state \in [Operations -> 1..5 \union {Gone}]
    /\ current \subseteq Operations
    /\ heard \in [Operations -> {"never", "fresh", "stale"}]
    /\ request \in [Requests -> [at : Instants, flights : Payloads \union {<<>>},
                                 next : Nat, signed : BOOLEAN]]
    /\ \A r \in Requests :
          IF request[r].at = "idle" THEN request[r].flights = <<>>
          ELSE request[r].next \in DOMAIN request[r].flights
    /\ \A t \in DOMAIN streams :
          /\ t \in Requests \X Nat /\ t[2] \in DOMAIN request[t[1]].flights
          /\ IsStep(request[t[1]].flights, t[2], streams[t])
    /\ \A id \in queued : IsWrite(id)
    /\ \A o \in open \union rows : o = [id |-> o.id, at |-> o.at] /\ IsWrite(o.id) /\ o.at \in 1..clock
    /\ clock \in Nat /\ reading \in 1..clock \union {None}
    /\ poll \in [Pollers -> [at : {"idle", "asking", "done"}, after : Int, window : SUBSET rows]]

\* What is on its way to the store or in it.
Passed == queued \union {o.id : o \in open \union rows}

\* Of a request that is refused or fails, nothing is ever stored of the flight
\* it failed at or of one after it, though the flights before are stored: the
\* list that is sent grows before the operation is looked for and before its
\* state is seen (submit_telemetry and submit_signed_telemetry).
RefusedFlightsStayOut ==
    \A id \in Passed :
        request[id[1]].at # "accepted" => id[3] < request[id[1]].next

\* A stored observation of a declaration that exists was announced in its
\* latest_telemetry_datetime first, however the tasks of several dispatches
\* run: the check that finds telemetry "never received" finds no observation
\* either (stream_rid_telemetry_data, check_flight_operational_intent_...).
StampedBeforeStored ==
    \A id \in Passed : state[Operation(id)] # Gone => heard[Operation(id)] # "never"

\* Every state of every flight of a submission that was answered 201 is in the
\* store at last, whatever happens to the declarations meanwhile.
AcceptedIsRecorded ==
    \A r \in Requests :
        request[r].at = "accepted" ~>
            \A i \in DOMAIN request[r].flights :
                \A j \in DOMAIN request[r].flights[i].places :
                    \E o \in rows : o.id[1] = r /\ o.id[3] = i /\ o.id[4] = j

\* The windows of the polls of a session meet, narrow or not: an observation of
\* the session that no poll returned lies after the last reading or in the
\* window of a poll that has not asked yet, unless it was committed late or the
\* key had expired (get_air_traffic and the two readers that share its key).
\* Of other sessions this is not so: a narrow poll takes their window too.
PollsMeet ==
    \A o \in rows \ excused :
        Operation(o.id) = Session =>
            \/ reading = None
            \/ o.at >= reading
            \/ \E p \in Pollers : \/ o \in poll[p].window
                                 \/ (poll[p].at = "asking" /\ o.at >= poll[p].after)

=============================================================================
