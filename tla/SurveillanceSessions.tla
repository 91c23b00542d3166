------------------------ MODULE SurveillanceSessions ------------------------
(***************************************************************************)
(* Surveillance sessions: the requests that start and stop one, and the    *)
(* two Celery tasks (heartbeat and track) that a start sets off and that   *)
(* send themselves again one second after each run.                        *)
(*                                                                         *)
(* A start inserts the session row, sends both tasks to the broker, and    *)
(* commits when its handler returns; a second insert of the same key waits *)
(* for the first transaction.  A stop writes a Redis key that both tasks   *)
(* read before each run; the key expires, and so does every task.          *)
(***************************************************************************)
EXTENDS Naturals, Integers, FiniteSets

CONSTANTS
  Session,   \* session identifiers
  Start,     \* start requests, each used once
  SessionOf, \* the session each start names
  TaskTTL,   \* a task sends itself for so long after it was first sent
  StopTTL,   \* lifetime of the stop key
  LastStart, \* bound: no start is in progress later
  Horizon,   \* bound of the clock
  Fuser      \* settings.FLIGHT_BLENDER_PLUGIN_TRAFFIC_DATA_FUSER names a class

ASSUME SurveillanceAssumption ==
  /\ SessionOf \in [Start -> Session]
  /\ TaskTTL \in Nat
  /\ StopTTL \in Nat
  /\ TaskTTL < StopTTL     \* one minute, 300 seconds
  /\ LastStart \in Nat
  /\ Horizon \in Nat
  /\ LastStart + TaskTTL < Horizon
  /\ Fuser \in BOOLEAN

Kind == {"heartbeat", "track"}
Chain == Start \X Kind

VARIABLES
  now,       \* the clock
  sessions,  \* the committed session rows
  start,     \* where each start request is
  chain,     \* the task each start has set off, per kind
  stopUntil, \* the stop key of each session lives while now < stopUntil
  latest,    \* latest expected_at of the events recorded for each session
  stopped    \* history: when the session was first stopped

cstate == <<chain, latest>>
vars == <<now, sessions, start, chain, stopUntil, latest, stopped>>

-----------------------------------------------------------------------------
Never == -1
Holding == {"inserted", "halfway", "scheduled"}
Started == {"inserting"} \cup Holding
StartState == {"idle", "exists", "started", "failed"} \cup Started
Alive == {"queued", "running"}
NoChain == [at |-> "none", due |-> 0, expires |-> 0, since |-> 0]
Ended == [NoChain EXCEPT !.at = "dead"]

Of(c) == SessionOf[c[1]]

(* The transaction of another start holds the key of this session.         *)
Locked(q) ==
  \E p \in Start \ {q} : SessionOf[p] = SessionOf[q] /\ start[p] \in Holding

Become(q, s) == start' = [start EXCEPT ![q] = s]
End(c) == chain' = [chain EXCEPT ![c] = Ended]

Init ==
  /\ now = 0
  /\ sessions = {}
  /\ start = [q \in Start |-> "idle"]
  /\ chain = [c \in Chain |-> NoChain]
  /\ stopUntil = [s \in Session |-> 0]
  /\ latest = [s \in Session |-> Never]
  /\ stopped = [s \in Session |-> Never]

(* Starting and stopping --------------------------------------------------*)

Begin(q) ==
  /\ start[q] = "idle"
  /\ now <= LastStart
  /\ Become(q, IF SessionOf[q] \in sessions THEN "exists" ELSE "inserting")
  /\ UNCHANGED <<now, sessions, cstate, stopUntil, stopped>>

(* Mutant: the key of the session is not unique.                           *)
InsertAnyway(q) ==
  /\ start[q] = "inserting"
  /\ Become(q, "inserted")
  /\ UNCHANGED <<now, sessions, cstate, stopUntil, stopped>>

(* create_session: a row committed meanwhile is found by its second read   *)
(* or makes the flush fail; either way the start is refused.               *)
Insert(q) ==
  /\ start[q] = "inserting"
  /\ ~Locked(q)
  /\ Become(q, IF SessionOf[q] \in sessions THEN "failed" ELSE "inserted")
  /\ UNCHANGED <<now, sessions, cstate, stopUntil, stopped>>

(* Send one task.  If the broker fails the row is deleted again: the       *)
(* transaction ends without it, and what was sent before stays sent.       *)
Send(q, k, from, to) ==
  /\ start[q] = from
  /\ \/ /\ Become(q, to)
        /\ chain' = [chain EXCEPT ![<<q, k>>] =
             [at |-> "queued", due |-> now + 1, expires |-> now + TaskTTL,
              since |-> 0]]
     \/ /\ Become(q, "failed")
        /\ UNCHANGED chain
  /\ UNCHANGED <<now, sessions, stopUntil, latest, stopped>>

SendHeartbeat(q) == Send(q, "heartbeat", "inserted", "halfway")
SendTrack(q) == Send(q, "track", "halfway", "scheduled")

(* async_get_db commits once the handler has returned.                     *)
Commit(q) ==
  /\ start[q] = "scheduled"
  /\ sessions' = sessions \cup {SessionOf[q]}
  /\ Become(q, "started")
  /\ UNCHANGED <<now, cstate, stopUntil, stopped>>

(* The worker dies or the database fails: the row is rolled back.          *)
Abort(q) ==
  /\ start[q] \in Started
  /\ Become(q, "failed")
  /\ UNCHANGED <<now, sessions, cstate, stopUntil, stopped>>

Stop(s) ==
  /\ s \in sessions
  /\ stopUntil' = [stopUntil EXCEPT ![s] = now + StopTTL]
  /\ stopped' = [stopped EXCEPT ![s] = IF @ = Never THEN now ELSE @]
  /\ UNCHANGED <<now, sessions, start, cstate>>

(* The tasks --------------------------------------------------------------*)

(* The countdown has passed; at the horizon every countdown has.           *)
Due(c) == chain[c].at = "queued" /\ (chain[c].due <= now \/ now = Horizon)

(* Mutants: the stop key is not read; the expiry is not.                   *)
CheckExpiryOnly(c) ==
  /\ Due(c)
  /\ IF now > chain[c].expires
       THEN End(c)
       ELSE chain' = [chain EXCEPT ![c].at = "running", ![c].since = now]
  /\ UNCHANGED <<now, sessions, start, stopUntil, latest, stopped>>

CheckStopOnly(c) ==
  /\ Due(c)
  /\ IF now < stopUntil[Of(c)]
       THEN End(c)
       ELSE chain' = [chain EXCEPT ![c].at = "running", ![c].since = now]
  /\ UNCHANGED <<now, sessions, start, stopUntil, latest, stopped>>

(* The head of both tasks; expected_at is taken here.                      *)
Check(c) ==
  /\ Due(c)
  /\ IF now < stopUntil[Of(c)] \/ now > chain[c].expires
       THEN End(c)
       ELSE chain' = [chain EXCEPT ![c].at = "running", ![c].since = now]
  /\ UNCHANGED <<now, sessions, start, stopUntil, latest, stopped>>

(* Mutant: each run asks for a fresh minute.                               *)
DeliverRenewed(c) ==
  /\ chain[c].at = "running"
  /\ chain' = [chain EXCEPT ![c] = [NoChain EXCEPT
         !.at = "queued", !.due = now + 1, !.expires = now + TaskTTL + 1]]
  /\ UNCHANGED <<now, sessions, start, stopUntil, latest, stopped>>

(* Publish, record an event if the session has a row, and send the task    *)
(* again with the expiry it was given.  A heartbeat that cannot be         *)
(* published is recorded as late; a track that has no fuser or cannot be   *)
(* published, and a task the broker does not take, end here.               *)
Deliver(c) ==
  /\ chain[c].at = "running"
  /\ \E published, sent \in BOOLEAN :
       IF c[2] = "track" /\ ~(published /\ Fuser)
         THEN End(c) /\ UNCHANGED latest
         ELSE /\ latest' = IF Of(c) \in sessions /\ latest[Of(c)] < chain[c].since
                             THEN [latest EXCEPT ![Of(c)] = chain[c].since]
                             ELSE latest
              /\ IF sent
                   THEN chain' = [chain EXCEPT ![c].at = "queued",
                                   ![c].due = now + 1, ![c].since = 0]
                   ELSE End(c)
  /\ UNCHANGED <<now, sessions, start, stopUntil, stopped>>

(* A run that raises, or whose worker dies, sends nothing any more.        *)
Die(c) ==
  /\ chain[c].at = "running"
  /\ End(c)
  /\ UNCHANGED <<now, sessions, start, stopUntil, latest, stopped>>

(* Requests in progress end before the clock passes LastStart.             *)
Tick ==
  /\ now < Horizon
  /\ now = LastStart => \A q \in Start : start[q] \notin Started
  /\ now' = now + 1
  /\ UNCHANGED <<sessions, start, cstate, stopUntil, stopped>>

-----------------------------------------------------------------------------
Handler(q) ==
  Insert(q) \/ SendHeartbeat(q) \/ SendTrack(q) \/ Commit(q) \/ Abort(q)

Worker(c) == Check(c) \/ Deliver(c) \/ Die(c)

Next ==
  \/ \E q \in Start : Begin(q) \/ Handler(q)
  \/ \E s \in Session : Stop(s)
  \/ \E c \in Chain : Worker(c)
  \/ Tick

Spec == Init /\ [][Next]_vars

(* A handler runs on, Celery runs what is due, and time passes.            *)
Fairness ==
  /\ \A q \in Start : WF_vars(Handler(q))
  /\ \A c \in Chain : WF_vars(Worker(c))
  /\ WF_vars(Tick)

FairSpec == Spec /\ Fairness

-----------------------------------------------------------------------------
Time == 0..(Horizon + StopTTL)
ChainType == [at : {"none", "dead"} \cup Alive, due : Time, expires : Time,
              since : Time]

TypeOK ==
  /\ now \in 0..Horizon
  /\ sessions \subseteq Session
  /\ start \in [Start -> StartState]
  /\ chain \in [Chain -> ChainType]
  /\ \A c \in Chain : chain[c].at \in Alive => chain[c].expires <= now + TaskTTL
  /\ stopUntil \in [Session -> Time]
  /\ latest \in [Session -> Time \cup {Never}]
  /\ stopped \in [Session -> Time \cup {Never}]

(* A stop is final: no heartbeat and no track of a session is due after    *)
(* the session was stopped, though the stop key expires and nothing ever   *)
(* removes a task from the broker.  It rests on the two lifetimes in       *)
(* tasks/scheduler.py and on every task being sent before its session can  *)
(* be stopped.                                                             *)
StopIsFinal ==
  \A c \in Chain : LET s == Of(c) IN
    stopped[s] # Never =>
      /\ chain[c].at = "running" => chain[c].since <= stopped[s]
      /\ latest[s] <= stopped[s]

(* Of all the starts of one session exactly one is told it started, and    *)
(* only if both its tasks are with the broker: starts that race on the key *)
(* (services/surveillance_svc.py reads, then inserts) never both succeed.  *)
OneStartPerSession ==
  \A q, p \in Start :
    start[q] = "started" =>
      /\ SessionOf[q] \in sessions
      /\ \A k \in Kind : chain[<<q, k>>].at # "none"
      /\ SessionOf[p] = SessionOf[q] /\ p # q
           => start[p] \notin {"started"} \cup Holding

(* Every task set off ends, stopped or not, even that of a start that      *)
(* failed and left no session anybody could stop.                          *)
TasksEnd == \A c \in Chain : chain[c].at \in Alive ~> chain[c].at = "dead"


=============================================================================
