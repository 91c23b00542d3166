------------------------- MODULE Surveillance_proofs -------------------------
(***************************************************************************)
(* Proofs about surveillance: its sessions, for every set of sessions and  *)
(* starts and all lifetimes with TaskTTL < StopTTL; and the health of its  *)
(* sensors, for every number of sensors, updates and earlier records.      *)
(*                                                                         *)
(* A stop is final because every task of a stopped session was sent before *)
(* the stop (KeyHeld: once a session has a row no start of it can send     *)
(* anything), so it expires before the stop key does (StopBound).          *)
(*                                                                         *)
(* However updates overlap, the records of a sensor end in its status; the *)
(* health of the service that is told while at most one update commits is  *)
(* that of a moment; a notification that no other update of its sensor has *)
(* overtaken tells the change; and the metrics of a window, a walk over    *)
(* the records in it, are those of the history, instant by instant.        *)
(***************************************************************************)
EXTENDS SurveillanceSessions, SensorHealth, FoldLemmas

-----------------------------------------------------------------------------
(* SESSIONS.                                                               *)

(* The key of a session belongs to one open transaction or to its row.     *)
KeyHeld ==
  \A q \in Start : start[q] \in Holding =>
    /\ SessionOf[q] \notin sessions
    /\ \A p \in Start : SessionOf[p] = SessionOf[q] /\ start[p] \in Holding => p = q

(* A start sends its tasks in order, and its row is kept if it succeeds.   *)
SentInOrder ==
  \A q \in Start :
    /\ start[q] \in {"halfway", "scheduled", "started"}
         => chain[<<q, "heartbeat">>].at # "none"
    /\ start[q] \in {"scheduled", "started"} => chain[<<q, "track">>].at # "none"
    /\ start[q] = "started" => SessionOf[q] \in sessions

(* Two starts of a session never both succeed.                             *)
StartedOnce ==
  \A q, p \in Start : start[q] = "started" /\ start[p] = "started"
                        /\ SessionOf[p] = SessionOf[q] => p = q

(* Nothing is dated in the future.                                         *)
Past ==
  /\ \A c \in Chain : chain[c].at = "running" => chain[c].since <= now
  /\ \A s \in Session : latest[s] <= now

(* What a stop leaves behind expires before the stop key does.             *)
StopBound ==
  \A s \in Session : stopped[s] # Never =>
    /\ s \in sessions
    /\ stopped[s] <= now
    /\ stopped[s] + StopTTL <= stopUntil[s]
    /\ latest[s] <= stopped[s]
    /\ \A c \in Chain : Of(c) = s =>
         /\ chain[c].at \in Alive => chain[c].expires <= stopped[s] + TaskTTL
         /\ chain[c].at = "running" => chain[c].since <= stopped[s]

IInv == TypeOK /\ KeyHeld /\ SentInOrder /\ StartedOnce /\ Past /\ StopBound

-----------------------------------------------------------------------------
(* The constants are numbers, and every chain belongs to a session.        *)
LEMMA Constants ==
  /\ TaskTTL \in Nat /\ StopTTL \in Nat /\ TaskTTL < StopTTL
  /\ Horizon \in Nat /\ LastStart \in Nat
  /\ \A q \in Start : SessionOf[q] \in Session
  /\ \A c \in Chain : Of(c) \in Session
  /\ \A q \in Start, k \in Kind : <<q, k>> \in Chain /\ Of(<<q, k>>) = SessionOf[q]
  BY SurveillanceAssumption DEF Chain, Of

(* The times a state may hold.                                             *)
LEMMA TimeBounds ==
  ASSUME now \in 0..Horizon
  PROVE  /\ Time \subseteq Nat
         /\ 0 \in Time /\ now \in Time /\ now + 1 \in Time
         /\ now + TaskTTL \in Time /\ now + StopTTL \in Time
  BY Constants DEF Time

(* Initially nothing was sent, started or stopped.                         *)
LEMMA InitIInv == Init => IInv
<1> SUFFICES ASSUME Init PROVE IInv
  OBVIOUS
<1>0. now \in 0..Horizon
  BY Constants DEF Init
<1>1. TypeOK
  BY <1>0, TimeBounds, Constants
     DEF Init, TypeOK, ChainType, NoChain, Alive, StartState, Started, Holding, Never
<1>2. KeyHeld /\ SentInOrder /\ StartedOnce
  BY DEF Init, KeyHeld, SentInOrder, StartedOnce, Holding
<1>3. Past /\ StopBound
  BY Constants DEF Init, Past, StopBound, NoChain, Never
<1> QED BY <1>1, <1>2, <1>3 DEF IInv

-----------------------------------------------------------------------------
(* Sending one task of a start, whichever of the two.                      *)
LEMMA SendKeeps ==
  ASSUME IInv, NEW q \in Start, SendHeartbeat(q) \/ SendTrack(q)
  PROVE  IInv'
<1> USE DEF IInv
<1>1. PICK k \in Kind, from \in {"inserted", "halfway"}, to \in {"halfway", "scheduled"} :
        /\ Send(q, k, from, to)
        /\ k = "heartbeat" => from = "inserted" /\ to = "halfway"
        /\ k = "track" => from = "halfway" /\ to = "scheduled"
  BY DEF SendHeartbeat, SendTrack, Kind
<1> DEFINE c == <<q, k>>
           new == [at |-> "queued", due |-> now + 1, expires |-> now + TaskTTL,
                   since |-> 0]
<1>2. c \in Chain /\ start[q] \in Holding /\ Of(c) = SessionOf[q]
  BY <1>1, Constants DEF Send, Holding
<1>3. SessionOf[q] \notin sessions
  BY <1>2 DEF KeyHeld
<1>4. now' = now /\ sessions' = sessions /\ stopUntil' = stopUntil
      /\ latest' = latest /\ stopped' = stopped
  BY <1>1 DEF Send
<1>5. \/ start' = [start EXCEPT ![q] = to] /\ chain' = [chain EXCEPT ![c] = new]
      \/ start' = [start EXCEPT ![q] = "failed"] /\ chain' = chain
  BY <1>1, Zenon DEF Send, Become
<1>6. new \in ChainType /\ new.at = "queued" /\ new.expires = now + TaskTTL
  BY TimeBounds DEF TypeOK, ChainType, Alive
<1>7. TypeOK'
  <2>1. chain' \in [Chain -> ChainType]
    BY <1>5, <1>6 DEF TypeOK
  <2>2. start' \in [Start -> StartState]
    BY <1>5 DEF TypeOK, StartState, Started, Holding
  <2>3. \A x \in Chain : chain'[x].at \in Alive => chain'[x].expires <= now + TaskTTL
    BY <1>2, <1>5, <1>6, Constants DEF TypeOK
  <2> QED BY <1>4, <2>1, <2>2, <2>3 DEF TypeOK
<1>8. KeyHeld'
  BY <1>2, <1>4, <1>5 DEF KeyHeld, TypeOK, Holding
<1>9. SentInOrder'
  BY <1>1, <1>2, <1>4, <1>5, <1>6, Constants DEF SentInOrder, TypeOK, Send, Kind
<1>10. StartedOnce'
  BY <1>5 DEF StartedOnce, TypeOK
<1>11. Past'
  BY <1>2, <1>4, <1>5, <1>6 DEF Past, TypeOK
<1>12. StopBound'
  BY <1>2, <1>3, <1>4, <1>5 DEF StopBound, TypeOK
<1> QED BY <1>7, <1>8, <1>9, <1>10, <1>11, <1>12

(* Steps of a start that touch no task.                                    *)
LEMMA StartKeeps ==
  ASSUME IInv, NEW q \in Start, Begin(q) \/ Insert(q) \/ Commit(q) \/ Abort(q)
  PROVE  IInv'
<1> USE DEF IInv
<1>1. /\ chain' = chain /\ latest' = latest /\ now' = now
      /\ stopUntil' = stopUntil /\ stopped' = stopped
  BY DEF Begin, Insert, Commit, Abort, cstate
<1>2. /\ sessions \subseteq sessions' /\ sessions' \subseteq Session
      /\ start' \in [Start -> StartState]
      /\ \A p \in Start \ {q} : start'[p] = start[p]
  BY Constants
     DEF Begin, Insert, Commit, Abort, Become, TypeOK, StartState, Started, Holding
<1>3. TypeOK'
  BY <1>1, <1>2 DEF TypeOK
<1>4. KeyHeld'
  <2>1. CASE Insert(q)
    BY <2>1, <1>2 DEF Insert, Become, Locked, KeyHeld, Holding, TypeOK
  <2>2. CASE Commit(q)
    BY <2>2, <1>2 DEF Commit, Become, KeyHeld, Holding, TypeOK
  <2>3. CASE Begin(q) \/ Abort(q)
    BY <2>3, <1>2 DEF Begin, Abort, Become, KeyHeld, Holding, TypeOK
  <2> QED BY <2>1, <2>2, <2>3
<1>5. SentInOrder'
  BY <1>1, <1>2 DEF Begin, Insert, Commit, Abort, Become, SentInOrder, TypeOK
<1>6. StartedOnce'
  <2>1. CASE Commit(q)
    <3>1. \A p \in Start : start[p] = "started" => SessionOf[p] # SessionOf[q]
      BY <2>1 DEF Commit, KeyHeld, Holding, SentInOrder
    <3> QED BY <2>1, <3>1, <1>2 DEF Commit, Become, StartedOnce, TypeOK
  <2>2. CASE Begin(q) \/ Insert(q) \/ Abort(q)
    BY <2>2, <1>2 DEF Begin, Insert, Abort, Become, StartedOnce, TypeOK
  <2> QED BY <2>1, <2>2
<1>7. Past' /\ StopBound'
  BY <1>1, <1>2 DEF Past, StopBound
<1> QED BY <1>3, <1>4, <1>5, <1>6, <1>7

(* A stop finds every task of its session about to expire.                 *)
LEMMA StopKeeps ==
  ASSUME IInv, NEW s \in Session, Stop(s)
  PROVE  IInv'
<1> USE DEF IInv
<1>1. /\ now' = now /\ sessions' = sessions /\ start' = start /\ chain' = chain
      /\ latest' = latest /\ s \in sessions
      /\ stopUntil' = [stopUntil EXCEPT ![s] = now + StopTTL]
      /\ stopped' = [stopped EXCEPT ![s] = IF @ = Never THEN now ELSE @]
  BY DEF Stop, cstate
<1>2. TypeOK'
  BY <1>1, TimeBounds DEF TypeOK
<1>3. KeyHeld' /\ SentInOrder' /\ StartedOnce' /\ Past'
  BY <1>1 DEF KeyHeld, SentInOrder, StartedOnce, Past
<1>4. StopBound'
  <2> SUFFICES ASSUME NEW t \in Session, stopped'[t] # Never
               PROVE  /\ t \in sessions
                      /\ stopped'[t] <= now
                      /\ stopped'[t] + StopTTL <= stopUntil'[t]
                      /\ latest[t] <= stopped'[t]
                      /\ \A c \in Chain : Of(c) = t =>
                           /\ chain[c].at \in Alive
                                => chain[c].expires <= stopped'[t] + TaskTTL
                           /\ chain[c].at = "running" => chain[c].since <= stopped'[t]
    BY <1>1 DEF StopBound
  <2>1. CASE t = s /\ stopped[s] = Never
    <3>1. stopped'[t] = now /\ stopUntil'[t] = now + StopTTL /\ now \in Nat
      BY <1>1, <2>1 DEF TypeOK
    <3> QED BY <1>1, <2>1, <3>1, Constants DEF Past, TypeOK
  <2>2. CASE t # s
    BY <1>1, <2>2 DEF StopBound, TypeOK
  <2>3. CASE t = s /\ stopped[s] # Never
    <3>1. stopped'[t] = stopped[t] /\ stopUntil'[t] = now + StopTTL
      BY <1>1, <2>3 DEF TypeOK
    <3>2. stopped[t] \in Nat /\ now \in Nat /\ stopped[t] <= now
      BY <2>3, TimeBounds DEF StopBound, TypeOK
    <3> QED BY <1>1, <2>3, <3>1, <3>2, Constants DEF StopBound, TypeOK
  <2> QED BY <2>1, <2>2, <2>3
<1> QED BY <1>2, <1>3, <1>4

(* A task of a stopped session never passes its check: while the stop key  *)
(* lives it reads it, and when the key is gone the task has expired.       *)
LEMMA CheckStops ==
  ASSUME IInv, NEW c \in Chain, Check(c), stopped[Of(c)] # Never
  PROVE  chain' = [chain EXCEPT ![c] = Ended]
<1> USE DEF IInv, TypeOK
<1>1. /\ chain[c].expires \in Nat /\ stopped[Of(c)] \in Nat
      /\ stopUntil[Of(c)] \in Nat /\ now \in Nat
  BY Constants, TimeBounds DEF ChainType
<1>2. /\ chain[c].expires <= stopped[Of(c)] + TaskTTL
      /\ stopped[Of(c)] + StopTTL <= stopUntil[Of(c)]
  BY Constants DEF StopBound, Check, Due, Alive
<1>3. now < stopUntil[Of(c)] \/ now > chain[c].expires
  BY <1>1, <1>2, Constants
<1> QED BY <1>3 DEF Check, End

(* A step of one task keeps the invariant if what the task becomes is      *)
(* dated no later than before, and a stopped session gets nothing new.     *)
LEMMA TaskKeeps ==
  ASSUME IInv, NEW c \in Chain, NEW new \in ChainType,
         chain[c].at # "none", new.at # "none",
         chain' = [chain EXCEPT ![c] = new],
         latest' \in [Session -> Time \cup {Never}],
         UNCHANGED <<now, sessions, start, stopUntil, stopped>>,
         new.at \in Alive => new.expires <= now + TaskTTL,
         new.at = "running" => new.since <= now,
         \A s \in Session : latest'[s] <= now,
         \A s \in Session : stopped[s] # Never => latest'[s] <= stopped[s],
         stopped[Of(c)] # Never =>
           /\ new.at \in Alive => new.expires <= stopped[Of(c)] + TaskTTL
           /\ new.at = "running" => new.since <= stopped[Of(c)]
  PROVE  IInv'
<1> USE DEF IInv
<1>1. TypeOK'
  BY DEF TypeOK
<1>2. KeyHeld' /\ StartedOnce'
  BY DEF KeyHeld, StartedOnce
<1>3. SentInOrder'
  BY Constants DEF SentInOrder, TypeOK, Kind
<1>4. Past'
  BY DEF Past, TypeOK
<1>5. StopBound'
  BY DEF StopBound, TypeOK
<1> QED BY <1>1, <1>2, <1>3, <1>4, <1>5

(* Every step of a task keeps the invariant.                               *)
LEMMA WorkerKeeps ==
  ASSUME IInv, NEW c \in Chain, Worker(c)
  PROVE  IInv'
<1> USE DEF IInv
<1>0. /\ chain[c] \in ChainType /\ chain \in [Chain -> ChainType]
      /\ Of(c) \in Session
  BY Constants DEF TypeOK
<1>e. Ended \in ChainType /\ Ended.at = "dead"
  BY TimeBounds DEF Ended, NoChain, ChainType, TypeOK
<1>l. /\ latest \in [Session -> Time \cup {Never}]
      /\ \A s \in Session : latest[s] <= now
      /\ \A s \in Session : stopped[s] # Never => latest[s] <= stopped[s]
  BY DEF TypeOK, Past, StopBound
<1>1. ASSUME chain' = [chain EXCEPT ![c] = Ended], latest' = latest,
             chain[c].at # "none",
             UNCHANGED <<now, sessions, start, stopUntil, stopped>>
      PROVE  IInv'
  BY <1>1, <1>e, <1>l, TaskKeeps DEF Alive
<1>2. CASE Check(c)
  <2>1. UNCHANGED <<now, sessions, start, stopUntil, stopped>> /\ latest' = latest
        /\ chain[c].at = "queued"
    BY <1>2 DEF Check, Due
  <2>2. CASE chain' = [chain EXCEPT ![c] = Ended]
    BY <1>1, <2>1, <2>2
  <2>3. CASE chain' # [chain EXCEPT ![c] = Ended]
    <3> DEFINE new == [chain[c] EXCEPT !.at = "running", !.since = now]
    <3>1. chain' = [chain EXCEPT ![c] = new]
      BY <1>0, <1>2, <2>3 DEF Check, End
    <3>2. /\ new \in ChainType /\ new.at = "running" /\ new.since = now
          /\ new.expires = chain[c].expires /\ now <= now
      <4>1. now \in Time /\ now \in Nat
        BY TimeBounds DEF TypeOK
      <4>2. new \in ChainType
        BY <1>0, <4>1 DEF ChainType, Alive
      <4>3. new.at = "running" /\ new.since = now /\ new.expires = chain[c].expires
        BY <1>0 DEF ChainType
      <4> QED BY <4>1, <4>2, <4>3
    <3>3. stopped[Of(c)] = Never
      BY <1>2, <2>3, CheckStops
    <3>4. chain[c].expires <= now + TaskTTL
      BY <2>1 DEF TypeOK, Alive
    <3> HIDE DEF new
    <3> QED BY <1>l, <2>1, <3>1, <3>2, <3>3, <3>4, TaskKeeps
  <2> QED BY <2>2, <2>3
<1>3. CASE Deliver(c)
  <2>1. UNCHANGED <<now, sessions, start, stopUntil, stopped>> /\ chain[c].at = "running"
    BY <1>3 DEF Deliver
  <2>2. \/ latest' = latest
        \/ latest' = [latest EXCEPT ![Of(c)] = chain[c].since]
    BY <1>3 DEF Deliver
  <2>3. chain[c].since \in Time /\ chain[c].since <= now
        /\ (stopped[Of(c)] # Never => chain[c].since <= stopped[Of(c)])
    BY <1>0, <2>1 DEF ChainType, Past, StopBound
  <2>4. /\ latest' \in [Session -> Time \cup {Never}]
        /\ \A s \in Session : latest'[s] <= now
        /\ \A s \in Session : stopped[s] # Never => latest'[s] <= stopped[s]
    BY <1>0, <1>l, <2>2, <2>3
  <2>5. CASE chain' = [chain EXCEPT ![c] = Ended]
    BY <1>e, <2>1, <2>4, <2>5, TaskKeeps DEF Alive
  <2>6. CASE chain' # [chain EXCEPT ![c] = Ended]
    <3> DEFINE new == [chain[c] EXCEPT !.at = "queued", !.due = now + 1, !.since = 0]
    <3>1. chain' = [chain EXCEPT ![c] = new]
      BY <1>0, <1>3, <2>6 DEF Deliver, End
    <3>2. /\ new \in ChainType /\ new.at = "queued"
          /\ new.expires = chain[c].expires
      <4>1. 0 \in Time /\ now + 1 \in Time
        BY TimeBounds DEF TypeOK
      <4>2. new \in ChainType
        BY <1>0, <4>1 DEF ChainType, Alive
      <4>3. new.at = "queued" /\ new.expires = chain[c].expires
        BY <1>0 DEF ChainType
      <4> QED BY <4>2, <4>3
    <3>3. chain[c].expires <= now + TaskTTL
          /\ (stopped[Of(c)] # Never => chain[c].expires <= stopped[Of(c)] + TaskTTL)
      BY <1>0, <2>1 DEF TypeOK, StopBound, Alive
    <3> HIDE DEF new
    <3> QED BY <2>1, <2>4, <3>1, <3>2, <3>3, TaskKeeps
  <2> QED BY <2>5, <2>6
<1>4. CASE Die(c)
  BY <1>1, <1>4 DEF Die, End
<1> QED BY <1>2, <1>3, <1>4 DEF Worker

(* Time passes.                                                            *)
LEMMA TickKeeps == IInv /\ Tick => IInv'
<1> SUFFICES ASSUME IInv, Tick PROVE IInv'
  OBVIOUS
<1> USE DEF IInv
<1>1. /\ now' = now + 1 /\ now \in Nat /\ now + 1 \in 0..Horizon
      /\ UNCHANGED <<sessions, start, chain, latest, stopUntil, stopped>>
  BY Constants DEF Tick, TypeOK, cstate
<1>n. \A c \in Chain : chain[c].expires \in Nat /\ chain[c].since \in Nat
  BY TimeBounds DEF TypeOK, ChainType
<1>2. TypeOK'
  BY <1>1, <1>n, Constants DEF TypeOK
<1>3. KeyHeld' /\ SentInOrder' /\ StartedOnce'
  BY <1>1 DEF KeyHeld, SentInOrder, StartedOnce
<1>4. Past'
  <2>1. \A s \in Session : latest[s] \in Int
    BY TimeBounds DEF TypeOK, Never
  <2> QED BY <1>1, <1>n, <2>1 DEF Past
<1>5. StopBound'
  <2>1. \A s \in Session : stopped[s] \in Int
    BY TimeBounds DEF TypeOK, Never
  <2> QED BY <1>1, <2>1 DEF StopBound
<1> QED BY <1>2, <1>3, <1>4, <1>5

LEMMA NextIInv == IInv /\ [Next]_vars => IInv'
<1> SUFFICES ASSUME IInv, [Next]_vars PROVE IInv'
  OBVIOUS
<1>1. CASE UNCHANGED vars
  BY <1>1
     DEF vars, cstate, IInv, TypeOK, KeyHeld, SentInOrder, StartedOnce, Past, StopBound
<1> QED
  BY <1>1, SendKeeps, StartKeeps, StopKeeps, WorkerKeeps, TickKeeps DEF Next, Handler

(* IInv holds throughout.                                                  *)
LEMMA Inductive == Spec => []IInv
  BY InitIInv, NextIInv, PTL DEF Spec

(* Every reachable state is well typed.                                    *)
THEOREM TypeCorrect == Spec => []TypeOK
<1>1. IInv => TypeOK
  BY DEF IInv
<1> QED BY <1>1, Inductive, PTL

(* No task of a stopped session passes its check again, however late the   *)
(* broker delivers it and however often it is sent again.                  *)
THEOREM StopFinal == Spec => []StopIsFinal
<1>1. IInv => StopIsFinal
  BY Constants DEF IInv, StopBound, StopIsFinal
<1> QED BY <1>1, Inductive, PTL

(* However starts of one session race, at most one succeeds, and it has    *)
(* sent both its tasks.                                                    *)
THEOREM StartOnce == Spec => []OneStartPerSession
<1>1. IInv => OneStartPerSession
  <2> SUFFICES ASSUME IInv, NEW q \in Start, NEW p \in Start, start[q] = "started"
               PROVE  /\ SessionOf[q] \in sessions
                      /\ \A k \in Kind : chain[<<q, k>>].at # "none"
                      /\ SessionOf[p] = SessionOf[q] /\ p # q
                           => start[p] \notin {"started"} \cup Holding
    BY DEF OneStartPerSession
  <2>1. SessionOf[q] \in sessions /\ \A k \in Kind : chain[<<q, k>>].at # "none"
    BY DEF IInv, SentInOrder, Kind
  <2>2. SessionOf[p] = SessionOf[q] /\ p # q => start[p] # "started"
    BY DEF IInv, StartedOnce
  <2>3. SessionOf[p] = SessionOf[q] => start[p] \notin Holding
    BY <2>1 DEF IInv, KeyHeld
  <2> QED BY <2>1, <2>2, <2>3
<1> QED BY <1>1, Inductive, PTL

-----------------------------------------------------------------------------
(* HEALTH.                                                                 *)

(* The committed rows: records and notifications carry past times, and the *)
(* last record has the status of the sensor.                               *)
Recorded(s) ==
  /\ history[s] \in Seq(Record)
  /\ \A k \in 1..Len(history[s]) : history[s][k].at <= clock
  /\ health[s] = StatusOf(history[s])

Noticed(s) ==
  /\ IsFiniteSet(notices[s])
  /\ \A n \in notices[s] : n.at \in Nat /\ n.at <= clock

RowsInv ==
  /\ clock \in Nat
  /\ DOMAIN health = Sensor /\ DOMAIN history = Sensor /\ DOMAIN notices = Sensor
  /\ \A s \in Sensor : Recorded(s) /\ Noticed(s)

(* What an update has read and stamped.  While it holds the row of its     *)
(* sensor its record is later than all the others, and no other update     *)
(* holds it.                                                               *)
Reading(u) ==
  update[u].at \in {"read", "noted"} =>
    /\ update[u].new \in Status /\ update[u].recovery \in Recovery
Flushed(u) ==
  update[u].at = "flushed" =>
    /\ update[u].row \in Record /\ update[u].row.at <= clock
    /\ \A k \in 1..Len(history[update[u].sensor]) :
         history[update[u].sensor][k].at < update[u].row.at
    /\ \A v \in Update \ {u} :
         update[v].at = "flushed" => update[v].sensor # update[u].sensor

(* As long as no other update of the sensor has committed since it was     *)
(* read, what was read stands and the notification is the newest.          *)
Reported(u) == IF update[u].at = "flushed" THEN update[u].row.status ELSE update[u].new
Current(u) ==
  LET s == update[u].sensor
  IN  update[u].since = Len(history[s]) =>
        /\ update[u].was = IF health[s] = "none" THEN Reported(u) ELSE health[s]
        /\ update[u].at \in {"noted", "flushed"} =>
             \A n \in notices[s] : n.at < update[u].noted

UpdateOK(u) ==
  /\ update[u].at \in {"read", "noted", "flushed"} =>
       /\ update[u].sensor \in Sensor
       /\ update[u].since \in Nat /\ update[u].since <= Len(history[update[u].sensor])
       /\ Current(u)
  /\ update[u].at \in {"noted", "flushed"} => update[u].noted \in Nat /\ update[u].noted <= clock
  /\ Reading(u) /\ Flushed(u)

UpdatesInv ==
  /\ DOMAIN update = Update
  /\ \A u \in Update : UpdateOK(u)

(* What a probe has seen is what one of its moments showed of the sensors  *)
(* it has asked, and that moment agrees with the rows on those it has not. *)
Seen(h, s) == {h[x] : x \in s} \ {"none"}
ProbeInv ==
  /\ probe.at = "reading" =>
       /\ {"at", "todo", "seen", "commits", "moments"} = DOMAIN probe
       /\ probe.commits \in Nat /\ probe.todo \subseteq Sensor
       /\ health \in probe.moments
       /\ probe.commits = 0 => probe.seen = Seen(health, Sensor \ probe.todo)
       /\ probe.commits = 1 =>
            \E h \in probe.moments :
              /\ probe.seen = Seen(h, Sensor \ probe.todo)
              /\ \A s \in probe.todo : h[s] = health[s]
  /\ HealthOfAMoment
  /\ probe.at = "answered" => probe.commits \in Nat

HealthInv == RowsInv /\ UpdatesInv /\ ProbeInv

-----------------------------------------------------------------------------
(* The rows and the updates.                                               *)

(* A record later than all the others goes to the end.                     *)
LEMMA PlacedLast ==
  ASSUME NEW h \in Seq(Record), NEW row \in Record, \A k \in 1..Len(h) : h[k].at < row.at
  PROVE  /\ Placed(h, row) \in Seq(Record) /\ Len(Placed(h, row)) = Len(h) + 1
         /\ Placed(h, row)[Len(h) + 1] = row
         /\ \A k \in 1..Len(h) : Placed(h, row)[k] = h[k]
<1> DEFINE n == Len(h)
           Place(p) == /\ \A k \in 1..(p - 1) : h[k].at < row.at
                       /\ \A k \in p..Len(h) : row.at < h[k].at
           at == CHOOSE p \in 1..(n + 1) : Place(p)
           placed == [k \in 1..(n + 1) |-> IF k < n + 1 THEN h[k] ELSE row]
<1>1. n \in Nat /\ row.at \in Nat /\ \A k \in 1..n : h[k] \in Record /\ h[k].at \in Nat
  <2>1. \A r \in Record : r.at \in Nat
    BY DEF Record
  <2>2. n \in Nat /\ \A k \in 1..n : h[k] \in Record
    OBVIOUS
  <2> QED
    BY <2>1, <2>2
<1>2. at = n + 1
  <2>1. n + 1 \in 1..(n + 1) /\ Place(n + 1)
    BY <1>1
  <2>2. \A p \in 1..(n + 1) : Place(p) => p = n + 1
    BY <1>1
  <2> HIDE DEF Place
  <2> QED
    BY <2>1, <2>2
<1>3. Placed(h, row) = [k \in 1..(n + 1) |-> IF k < at THEN h[k] ELSE IF k = at THEN row ELSE h[k - 1]]
  BY DEF Placed
<1>4. Placed(h, row) = placed
  <2> HIDE DEF at
  <2> QED
    BY <1>1, <1>2, <1>3
<1>5. placed \in [1..(n + 1) -> Record]
  BY <1>1
<1>6. placed \in Seq(Record) /\ Len(placed) = n + 1
  BY <1>1, <1>5
<1> QED
  BY <1>1, <1>4, <1>6

(* Every step but a commit leaves the rows as they are, and time goes on.  *)

LEMMA RowsStay ==
  ASSUME HealthInv, [HealthNext]_healthVars
  PROVE  \/ \E u \in Update : CommitUpdate(u)
         \/ UNCHANGED <<health, history, notices>> /\ clock' \in Nat /\ clock' >= clock
<1>1. clock \in Nat
  BY DEF HealthInv, RowsInv
<1>2. ASSUME NEW u \in Update, NEW s \in Sensor, NEW r \in Reports, ReadRecord(u, s, r[1], r[2])
      PROVE  UNCHANGED <<health, history, notices, clock>>
  BY <1>2 DEF ReadRecord
<1>3. ASSUME NEW u \in Update, InsertNotice(u) \/ WriteRecord(u) \/ AbortUpdate(u)
      PROVE  UNCHANGED <<health, history, notices>> /\ clock' \in {clock, clock + 1}
  BY <1>3 DEF InsertNotice, WriteRecord, AbortUpdate
<1>4. StartProbe \/ AnswerProbe \/ (\E s \in Sensor : ReadSensor(s)) \/ UNCHANGED healthVars
        => UNCHANGED <<health, history, notices, clock>>
  BY DEF StartProbe, AnswerProbe, ReadSensor, healthVars
<1>5. UNCHANGED clock \/ clock' \in {clock, clock + 1} => clock' \in Nat /\ clock' >= clock
  BY <1>1
<1> QED
  BY <1>2, <1>3, <1>4, <1>5 DEF HealthNext, Step

(* What a commit of update u does to the rows: n is the notification.      *)
Committed(u, s, row, n) ==
  /\ update[u].at = "flushed"
  /\ s = update[u].sensor /\ row = update[u].row
  /\ n.at = update[u].noted /\ n.was = update[u].was /\ n.now = row.status
  /\ row.at <= clock
  /\ health' = [health EXCEPT ![s] = row.status]
  /\ DOMAIN history' = Sensor /\ DOMAIN notices' = Sensor
  /\ \A x \in Sensor \ {s} : history'[x] = history[x] /\ notices'[x] = notices[x]
  /\ history'[s] \in Seq(Record) /\ Len(history'[s]) = Len(history[s]) + 1
  /\ history'[s][Len(history[s]) + 1] = row
  /\ \A k \in 1..Len(history[s]) : history'[s][k] = history[s][k]
  /\ notices'[s] = notices[s] \cup {n}
  /\ n.at \in Nat /\ n.at <= clock
  /\ update' = [update EXCEPT ![u] = [at |-> "done"]] /\ clock' = clock

LEMMA CommitRows ==
  ASSUME HealthInv, NEW u \in Update, CommitUpdate(u)
  PROVE  \E s \in Sensor, row \in Record : \E n : Committed(u, s, row, n)
<1> DEFINE s == update[u].sensor
           row == update[u].row
           n == [at |-> update[u].noted, was |-> update[u].was, now |-> row.status]
<1>1. /\ update[u].at = "flushed"
      /\ health' = [health EXCEPT ![s] = row.status]
      /\ history' = [history EXCEPT ![s] = Placed(history[s], row)]
      /\ notices' = [notices EXCEPT ![s] = notices[s] \cup {n}]
      /\ update' = [update EXCEPT ![u] = [at |-> "done"]] /\ clock' = clock
  BY DEF CommitUpdate
<1>2. UpdateOK(u) /\ RowsInv
  BY DEF HealthInv, UpdatesInv
<1>3. /\ s \in Sensor /\ row \in Record /\ row.at <= clock
      /\ \A k \in 1..Len(history[s]) : history[s][k].at < row.at
      /\ update[u].noted \in Nat /\ update[u].noted <= clock
  BY <1>1, <1>2 DEF UpdateOK, Flushed
<1>4. history[s] \in Seq(Record) /\ DOMAIN history = Sensor /\ DOMAIN notices = Sensor
  BY <1>2, <1>3 DEF RowsInv, Recorded
<1>5. n.at = update[u].noted /\ n.was = update[u].was /\ n.now = row.status
  OBVIOUS
<1> HIDE DEF s, row, n
<1>6. history'[s] = Placed(history[s], row) /\ notices'[s] = notices[s] \cup {n}
  BY <1>1, <1>3, <1>4
<1>7. /\ DOMAIN history' = Sensor /\ DOMAIN notices' = Sensor
      /\ \A x \in Sensor \ {s} : history'[x] = history[x] /\ notices'[x] = notices[x]
  BY <1>1, <1>3, <1>4
<1>8. /\ history'[s] \in Seq(Record) /\ Len(history'[s]) = Len(history[s]) + 1
      /\ history'[s][Len(history[s]) + 1] = row
      /\ \A k \in 1..Len(history[s]) : history'[s][k] = history[s][k]
  BY <1>3, <1>4, <1>6, PlacedLast
<1>9. /\ s \in Sensor /\ row \in Record /\ row.at <= clock
      /\ health' = [health EXCEPT ![s] = row.status]
      /\ n.at \in Nat /\ n.at <= clock
      /\ update' = [update EXCEPT ![u] = [at |-> "done"]] /\ clock' = clock
  BY <1>1, <1>3, <1>5
<1> QED
  BY <1>1, <1>3, <1>5, <1>6, <1>7, <1>8, <1>9 DEF s, row, Committed

LEMMA RowsNext ==
  ASSUME HealthInv, [HealthNext]_healthVars
  PROVE  RowsInv'
<1>1. RowsInv
  BY DEF HealthInv
<1>2. ASSUME UNCHANGED <<health, history, notices>>, clock' \in Nat, clock' >= clock
      PROVE  RowsInv'
  <2>1. ASSUME NEW s \in Sensor
        PROVE  Recorded(s)' /\ Noticed(s)'
    <3>1. Recorded(s) /\ Noticed(s) /\ clock \in Nat
      BY <1>1 DEF RowsInv
    <3>2. \A k \in 1..Len(history[s]) : history[s][k].at <= clock'
      <4>1. \A r \in Record : r.at \in Nat
        BY DEF Record
      <4>2. \A k \in 1..Len(history[s]) : history[s][k] \in Record /\ history[s][k].at <= clock
        BY <3>1 DEF Recorded
      <4> QED
        BY <1>2, <3>1, <4>1, <4>2
    <3>3. \A n \in notices[s] : n.at \in Nat /\ n.at <= clock'
      BY <1>2, <3>1 DEF Noticed
    <3> QED
      BY <1>2, <3>1, <3>2, <3>3 DEF Recorded, Noticed, StatusOf
  <2> QED
    BY <1>1, <1>2, <2>1 DEF RowsInv
<1>3. ASSUME NEW u \in Update, CommitUpdate(u)
      PROVE  RowsInv'
  <2>00. PICK s \in Sensor, row \in Record : \E n : Committed(u, s, row, n)
    BY <1>3, CommitRows
  <2>0. PICK n : Committed(u, s, row, n)
    BY <2>00
  <2>1. /\ row.at <= clock
        /\ health' = [health EXCEPT ![s] = row.status]
        /\ DOMAIN history' = Sensor /\ DOMAIN notices' = Sensor
        /\ \A x \in Sensor \ {s} : history'[x] = history[x] /\ notices'[x] = notices[x]
        /\ history'[s] \in Seq(Record) /\ Len(history'[s]) = Len(history[s]) + 1
        /\ history'[s][Len(history[s]) + 1] = row
        /\ \A k \in 1..Len(history[s]) : history'[s][k] = history[s][k]
        /\ notices'[s] = notices[s] \cup {n}
        /\ n.at \in Nat /\ n.at <= clock
        /\ clock' = clock
    BY <2>0 DEF Committed
  <2>2. DOMAIN health' = Sensor /\ health'[s] = row.status /\ clock \in Nat
        /\ \A x \in Sensor \ {s} : health'[x] = health[x]
    BY <1>1, <2>1 DEF RowsInv
  <2>3. Recorded(s) /\ Noticed(s) /\ Len(history[s]) \in Nat
    BY <1>1, <2>1 DEF RowsInv, Recorded
  <2>4. Recorded(s)'
    <3>1. health'[s] = StatusOf(history'[s])
      <4>1. history'[s] # <<>>
        BY <2>1, <2>3
      <4> QED
        BY <2>1, <2>2, <4>1 DEF StatusOf
    <3>2. \A k \in 1..Len(history'[s]) : history'[s][k].at <= clock'
      BY <2>1, <2>2, <2>3 DEF Recorded
    <3> QED
      BY <2>1, <3>1, <3>2 DEF Recorded
  <2>5. Noticed(s)'
    <3>1. IsFiniteSet(notices'[s])
      BY <2>1, <2>3, FS_AddElement DEF Noticed
    <3> QED
      BY <2>1, <2>3, <3>1 DEF Noticed
  <2>6. ASSUME NEW x \in Sensor \ {s}
        PROVE  Recorded(x)' /\ Noticed(x)'
    BY <1>1, <2>1, <2>2, <2>6 DEF RowsInv, Recorded, Noticed
  <2> QED
    BY <2>1, <2>2, <2>4, <2>5, <2>6 DEF RowsInv
<1> QED
  BY <1>2, <1>3, RowsStay

(* What a step does to an update it is not about: nothing, unless it       *)
(* commits another of the same sensor, which outdates what was read.       *)
LEMMA StaysOK ==
  ASSUME RowsInv, NEW u \in Update, UpdateOK(u), update'[u] = update[u],
         UNCHANGED <<health, history, notices>>, clock' \in Nat, clock' >= clock,
         update[u].at = "flushed" => \A v \in Update \ {u} :
           update'[v].at = "flushed" => update'[v].sensor # update[u].sensor
  PROVE  UpdateOK(u)'
<1>1. clock \in Nat
  BY DEF RowsInv
<1>2. Reading(u)'
  BY DEF UpdateOK, Reading
<1>3. Flushed(u)'
  <2>1. \A r \in Record : r.at \in Nat
    BY DEF Record
  <2> QED
    BY <1>1, <2>1 DEF UpdateOK, Flushed
<1>4. Current(u) => Current(u)'
  BY DEF Current, Reported
<1> QED
  BY <1>1, <1>2, <1>3, <1>4 DEF UpdateOK

LEMMA ReadOK ==
  ASSUME RowsInv, UpdatesInv, NEW u \in Update, NEW s \in Sensor, NEW r \in Reports,
         ReadRecord(u, s, r[1], r[2])
  PROVE  UpdatesInv'
<1>1. /\ update' = [update EXCEPT ![u] =
           [at |-> "read", sensor |-> s, new |-> r[1], recovery |-> r[2],
            first |-> health[s] = "none", since |-> Len(history[s]),
            was |-> IF health[s] = "none" THEN r[1] ELSE health[s]]]
      /\ UNCHANGED <<health, history, notices, clock>>
  BY DEF ReadRecord
<1>2. /\ clock \in Nat /\ DOMAIN update = Update /\ Len(history[s]) \in Nat
      /\ r[1] \in Status /\ r[2] \in Recovery
  BY SensorHealthAssumption DEF RowsInv, Recorded, UpdatesInv
<1>3. /\ update'[u].at = "read" /\ update'[u].sensor = s /\ update'[u].new = r[1]
      /\ update'[u].recovery = r[2] /\ update'[u].since = Len(history[s])
      /\ update'[u].was = IF health[s] = "none" THEN r[1] ELSE health[s]
      /\ \A v \in Update \ {u} : update'[v] = update[v]
      /\ DOMAIN update' = Update
  <2> DEFINE first == health[s] = "none"
             was == IF health[s] = "none" THEN r[1] ELSE health[s]
  <2>1. update' = [update EXCEPT ![u] =
           [at |-> "read", sensor |-> s, new |-> r[1], recovery |-> r[2],
            first |-> first, since |-> Len(history[s]), was |-> was]]
    BY <1>1
  <2> HIDE DEF first, was
  <2>2. update'[u].was = was
    BY <1>2, <2>1
  <2>3. /\ update'[u].at = "read" /\ update'[u].sensor = s /\ update'[u].new = r[1]
        /\ update'[u].recovery = r[2] /\ update'[u].since = Len(history[s])
        /\ \A v \in Update \ {u} : update'[v] = update[v]
        /\ DOMAIN update' = Update
    BY <1>2, <2>1
  <2> QED
    BY <2>2, <2>3 DEF was
<1>4. UpdateOK(u)'
  BY <1>1, <1>2, <1>3 DEF UpdateOK, Reading, Flushed, Current, Reported
<1>5. ASSUME NEW v \in Update \ {u}
      PROVE  UpdateOK(v)'
  <2>1. ASSUME update[v].at = "flushed", NEW w \in Update \ {v}, update'[w].at = "flushed"
        PROVE  update'[w].sensor # update[v].sensor
    BY <1>3, <2>1 DEF UpdatesInv, UpdateOK, Flushed
  <2> QED
    BY <1>1, <1>2, <1>3, <2>1, StaysOK DEF UpdatesInv
<1> QED
  BY <1>3, <1>4, <1>5 DEF UpdatesInv

LEMMA NoticeOK ==
  ASSUME RowsInv, UpdatesInv, NEW u \in Update, InsertNotice(u)
  PROVE  UpdatesInv'
<1>1. /\ update[u].at = "read" /\ clock' = clock + 1
      /\ update' = [update EXCEPT ![u] =
           [at |-> "noted", sensor |-> update[u].sensor, new |-> update[u].new,
            first |-> update[u].first, since |-> update[u].since,
            recovery |-> update[u].recovery, was |-> update[u].was, noted |-> clock']]
      /\ UNCHANGED <<health, history, notices>>
  BY DEF InsertNotice
<1>2. clock \in Nat /\ DOMAIN update = Update /\ UpdateOK(u)
  BY DEF RowsInv, UpdatesInv
<1>3. /\ update'[u].at = "noted" /\ update'[u].sensor = update[u].sensor
      /\ update'[u].new = update[u].new /\ update'[u].recovery = update[u].recovery
      /\ update'[u].since = update[u].since /\ update'[u].was = update[u].was
      /\ update'[u].noted = clock'
      /\ \A v \in Update \ {u} : update'[v] = update[v]
      /\ DOMAIN update' = Update
  BY <1>1, <1>2
<1>4. UpdateOK(u)'
  <2>1. update[u].sensor \in Sensor /\ Current(u)
    BY <1>1, <1>2 DEF UpdateOK
  <2>2. \A n \in notices[update[u].sensor] : n.at < clock'
    BY <1>1, <1>2, <2>1 DEF RowsInv, Noticed
  <2>3. Current(u)'
    BY <1>1, <1>3, <2>1, <2>2 DEF Current, Reported
  <2> QED
    BY <1>1, <1>2, <1>3, <2>3 DEF UpdateOK, Reading, Flushed
<1>5. ASSUME NEW v \in Update \ {u}
      PROVE  UpdateOK(v)'
  <2>1. ASSUME update[v].at = "flushed", NEW w \in Update \ {v}, update'[w].at = "flushed"
        PROVE  update'[w].sensor # update[v].sensor
    BY <1>3, <2>1 DEF UpdatesInv, UpdateOK, Flushed
  <2> QED
    BY <1>1, <1>2, <1>3, <2>1, StaysOK DEF UpdatesInv
<1> QED
  BY <1>3, <1>4, <1>5 DEF UpdatesInv

(* An update that gives up, or that finds the record it was to insert.     *)
LEMMA DoneOK ==
  ASSUME RowsInv, UpdatesInv, NEW u \in Update, UNCHANGED <<health, history, notices, clock>>,
         update' = [update EXCEPT ![u] = [at |-> "done"]]
  PROVE  UpdatesInv'
<1>1. clock \in Nat /\ DOMAIN update = Update
  BY DEF RowsInv, UpdatesInv
<1>2. /\ update'[u].at = "done" /\ DOMAIN update' = Update
      /\ \A v \in Update \ {u} : update'[v] = update[v]
  BY <1>1
<1>3. UpdateOK(u)'
  BY <1>2 DEF UpdateOK, Reading, Flushed
<1>4. ASSUME NEW v \in Update \ {u}
      PROVE  UpdateOK(v)'
  <2>1. ASSUME update[v].at = "flushed", NEW w \in Update \ {v}, update'[w].at = "flushed"
        PROVE  update'[w].sensor # update[v].sensor
    BY <1>2, <2>1 DEF UpdatesInv, UpdateOK, Flushed
  <2> QED
    BY <1>1, <1>2, <2>1, StaysOK DEF UpdatesInv
<1> QED
  BY <1>2, <1>3, <1>4 DEF UpdatesInv

(* An update that writes the record: nobody else holds the row, and the    *)
(* time it stamps is later than any the sensor has.                        *)
LEMMA WriteOK ==
  ASSUME RowsInv, UpdatesInv, NEW u \in Update, WriteRecord(u)
  PROVE  UpdatesInv'
<1>1. /\ update[u].at = "noted" /\ ~Held(update[u].sensor)
      /\ UNCHANGED <<health, history, notices>>
      /\ \/ clock' = clock /\ update' = [update EXCEPT ![u] = [at |-> "done"]]
         \/ /\ clock' = clock + 1
            /\ update' = [update EXCEPT ![u] =
                 [at |-> "flushed", sensor |-> update[u].sensor, was |-> update[u].was,
                  noted |-> update[u].noted, since |-> update[u].since,
                  row |-> [status |-> update[u].new, recovery |-> update[u].recovery,
                           at |-> clock']]]
  BY DEF WriteRecord
<1>2. clock \in Nat /\ DOMAIN update = Update /\ UpdateOK(u)
  BY DEF RowsInv, UpdatesInv
<1>3. CASE clock' = clock /\ update' = [update EXCEPT ![u] = [at |-> "done"]]
  BY <1>1, <1>3, DoneOK
<1>4. ASSUME clock' = clock + 1, NEW row,
             row = [status |-> update[u].new, recovery |-> update[u].recovery, at |-> clock'],
             update' = [update EXCEPT ![u] =
               [at |-> "flushed", sensor |-> update[u].sensor, was |-> update[u].was,
                noted |-> update[u].noted, since |-> update[u].since, row |-> row]]
      PROVE  UpdatesInv'
  <2>1. /\ update'[u].at = "flushed" /\ update'[u].sensor = update[u].sensor
        /\ update'[u].was = update[u].was /\ update'[u].noted = update[u].noted
        /\ update'[u].since = update[u].since /\ update'[u].row = row
        /\ \A v \in Update \ {u} : update'[v] = update[v]
        /\ DOMAIN update' = Update
    BY <1>2, <1>4
  <2>2. /\ update[u].sensor \in Sensor /\ Current(u) /\ Reading(u)
        /\ update[u].since \in Nat /\ update[u].since <= Len(history[update[u].sensor])
        /\ update[u].noted \in Nat /\ update[u].noted <= clock
    BY <1>1, <1>2 DEF UpdateOK
  <2>3. row \in Record /\ row.at = clock' /\ row.status = update[u].new
    BY <1>1, <1>2, <1>4, <2>2 DEF Reading, Record
  <2>4. \A k \in 1..Len(history[update[u].sensor]) : history[update[u].sensor][k].at < row.at
    <3>1. \A r \in Record : r.at \in Nat
      BY DEF Record
    <3>2. Recorded(update[u].sensor)
      BY <2>2 DEF RowsInv
    <3> QED
      BY <1>2, <1>4, <2>3, <3>1, <3>2 DEF Recorded
  <2>5. \A v \in Update \ {u} : update'[v].at = "flushed" => update'[v].sensor # update[u].sensor
    BY <1>1, <2>1 DEF Held
  <2>6. UpdateOK(u)'
    <3>1. Flushed(u)'
      BY <1>1, <1>2, <1>4, <2>1, <2>3, <2>4, <2>5 DEF Flushed
    <3>2. Current(u)'
      BY <1>1, <2>1, <2>2, <2>3 DEF Current, Reported
    <3> QED
      BY <1>1, <1>2, <1>4, <2>1, <2>2, <3>1, <3>2 DEF UpdateOK, Reading
  <2>7. ASSUME NEW v \in Update \ {u}
        PROVE  UpdateOK(v)'
    <3>1. ASSUME update[v].at = "flushed", NEW w \in Update \ {v}, update'[w].at = "flushed"
          PROVE  update'[w].sensor # update[v].sensor
      <4>1. CASE w = u
        BY <2>1, <2>5, <3>1, <4>1
      <4>2. CASE w # u
        BY <2>1, <3>1, <4>2 DEF UpdatesInv, UpdateOK, Flushed
      <4> QED
        BY <4>1, <4>2
    <3> QED
      BY <1>1, <1>2, <1>4, <2>1, <3>1, StaysOK DEF UpdatesInv
  <2> QED
    BY <2>1, <2>6, <2>7 DEF UpdatesInv
<1> QED
  BY <1>1, <1>3, <1>4

LEMMA CommitOK ==
  ASSUME HealthInv, NEW u \in Update, CommitUpdate(u)
  PROVE  UpdatesInv'
<1>00. PICK s \in Sensor, row \in Record : \E n : Committed(u, s, row, n)
  BY CommitRows
<1>0. PICK n : Committed(u, s, row, n)
  BY <1>00
<1>1. /\ update[u].at = "flushed" /\ s = update[u].sensor
      /\ health' = [health EXCEPT ![s] = row.status]
      /\ \A x \in Sensor \ {s} : history'[x] = history[x] /\ notices'[x] = notices[x]
      /\ Len(history'[s]) = Len(history[s]) + 1
      /\ update' = [update EXCEPT ![u] = [at |-> "done"]] /\ clock' = clock
  BY <1>0 DEF Committed
<1>2. /\ RowsInv /\ UpdatesInv /\ DOMAIN update = Update /\ DOMAIN health = Sensor
      /\ \A x \in Sensor : history[x] \in Seq(Record)
  BY DEF HealthInv, UpdatesInv, RowsInv, Recorded
<1>3. /\ update'[u].at = "done" /\ DOMAIN update' = Update
      /\ \A v \in Update \ {u} : update'[v] = update[v]
  BY <1>1, <1>2
<1>4. UpdateOK(u)'
  BY <1>3 DEF UpdateOK, Reading, Flushed
<1>5. ASSUME NEW v \in Update \ {u}
      PROVE  UpdateOK(v)'
  <2>1. UpdateOK(v) /\ UpdateOK(u) /\ update'[v] = update[v]
    BY <1>2, <1>3 DEF UpdatesInv
  <2>2. CASE update[v].at \in {"read", "noted", "flushed"} /\ update[v].sensor = s
    <3>1. update[v].at # "flushed"
      BY <1>1, <2>1, <2>2 DEF UpdateOK, Flushed
    <3>2. /\ update[v].since \in Nat /\ update[v].since <= Len(history[s])
          /\ Len(history[s]) \in Nat
      BY <1>2, <2>1, <2>2 DEF UpdateOK
    <3>3. Current(v)'
      BY <1>1, <2>1, <2>2, <3>2 DEF Current
    <3> QED
      BY <1>1, <2>1, <2>2, <3>1, <3>2, <3>3 DEF UpdateOK, Reading, Flushed
  <2>3. CASE update[v].at \in {"read", "noted", "flushed"} /\ update[v].sensor # s
    <3> DEFINE x == update[v].sensor
    <3>1. x \in Sensor \ {s}
      BY <2>1, <2>3 DEF UpdateOK
    <3>2. history'[x] = history[x] /\ notices'[x] = notices[x] /\ health'[x] = health[x]
      BY <1>1, <1>2, <3>1
    <3>3. Current(v)'
      BY <2>1, <2>3, <3>2 DEF UpdateOK, Current, Reported
    <3>4. Flushed(v)'
      <4>1. \A w \in Update : update'[w] = update[w] \/ update'[w].at # "flushed"
        BY <1>3
      <4> QED
        BY <1>1, <2>1, <3>2, <4>1 DEF UpdateOK, Flushed
    <3> QED
      BY <1>1, <2>1, <3>1, <3>2, <3>3, <3>4 DEF UpdateOK, Reading
  <2>4. CASE update[v].at \notin {"read", "noted", "flushed"}
    BY <2>1, <2>4 DEF UpdateOK, Reading, Flushed
  <2> QED
    BY <2>2, <2>3, <2>4
<1> QED
  BY <1>3, <1>4, <1>5 DEF UpdatesInv

LEMMA UpdatesNext ==
  ASSUME HealthInv, [HealthNext]_healthVars
  PROVE  UpdatesInv'
<1>1. RowsInv /\ UpdatesInv
  BY DEF HealthInv
<1>2. ASSUME NEW u \in Update, AbortUpdate(u)
      PROVE  UpdatesInv'
  BY <1>1, <1>2, DoneOK DEF AbortUpdate
<1>3. CASE StartProbe \/ AnswerProbe \/ (\E s \in Sensor : ReadSensor(s)) \/ UNCHANGED healthVars
  <2>1. UNCHANGED <<health, history, notices, clock, update>>
    BY <1>3 DEF StartProbe, AnswerProbe, ReadSensor, healthVars
  <2>2. clock \in Nat
    BY <1>1 DEF RowsInv
  <2>3. ASSUME NEW u \in Update
        PROVE  UpdateOK(u)'
    BY <1>1, <2>1, <2>2, StaysOK DEF UpdatesInv, UpdateOK, Flushed
  <2> QED
    BY <1>1, <2>1, <2>3 DEF UpdatesInv
<1> QED
  BY <1>1, <1>2, <1>3, ReadOK, NoticeOK, WriteOK, CommitOK DEF HealthNext, Step

-----------------------------------------------------------------------------
(* The probe.                                                              *)

(* The first commit leaves a probe one moment that explains what it has    *)
(* seen: the one after it, if the sensor is still to be asked, or the one  *)
(* before it.                                                              *)
LEMMA CommitProbe ==
  ASSUME HealthInv, NEW u \in Update, CommitUpdate(u)
  PROVE  ProbeInv'
<1>1. PICK s \in Sensor, row \in Record : health' = [health EXCEPT ![s] = row.status]
  BY CommitRows DEF Committed
<1>2. DOMAIN health = Sensor /\ ProbeInv
  BY DEF HealthInv, RowsInv
<1>3. probe' = Witness(probe, health')
  BY DEF CommitUpdate
<1>4. CASE probe.at # "reading"
  <2>1. probe' = probe
    BY <1>3, <1>4 DEF Witness
  <2> QED
    BY <1>2, <1>4, <2>1 DEF ProbeInv, HealthOfAMoment
<1>5. CASE probe.at = "reading"
  <2>1. /\ {"at", "todo", "seen", "commits", "moments"} = DOMAIN probe
        /\ probe.commits \in Nat /\ probe.todo \subseteq Sensor /\ health \in probe.moments
    BY <1>2, <1>5 DEF ProbeInv
  <2>2. /\ probe'.at = "reading" /\ probe'.todo = probe.todo /\ probe'.seen = probe.seen
        /\ probe'.commits = probe.commits + 1
        /\ probe'.moments = probe.moments \cup {health'}
        /\ DOMAIN probe' = DOMAIN probe
    BY <1>3, <1>5, <2>1 DEF Witness
  <2>3. ASSUME probe.commits = 0
        PROVE  \E h \in probe'.moments :
                 /\ probe'.seen = Seen(h, Sensor \ probe'.todo)
                 /\ \A x \in probe'.todo : h[x] = health'[x]
    <3>1. probe.seen = Seen(health, Sensor \ probe.todo)
      BY <1>2, <1>5, <2>3 DEF ProbeInv
    <3>2. CASE s \in probe.todo
      <4>1. \A x \in Sensor \ probe.todo : health'[x] = health[x]
        BY <1>1, <1>2, <3>2
      <4>2. Seen(health', Sensor \ probe.todo) = Seen(health, Sensor \ probe.todo)
        BY <4>1 DEF Seen
      <4> QED
        BY <2>2, <3>1, <4>2
    <3>3. CASE s \notin probe.todo
      <4>1. \A x \in probe.todo : health'[x] = health[x]
        BY <1>1, <1>2, <2>1, <3>3
      <4> QED
        BY <2>1, <2>2, <3>1, <4>1
    <3> QED
      BY <3>2, <3>3
  <2>4. /\ probe'.commits \in Nat /\ probe'.commits # 0
        /\ probe'.commits = 1 => probe.commits = 0
    BY <2>1, <2>2
  <2> QED
    BY <2>1, <2>2, <2>3, <2>4 DEF ProbeInv, HealthOfAMoment
<1> QED
  BY <1>4, <1>5

LEMMA ProbeNext ==
  ASSUME HealthInv, [HealthNext]_healthVars
  PROVE  ProbeInv'
<1>1. ProbeInv
  BY DEF HealthInv
<1>2. CASE UNCHANGED <<health, probe>>
  BY <1>1, <1>2 DEF ProbeInv, HealthOfAMoment
<1>3. CASE StartProbe
  <2>1. /\ probe' = [at |-> "reading", todo |-> Sensor, seen |-> {}, commits |-> 0,
                     moments |-> {health}]
        /\ health' = health
    BY <1>3 DEF StartProbe
  <2>2. Seen(health', Sensor \ Sensor) = {}
    BY DEF Seen
  <2>3. /\ probe'.at = "reading" /\ probe'.todo = Sensor /\ probe'.seen = {}
        /\ probe'.commits = 0 /\ probe'.moments = {health}
        /\ DOMAIN probe' = {"at", "todo", "seen", "commits", "moments"}
    BY <2>1
  <2> QED
    BY <2>1, <2>2, <2>3 DEF ProbeInv, HealthOfAMoment
<1>4. ASSUME NEW s \in Sensor, ReadSensor(s)
      PROVE  ProbeInv'
  <2>1. /\ probe.at = "reading" /\ s \in probe.todo /\ health' = health
        /\ probe' = [probe EXCEPT !.todo = probe.todo \ {s},
                                  !.seen = probe.seen \cup ({health[s]} \ {"none"})]
    BY <1>4 DEF ReadSensor
  <2>2. /\ {"at", "todo", "seen", "commits", "moments"} = DOMAIN probe
        /\ probe.commits \in Nat /\ probe.todo \subseteq Sensor /\ health \in probe.moments
    BY <1>1, <2>1 DEF ProbeInv
  <2>3. /\ probe'.at = "reading" /\ probe'.todo = probe.todo \ {s}
        /\ probe'.seen = probe.seen \cup ({health[s]} \ {"none"})
        /\ probe'.commits = probe.commits /\ probe'.moments = probe.moments
        /\ DOMAIN probe' = DOMAIN probe
    BY <2>1, <2>2
  <2>4. ASSUME NEW h, h[s] = health[s], probe.seen = Seen(h, Sensor \ probe.todo)
        PROVE  probe'.seen = Seen(h, Sensor \ probe'.todo)
    <3>1. Sensor \ probe'.todo = (Sensor \ probe.todo) \cup {s}
      BY <2>1, <2>2, <2>3
    <3>2. Seen(h, (Sensor \ probe.todo) \cup {s}) = Seen(h, Sensor \ probe.todo) \cup ({h[s]} \ {"none"})
      BY DEF Seen
    <3> QED
      BY <2>3, <2>4, <3>1, <3>2
  <2>5. probe.commits = 0 => probe'.seen = Seen(health', Sensor \ probe'.todo)
    BY <1>1, <2>1, <2>4 DEF ProbeInv
  <2>6. ASSUME probe.commits = 1
        PROVE  \E h \in probe'.moments :
                 /\ probe'.seen = Seen(h, Sensor \ probe'.todo)
                 /\ \A x \in probe'.todo : h[x] = health'[x]
    <3>1. PICK h \in probe.moments : /\ probe.seen = Seen(h, Sensor \ probe.todo)
                                     /\ \A x \in probe.todo : h[x] = health[x]
      BY <1>1, <2>1, <2>6 DEF ProbeInv
    <3> QED
      BY <2>1, <2>3, <2>4, <3>1
  <2> QED
    BY <2>1, <2>2, <2>3, <2>5, <2>6 DEF ProbeInv, HealthOfAMoment
<1>5. CASE AnswerProbe
  <2>1. /\ probe.at = "reading" /\ probe.todo = {} /\ health' = health
        /\ probe' = [at |-> "answered", says |-> Overall(probe.seen),
                     commits |-> probe.commits, moments |-> probe.moments]
    BY <1>5 DEF AnswerProbe
  <2>2. /\ probe'.at = "answered" /\ probe'.says = Overall(probe.seen)
        /\ probe'.commits = probe.commits /\ probe'.moments = probe.moments
    BY <2>1
  <2>3. /\ probe.commits \in Nat /\ health \in probe.moments
        /\ probe.commits = 0 => probe.seen = Seen(health, Sensor \ probe.todo)
        /\ probe.commits = 1 => \E h \in probe.moments : probe.seen = Seen(h, Sensor \ probe.todo)
    BY <1>1, <2>1 DEF ProbeInv
  <2>4. ASSUME probe.commits <= 1
        PROVE  \E h \in probe.moments : probe.seen = {h[s] : s \in Sensor} \ {"none"}
    BY <2>1, <2>3, <2>4 DEF Seen
  <2> QED
    BY <2>2, <2>3, <2>4 DEF ProbeInv, HealthOfAMoment
<1>6. ASSUME NEW u \in Update, NEW s \in Sensor, NEW r \in Reports, ReadRecord(u, s, r[1], r[2])
      PROVE  UNCHANGED <<health, probe>>
  BY <1>6 DEF ReadRecord
<1>7. ASSUME NEW u \in Update, InsertNotice(u) \/ WriteRecord(u) \/ AbortUpdate(u)
      PROVE  UNCHANGED <<health, probe>>
  BY <1>7 DEF InsertNotice, WriteRecord, AbortUpdate
<1> QED
  BY <1>2, <1>3, <1>4, <1>5, <1>6, <1>7, CommitProbe DEF HealthNext, Step, healthVars

-----------------------------------------------------------------------------
(* The theorems.                                                           *)

LEMMA InitHealth == HealthInit => HealthInv
<1> SUFFICES ASSUME HealthInit
             PROVE  HealthInv
  OBVIOUS
<1>1. ASSUME NEW s \in Sensor
      PROVE  Recorded(s) /\ Noticed(s)
  <2>1. /\ history[s] \in Histories /\ health[s] = StatusOf(history[s]) /\ clock = Begun
        /\ notices[s] = {NoticeOf(history[s], k) : k \in 1..Len(history[s])}
    BY DEF HealthInit
  <2>2. PICK h \in Histories : h = history[s]
    BY <2>1
  <2>3. /\ h \in Seq(Record) /\ Len(h) <= Begun /\ Len(h) \in Nat /\ Begun \in Nat
        /\ \A k \in 1..Len(h) : h[k].at = k
    BY SensorHealthAssumption
  <2>4. IsFiniteSet({NoticeOf(h, k) : k \in 1..Len(h)})
    <3> DEFINE notice == [k \in 1..Len(h) |-> NoticeOf(h, k)]
    <3>1. notice \in Surjection(1..Len(h), {NoticeOf(h, k) : k \in 1..Len(h)})
      BY DEF Surjection
    <3>2. IsFiniteSet(1..Len(h))
      BY <2>3, FS_Interval
    <3> QED
      BY <3>1, <3>2, FS_Surjection
  <2>5. \A k \in 1..Len(h) : NoticeOf(h, k).at = k
    BY <2>3 DEF NoticeOf
  <2> HIDE DEF NoticeOf
  <2> QED
    BY <2>1, <2>2, <2>3, <2>4, <2>5 DEF Recorded, Noticed
<1>2. RowsInv
  BY <1>1, SensorHealthAssumption DEF HealthInit, RowsInv
<1>3. UpdatesInv
  BY DEF HealthInit, Fresh, UpdatesInv, UpdateOK, Reading, Flushed
<1>4. ProbeInv
  BY DEF HealthInit, NoProbe, ProbeInv, HealthOfAMoment
<1> QED
  BY <1>2, <1>3, <1>4 DEF HealthInv

LEMMA NextHealth == HealthInv /\ [HealthNext]_healthVars => HealthInv'
  BY RowsNext, UpdatesNext, ProbeNext DEF HealthInv

(* The records of a sensor end in the status it has, however many updates  *)
(* of it overlap, are lost or collide with its first record.               *)
THEOREM HistoriesEnd == HealthSpec => []HistoryEndsInStatus
<1>1. HealthInv => HistoryEndsInStatus
  BY DEF HealthInv, RowsInv, Recorded, HistoryEndsInStatus
<1> QED
  BY <1>1, InitHealth, NextHealth, PTL DEF HealthSpec

(* While at most one update commits, the health of the service that is     *)
(* told is that of the sensors at one moment, in whatever order they were  *)
(* asked.                                                                  *)
THEOREM HealthOfOneMoment == HealthSpec => []HealthOfAMoment
<1>1. HealthInv => HealthOfAMoment
  BY DEF HealthInv, ProbeInv
<1> QED
  BY <1>1, InitHealth, NextHealth, PTL DEF HealthSpec

(* A listing begins with the latest of its notifications.                  *)
LEMMA NewestListed ==
  ASSUME NEW some, IsFiniteSet(some), NEW n \in some,
         \A m \in some : m.at \in Nat, \A m \in some \ {n} : m.at < n.at
  PROVE  NewestFirst(some)[1] = n
<1> DEFINE After(x) == {m \in some : m.at > x.at}
           Nth(k) == CHOOSE x \in some : Cardinality(After(x)) = k - 1
<1>1. 1 \in 1..Cardinality(some)
  BY FS_CardinalityType, FS_EmptySet
<1>2. After(n) = {}
  OBVIOUS
<1>3. Cardinality(After(n)) = 0
  BY <1>2, FS_EmptySet
<1>4. ASSUME NEW x \in some, Cardinality(After(x)) = 0
      PROVE  x = n
  <2>1. IsFiniteSet(After(x))
    BY FS_Subset
  <2>2. After(x) = {}
    BY <1>4, <2>1, FS_EmptySet
  <2> QED
    BY <2>2
<1> HIDE DEF After
<1>5. Nth(1) = n
  <2>1. Cardinality(After(n)) = 1 - 1 /\ \A x \in some : Cardinality(After(x)) = 1 - 1 => x = n
    BY <1>3, <1>4
  <2> QED
    BY <2>1
<1> HIDE DEF Nth
<1>6. [k \in 1..Cardinality(some) |-> Nth(k)][1] = n
  BY <1>1, <1>5
<1> QED
  BY <1>6 DEF NewestFirst, Nth, After

(* The notification of an update that no other of its sensor has overtaken *)
(* is the first of the listing, names the status the sensor had, and the   *)
(* one the commit gives it.                                                *)
THEOREM NoticesTell == HealthSpec => NoticesTellTheChange
<1>1. ASSUME HealthInv, [HealthNext]_healthVars, NEW u \in Update, NEW s \in Sensor,
             update[u].at = "flushed", update[u].sensor = s,
             history'[s] # history[s], update[u].since = Len(history[s])
      PROVE  LET n == Listing(s, 0, clock)'[1]
             IN  /\ n.at = update[u].noted
                 /\ n.was = IF health[s] = "none" THEN n.now ELSE health[s]
                 /\ n.now = health'[s]
  <2>1. PICK v \in Update : CommitUpdate(v)
    BY <1>1, RowsStay
  <2>00. PICK x \in Sensor, row \in Record : \E n : Committed(v, x, row, n)
    BY <1>1, <2>1, CommitRows
  <2>0. PICK n : Committed(v, x, row, n)
    BY <2>00
  <2>2. /\ update[v].at = "flushed" /\ x = update[v].sensor /\ row = update[v].row
        /\ n.at = update[v].noted /\ n.was = update[v].was /\ n.now = row.status
        /\ health' = [health EXCEPT ![x] = row.status]
        /\ \A y \in Sensor \ {x} : history'[y] = history[y]
        /\ notices'[x] = notices[x] \cup {n}
        /\ n.at \in Nat /\ n.at <= clock /\ clock' = clock
    BY <2>0 DEF Committed
  <2>3. UpdateOK(u) /\ DOMAIN health = Sensor /\ clock \in Nat /\ Noticed(s)
    BY <1>1 DEF HealthInv, UpdatesInv, RowsInv
  <2>4. x = s /\ v = u
    <3>1. x = s
      BY <1>1, <2>2
    <3> QED
      BY <1>1, <2>2, <2>3, <3>1 DEF UpdateOK, Flushed
  <2>5. /\ n.at = update[u].noted /\ n.was = update[u].was /\ n.now = row.status
        /\ health'[s] = row.status
    BY <2>2, <2>3, <2>4
  <2>6. /\ update[u].was = IF health[s] = "none" THEN row.status ELSE health[s]
        /\ \A m \in notices[s] : m.at < update[u].noted
    BY <1>1, <2>2, <2>3, <2>4 DEF UpdateOK, Current, Reported
  <2>7. Listing(s, 0, clock)'[1] = n
    <3>1. IsFiniteSet(notices'[s])
      BY <2>2, <2>3, <2>4, FS_AddElement DEF Noticed
    <3>2. /\ n \in notices'[s]
          /\ \A m \in notices'[s] : m.at \in Nat /\ m.at <= clock'
          /\ \A m \in notices'[s] \ {n} : m.at < n.at
      BY <2>2, <2>3, <2>4, <2>5, <2>6 DEF Noticed
    <3>3. PICK last, some : last = clock' /\ some = notices'[s]
      OBVIOUS
    <3>4. {m \in some : 0 <= m.at /\ m.at <= last} = some
      BY <3>2, <3>3
    <3>5. Listing(s, 0, clock)' = NewestFirst(some)
      BY <3>3, <3>4 DEF Listing
    <3> QED
      BY <3>1, <3>2, <3>3, <3>5, NewestListed
  <2> QED
    BY <2>5, <2>6, <2>7
<1>2. HealthInv /\ [HealthNext]_healthVars => [\A u \in Update, s \in Sensor :
       /\ update[u].at = "flushed" /\ update[u].sensor = s
       /\ history'[s] # history[s] /\ update[u].since = Len(history[s])
       => LET n == Listing(s, 0, clock)'[1]
          IN  /\ n.at = update[u].noted
              /\ n.was = IF health[s] = "none" THEN n.now ELSE health[s]
              /\ n.now = health'[s]]_healthVars
  BY <1>1
<1> QED
  BY <1>2, InitHealth, NextHealth, PTL DEF HealthSpec, NoticesTellTheChange

-----------------------------------------------------------------------------
(* The metrics of a window, of any history whose records have rising times. *)

Rising(h) == h \in Seq(Record) /\ \A i, j \in 1..Len(h) : i < j => h[i].at < h[j].at

LEMMA Timed ==
  ASSUME NEW h, Rising(h)
  PROVE  /\ Len(h) \in Nat /\ DOMAIN h = 1..Len(h)
         /\ \A i \in 1..Len(h) : /\ h[i] \in Record /\ h[i].at \in Nat
                                 /\ h[i].status \in Status /\ h[i].recovery \in Recovery
<1>1. h \in Seq(Record)
  BY DEF Rising
<1>2. Len(h) \in Nat /\ DOMAIN h = 1..Len(h) /\ \A i \in 1..Len(h) : h[i] \in Record
  BY <1>1
<1>3. \A r \in Record : r.at \in Nat /\ r.status \in Status /\ r.recovery \in Recovery
  BY DEF Record
<1> QED
  BY <1>2, <1>3

(* The status at t is that of the record that no other before t follows.   *)
LEMMA StatusIs ==
  ASSUME NEW h, Rising(h), NEW t \in Nat, NEW i \in 1..Len(h), h[i].at < t,
         \A j \in 1..Len(h) : i < j => t <= h[j].at
  PROVE  StatusBefore(h, t) = h[i].status
<1> DEFINE before == {k \in DOMAIN h : h[k].at < t}
<1>1. i \in before /\ \A k \in before : k <= i
  BY Timed
<1>2. before \subseteq 0..Len(h) /\ Len(h) \in Nat
  BY Timed
<1> HIDE DEF before
<1>3. Max(before) \in before /\ \A k \in before : Max(before) >= k
  BY <1>1, <1>2, GreatestUpTo
<1>4. Max(before) = i
  <2> DEFINE m == Max(before)
  <2>1. m \in before /\ m <= i /\ m >= i
    BY <1>1, <1>3
  <2> HIDE DEF m
  <2>2. m \in Nat /\ i \in Nat
    BY <1>1, <1>2, <2>1
  <2>3. m = i
    BY <2>1, <2>2
  <2> QED
    BY <2>3 DEF m
<1> QED
  BY <1>1, <1>4 DEF StatusBefore, before

(* It does not change where there is no record.                            *)
LEMMA StatusStays ==
  ASSUME NEW h, Rising(h), NEW t \in Nat, NEW u \in Nat, t <= u,
         \A i \in 1..Len(h) : h[i].at < t \/ u <= h[i].at
  PROVE  StatusBefore(h, u) = StatusBefore(h, t)
<1>1. {k \in DOMAIN h : h[k].at < t} = {k \in DOMAIN h : h[k].at < u}
  BY Timed
<1> QED
  BY <1>1 DEF StatusBefore

(* Where the walk is after k records: the times of a status that had ended *)
(* by then, and the times up to the next record.                           *)
StatusAt(h, t) == StatusBefore(h, t + 1)

Elapsed(h, from, to, k, set, until) ==
  {t \in from..(to - 1) :
     /\ StatusAt(h, t) \in set
     /\ \E i \in 1..Len(h) : i <= k /\ t < h[i].at /\ h[i].at <= to /\ h[i].status \in until}

Near(h, from, to, k) ==
  {t \in from..(to - 1) :
     \A j \in 1..Len(h) : k < j /\ from <= h[j].at => t < h[j].at}

(* x is when the status began that lasts, if it is one of the set.         *)
Explains(h, from, to, k, x, set, until) ==
  /\ x # Unset => /\ x \in Nat /\ from <= x
                  /\ \A j \in 1..Len(h) : k < j /\ from <= h[j].at => x <= h[j].at
                  /\ \A t \in Elapsed(h, from, to, k, set, until) : t < x
  /\ \A t \in Near(h, from, to, k) :
       StatusAt(h, t) \in set
         <=> t \in Elapsed(h, from, to, k, set, until) \/ (x # Unset /\ x <= t)

LEMMA EndedFinite ==
  ASSUME NEW h, NEW from \in Nat, NEW to \in Nat, NEW k, NEW set, NEW until
  PROVE  /\ IsFiniteSet(Elapsed(h, from, to, k, set, until))
         /\ Cardinality(Elapsed(h, from, to, k, set, until)) \in Nat
<1>1. IsFiniteSet(from..(to - 1))
  BY FS_Interval
<1>2. Elapsed(h, from, to, k, set, until) \subseteq from..(to - 1)
  BY DEF Elapsed
<1> QED
  BY <1>1, <1>2, FS_Subset, FS_CardinalityType

(* A record out of the window ends nothing in it.                          *)
LEMMA PassedOver ==
  ASSUME NEW h, Rising(h), NEW from \in Nat, NEW to \in Nat, NEW k \in Nat,
         k + 1 <= Len(h), ~InWindow(h[k + 1], from, to), NEW set, NEW until
  PROVE  Elapsed(h, from, to, k + 1, set, until) = Elapsed(h, from, to, k, set, until)
<1>1. k + 1 \in 1..Len(h) /\ Len(h) \in Nat
  BY Timed
<1>2. ASSUME NEW t \in from..(to - 1), NEW i \in 1..Len(h), i <= k + 1, t < h[i].at, h[i].at <= to
      PROVE  i <= k
  <2>1. h[i].at \in Nat /\ h[k + 1].at \in Nat
    BY <1>1, Timed
  <2>2. i # k + 1
    BY <1>2, <2>1 DEF InWindow
  <2> QED
    BY <1>1, <1>2, <2>2
<1>3. \A i \in 1..Len(h) : i <= k => i <= k + 1
  BY <1>1
<1> QED
  BY <1>2, <1>3 DEF Elapsed

(* The times from x to a.                                                  *)
LEMMA Length ==
  ASSUME NEW x \in Nat, NEW a \in Nat, x <= a
  PROVE  IsFiniteSet(x..(a - 1)) /\ Cardinality(x..(a - 1)) = a - x
<1>1. CASE x <= a - 1
  BY <1>1, FS_Interval
<1>2. CASE a - 1 < x
  <2>1. x..(a - 1) = {} /\ a - x = 0
    BY <1>2
  <2> QED
    BY <2>1, FS_EmptySet
<1> QED
  BY <1>1, <1>2

(* A record in the window ends the status that lasted.                     *)
LEMMA Ends ==
  ASSUME NEW h, Rising(h), NEW from \in Nat, NEW to \in Nat, NEW k \in Nat,
         k + 1 <= Len(h), InWindow(h[k + 1], from, to), NEW set, NEW until, NEW x,
         h[k + 1].status \in until, h[k + 1].status \notin set,
         Explains(h, from, to, k, x, set, until)
  PROVE  /\ Explains(h, from, to, k + 1, Unset, set, until)
         /\ Cardinality(Elapsed(h, from, to, k + 1, set, until)) =
              Cardinality(Elapsed(h, from, to, k, set, until))
                + IF x = Unset THEN 0 ELSE h[k + 1].at - x
<1> DEFINE a == h[k + 1].at
           before == Elapsed(h, from, to, k, set, until)
           after == Elapsed(h, from, to, k + 1, set, until)
           lasted == IF x = Unset THEN {} ELSE x..(a - 1)
<1>1. /\ k + 1 \in 1..Len(h) /\ Len(h) \in Nat /\ a \in Nat /\ from <= a /\ a <= to
      /\ \A i \in 1..Len(h) : h[i].at \in Nat
      /\ \A i \in 1..Len(h) : i <= k => h[i].at < a
      /\ \A i \in 1..Len(h) : k + 1 < i => a < h[i].at
  BY Timed DEF Rising, InWindow
<1>2. x # Unset => x \in Nat /\ from <= x /\ x <= a
  BY <1>1 DEF Explains
<1>3. ASSUME NEW t \in from..(to - 1)
      PROVE  /\ t \in Near(h, from, to, k) <=> t < a
             /\ t \in Near(h, from, to, k + 1) <=>
                  \A j \in 1..Len(h) : k + 1 < j => t < h[j].at
  <2>1. t \in Nat
    BY <1>3
  <2>2. ASSUME t < a, NEW j \in 1..Len(h), k < j PROVE t < h[j].at
    <3>1. j = k + 1 \/ k + 1 < j
      BY <1>1, <2>2
    <3>2. j = k + 1 => h[j].at = a
      OBVIOUS
    <3> HIDE DEF a
    <3>3. k + 1 < j => a < h[j].at /\ h[j].at \in Nat
      BY <1>1
    <3> QED
      BY <1>1, <2>1, <2>2, <3>1, <3>2, <3>3
  <2>3. \A j \in 1..Len(h) : k + 1 < j => from <= h[j].at
    BY <1>1
  <2> QED
    BY <1>1, <2>1, <2>2, <2>3 DEF Near
<1>4. ASSUME NEW t \in from..(to - 1)
      PROVE  t \in after <=> StatusAt(h, t) \in set /\ t < a
  <2>1. t < a => \E i \in 1..Len(h) : i <= k + 1 /\ t < h[i].at /\ h[i].at <= to /\ h[i].status \in until
    BY <1>1
  <2>2. \A i \in 1..Len(h) : i <= k + 1 /\ t < h[i].at => t < a
    <3> TAKE i \in 1..Len(h)
    <3>1. CASE i <= k
      BY <1>1, <1>4, <3>1
    <3>2. CASE i = k + 1
      BY <3>2
    <3>3. i <= k + 1 => i <= k \/ i = k + 1
      BY <1>1
    <3> QED
      BY <3>1, <3>2, <3>3
  <2> HIDE DEF a
  <2> QED
    BY <2>1, <2>2 DEF Elapsed
<1>5. ASSUME NEW t \in from..(to - 1), t < a
      PROVE  StatusAt(h, t) \in set <=> t \in before \/ t \in lasted
  BY <1>1, <1>2, <1>3, <1>5 DEF Explains
<1>6. before \subseteq from..(to - 1) /\ after \subseteq from..(to - 1) /\ lasted \subseteq from..(to - 1)
  BY <1>1, <1>2 DEF Elapsed
<1>7. ASSUME NEW t \in before
      PROVE  t < a
  <2>1. PICK i \in 1..Len(h) : i <= k /\ t < h[i].at
    BY DEF Elapsed
  <2>2. t \in from..(to - 1)
    BY <1>6
  <2> QED
    BY <1>1, <2>1, <2>2
<1>8. after = before \cup lasted
  <2>1. \A t \in lasted : t < a
    BY <1>1, <1>2
  <2> HIDE DEF before, after, lasted, a
  <2> QED
    BY <1>4, <1>5, <1>6, <1>7, <2>1
<1>9. before \cap lasted = {}
  <2>1. x # Unset => \A t \in before : t < x
    BY DEF Explains
  <2> QED
    BY <1>2, <1>6, <2>1
<1>10. Cardinality(after) = Cardinality(before) + IF x = Unset THEN 0 ELSE a - x
  <2>1. IsFiniteSet(before) /\ Cardinality(before) \in Nat
    BY EndedFinite
  <2>2. IsFiniteSet(lasted) /\ Cardinality(lasted) = IF x = Unset THEN 0 ELSE a - x
    BY <1>1, <1>2, Length, FS_EmptySet
  <2>3. Cardinality(before \cap lasted) = 0
    BY <1>9, FS_EmptySet
  <2>4. Cardinality(lasted) \in Nat
    BY <2>2, FS_CardinalityType
  <2> HIDE DEF before, after, lasted
  <2>5. Cardinality(before \cup lasted) = Cardinality(before) + Cardinality(lasted) - Cardinality(before \cap lasted)
    BY <2>1, <2>2, FS_Union
  <2> QED
    BY <1>8, <2>1, <2>2, <2>3, <2>4, <2>5
<1>11. ASSUME NEW t \in Near(h, from, to, k + 1)
       PROVE  StatusAt(h, t) \in set <=> t \in after
  <2>1. t \in from..(to - 1) /\ t \in Nat
    BY <1>1 DEF Near
  <2>2. CASE t < a
    BY <1>4, <2>1, <2>2
  <2>3. CASE a <= t
    <3>1. \A j \in 1..Len(h) : k + 1 < j => t + 1 <= h[j].at
      BY <1>1, <1>3, <2>1
    <3>2. StatusBefore(h, t + 1) = h[k + 1].status
      BY <1>1, <2>1, <2>3, <3>1, StatusIs
    <3> QED
      BY <1>1, <1>4, <2>1, <2>3, <3>2 DEF StatusAt
  <2> QED
    BY <1>1, <2>1, <2>2, <2>3
<1>12. Explains(h, from, to, k + 1, Unset, set, until)
  BY <1>11 DEF Explains
<1> QED
  BY <1>10, <1>12


(* A record in the window begins the status, if it does not go on.         *)
LEMMA Begins ==
  ASSUME NEW h, Rising(h), NEW from \in Nat, NEW to \in Nat, NEW k \in Nat,
         k + 1 <= Len(h), InWindow(h[k + 1], from, to), NEW set, NEW until, NEW x,
         h[k + 1].status \in set, h[k + 1].status \notin until,
         Explains(h, from, to, k, x, set, until)
  PROVE  /\ Explains(h, from, to, k + 1, IF x = Unset THEN h[k + 1].at ELSE x, set, until)
         /\ Elapsed(h, from, to, k + 1, set, until) = Elapsed(h, from, to, k, set, until)
<1> DEFINE a == h[k + 1].at
           elapsed == Elapsed(h, from, to, k, set, until)
           y == IF x = Unset THEN a ELSE x
<1>1. /\ k + 1 \in 1..Len(h) /\ Len(h) \in Nat /\ a \in Nat /\ from <= a /\ a <= to
      /\ \A i \in 1..Len(h) : h[i].at \in Nat
      /\ \A i \in 1..Len(h) : i <= k => h[i].at < a
      /\ \A i \in 1..Len(h) : k + 1 < i => a < h[i].at
  BY Timed DEF Rising, InWindow
<1>2. /\ y # Unset /\ y \in Nat /\ from <= y /\ y <= a
      /\ x # Unset => x \in Nat /\ \A t \in elapsed : t < x
  BY <1>1 DEF Explains, Unset
<1>3. ASSUME NEW i \in 1..Len(h)
      PROVE  i <= k + 1 /\ h[i].status \in until <=> i <= k /\ h[i].status \in until
  <2>1. i <= k + 1 <=> i <= k \/ i = k + 1
    BY <1>1
  <2> QED
    BY <1>1, <2>1
<1>4. Elapsed(h, from, to, k + 1, set, until) = elapsed
  BY <1>3 DEF Elapsed
<1>5. ASSUME NEW t \in elapsed
      PROVE  t < a /\ t \in from..(to - 1)
  <2>1. t \in from..(to - 1) /\ \E i \in 1..Len(h) : i <= k /\ t < h[i].at
    BY DEF Elapsed
  <2> QED
    BY <1>1, <2>1
<1>6. \A t \in elapsed : t < y
  BY <1>2, <1>5
<1>7. \A j \in 1..Len(h) : k + 1 < j => y <= h[j].at
  BY <1>1, <1>2
<1>8. ASSUME NEW t \in Near(h, from, to, k + 1)
      PROVE  StatusAt(h, t) \in set <=> t \in elapsed \/ y <= t
  <2>1. /\ t \in from..(to - 1) /\ t \in Nat
        /\ \A j \in 1..Len(h) : k + 1 < j => t < h[j].at
    <3>1. t \in from..(to - 1) /\ \A j \in 1..Len(h) : k + 1 < j /\ from <= h[j].at => t < h[j].at
      BY DEF Near
    <3> QED
      BY <1>1, <3>1
  <2>2. CASE t < a
    <3>1. t \in Near(h, from, to, k)
      <4>1. \A j \in 1..Len(h) : k < j => t < h[j].at
        BY <1>1, <2>1, <2>2
      <4> QED
        BY <2>1, <4>1 DEF Near
    <3>2. StatusAt(h, t) \in set <=> t \in elapsed \/ (x # Unset /\ x <= t)
      BY <3>1 DEF Explains
    <3>3. x = Unset => ~(y <= t)
      BY <1>1, <2>1, <2>2
    <3> QED
      BY <3>2, <3>3
  <2>3. CASE a <= t
    <3>1. \A j \in 1..Len(h) : k + 1 < j => t + 1 <= h[j].at
      BY <1>1, <2>1
    <3>2. StatusBefore(h, t + 1) = h[k + 1].status
      BY <1>1, <2>1, <2>3, <3>1, StatusIs
    <3>3. y <= t
      BY <1>1, <1>2, <2>1, <2>3
    <3> QED
      BY <3>2, <3>3 DEF StatusAt
  <2> QED
    BY <1>1, <2>1, <2>2, <2>3
<1>9. Explains(h, from, to, k + 1, y, set, until)
  <2> HIDE DEF y, elapsed, a
  <2> QED
    BY <1>2, <1>4, <1>6, <1>7, <1>8 DEF Explains
<1> QED
  BY <1>4, <1>9

(* One before the window begins and ends nothing.                          *)
LEMMA NotYet ==
  ASSUME NEW h, Rising(h), NEW from \in Nat, NEW to \in Nat, NEW k \in Nat,
         k + 1 <= Len(h), h[k + 1].at < from, NEW set, NEW until, NEW x,
         Explains(h, from, to, k, x, set, until)
  PROVE  Explains(h, from, to, k + 1, x, set, until)
<1>1. k + 1 \in 1..Len(h) /\ Len(h) \in Nat /\ h[k + 1].at \in Nat
  BY Timed
<1>2. ASSUME NEW j \in 1..Len(h), from <= h[j].at
      PROVE  k < j <=> k + 1 < j
  <2>1. j # k + 1
    BY <1>1, <1>2
  <2> QED
    BY <1>1, <2>1
<1>3. Near(h, from, to, k + 1) = Near(h, from, to, k)
  BY <1>2 DEF Near
<1>4. Elapsed(h, from, to, k + 1, set, until) = Elapsed(h, from, to, k, set, until)
  <2>1. ASSUME NEW t \in from..(to - 1), NEW i \in 1..Len(h), t < h[i].at
        PROVE  i <= k + 1 <=> i <= k
    <3>1. i # k + 1
      BY <1>1, <2>1
    <3> QED
      BY <1>1, <3>1
  <2> QED
    BY <2>1 DEF Elapsed
<1> QED
  BY <1>2, <1>3, <1>4 DEF Explains

(* At the beginning of the window the status before it lasts.              *)
LEMMA Opens ==
  ASSUME NEW h, Rising(h), NEW from \in Nat, NEW to \in Nat, NEW set, NEW until
  PROVE  /\ Explains(h, from, to, 0, IF StatusBefore(h, from) \in set THEN from ELSE Unset, set, until)
         /\ Elapsed(h, from, to, 0, set, until) = {}
<1>1. Elapsed(h, from, to, 0, set, until) = {}
  BY DEF Elapsed
<1>2. ASSUME NEW t \in Near(h, from, to, 0)
      PROVE  StatusAt(h, t) = StatusBefore(h, from) /\ t \in Nat /\ from <= t
  <2>1. t \in Nat /\ from <= t /\ \A j \in 1..Len(h) : from <= h[j].at => t < h[j].at
    BY Timed DEF Near
  <2>2. \A j \in 1..Len(h) : h[j].at < from \/ t + 1 <= h[j].at
    BY <2>1, Timed
  <2>3. StatusBefore(h, t + 1) = StatusBefore(h, from)
    BY <2>1, <2>2, StatusStays
  <2> QED
    BY <2>1, <2>3 DEF StatusAt
<1>3. CASE StatusBefore(h, from) \in set
  <2>1. \A j \in 1..Len(h) : 0 < j /\ from <= h[j].at => from <= h[j].at
    OBVIOUS
  <2>2. from # Unset
    BY DEF Unset
  <2>3. Explains(h, from, to, 0, from, set, until)
    BY <1>1, <1>2, <1>3, <2>1, <2>2 DEF Explains
  <2> QED
    BY <1>1, <1>3, <2>3
<1>4. CASE StatusBefore(h, from) \notin set
  <2>1. Explains(h, from, to, 0, Unset, set, until)
    BY <1>1, <1>2, <1>4 DEF Explains
  <2> QED
    BY <1>1, <1>4, <2>1
<1> QED
  BY <1>3, <1>4


-----------------------------------------------------------------------------
(* Sums of durations.                                                      *)

Period == [secs : Int, by : Recovery]
Sums(w, q) ==
  /\ w \in [0..Len(q) -> Int] /\ w[0] = 0
  /\ \A k \in 1..Len(q) : w[k] = w[k - 1] + q[k].secs

LEMMA TotalSums ==
  ASSUME NEW q \in Seq(Period)
  PROVE  \E w : Sums(w, q) /\ Total(q) = w[Len(q)]
<1> DEFINE n == Len(q)
           step == [x \in (1..n) \X Int |-> x[2] + q[x[1]].secs]
           F == CHOOSE f : f = [s \in SUBSET (DOMAIN q) |->
                  IF s = {} THEN 0 ELSE f[s \ {Max(s)}] + q[Max(s)].secs]
<1>1. n \in Nat /\ DOMAIN q = 1..n /\ \A k \in 1..n : q[k].secs \in Int
  <2>1. \A p \in Period : p.secs \in Int
    BY DEF Period
  <2> QED
    BY <2>1
<1>2. Total(q) = F[DOMAIN q]
  BY DEF Total, FoldLeft, MapThenFoldSet
<1>3. step \in [(1..n) \X Int -> Int]
  BY <1>1
<1> HIDE DEF n
<1>4. PICK g \in [SUBSET (1..n) -> Int] : Folds(g, n, 0, step)
  <2> HIDE DEF step
  <2>1. 0 \in Int
    OBVIOUS
  <2> QED
    BY <1>1, <1>3, <2>1, FoldExists
<1>5. g = [s \in SUBSET (DOMAIN q) |-> IF s = {} THEN 0 ELSE g[s \ {Max(s)}] + q[Max(s)].secs]
  <2>1. \A s \in SUBSET (1..n) : s # {} => Max(s) \in 1..n /\ g[s \ {Max(s)}] \in Int
    BY <1>1, GreatestIndex
  <2> QED
    BY <1>1, <1>4, <2>1 DEF Folds
<1>6. F = [s \in SUBSET (DOMAIN q) |-> IF s = {} THEN 0 ELSE F[s \ {Max(s)}] + q[Max(s)].secs]
  BY <1>5
<1> HIDE DEF F
<1>7. PICK w : Passes(w, n, Int, 0, step) /\ F[1..n] = w[n]
  <2>1. Obeys(F, n, Int, 0, step)
    <3>1. F[{}] = 0 /\ 0 \in Int
      BY <1>1, <1>6
    <3>2. \A s \in SUBSET (1..n) : s # {} /\ Max(s) \in 1..n /\ F[s \ {Max(s)}] \in Int
            => F[s] = step[<<Max(s), F[s \ {Max(s)}]>>]
      BY <1>1, <1>6
    <3> HIDE DEF step
    <3> QED
      BY <1>3, <3>1, <3>2 DEF Obeys
  <2> HIDE DEF step
  <2> QED
    BY <1>1, <2>1, FoldPasses
<1>8. \A k \in 1..n : w[k - 1] \in Int
  BY <1>1, <1>7 DEF Passes
<1>9. Sums(w, q)
  BY <1>1, <1>7, <1>8 DEF Sums, Passes, n
<1> QED
  BY <1>1, <1>2, <1>7, <1>9 DEF n

(* The sums of two sequences agree as long as their durations do.          *)
LEMMA SumsAgree ==
  ASSUME NEW q \in Seq(Period), NEW p \in Seq(Period), NEW w, NEW v, Sums(w, q), Sums(v, p),
         NEW n \in Nat, n <= Len(q), n <= Len(p), \A k \in 1..n : q[k].secs = p[k].secs
  PROVE  w[n] = v[n]
<1> DEFINE P == {k \in Nat : k <= n => w[k] = v[k]}
<1>1. 0 \in P
  BY DEF Sums
<1>2. ASSUME NEW k \in Nat, k \in P PROVE k + 1 \in P
  <2>1. ASSUME k + 1 <= n PROVE w[k + 1] = v[k + 1]
    <3>1. k + 1 \in 1..n /\ k + 1 \in 1..Len(q) /\ k + 1 \in 1..Len(p) /\ (k + 1) - 1 = k /\ k <= n
      BY <2>1
    <3>2. w[k] = v[k]
      BY <1>2, <3>1
    <3> QED
      BY <3>1, <3>2 DEF Sums
  <2> QED
    BY <2>1
<1>3. n \in P
  <2> HIDE DEF P
  <2> QED
    BY <1>1, <1>2, SetInduction
<1> QED
  BY <1>3

LEMMA TotalEmpty == Total(<<>>) = 0
<1>1. <<>> \in Seq(Period) /\ Len(<<>>) = 0
  OBVIOUS
<1> QED
  BY <1>1, TotalSums DEF Sums

LEMMA TotalAppend ==
  ASSUME NEW q \in Seq(Period), NEW p \in Period
  PROVE  Total(q) \in Int /\ Total(Append(q, p)) = Total(q) + p.secs
<1> DEFINE n == Len(q)
           r == Append(q, p)
<1>1. /\ n \in Nat /\ r \in Seq(Period) /\ Len(r) = n + 1 /\ r[n + 1] = p
      /\ \A k \in 1..n : r[k] = q[k]
  OBVIOUS
<1>2. PICK w : Sums(w, q) /\ Total(q) = w[n]
  BY TotalSums
<1> HIDE DEF r
<1>3. PICK v : Sums(v, r) /\ Total(r) = v[n + 1]
  BY <1>1, TotalSums
<1>4. v[n] = w[n]
  BY <1>1, <1>2, <1>3, SumsAgree
<1>5. v[n + 1] = v[n] + p.secs /\ w[n] \in Int
  <2>1. n + 1 \in 1..Len(r) /\ (n + 1) - 1 = n
    BY <1>1
  <2>2. v[n + 1] = v[(n + 1) - 1] + r[n + 1].secs
    BY <1>3, <2>1 DEF Sums
  <2>3. n \in 0..n
    BY <1>1
  <2> HIDE DEF n
  <2>4. w \in [0..n -> Int]
    BY <1>2 DEF Sums, n
  <2> QED
    BY <1>1, <2>1, <2>2, <2>3, <2>4
<1> QED
  BY <1>2, <1>3, <1>4, <1>5 DEF r

(* Whom a period is charged to makes no difference to the sum.             *)
LEMMA TotalCharged ==
  ASSUME NEW q \in Seq(Period), q # <<>>, NEW by \in Recovery
  PROVE  /\ [q EXCEPT ![Len(q)].by = by] \in Seq(Period)
         /\ Total([q EXCEPT ![Len(q)].by = by]) = Total(q)
<1> DEFINE n == Len(q)
           r == [q EXCEPT ![n].by = by]
<1>1. n \in Nat /\ n # 0 /\ DOMAIN q = 1..n /\ \A k \in 1..n : q[k] \in Period
  OBVIOUS
<1>2. q[n] \in Period /\ n \in 1..n
  BY <1>1
<1>3. [q[n] EXCEPT !.by = by] \in Period /\ [q[n] EXCEPT !.by = by].secs = q[n].secs
  BY <1>2 DEF Period
<1>4. r = [k \in 1..n |-> IF k = n THEN [q[n] EXCEPT !.by = by] ELSE q[k]]
  BY <1>1
<1> HIDE DEF r
<1>5. r \in [1..n -> Period]
  BY <1>1, <1>3, <1>4
<1>6. r \in Seq(Period) /\ Len(r) = n
  BY <1>1, <1>5
<1>7. \A k \in 1..n : r[k].secs = q[k].secs
  BY <1>1, <1>3, <1>4
<1>8. PICK w : Sums(w, q) /\ Total(q) = w[n]
  BY TotalSums
<1>9. PICK v : Sums(v, r) /\ Total(r) = v[n]
  BY <1>6, TotalSums
<1>10. v[n] = w[n]
  BY <1>1, <1>6, <1>7, <1>8, <1>9, SumsAgree
<1> QED
  BY <1>6, <1>8, <1>9, <1>10 DEF r


-----------------------------------------------------------------------------
(* The walk.                                                               *)

Measures == [onset : Int, up : Int, recoveries : Seq(Period), intervals : Seq(Period)]

Opening(h, from) ==
  LET before == StatusBefore(h, from)
  IN  [onset |-> IF before \in Failing THEN from ELSE Unset,
       up |-> IF before = "operational" THEN from ELSE Unset,
       recoveries |-> <<>>, intervals |-> <<>>]

StepOf(m, r, from, to) ==
  IF ~InWindow(r, from, to) THEN m
  ELSE IF r.status \in Failing THEN Fail(m, r) ELSE Recover(m, r)

(* What a record does, field by field.                                     *)
LEMMA FailSteps ==
  ASSUME NEW m \in Measures, NEW r \in Record
  PROVE  /\ Fail(m, r) \in Measures
         /\ m.onset # Unset => Fail(m, r) = m
         /\ m.onset = Unset =>
              /\ Fail(m, r).onset = r.at /\ Fail(m, r).up = Unset
              /\ Fail(m, r).recoveries = m.recoveries
              /\ Fail(m, r).intervals =
                   IF m.up = Unset THEN m.intervals
                   ELSE Append(m.intervals, [secs |-> r.at - m.up, by |-> "none"])
<1>1. r.at \in Int /\ Unset \in Int
  BY DEF Record, Unset
<1>2. m.up \in Int /\ m.intervals \in Seq(Period) /\ m.recoveries \in Seq(Period)
  BY DEF Measures
<1> DEFINE p == [secs |-> r.at - m.up, by |-> "none"]
           intervals == IF m.up = Unset THEN m.intervals ELSE Append(m.intervals, p)
<1>3. p \in Period
  BY <1>1, <1>2 DEF Period, Recovery
<1>4. intervals \in Seq(Period)
  <2> HIDE DEF p
  <2> QED
    BY <1>2, <1>3
<1>5. CASE m.onset = Unset
  <2>1. Fail(m, r) = [m EXCEPT !.onset = r.at, !.up = Unset, !.intervals = intervals]
    BY <1>5 DEF Fail
  <2> HIDE DEF intervals
  <2> DEFINE n == [m EXCEPT !.onset = r.at, !.up = Unset, !.intervals = intervals]
  <2>2. /\ n \in Measures /\ n.onset = r.at /\ n.up = Unset /\ n.intervals = intervals
        /\ n.recoveries = m.recoveries
    BY <1>1, <1>2, <1>4 DEF Measures
  <2> QED
    BY <1>5, <2>1, <2>2 DEF intervals
<1>6. CASE m.onset # Unset
  BY <1>6 DEF Fail
<1> QED
  BY <1>5, <1>6

LEMMA RecoverSteps ==
  ASSUME NEW m \in Measures, NEW r \in Record
  PROVE  /\ Recover(m, r) \in Measures
         /\ m.onset # Unset =>
              /\ Recover(m, r).onset = Unset /\ Recover(m, r).up = r.at
              /\ Recover(m, r).recoveries =
                   Append(m.recoveries, [secs |-> r.at - m.onset, by |-> r.recovery])
         /\ m.onset = Unset =>
              /\ Recover(m, r).onset = Unset
              /\ Recover(m, r).up = IF m.up = Unset THEN r.at ELSE m.up
              /\ Recover(m, r).recoveries = m.recoveries
         /\ Total(Recover(m, r).intervals) = Total(m.intervals)
<1>1. r.at \in Int /\ Unset \in Int /\ r.recovery \in Recovery
  BY DEF Record, Unset
<1>2. /\ m.onset \in Int /\ m.up \in Int
      /\ m.intervals \in Seq(Period) /\ m.recoveries \in Seq(Period)
  BY DEF Measures
<1> DEFINE p == [secs |-> r.at - m.onset, by |-> r.recovery]
           q == m.intervals
           charged == IF q = <<>> THEN q ELSE [q EXCEPT ![Len(q)].by = r.recovery]
           recoveries == Append(m.recoveries, p)
<1>3. recoveries \in Seq(Period)
  <2>1. p \in Period
    BY <1>1, <1>2 DEF Period
  <2> HIDE DEF p
  <2> QED
    BY <1>2, <2>1
<1>4. charged \in Seq(Period) /\ Total(charged) = Total(q)
  <2>1. CASE q = <<>>
    BY <1>2, <2>1
  <2>2. CASE q # <<>>
    BY <1>1, <1>2, <2>2, TotalCharged
  <2> QED
    BY <2>1, <2>2
<1>5. CASE m.onset # Unset
  <2>1. Recover(m, r) = [m EXCEPT !.onset = Unset, !.up = r.at,
                                  !.recoveries = recoveries, !.intervals = charged]
    BY <1>5 DEF Recover
  <2> HIDE DEF recoveries, charged, q
  <2> DEFINE n == [m EXCEPT !.onset = Unset, !.up = r.at,
                            !.recoveries = recoveries, !.intervals = charged]
  <2>2. /\ n \in Measures /\ n.onset = Unset /\ n.up = r.at
        /\ n.recoveries = recoveries /\ n.intervals = charged
    BY <1>1, <1>2, <1>3, <1>4 DEF Measures
  <2> QED
    BY <1>4, <1>5, <2>1, <2>2 DEF recoveries, q
<1>6. CASE m.onset = Unset
  <2> DEFINE up == IF m.up = Unset THEN r.at ELSE m.up
  <2>1. Recover(m, r) = [m EXCEPT !.up = up]
    BY <1>6 DEF Recover
  <2>2. up \in Int
    BY <1>1, <1>2
  <2> HIDE DEF up
  <2>3. /\ [m EXCEPT !.up = up] \in Measures /\ [m EXCEPT !.up = up].onset = m.onset
        /\ [m EXCEPT !.up = up].up = up /\ [m EXCEPT !.up = up].intervals = m.intervals
        /\ [m EXCEPT !.up = up].recoveries = m.recoveries
    BY <2>2 DEF Measures
  <2> QED
    BY <1>6, <2>1, <2>3 DEF up
<1> QED
  BY <1>5, <1>6

LEMMA StepTyped ==
  ASSUME NEW m \in Measures, NEW r \in Record, NEW from, NEW to
  PROVE  StepOf(m, r, from, to) \in Measures
  BY FailSteps, RecoverSteps DEF StepOf

LEMMA OpeningTyped ==
  ASSUME NEW h, NEW from \in Nat
  PROVE  Opening(h, from) \in Measures
<1>1. Unset \in Int /\ from \in Int /\ <<>> \in Seq(Period)
  BY DEF Unset
<1> QED
  BY <1>1 DEF Opening, Measures

Walks(w, h, from, to) ==
  /\ w \in [0..Len(h) -> Measures] /\ w[0] = Opening(h, from)
  /\ \A k \in 1..Len(h) : w[k] = StepOf(w[k - 1], h[k], from, to)

LEMMA MetricsWalk ==
  ASSUME NEW h \in Seq(Record), NEW from \in Nat, NEW to \in Nat
  PROVE  \E w : Walks(w, h, from, to) /\ Metrics(h, from, to) = w[Len(h)]
<1> DEFINE n == Len(h)
           base == Opening(h, from)
           step == [x \in (1..n) \X Measures |-> StepOf(x[2], h[x[1]], from, to)]
           F == CHOOSE f : f = [s \in SUBSET (DOMAIN h) |->
                  IF s = {} THEN base ELSE StepOf(f[s \ {Max(s)}], h[Max(s)], from, to)]
<1>1. n \in Nat /\ DOMAIN h = 1..n /\ \A k \in 1..n : h[k] \in Record
  OBVIOUS
<1>2. Metrics(h, from, to) = F[DOMAIN h]
  BY DEF Metrics, FoldLeft, MapThenFoldSet, StepOf, Opening
<1>3. base \in Measures
  BY OpeningTyped
<1>4. step \in [(1..n) \X Measures -> Measures]
  BY <1>1, StepTyped
<1> HIDE DEF n, base
<1>5. PICK g \in [SUBSET (1..n) -> Measures] : Folds(g, n, base, step)
  <2> HIDE DEF step
  <2> QED
    BY <1>1, <1>3, <1>4, FoldExists
<1>6. g = [s \in SUBSET (DOMAIN h) |->
             IF s = {} THEN base ELSE StepOf(g[s \ {Max(s)}], h[Max(s)], from, to)]
  <2>1. \A s \in SUBSET (1..n) : s # {} => Max(s) \in 1..n /\ g[s \ {Max(s)}] \in Measures
    BY <1>1, GreatestIndex
  <2> QED
    BY <1>1, <1>5, <2>1 DEF Folds
<1>7. F = [s \in SUBSET (DOMAIN h) |->
             IF s = {} THEN base ELSE StepOf(F[s \ {Max(s)}], h[Max(s)], from, to)]
  BY <1>6
<1> HIDE DEF F
<1>8. PICK w : Passes(w, n, Measures, base, step) /\ F[1..n] = w[n]
  <2>1. Obeys(F, n, Measures, base, step)
    <3>1. F[{}] = base
      BY <1>1, <1>7
    <3>2. \A s \in SUBSET (1..n) : s # {} /\ Max(s) \in 1..n /\ F[s \ {Max(s)}] \in Measures
            => F[s] = step[<<Max(s), F[s \ {Max(s)}]>>]
      BY <1>1, <1>7
    <3> HIDE DEF step
    <3> QED
      BY <1>3, <1>4, <3>1, <3>2 DEF Obeys
  <2> HIDE DEF step
  <2> QED
    BY <1>1, <2>1, FoldPasses
<1>9. \A k \in 1..n : w[k - 1] \in Measures
  BY <1>1, <1>8 DEF Passes
<1>10. Walks(w, h, from, to)
  BY <1>1, <1>8, <1>9 DEF Walks, Passes, n, base
<1> QED
  BY <1>1, <1>2, <1>8, <1>10 DEF n

-----------------------------------------------------------------------------
(* What the walk knows after k records: the times it has added up, the     *)
(* automatic recoveries it has counted and, up to the end of the window,   *)
(* which status lasts and since when.                                      *)

Counted(h, from, to, k) ==
  {i \in 2..k : /\ InWindow(h[i], from, to)
                /\ h[i].status = "operational" /\ h[i].recovery = "automatic"
                /\ h[i - 1].status \in Failing}

Lasts(h, from, to, k, m) ==
  /\ Explains(h, from, to, k, m.onset, Failing, {"operational"})
  /\ Explains(h, from, to, k, m.up, {"operational"}, Failing)
  /\ m.onset = Unset \/ m.up = Unset
  /\ IF k = 0 \/ h[k].at < from THEN m = Opening(h, from)
     ELSE m.onset # Unset <=> h[k].status \in Failing

WalkOK(h, from, to, k, m) ==
  /\ m \in Measures
  /\ Total(m.recoveries) = Cardinality(Elapsed(h, from, to, k, Failing, {"operational"}))
  /\ Total(m.intervals) = Cardinality(Elapsed(h, from, to, k, {"operational"}, Failing))
  /\ Cardinality(Automatic(m.recoveries)) = Cardinality(Counted(h, from, to, k))
  /\ k = 0 \/ h[k].at <= to => Lasts(h, from, to, k, m)

LEMMA Statuses ==
  /\ \A s : s \in {"operational"} <=> s = "operational"
  /\ "operational" \notin Failing /\ "none" \notin Failing
  /\ \A s \in Status : s \in Failing <=> s # "operational"
  BY DEF Status, Failing

LEMMA WalkOpens ==
  ASSUME NEW h, Rising(h), NEW from \in Nat, NEW to \in Nat
  PROVE  WalkOK(h, from, to, 0, Opening(h, from))
<1> DEFINE m == Opening(h, from)
           before == StatusBefore(h, from)
<1>1. /\ m.onset = (IF before \in Failing THEN from ELSE Unset)
      /\ m.up = (IF before \in {"operational"} THEN from ELSE Unset)
      /\ m.recoveries = <<>> /\ m.intervals = <<>>
  BY DEF Opening
<1>2. m \in Measures
  BY OpeningTyped
<1>3. Automatic(<<>>) = {} /\ Counted(h, from, to, 0) = {}
  BY DEF Automatic, Counted
<1>4. Lasts(h, from, to, 0, m)
  <2>1. m.onset = Unset \/ m.up = Unset
    BY <1>1, Statuses
  <2> HIDE DEF m, before
  <2>2. Explains(h, from, to, 0, IF before \in Failing THEN from ELSE Unset, Failing, {"operational"})
    BY Opens DEF before
  <2>3. Explains(h, from, to, 0, IF before \in {"operational"} THEN from ELSE Unset, {"operational"}, Failing)
    BY Opens DEF before
  <2> QED
    BY <1>1, <2>1, <2>2, <2>3 DEF Lasts, m
<1>5. /\ Elapsed(h, from, to, 0, Failing, {"operational"}) = {}
      /\ Elapsed(h, from, to, 0, {"operational"}, Failing) = {}
  BY Opens
<1> HIDE DEF m
<1> QED
  BY <1>1, <1>2, <1>3, <1>4, <1>5, TotalEmpty, FS_EmptySet DEF WalkOK, m

(* In the window, the sensor is failing where its latest report says so.   *)
LEMMA FailsNow ==
  ASSUME NEW h, Rising(h), NEW from \in Nat, NEW to \in Nat, NEW k \in Nat,
         k + 1 <= Len(h), InWindow(h[k + 1], from, to), NEW m, Lasts(h, from, to, k, m)
  PROVE  m.onset # Unset <=> k # 0 /\ h[k].status \in Failing
<1>1. /\ k + 1 \in 1..Len(h) /\ Len(h) \in Nat /\ DOMAIN h = 1..Len(h)
      /\ \A i \in 1..Len(h) : h[i].at \in Nat
      /\ \A i, j \in 1..Len(h) : i < j => h[i].at < h[j].at
      /\ from <= h[k + 1].at
  BY Timed DEF Rising, InWindow
<1>2. m = Opening(h, from) => (m.onset # Unset <=> StatusBefore(h, from) \in Failing)
  BY DEF Opening, Unset
<1>3. CASE k = 0
  <2>1. {i \in DOMAIN h : h[i].at < from} = {}
    <3> SUFFICES ASSUME NEW i \in 1..Len(h) PROVE ~(h[i].at < from)
      BY <1>1
    <3>1. i = 1 \/ 1 < i
      OBVIOUS
    <3> QED
      BY <1>1, <1>3, <3>1
  <2>2. StatusBefore(h, from) = "none"
    BY <2>1 DEF StatusBefore
  <2> QED
    BY <1>2, <1>3, <2>2, Statuses DEF Lasts
<1>4. CASE k # 0 /\ h[k].at < from
  <2>1. k \in 1..Len(h)
    BY <1>1, <1>4
  <2>2. \A j \in 1..Len(h) : k < j => from <= h[j].at
    <3> TAKE j \in 1..Len(h)
    <3>1. k < j => j = k + 1 \/ k + 1 < j
      BY <1>1
    <3> QED
      BY <1>1, <3>1
  <2>3. StatusBefore(h, from) = h[k].status
    BY <1>4, <2>1, <2>2, StatusIs
  <2> QED
    BY <1>2, <1>4, <2>3 DEF Lasts
<1>5. CASE k # 0 /\ ~(h[k].at < from)
  BY <1>5 DEF Lasts
<1> QED
  BY <1>3, <1>4, <1>5

Counts(h, from, to, k) ==
  /\ k # 0 /\ InWindow(h[k + 1], from, to) /\ h[k + 1].status = "operational"
  /\ h[k + 1].recovery = "automatic" /\ h[k].status \in Failing

LEMMA CountedNext ==
  ASSUME NEW h, Rising(h), NEW from \in Nat, NEW to \in Nat, NEW k \in Nat, k + 1 <= Len(h)
  PROVE  /\ IsFiniteSet(Counted(h, from, to, k)) /\ k + 1 \notin Counted(h, from, to, k)
         /\ Counts(h, from, to, k) =>
              Counted(h, from, to, k + 1) = Counted(h, from, to, k) \cup {k + 1}
         /\ ~Counts(h, from, to, k) => Counted(h, from, to, k + 1) = Counted(h, from, to, k)
<1>1. IsFiniteSet(2..k)
  BY FS_Interval
<1>2. Counted(h, from, to, k) \subseteq 2..k
  BY DEF Counted
<1>3. IsFiniteSet(Counted(h, from, to, k)) /\ k + 1 \notin Counted(h, from, to, k)
  BY <1>1, <1>2, FS_Subset
<1>4. 2..(k + 1) = 2..k \cup (IF k # 0 THEN {k + 1} ELSE {}) /\ (k + 1) - 1 = k
  OBVIOUS
<1> QED
  BY <1>3, <1>4 DEF Counted, Counts

LEMMA AutomaticNext ==
  ASSUME NEW q \in Seq(Period), NEW p \in Period
  PROVE  Cardinality(Automatic(Append(q, p))) =
           Cardinality(Automatic(q)) + IF p.by = "automatic" THEN 1 ELSE 0
<1> DEFINE n == Len(q)
           r == Append(q, p)
<1>1. /\ n \in Nat /\ DOMAIN q = 1..n /\ DOMAIN r = 1..(n + 1) /\ r[n + 1] = p
      /\ \A i \in 1..n : r[i] = q[i]
  OBVIOUS
<1>2. 1..(n + 1) = 1..n \cup {n + 1} /\ n + 1 \notin 1..n
  BY <1>1
<1> HIDE DEF r, n
<1>3. /\ Automatic(q) \subseteq 1..n
      /\ Automatic(r) = Automatic(q) \cup IF p.by = "automatic" THEN {n + 1} ELSE {}
  BY <1>1, <1>2 DEF Automatic
<1>4. IsFiniteSet(Automatic(q)) /\ Cardinality(Automatic(q)) \in Nat
  <2>1. IsFiniteSet(1..n)
    BY <1>1, FS_Interval
  <2> QED
    BY <1>3, <2>1, FS_Subset, FS_CardinalityType
<1>5. n + 1 \notin Automatic(q)
  BY <1>2, <1>3
<1>6. CASE p.by = "automatic"
  <2>1. Cardinality(Automatic(q) \cup {n + 1}) = Cardinality(Automatic(q)) + 1
    BY <1>4, <1>5, FS_AddElement
  <2> QED
    BY <1>3, <1>6, <2>1 DEF r
<1>7. CASE p.by # "automatic"
  BY <1>3, <1>4, <1>7 DEF r
<1> QED
  BY <1>6, <1>7

LEMMA WalkPasses ==
  ASSUME NEW h, Rising(h), NEW from \in Nat, NEW to \in Nat, NEW k \in Nat, k + 1 <= Len(h),
         ~InWindow(h[k + 1], from, to), NEW m, WalkOK(h, from, to, k, m)
  PROVE  WalkOK(h, from, to, k + 1, m)
<1>1. /\ k + 1 \in 1..Len(h) /\ Len(h) \in Nat /\ h[k + 1].at \in Nat
      /\ k # 0 => k \in 1..Len(h) /\ h[k].at \in Nat /\ h[k].at < h[k + 1].at
  <2>1. /\ k + 1 \in 1..Len(h) /\ Len(h) \in Nat
        /\ k # 0 => k \in 1..Len(h) /\ k < k + 1
    BY Timed
  <2> QED
    BY <2>1, Timed DEF Rising
<1>2. Counted(h, from, to, k + 1) = Counted(h, from, to, k)
  BY CountedNext DEF Counts
<1>3. /\ Elapsed(h, from, to, k + 1, Failing, {"operational"})
           = Elapsed(h, from, to, k, Failing, {"operational"})
      /\ Elapsed(h, from, to, k + 1, {"operational"}, Failing)
           = Elapsed(h, from, to, k, {"operational"}, Failing)
  BY PassedOver
<1>4. ASSUME h[k + 1].at <= to PROVE Lasts(h, from, to, k + 1, m)
  <2>1. h[k + 1].at < from
    BY <1>1, <1>4 DEF InWindow
  <2>2. (k = 0 \/ h[k].at <= to) /\ (k = 0 \/ h[k].at < from)
    BY <1>1, <1>4, <2>1
  <2>3. Lasts(h, from, to, k, m)
    BY <2>2 DEF WalkOK
  <2>4. m = Opening(h, from) /\ (m.onset = Unset \/ m.up = Unset)
    BY <2>2, <2>3 DEF Lasts
  <2>5. /\ Explains(h, from, to, k, m.onset, Failing, {"operational"})
        /\ Explains(h, from, to, k, m.up, {"operational"}, Failing)
    BY <2>3 DEF Lasts
  <2>6. Explains(h, from, to, k + 1, m.onset, Failing, {"operational"})
    BY <2>1, <2>5, NotYet
  <2>7. Explains(h, from, to, k + 1, m.up, {"operational"}, Failing)
    BY <2>1, <2>5, NotYet
  <2> QED
    BY <2>1, <2>4, <2>6, <2>7 DEF Lasts
<1>5. k + 1 # 0
  OBVIOUS
<1> QED
  BY <1>2, <1>3, <1>4, <1>5 DEF WalkOK

LEMMA WalkFails ==
  ASSUME NEW h, Rising(h), NEW from \in Nat, NEW to \in Nat, NEW k \in Nat, k + 1 <= Len(h),
         InWindow(h[k + 1], from, to), h[k + 1].status \in Failing,
         NEW m, WalkOK(h, from, to, k, m), Lasts(h, from, to, k, m)
  PROVE  WalkOK(h, from, to, k + 1, Fail(m, h[k + 1]))
<1> DEFINE r == h[k + 1]
           new == Fail(m, r)
           end == IF m.up = Unset THEN 0 ELSE r.at - m.up
<1>1. /\ r \in Record /\ r.at \in Nat /\ r.status \in Status /\ m \in Measures
      /\ m.onset = Unset \/ m.up = Unset
      /\ ~(r.at < from) /\ k + 1 # 0 /\ r.status # "operational" /\ r.at # Unset
  <2>1. k + 1 \in 1..Len(h)
    BY Timed
  <2>2. r \in Record /\ r.at \in Nat /\ r.status \in Status
    BY <2>1, Timed
  <2> HIDE DEF r
  <2> QED
    BY <2>2, Statuses DEF WalkOK, Lasts, InWindow, Unset, r
<1>2. /\ Explains(h, from, to, k + 1, IF m.onset = Unset THEN r.at ELSE m.onset, Failing, {"operational"})
      /\ Elapsed(h, from, to, k + 1, Failing, {"operational"})
           = Elapsed(h, from, to, k, Failing, {"operational"})
  <2>1. Explains(h, from, to, k, m.onset, Failing, {"operational"})
    BY DEF Lasts
  <2> QED
    BY <1>1, <2>1, Begins
<1>3. /\ Explains(h, from, to, k + 1, Unset, {"operational"}, Failing)
      /\ Cardinality(Elapsed(h, from, to, k + 1, {"operational"}, Failing)) =
           Cardinality(Elapsed(h, from, to, k, {"operational"}, Failing)) + end
  <2>1. Explains(h, from, to, k, m.up, {"operational"}, Failing)
    BY DEF Lasts
  <2> QED
    BY <1>1, <2>1, Ends
<1> HIDE DEF r
<1>4. /\ new \in Measures /\ new.up = Unset /\ new.recoveries = m.recoveries
      /\ new.onset = IF m.onset = Unset THEN r.at ELSE m.onset
      /\ new.intervals = IF m.up = Unset THEN m.intervals
                         ELSE Append(m.intervals, [secs |-> r.at - m.up, by |-> "none"])
  BY <1>1, FailSteps
<1> HIDE DEF new
<1>5. Total(new.intervals) = Total(m.intervals) + end
  <2>1. /\ m.intervals \in Seq(Period)
        /\ [secs |-> r.at - m.up, by |-> "none"] \in Period
    BY <1>1 DEF Measures, Period, Recovery
  <2>2. CASE m.up = Unset
    BY <1>4, <2>1, <2>2, TotalAppend
  <2>3. CASE m.up # Unset
    <3> DEFINE p == [secs |-> r.at - m.up, by |-> "none"]
    <3>1. p.secs = r.at - m.up
      OBVIOUS
    <3> HIDE DEF p
    <3>2. Total(Append(m.intervals, p)) = Total(m.intervals) + p.secs
      BY <2>1, TotalAppend DEF p
    <3> QED
      BY <1>4, <2>3, <3>1, <3>2 DEF p
  <2> QED
    BY <2>2, <2>3
<1>6. Counted(h, from, to, k + 1) = Counted(h, from, to, k)
  BY <1>1, CountedNext DEF r, Counts
<1>7. Lasts(h, from, to, k + 1, new)
  <2>1. new.onset # Unset
    BY <1>1, <1>4
  <2> QED
    BY <1>1, <1>2, <1>3, <1>4, <2>1 DEF Lasts, r
<1>8. /\ Total(m.recoveries) = Cardinality(Elapsed(h, from, to, k, Failing, {"operational"}))
      /\ Total(m.intervals) = Cardinality(Elapsed(h, from, to, k, {"operational"}, Failing))
      /\ Cardinality(Automatic(m.recoveries)) = Cardinality(Counted(h, from, to, k))
  BY DEF WalkOK
<1> HIDE DEF end
<1>9. WalkOK(h, from, to, k + 1, new)
  BY <1>2, <1>3, <1>4, <1>5, <1>6, <1>7, <1>8 DEF WalkOK
<1> QED
  BY <1>9 DEF new, r

LEMMA WalkRecovers ==
  ASSUME NEW h, Rising(h), NEW from \in Nat, NEW to \in Nat, NEW k \in Nat, k + 1 <= Len(h),
         InWindow(h[k + 1], from, to), h[k + 1].status \notin Failing,
         NEW m, WalkOK(h, from, to, k, m), Lasts(h, from, to, k, m)
  PROVE  WalkOK(h, from, to, k + 1, Recover(m, h[k + 1]))
<1> DEFINE r == h[k + 1]
           new == Recover(m, r)
           p == [secs |-> r.at - m.onset, by |-> r.recovery]
           end == IF m.onset = Unset THEN 0 ELSE r.at - m.onset
<1>1. /\ r \in Record /\ r.at \in Nat /\ r.recovery \in Recovery /\ m \in Measures
      /\ m.onset = Unset \/ m.up = Unset
      /\ ~(r.at < from) /\ k + 1 # 0 /\ r.status = "operational" /\ r.at # Unset
  <2>1. k + 1 \in 1..Len(h)
    BY Timed
  <2>2. r \in Record /\ r.at \in Nat /\ r.status \in Status /\ r.recovery \in Recovery
    BY <2>1, Timed
  <2> HIDE DEF r
  <2> QED
    BY <2>2, Statuses DEF WalkOK, Lasts, InWindow, Unset, r
<1>2. /\ Explains(h, from, to, k + 1, IF m.up = Unset THEN r.at ELSE m.up, {"operational"}, Failing)
      /\ Elapsed(h, from, to, k + 1, {"operational"}, Failing)
           = Elapsed(h, from, to, k, {"operational"}, Failing)
  <2>1. Explains(h, from, to, k, m.up, {"operational"}, Failing)
    BY DEF Lasts
  <2> QED
    BY <1>1, <2>1, Begins
<1>3. /\ Explains(h, from, to, k + 1, Unset, Failing, {"operational"})
      /\ Cardinality(Elapsed(h, from, to, k + 1, Failing, {"operational"})) =
           Cardinality(Elapsed(h, from, to, k, Failing, {"operational"})) + end
  <2>1. Explains(h, from, to, k, m.onset, Failing, {"operational"})
    BY DEF Lasts
  <2> QED
    BY <1>1, <2>1, Ends
<1>4. m.onset # Unset <=> k # 0 /\ h[k].status \in Failing
  BY FailsNow
<1>5. p \in Period /\ p.secs = r.at - m.onset /\ p.by = r.recovery /\ m.recoveries \in Seq(Period)
  BY <1>1 DEF Period, Measures
<1> HIDE DEF r, p
<1>6. /\ new \in Measures /\ new.onset = Unset
      /\ new.up = IF m.up = Unset THEN r.at ELSE m.up
      /\ new.recoveries = IF m.onset = Unset THEN m.recoveries ELSE Append(m.recoveries, p)
      /\ Total(new.intervals) = Total(m.intervals)
  BY <1>1, RecoverSteps DEF p
<1> HIDE DEF new
<1>7. Total(new.recoveries) = Total(m.recoveries) + end
  <2>1. Total(m.recoveries) \in Int /\ Total(Append(m.recoveries, p)) = Total(m.recoveries) + p.secs
    BY <1>5, TotalAppend
  <2> QED
    BY <1>5, <1>6, <2>1
<1>8. /\ Total(m.recoveries) = Cardinality(Elapsed(h, from, to, k, Failing, {"operational"}))
      /\ Total(m.intervals) = Cardinality(Elapsed(h, from, to, k, {"operational"}, Failing))
      /\ Cardinality(Automatic(m.recoveries)) = Cardinality(Counted(h, from, to, k))
  BY DEF WalkOK
<1>9. Cardinality(Automatic(new.recoveries)) = Cardinality(Counted(h, from, to, k + 1))
  <2> DEFINE old == Counted(h, from, to, k)
             counts == m.onset # Unset /\ r.recovery = "automatic"
  <2>1. /\ IsFiniteSet(old) /\ k + 1 \notin old
        /\ counts => Counted(h, from, to, k + 1) = old \cup {k + 1}
        /\ ~counts => Counted(h, from, to, k + 1) = old
    <3>1. counts <=> Counts(h, from, to, k)
      BY <1>1, <1>4 DEF r, Counts
    <3> QED
      BY <3>1, CountedNext
  <2>2. Cardinality(old) \in Nat /\ Cardinality(old \cup {k + 1}) = Cardinality(old) + 1
    BY <2>1, FS_AddElement, FS_CardinalityType
  <2>3. Cardinality(Automatic(Append(m.recoveries, p))) =
          Cardinality(Automatic(m.recoveries)) + IF p.by = "automatic" THEN 1 ELSE 0
    BY <1>5, AutomaticNext
  <2> HIDE DEF old
  <2>5. CASE counts
    BY <1>5, <1>6, <1>8, <2>1, <2>2, <2>3, <2>5 DEF old
  <2>6. CASE ~counts
    BY <1>5, <1>6, <1>8, <2>1, <2>2, <2>3, <2>6 DEF old
  <2> QED
    BY <2>5, <2>6
<1>10. Lasts(h, from, to, k + 1, new)
  <2>1. r.status \notin Failing
    BY DEF r
  <2> QED
    BY <1>1, <1>2, <1>3, <1>6, <2>1 DEF Lasts, r
<1> HIDE DEF end
<1>11. WalkOK(h, from, to, k + 1, new)
  BY <1>2, <1>3, <1>6, <1>7, <1>8, <1>9, <1>10 DEF WalkOK
<1> QED
  BY <1>11 DEF new, r

LEMMA WalkAdds ==
  ASSUME NEW h, Rising(h), NEW from \in Nat, NEW to \in Nat, NEW w, Walks(w, h, from, to)
  PROVE  WalkOK(h, from, to, Len(h), w[Len(h)])
<1> DEFINE P == {k \in Nat : k <= Len(h) => WalkOK(h, from, to, k, w[k])}
<1>1. Len(h) \in Nat
  BY Timed
<1>2. 0 \in P
  BY WalkOpens DEF Walks
<1>3. ASSUME NEW k \in Nat, k \in P, k + 1 <= Len(h)
      PROVE  WalkOK(h, from, to, k + 1, w[k + 1])
  <2>1. /\ k + 1 \in 1..Len(h) /\ (k + 1) - 1 = k /\ k <= Len(h) /\ h[k + 1].at \in Nat
        /\ k # 0 => k \in 1..Len(h) /\ h[k].at \in Nat /\ h[k].at < h[k + 1].at
    BY <1>1, <1>3, Timed DEF Rising
  <2>2. WalkOK(h, from, to, k, w[k])
    BY <1>3, <2>1
  <2>3. w[k + 1] = StepOf(w[k], h[k + 1], from, to)
    BY <2>1 DEF Walks
  <2>4. CASE ~InWindow(h[k + 1], from, to)
    BY <1>3, <2>2, <2>3, <2>4, WalkPasses DEF StepOf
  <2>5. CASE InWindow(h[k + 1], from, to)
    <3>1. k = 0 \/ h[k].at <= to
      BY <2>1, <2>5 DEF InWindow
    <3>2. Lasts(h, from, to, k, w[k])
      BY <2>2, <3>1 DEF WalkOK
    <3>3. CASE h[k + 1].status \in Failing
      BY <1>3, <2>2, <2>3, <2>5, <3>2, <3>3, WalkFails DEF StepOf
    <3>4. CASE h[k + 1].status \notin Failing
      BY <1>3, <2>2, <2>3, <2>5, <3>2, <3>4, WalkRecovers DEF StepOf
    <3> QED
      BY <3>3, <3>4
  <2> QED
    BY <2>4, <2>5
<1>4. Len(h) \in P
  <2>1. \A k \in Nat : k \in P => k + 1 \in P
    BY <1>3
  <2> HIDE DEF P
  <2> QED
    BY <1>1, <1>2, <2>1, SetInduction
<1> QED
  BY <1>4

(* So the metrics are those of the history.                                *)
LEMMA MetricsMatch ==
  ASSUME NEW h, Rising(h), NEW from \in Nat, NEW to \in Nat
  PROVE  LET m == Metrics(h, from, to)
         IN  /\ Total(m.recoveries) = Cardinality(Times(h, from, to, Failing, {"operational"}))
             /\ Total(m.intervals) = Cardinality(Times(h, from, to, {"operational"}, Failing))
             /\ Cardinality(Automatic(m.recoveries)) = Cardinality(Counted(h, from, to, Len(h)))
<1>1. PICK w : Walks(w, h, from, to) /\ Metrics(h, from, to) = w[Len(h)]
  BY MetricsWalk DEF Rising
<1>2. WalkOK(h, from, to, Len(h), w[Len(h)])
  BY <1>1, WalkAdds
<1>3. ASSUME NEW set, NEW until
      PROVE  Elapsed(h, from, to, Len(h), set, until) = Times(h, from, to, set, until)
  <2>1. DOMAIN h = 1..Len(h) /\ \A i \in 1..Len(h) : i <= Len(h)
    BY Timed
  <2> QED
    BY <2>1 DEF Elapsed, Times, Later, StatusAt
<1> QED
  BY <1>1, <1>2, <1>3 DEF WalkOK

-----------------------------------------------------------------------------
(* The records of a sensor have rising times.                              *)

Rises == \A s \in Sensor : Rising(history[s])

LEMMA InitRises == HealthInit => Rises
<1> SUFFICES ASSUME HealthInit, NEW s \in Sensor PROVE Rising(history[s])
  BY DEF Rises
<1>1. history[s] \in Histories
  BY DEF HealthInit
<1>2. PICK h \in Histories : h = history[s]
  BY <1>1
<1>3. h \in Seq(Record) /\ \A i \in 1..Len(h) : h[i].at = i
  BY SensorHealthAssumption
<1> QED
  BY <1>2, <1>3 DEF Rising

LEMMA NextRises == HealthInv /\ Rises /\ [HealthNext]_healthVars => Rises'
<1> SUFFICES ASSUME HealthInv, Rises, [HealthNext]_healthVars PROVE Rises'
  OBVIOUS
<1>1. CASE UNCHANGED history
  BY <1>1 DEF Rises, Rising
<1>2. ASSUME NEW u \in Update, CommitUpdate(u) PROVE Rises'
  <2>1. PICK s \in Sensor, row \in Record : \E n : Committed(u, s, row, n)
    BY <1>2, CommitRows
  <2>2. /\ update[u].at = "flushed" /\ s = update[u].sensor /\ row = update[u].row
        /\ \A x \in Sensor \ {s} : history'[x] = history[x]
        /\ history'[s] \in Seq(Record) /\ Len(history'[s]) = Len(history[s]) + 1
        /\ history'[s][Len(history[s]) + 1] = row
        /\ \A k \in 1..Len(history[s]) : history'[s][k] = history[s][k]
    BY <2>1 DEF Committed
  <2>3. \A k \in 1..Len(history[s]) : history[s][k].at < row.at
    BY <2>2 DEF HealthInv, UpdatesInv, UpdateOK, Flushed
  <2>4. Rising(history[s]) /\ Len(history[s]) \in Nat
    BY Timed DEF Rises
  <2>5. ASSUME NEW i \in 1..(Len(history[s]) + 1), NEW j \in 1..(Len(history[s]) + 1), i < j
        PROVE  history'[s][i].at < history'[s][j].at
    <3>1. i \in 1..Len(history[s]) /\ (j \in 1..Len(history[s]) \/ j = Len(history[s]) + 1)
      BY <2>4, <2>5
    <3> QED
      BY <2>2, <2>3, <2>4, <2>5, <3>1 DEF Rising
  <2>6. Rising(history'[s])
    BY <2>2, <2>5 DEF Rising
  <2> QED
    BY <2>2, <2>6 DEF Rises
<1> QED
  BY <1>1, <1>2, RowsStay

(* The times to recover, the times between failures and the automatic      *)
(* recoveries of every window are those the history tells.                 *)
THEOREM WindowsMatch == HealthSpec => []WindowMatchesHistory
<1>1. HealthInv /\ Rises => WindowMatchesHistory
  <2> SUFFICES ASSUME HealthInv, Rises, NEW s \in Sensor,
                      NEW from \in 0..clock, NEW to \in from..clock
               PROVE  LET h == history[s]
                          m == Metrics(h, from, to)
                      IN  /\ Total(m.recoveries) =
                               Cardinality(Times(h, from, to, Failing, {"operational"}))
                          /\ Total(m.intervals) =
                               Cardinality(Times(h, from, to, {"operational"}, Failing))
                          /\ Cardinality(Automatic(m.recoveries)) =
                               Cardinality(Counted(h, from, to, Len(h)))
    BY DEF WindowMatchesHistory, Counted
  <2>1. clock \in Nat
    BY DEF HealthInv, RowsInv
  <2>2. from \in Nat /\ to \in Nat
    BY <2>1
  <2>3. Rising(history[s])
    BY DEF Rises
  <2> QED
    BY <2>2, <2>3, MetricsMatch
<1> QED
  BY <1>1, InitHealth, NextHealth, InitRises, NextRises, PTL DEF HealthSpec

=============================================================================
