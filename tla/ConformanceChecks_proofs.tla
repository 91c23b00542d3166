----------------------- MODULE ConformanceChecks_proofs -----------------------
(* Proofs about telemetry, the checks of conformance run beside it, and the *)
(* machine of operation states those checks ask for changes.                *)
EXTENDS ConformanceChecks, OperationStates, FoldLemmas

-----------------------------------------------------------------------------
(* The types of telemetry, part by part.                                   *)

DeclarationOK ==
    /\ state \in [Operations -> 1..5 \union {Gone}]
    /\ current \subseteq Operations
    /\ heard \in [Operations -> {"never", "fresh", "stale"}]

RequestOK ==
    /\ request \in [Requests -> [at : Instants, flights : Payloads \union {<<>>},
                                 next : Nat, signed : BOOLEAN]]
    /\ \A r \in Requests :
          IF request[r].at = "idle" THEN request[r].flights = <<>>
          ELSE request[r].next \in DOMAIN request[r].flights

StreamOK ==
    \A t \in DOMAIN streams :
        /\ t \in Requests \X Nat /\ t[2] \in DOMAIN request[t[1]].flights
        /\ IsStep(request[t[1]].flights, t[2], streams[t])

RowOK ==
    /\ \A id \in queued : IsWrite(id)
    /\ \A o \in open \union rows :
          o = [id |-> o.id, at |-> o.at] /\ IsWrite(o.id) /\ o.at \in 1..clock

ReadOK ==
    /\ clock \in Nat /\ reading \in 1..clock \union {None}
    /\ poll \in [Pollers -> [at : {"idle", "asking", "done"}, after : Int, window : SUBSET rows]]

LEMMA Parts == TypeOK <=> DeclarationOK /\ RequestOK /\ StreamOK /\ RowOK /\ ReadOK
  BY DEF TypeOK, DeclarationOK, RequestOK, StreamOK, RowOK, ReadOK

(* A request that is under way keeps its flights.                          *)
Kept ==
    \A r \in Requests : request[r].at # "idle" =>
        request'[r].at # "idle" /\ request'[r].flights = request[r].flights

LEMMA ListOfFlights ==
  ASSUME RequestOK, NEW r \in Requests, request[r].at # "idle"
  PROVE  /\ request[r].flights \in Payloads /\ IsList(request[r].flights)
         /\ request[r].next \in 1..Len(request[r].flights)
         /\ \A i \in DOMAIN request[r].flights :
               /\ request[r].flights[i].op \in Operations
               /\ IsList(request[r].flights[i].places)
<1>1. request[r].next \in DOMAIN request[r].flights /\ request[r].flights \in Payloads \union {<<>>}
  BY DEF RequestOK
<1>2. request[r].flights \in Payloads
  BY <1>1
<1> QED
  BY <1>1, <1>2, TelemetryAssumption DEF IsList

LEMMA WritesKept ==
  ASSUME RequestOK, Kept
  PROVE  /\ \A id : IsWrite(id) => IsWrite(id)' /\ Flight(id)' = Flight(id)
         /\ \A r \in Requests : DOMAIN request[r].flights # {} =>
               request[r].at # "idle" /\ request'[r].flights = request[r].flights
<1>1. ASSUME NEW r \in Requests, DOMAIN request[r].flights # {}
      PROVE  request[r].at # "idle" /\ request'[r].flights = request[r].flights
  BY <1>1 DEF RequestOK, Kept
<1>2. ASSUME NEW id, IsWrite(id)
      PROVE  IsWrite(id)' /\ Flight(id)' = Flight(id)
  <2>1. id[1] \in Requests /\ DOMAIN request[id[1]].flights # {}
    BY <1>2 DEF IsWrite
  <2>2. request'[id[1]].flights = request[id[1]].flights
    BY <1>1, <2>1
  <2> QED
    BY <1>2, <2>2 DEF IsWrite, Flight
<1> QED
  BY <1>1, <1>2

(* The requests after each step of an endpoint.                            *)
LEMMA RequestStep ==
  ASSUME RequestOK, Next
  PROVE  RequestOK' /\ Kept
<1>1. ASSUME NEW r \in Requests, NEW fs \in Payloads, NEW s \in BOOLEAN, Submit(r, fs, s)
      PROVE  RequestOK' /\ Kept
  <2>1. 1 \in DOMAIN fs
    BY TelemetryAssumption DEF IsList
  <2> QED
    BY <1>1, <2>1 DEF Submit, RequestOK, Kept, Instants
<1>2. ASSUME NEW r \in Requests, NEW what \in Instants \ {"idle"}, Answer(r, what), request[r].at # "idle"
      PROVE  RequestOK' /\ Kept
  BY <1>2 DEF Answer, RequestOK, Kept
<1>3. ASSUME NEW r \in Requests, CheckActive(r)
      PROVE  RequestOK' /\ Kept
  <2>1. request[r].at = "flight"
    BY <1>3 DEF CheckActive
  <2>2. \E what \in {"state", "crashed", "refused"} : Answer(r, what)
    BY <1>3 DEF CheckActive
  <2> QED
    BY <1>2, <2>1, <2>2 DEF Instants
<1>4. ASSUME NEW r \in Requests, CheckState(r)
      PROVE  RequestOK' /\ Kept
  <2>1. request[r].at = "state"
    BY <1>4 DEF CheckState
  <2>2. \/ \E what \in {"accepted", "crashed", "refused"} : Answer(r, what)
        \/ /\ request[r].next # Len(request[r].flights)
           /\ request' = [request EXCEPT ![r].at = "flight", ![r].next = @ + 1]
    BY <1>4 DEF CheckState
  <2>3. CASE request[r].next # Len(request[r].flights)
             /\ request' = [request EXCEPT ![r].at = "flight", ![r].next = @ + 1]
    <3>1. request[r].next \in 1..Len(request[r].flights) /\ IsList(request[r].flights)
      BY <2>1, ListOfFlights
    <3>2. request[r].next + 1 \in DOMAIN request[r].flights /\ request[r].next + 1 \in Nat
      BY <3>1, <2>3 DEF IsList
    <3> QED
      BY <2>1, <2>3, <3>2 DEF RequestOK, Kept, Instants
  <2> QED
    BY <1>2, <2>1, <2>2, <2>3 DEF Instants
<1>5. CASE UNCHANGED request
  BY <1>5 DEF RequestOK, Kept
<1>6. UNCHANGED request \/ (\E r \in Requests : SubmitTelemetry(r) \/ SubmitSignedTelemetry(r))
      \/ Serve
  BY DEF Next, Work, Read, Surroundings, StreamStep, FlushRow, CommitRow, QueryRows,
         BeginPoll, ReadingExpires, OperatorMoves, Delete, WindowEnds, FallsSilent
<1> QED
  BY <1>1, <1>3, <1>4, <1>5, <1>6 DEF Serve, SubmitTelemetry, SubmitSignedTelemetry

-----------------------------------------------------------------------------
LEMMA DeclarationStep ==
  ASSUME DeclarationOK, Next
  PROVE  DeclarationOK'
<1>1. ASSUME NEW t \in DOMAIN streams, StreamStep(t)
      PROVE  DeclarationOK'
  <2>1. heard' = heard \/ \E d : heard' = [heard EXCEPT ![d] = "fresh"]
    BY <1>1 DEF StreamStep
  <2> QED
    BY <1>1, <2>1 DEF StreamStep, DeclarationOK
<1>2. ASSUME NEW d \in Operations, NEW s \in Moves, OperatorMoves(d, s)
      PROVE  DeclarationOK'
  BY <1>2, TelemetryAssumption DEF OperatorMoves, DeclarationOK
<1>3. ASSUME NEW d \in Operations, Delete(d) \/ WindowEnds(d) \/ FallsSilent(d)
      PROVE  DeclarationOK'
  BY <1>3 DEF Delete, WindowEnds, FallsSilent, DeclarationOK
<1>4. CASE UNCHANGED declaration
  BY <1>4 DEF declaration, DeclarationOK
<1>5. UNCHANGED declaration \/ (\E t \in DOMAIN streams : StreamStep(t))
      \/ UNCHANGED <<state, current, heard>>
      \/ (\E d \in Operations : (\E s \in Moves : OperatorMoves(d, s))
            \/ Delete(d) \/ WindowEnds(d) \/ FallsSilent(d))
  BY DEF Next, Serve, Work, Read, Surroundings, FlushRow, CommitRow, QueryRows, BeginPoll,
         ReadingExpires, SubmitTelemetry, SubmitSignedTelemetry, Submit, CheckActive, CheckState
<1> QED
  BY <1>1, <1>2, <1>3, <1>4, <1>5 DEF DeclarationOK

(* A task of n flights that stands before a step of flight i has that      *)
(* flight, a list of states and the flights before it.                     *)
LEMMA StepOfTask ==
  ASSUME RequestOK, StreamOK, NEW t \in DOMAIN streams, streams[t][1] <= t[2]
  PROVE  LET fs == request[t[1]].flights
             step == streams[t]
         IN  /\ t[1] \in Requests /\ t[2] \in 1..Len(fs) /\ IsList(fs)
             /\ request[t[1]].at # "idle"
             /\ step \in Nat \X Nat /\ step[1] \in 1..t[2]
             /\ step[2] <= Len(fs[step[1]].places)
             /\ \A i \in 1..t[2] : fs[i].op \in Operations /\ IsList(fs[i].places)
<1> DEFINE fs == request[t[1]].flights
<1>1. t \in Requests \X Nat /\ t[2] \in DOMAIN fs /\ IsStep(fs, t[2], streams[t])
  BY DEF StreamOK
<1>2. request[t[1]].at # "idle"
  BY <1>1 DEF RequestOK
<1>3. IsList(fs) /\ \A i \in DOMAIN fs : fs[i].op \in Operations /\ IsList(fs[i].places)
  BY <1>1, <1>2, ListOfFlights
<1>4. t[2] \in 1..Len(fs) /\ 1..t[2] \subseteq DOMAIN fs
  BY <1>1, <1>3 DEF IsList
<1>5. streams[t] \in Nat \X Nat /\ streams[t][1] \in 1..t[2] /\ streams[t][2] <= Len(fs[streams[t][1]].places)
  BY <1>1, <1>4 DEF IsStep
<1> QED
  BY <1>1, <1>2, <1>3, <1>4, <1>5

LEMMA FollowingIsStep ==
  ASSUME NEW fs, NEW n \in Nat, \A i \in 1..n : IsList(fs[i].places),
         NEW step \in Nat \X Nat, step[1] \in 1..n, step[2] <= Len(fs[step[1]].places)
  PROVE  IsStep(fs, n, Following(fs, step))
<1>1. Len(fs[step[1]].places) \in Nat
  BY DEF IsList
<1>2. CASE step[2] < Len(fs[step[1]].places)
  BY <1>1, <1>2 DEF Following, IsStep
<1>3. CASE step[2] >= Len(fs[step[1]].places)
  <2>1. Following(fs, step) = <<step[1] + 1, 0>>
    BY <1>1, <1>3 DEF Following
  <2>2. step[1] + 1 = n + 1 \/ (step[1] + 1 \in 1..n /\ 0 <= Len(fs[step[1] + 1].places))
    BY DEF IsList
  <2> QED
    BY <2>1, <2>2 DEF IsStep
<1> QED
  BY <1>1, <1>2, <1>3

LEMMA StreamsStep ==
  ASSUME RequestOK, StreamOK, Next
  PROVE  StreamOK'
<1>1. RequestOK' /\ Kept
  BY RequestStep
<1>2. ASSUME NEW t \in DOMAIN streams
      PROVE  /\ t \in Requests \X Nat /\ t[2] \in DOMAIN request'[t[1]].flights
             /\ IsStep(request'[t[1]].flights, t[2], streams[t])
  <2>1. t \in Requests \X Nat /\ t[2] \in DOMAIN request[t[1]].flights
        /\ IsStep(request[t[1]].flights, t[2], streams[t])
    BY DEF StreamOK
  <2>2. request'[t[1]].flights = request[t[1]].flights
    BY <1>1, <2>1, WritesKept
  <2> QED
    BY <2>1, <2>2
<1>3. CASE UNCHANGED streams
  BY <1>2, <1>3 DEF StreamOK
<1>4. ASSUME NEW r \in Requests, CheckState(r), streams' = Sent(r)
      PROVE  StreamOK'
  <2> DEFINE n == request[r].next
             fs == request[r].flights
  <2>1. request[r].at = "state"
    BY <1>4 DEF CheckState
  <2>2. /\ IsList(fs) /\ n \in 1..Len(fs)
        /\ \A i \in DOMAIN fs : IsList(fs[i].places)
    BY <2>1, ListOfFlights
  <2>3. request'[r].flights = fs
    BY <1>1, <2>1 DEF Kept
  <2>4. IsStep(fs, n, <<1, 0>>) /\ n \in DOMAIN fs /\ n \in Nat
    <3>1. n \in DOMAIN fs /\ 1 \in DOMAIN fs /\ n \in Nat /\ 1 \in 1..n
      BY <2>2 DEF IsList
    <3>2. Len(fs[1].places) \in Nat
      BY <2>2, <3>1 DEF IsList
    <3> HIDE DEF n, fs
    <3>3. <<1, 0>> \in Nat \X Nat /\ <<1, 0>>[1] \in 1..n /\ <<1, 0>>[2] <= Len(fs[<<1, 0>>[1]].places)
      BY <3>1, <3>2
    <3> QED
      BY <3>1, <3>3 DEF IsStep
  <2>5. ASSUME NEW t \in DOMAIN streams'
        PROVE  /\ t \in Requests \X Nat /\ t[2] \in DOMAIN request'[t[1]].flights
               /\ IsStep(request'[t[1]].flights, t[2], streams'[t])
    <3>1. CASE t = <<r, n>>
      BY <1>4, <2>3, <2>4, <3>1 DEF Sent
    <3>2. CASE t # <<r, n>>
      <4>1. t \in DOMAIN streams /\ streams'[t] = streams[t]
        BY <1>4, <3>2 DEF Sent
      <4> QED
        BY <1>2, <4>1
    <3> QED
      BY <3>1, <3>2
  <2> QED
    BY <2>5 DEF StreamOK, IsStep
<1>5. ASSUME NEW t \in DOMAIN streams, StreamStep(t)
      PROVE  StreamOK'
  <2> DEFINE fs == request[t[1]].flights
  <2>1. streams[t][1] <= t[2] /\ streams' = [streams EXCEPT ![t] = Following(fs, streams[t])]
    BY <1>5 DEF StreamStep
  <2>2. IsStep(fs, t[2], streams'[t])
    <3>1. t[2] \in Nat
      BY DEF StreamOK
    <3> QED
      BY <2>1, <3>1, StepOfTask, FollowingIsStep
  <2>3. request' = request
    BY <1>5 DEF StreamStep
  <2> QED
    BY <1>2, <2>1, <2>2, <2>3 DEF StreamOK, IsStep
<1>6. UNCHANGED streams \/ (\E r \in Requests : CheckState(r) /\ streams' = Sent(r))
      \/ (\E t \in DOMAIN streams : StreamStep(t))
  BY DEF Next, Serve, Work, Read, Surroundings, FlushRow, CommitRow, QueryRows, BeginPoll,
         ReadingExpires, SubmitTelemetry, SubmitSignedTelemetry, Submit, CheckActive,
         CheckState, OperatorMoves, Delete, WindowEnds, FallsSilent
<1> QED
  BY <1>3, <1>4, <1>5, <1>6

(* What a stream task passes on is a write.                                *)
LEMMA PassedOnIsWrite ==
  ASSUME RequestOK, StreamOK, NEW t \in DOMAIN streams, streams[t][1] <= t[2], streams[t][2] > 0
  PROVE  IsWrite(<<t[1], t[2], streams[t][1], streams[t][2]>>)
<1> DEFINE fs == request[t[1]].flights
           i == streams[t][1]
           j == streams[t][2]
<1>1. /\ t[1] \in Requests /\ t[2] \in 1..Len(fs) /\ IsList(fs) /\ i \in 1..t[2]
      /\ j \in Nat /\ j <= Len(fs[i].places) /\ IsList(fs[i].places)
  BY StepOfTask
<1>2. t[2] \in DOMAIN fs /\ i \in DOMAIN fs /\ t[2] \in Nat /\ i \in Nat
  BY <1>1 DEF IsList
<1>3. j \in DOMAIN fs[i].places
  BY <1>1 DEF IsList
<1> HIDE DEF i, j
<1>4. <<t[1], t[2], i, j>> \in Requests \X Nat \X Nat \X Nat
  BY <1>1, <1>2
<1>5. IsWrite(<<t[1], t[2], i, j>>)
  BY <1>1, <1>2, <1>3, <1>4 DEF IsWrite, Flight
<1> QED
  BY <1>5 DEF i, j

LEMMA RowsStep ==
  ASSUME RequestOK, StreamOK, RowOK, ReadOK, Next
  PROVE  RowOK'
<1>1. \A id : IsWrite(id) => IsWrite(id)'
  BY RequestStep, WritesKept
<1>2. clock' = clock \/ clock' = clock + 1
  BY DEF Next, Serve, Work, Read, Surroundings, FlushRow, CommitRow, QueryRows, BeginPoll,
         ReadingExpires, SubmitTelemetry, SubmitSignedTelemetry, Submit, CheckActive, StreamStep,
         CheckState, OperatorMoves, Delete, WindowEnds, FallsSilent
<1>22. clock' \in Nat /\ clock' >= clock
  BY <1>2 DEF ReadOK
<1>3. \A o \in open \union rows :
          o = [id |-> o.id, at |-> o.at] /\ IsWrite(o.id)' /\ o.at \in 1..clock'
  BY <1>1, <1>22 DEF RowOK, ReadOK
<1>4. \A id \in queued : IsWrite(id)'
  BY <1>1 DEF RowOK
<1>5. CASE UNCHANGED store
  BY <1>3, <1>4, <1>5 DEF store, RowOK
<1>6. ASSUME NEW t \in DOMAIN streams, StreamStep(t)
      PROVE  RowOK'
  <2>1. CASE queued' = queued
    BY <1>3, <1>4, <1>6, <2>1 DEF StreamStep, RowOK
  <2>2. CASE queued' # queued
    <3>1. PICK id : /\ id = <<t[1], t[2], streams[t][1], streams[t][2]>>
                    /\ queued' = queued \union {id}
                    /\ streams[t][1] <= t[2] /\ streams[t][2] > 0
                    /\ open' = open /\ rows' = rows
      BY <1>6, <2>2 DEF StreamStep
    <3>2. IsWrite(id)
      BY <3>1, PassedOnIsWrite
    <3>3. \A other \in queued' : IsWrite(other)'
      BY <1>1, <1>4, <3>1, <3>2
    <3> QED
      BY <1>3, <3>1, <3>3 DEF RowOK
  <2> QED
    BY <2>1, <2>2
<1>7. ASSUME NEW id \in queued, FlushRow(id)
      PROVE  RowOK'
  <2>1. /\ queued' \subseteq queued /\ rows' = rows
        /\ open' = open \union {[id |-> id, at |-> clock']} /\ clock' = clock + 1
    BY <1>7 DEF FlushRow
  <2>2. IsWrite(id)' /\ clock' \in 1..clock'
    BY <1>22, <1>4, <2>1 DEF ReadOK
  <2>3. ASSUME NEW o \in open' \union rows'
        PROVE  o = [id |-> o.id, at |-> o.at] /\ IsWrite(o.id)' /\ o.at \in 1..clock'
    <3>1. CASE o = [id |-> id, at |-> clock']
      BY <2>2, <3>1
    <3> QED
      BY <1>3, <2>1, <3>1
  <2> QED
    BY <1>4, <2>1, <2>3 DEF RowOK
<1>8. ASSUME NEW o \in open, CommitRow(o)
      PROVE  RowOK'
  <2>1. queued' = queued /\ open' \union rows' \subseteq open \union rows
    BY <1>8 DEF CommitRow
  <2> QED
    BY <1>3, <1>4, <2>1 DEF RowOK
<1>9. UNCHANGED store \/ (\E t \in DOMAIN streams : StreamStep(t))
      \/ (\E id \in queued : FlushRow(id)) \/ (\E o \in open : CommitRow(o))
  BY DEF Next, Serve, Work, Read, Surroundings, QueryRows, BeginPoll, ReadingExpires,
         SubmitTelemetry, SubmitSignedTelemetry, Submit, CheckActive, CheckState,
         OperatorMoves, Delete, WindowEnds, FallsSilent, store
<1> QED
  BY <1>5, <1>6, <1>7, <1>8, <1>9

LEMMA ReadStep ==
  ASSUME ReadOK, Next
  PROVE  ReadOK'
<1>1. ASSUME NEW p \in Pollers, BeginPoll(p)
      PROVE  ReadOK'
  <2>1. clock' = clock + 1 /\ reading' = clock' /\ clock \in Nat /\ Lookback \in Nat
    BY <1>1, TelemetryAssumption DEF BeginPoll, ReadOK
  <2> DEFINE after == IF reading = None THEN clock' - Lookback ELSE reading
  <2>2. after \in Int
    BY <2>1 DEF ReadOK
  <2>3. poll' = [poll EXCEPT ![p].at = "asking", ![p].after = after] /\ rows' = rows
    BY <1>1 DEF BeginPoll, store
  <2> HIDE DEF after
  <2>4. clock' \in Nat /\ reading' \in 1..clock' \union {None}
    BY <2>1
  <2>5. poll' \in [Pollers -> [at : {"idle", "asking", "done"}, after : Int,
                              window : SUBSET rows]]
    BY <2>2, <2>3 DEF ReadOK
  <2> QED
    BY <2>3, <2>4, <2>5 DEF ReadOK
<1>2. ASSUME NEW p \in Pollers, QueryRows(p)
      PROVE  ReadOK'
  BY <1>2 DEF QueryRows, ReadOK, Rows, store
<1>3. ASSUME NEW id, FlushRow(id)
      PROVE  ReadOK'
  BY <1>3 DEF FlushRow, ReadOK, readers
<1>4. ASSUME NEW o, CommitRow(o)
      PROVE  ReadOK'
  BY <1>4 DEF CommitRow, ReadOK
<1>5. CASE ReadingExpires
  BY <1>5 DEF ReadingExpires, ReadOK, store
<1>6. CASE UNCHANGED <<clock, reading, poll, rows>>
  BY <1>6 DEF ReadOK
<1>7. UNCHANGED <<clock, reading, poll, rows>> \/ ReadingExpires
      \/ (\E p \in Pollers : BeginPoll(p) \/ QueryRows(p))
      \/ (\E id \in queued : FlushRow(id)) \/ (\E o \in open : CommitRow(o))
  BY DEF Next, Serve, Work, Read, Surroundings, StreamStep,
         SubmitTelemetry, SubmitSignedTelemetry, Submit, CheckActive, CheckState,
         OperatorMoves, Delete, WindowEnds, FallsSilent, store, readers
<1> QED
  BY <1>1, <1>2, <1>3, <1>4, <1>5, <1>6, <1>7

(* Telemetry keeps its types.                                              *)
LEMMA TelemetryInit ==
  ASSUME Init
  PROVE  TypeOK
  BY TelemetryAssumption DEF Init, TypeOK, Instants

LEMMA TelemetryStep ==
  ASSUME TypeOK, [Next]_vars
  PROVE  TypeOK'
<1>1. CASE Next
  BY <1>1, Parts, DeclarationStep, RequestStep, StreamsStep, RowsStep, ReadStep, PTL
<1>2. CASE UNCHANGED vars
  BY <1>2 DEF vars, TypeOK, IsStep, IsWrite, Flight
<1> QED
  BY <1>1, <1>2

-----------------------------------------------------------------------------
(* What is dispatched, stamped and stored.                                 *)

(* Whatever is on its way to the store was sent by a dispatch of its       *)
(* request and lies among the flights that dispatch carries, and every     *)
(* dispatch was made after the states of its flights were found allowed.   *)
Carried ==
    /\ \A t \in DOMAIN streams :
          t[2] < request[t[1]].next \/ request[t[1]].at = "accepted"
    /\ \A id \in Passed : <<id[1], id[2]>> \in DOMAIN streams /\ id[3] <= id[2]

Announced(d) == state[d] # Gone => heard[d] # "never"

(* The operation a stream task stands at; past the first step of its       *)
(* flight the task has stamped it.                                         *)
OpAt(t) == request[t[1]].flights[streams[t][1]].op
Stamped ==
    /\ \A t \in DOMAIN streams : streams[t][2] > 0 => Announced(OpAt(t))
    /\ StampedBeforeStored

(* A poll that has not ended has read no rows.                             *)
Polled ==
    /\ \A p \in Pollers : poll[p].at # "done" => poll[p].window = {}
    /\ PollsMeet

LEMMA PassedAreWrites ==
  ASSUME RowOK, NEW id \in Passed
  PROVE  IsWrite(id)
  BY DEF RowOK, Passed

(* What a step adds to the things on their way: the state a stream task    *)
(* passes on, and nothing else.                                            *)
LEMMA PassedStep ==
  ASSUME TypeOK, Next
  PROVE  \/ Passed' \subseteq Passed
         \/ \E t \in DOMAIN streams :
               /\ StreamStep(t) /\ streams[t][1] <= t[2] /\ streams[t][2] > 0
               /\ Passed' \subseteq Passed \union {<<t[1], t[2], streams[t][1], streams[t][2]>>}
<1>1. CASE UNCHANGED store
  BY <1>1 DEF store, Passed
<1>2. ASSUME NEW t \in DOMAIN streams, StreamStep(t)
      PROVE  \/ Passed' \subseteq Passed
             \/ /\ streams[t][1] <= t[2] /\ streams[t][2] > 0
                /\ Passed' \subseteq Passed \union {<<t[1], t[2], streams[t][1], streams[t][2]>>}
  BY <1>2 DEF StreamStep, Passed
<1>3. ASSUME NEW id \in queued, FlushRow(id)
      PROVE  Passed' \subseteq Passed
  BY <1>3 DEF FlushRow, Passed
<1>4. ASSUME NEW o \in open, CommitRow(o)
      PROVE  Passed' \subseteq Passed
  BY <1>4 DEF CommitRow, Passed
<1>5. UNCHANGED store \/ (\E t \in DOMAIN streams : StreamStep(t))
      \/ (\E id \in queued : FlushRow(id)) \/ (\E o \in open : CommitRow(o))
  BY DEF Next, Serve, Work, Read, Surroundings, QueryRows, BeginPoll, ReadingExpires,
         SubmitTelemetry, SubmitSignedTelemetry, Submit, CheckActive, CheckState,
         OperatorMoves, Delete, WindowEnds, FallsSilent, store
<1> QED
  BY <1>1, <1>2, <1>3, <1>4, <1>5

(* What a step does to the stream tasks: nothing, one of them takes a      *)
(* step, or one is sent to the first step of a new dispatch.               *)
LEMMA StreamsMove ==
  ASSUME TypeOK, Next
  PROVE  \/ UNCHANGED streams
         \/ \E t \in DOMAIN streams :
               StreamStep(t) /\ streams[t][1] <= t[2] /\ UNCHANGED request
               /\ streams' = [streams EXCEPT ![t] = Following(request[t[1]].flights, streams[t])]
         \/ \E r \in Requests :
               CheckState(r) /\ streams' = Sent(r) /\ UNCHANGED <<state, heard, store>>
  BY DEF Next, Serve, Work, Read, Surroundings, FlushRow, CommitRow, QueryRows, BeginPoll,
         ReadingExpires, SubmitTelemetry, SubmitSignedTelemetry, Submit, CheckActive,
         CheckState, StreamStep, OperatorMoves, Delete, WindowEnds, FallsSilent, declaration

(* A request that has sent its flights so far either waits for the next    *)
(* flight or was accepted, and keeps both.                                 *)
LEMMA NextOnlyGrows ==
  ASSUME TypeOK, Next, NEW r \in Requests, NEW n \in Nat,
         request[r].at # "idle", n < request[r].next \/ request[r].at = "accepted"
  PROVE  n < request'[r].next \/ request'[r].at = "accepted"
<1>1. request \in [Requests -> [at : Instants, flights : Payloads \union {<<>>},
                               next : Nat, signed : BOOLEAN]]
  BY DEF TypeOK
<1>3. ASSUME NEW q \in Requests, NEW what, Answer(q, what), request[q].at \in {"flight", "state"}
      PROVE  n < request'[r].next \/ request'[r].at = "accepted"
  BY <1>1, <1>3 DEF Answer
<1>4. ASSUME NEW q \in Requests, CheckActive(q)
      PROVE  n < request'[r].next \/ request'[r].at = "accepted"
  <2>1. request[q].at = "flight" /\ \E what : Answer(q, what)
    BY <1>4 DEF CheckActive
  <2> QED
    BY <1>3, <2>1
<1>5. ASSUME NEW q \in Requests, CheckState(q)
      PROVE  n < request'[r].next \/ request'[r].at = "accepted"
  <2>1. /\ request[q].at = "state"
        /\ \/ \E what : Answer(q, what)
           \/ request' = [request EXCEPT ![q].at = "flight", ![q].next = @ + 1]
    BY <1>5 DEF CheckState
  <2>2. CASE request' = [request EXCEPT ![q].at = "flight", ![q].next = @ + 1]
    BY <1>1, <2>1, <2>2
  <2> QED
    BY <1>3, <2>1, <2>2
<1>6. ASSUME NEW q \in Requests, NEW fs \in Payloads, NEW signed \in BOOLEAN, Submit(q, fs, signed)
      PROVE  request'[r] = request[r]
  BY <1>1, <1>6 DEF Submit
<1>7. UNCHANGED request \/ (\E q \in Requests : SubmitTelemetry(q) \/ SubmitSignedTelemetry(q))
      \/ Serve
  BY DEF Next, Work, Read, Surroundings, StreamStep, FlushRow, CommitRow, QueryRows,
         BeginPoll, ReadingExpires, OperatorMoves, Delete, WindowEnds, FallsSilent
<1> QED
  BY <1>4, <1>5, <1>6, <1>7 DEF Serve, SubmitTelemetry, SubmitSignedTelemetry

LEMMA CarriedStep ==
  ASSUME TypeOK, Carried, Next
  PROVE  Carried'
<1>1. RequestOK /\ StreamOK /\ RowOK
  BY Parts
<1>2. ASSUME NEW t \in DOMAIN streams
      PROVE  t[2] < request'[t[1]].next \/ request'[t[1]].at = "accepted"
  <2>1. t[1] \in Requests /\ t[2] \in Nat /\ DOMAIN request[t[1]].flights # {}
    BY <1>1 DEF StreamOK
  <2>2. request[t[1]].at # "idle"
    BY <1>1, <2>1 DEF RequestOK
  <2> QED
    BY <2>1, <2>2, NextOnlyGrows DEF Carried
<1>3. DOMAIN streams \subseteq DOMAIN streams'
  BY StreamsMove DEF Sent
<1>4. ASSUME NEW t \in DOMAIN streams'
      PROVE  t[2] < request'[t[1]].next \/ request'[t[1]].at = "accepted"
  <2>1. CASE t \in DOMAIN streams
    BY <1>2, <2>1
  <2>2. CASE t \notin DOMAIN streams
    <3>1. PICK r \in Requests : CheckState(r) /\ streams' = Sent(r)
      BY <2>2, StreamsMove
    <3>2. t = <<r, request[r].next>> /\ r \in Requests
      BY <2>2, <3>1 DEF Sent
    <3>3. \/ request'[r].at = "accepted"
          \/ request'[r].next = request[r].next + 1
      <4>1. request \in [Requests -> [at : Instants, flights : Payloads \union {<<>>},
                                      next : Nat, signed : BOOLEAN]]
        BY DEF TypeOK
      <4>2. streams' # streams
        BY <2>2
      <4>3. \/ request' = [request EXCEPT ![r].at = "accepted"]
            \/ request' = [request EXCEPT ![r].at = "flight", ![r].next = @ + 1]
        BY <3>1, <4>2 DEF CheckState, Answer
      <4> QED
        BY <4>1, <4>3
    <3>4. request[r].next \in Nat
      BY DEF TypeOK
    <3> QED
      BY <3>2, <3>3, <3>4
  <2> QED
    BY <2>1, <2>2
<1>5. ASSUME NEW id \in Passed'
      PROVE  <<id[1], id[2]>> \in DOMAIN streams' /\ id[3] <= id[2]
  <2>1. CASE id \in Passed
    BY <1>3, <2>1 DEF Carried
  <2>2. CASE id \notin Passed
    <3>1. PICK t \in DOMAIN streams :
               streams[t][1] <= t[2] /\ id = <<t[1], t[2], streams[t][1], streams[t][2]>>
      BY <2>2, PassedStep
    <3>2. t = <<t[1], t[2]>>
      BY <1>1 DEF StreamOK
    <3> QED
      BY <1>3, <3>1, <3>2
  <2> QED
    BY <2>1, <2>2
<1> QED
  BY <1>4, <1>5 DEF Carried

(* Telemetry once heard is never unheard, and a declaration that is gone   *)
(* stays gone: what was announced stays so.                                *)
LEMMA HeardStays ==
  ASSUME TypeOK, Next, NEW d \in Operations, heard[d] # "never"
  PROVE  heard'[d] # "never"
<1>1. heard \in [Operations -> {"never", "fresh", "stale"}]
  BY DEF TypeOK
<1>2. UNCHANGED heard \/ (\E e : heard' = [heard EXCEPT ![e] = "fresh"])
      \/ (\E e : heard' = [heard EXCEPT ![e] = "stale"])
  BY DEF Next, Serve, Work, Read, Surroundings, FlushRow, CommitRow, QueryRows, BeginPoll,
         ReadingExpires, SubmitTelemetry, SubmitSignedTelemetry, Submit, CheckActive,
         CheckState, StreamStep, WindowEnds, FallsSilent, OperatorMoves, Delete, declaration
<1> QED
  BY <1>1, <1>2

LEMMA AnnouncedStays ==
  ASSUME TypeOK, Next, NEW d \in Operations, Announced(d)
  PROVE  Announced(d)'
<1>1. state \in [Operations -> 1..5 \union {Gone}]
  BY DEF TypeOK
<1>2. UNCHANGED state \/ (\E e \in Operations : (\E s \in Moves : OperatorMoves(e, s)) \/ Delete(e))
  BY DEF Next, Serve, Work, Read, Surroundings, FlushRow, CommitRow, QueryRows, BeginPoll,
         ReadingExpires, SubmitTelemetry, SubmitSignedTelemetry, Submit, CheckActive,
         CheckState, StreamStep, WindowEnds, FallsSilent, declaration
<1>3. state[d] = Gone => state'[d] = Gone
  BY <1>1, <1>2 DEF OperatorMoves, Delete
<1> QED
  BY <1>3, HeardStays DEF Announced

(* A write keeps its operation, and what was announced of it.              *)
LEMMA WriteStaysAnnounced ==
  ASSUME TypeOK, Next, NEW id, IsWrite(id)
  PROVE  /\ Operation(id) \in Operations /\ Operation(id)' = Operation(id)
         /\ Announced(Operation(id)) => Announced(Operation(id))'
<1>1. RequestOK /\ Kept
  BY Parts, RequestStep
<1>2. id[1] \in Requests /\ id[3] \in DOMAIN request[id[1]].flights
  BY DEF IsWrite
<1>3. request[id[1]].at # "idle"
  BY <1>1, <1>2, WritesKept
<1>4. Operation(id) \in Operations
  BY <1>1, <1>2, <1>3, ListOfFlights DEF Operation, Flight
<1>5. Operation(id)' = Operation(id)
  BY <1>1, WritesKept DEF Operation
<1>6. PICK d \in Operations : d = Operation(id)
  BY <1>4
<1>7. Announced(d) => Announced(d)'
  BY AnnouncedStays
<1> QED
  BY <1>4, <1>5, <1>6, <1>7 DEF Announced

(* The same of the operation a stream task stands at.                      *)
LEMMA TaskStaysAnnounced ==
  ASSUME TypeOK, Next, NEW t \in DOMAIN streams, streams[t][1] <= t[2], NEW i \in 1..t[2]
  PROVE  LET d == request[t[1]].flights[i].op
         IN  /\ d \in Operations /\ request'[t[1]].flights[i].op = d
             /\ Announced(d) => (state'[d] # Gone => heard'[d] # "never")
<1>1. RequestOK /\ StreamOK /\ Kept
  BY Parts, RequestStep
<1>2. /\ t[1] \in Requests /\ request[t[1]].at # "idle"
      /\ request[t[1]].flights[i].op \in Operations
  BY <1>1, StepOfTask
<1>3. request'[t[1]].flights = request[t[1]].flights
  BY <1>1, <1>2 DEF Kept
<1>4. PICK d \in Operations : d = request[t[1]].flights[i].op
  BY <1>2
<1>5. Announced(d) => Announced(d)'
  BY AnnouncedStays
<1> QED
  BY <1>3, <1>4, <1>5 DEF Announced

LEMMA StampedStep ==
  ASSUME TypeOK, Stamped, Next
  PROVE  Stamped'
<1>1. RequestOK /\ StreamOK /\ RowOK /\ DeclarationOK /\ Kept
  BY Parts, RequestStep
<1>2. ASSUME NEW t \in DOMAIN streams, streams[t][2] > 0, streams[t][1] <= t[2]
      PROVE  /\ request'[t[1]].flights[streams[t][1]].op = OpAt(t)
             /\ state'[OpAt(t)] # Gone => heard'[OpAt(t)] # "never"
  <2>1. streams[t][1] \in 1..t[2]
    BY <1>1, <1>2, StepOfTask
  <2>2. Announced(OpAt(t))
    BY <1>2 DEF Stamped
  <2> QED
    BY <1>2, <2>1, <2>2, TaskStaysAnnounced DEF OpAt
<1>3. ASSUME NEW t \in DOMAIN streams, streams[t][2] > 0
      PROVE  streams[t][1] <= t[2]
  <2>1. IsStep(request[t[1]].flights, t[2], streams[t]) /\ t \in Requests \X Nat
    BY <1>1 DEF StreamOK
  <2> QED
    BY <1>3, <2>1 DEF IsStep
<1>4. ASSUME NEW t \in DOMAIN streams', t \in DOMAIN streams, streams'[t] = streams[t], streams'[t][2] > 0
      PROVE  Announced(OpAt(t))'
  <2>1. OpAt(t)' = OpAt(t)
    BY <1>2, <1>3, <1>4 DEF OpAt
  <2> QED
    BY <1>2, <1>3, <1>4, <2>1 DEF Announced
<1>5. ASSUME NEW t \in DOMAIN streams, StreamStep(t), streams[t][1] <= t[2], UNCHANGED request,
             streams' = [streams EXCEPT ![t] = Following(request[t[1]].flights, streams[t])],
             streams'[t][2] > 0
      PROVE  Announced(OpAt(t))'
  <2> DEFINE fs == request[t[1]].flights
  <2>1. streams[t] \in Nat \X Nat /\ streams[t][1] \in 1..t[2] /\ OpAt(t) \in Operations
    BY <1>1, <1>5, StepOfTask DEF OpAt
  <2>2. streams'[t] = <<streams[t][1], streams[t][2] + 1>>
    BY <1>5, <2>1 DEF Following
  <2>3. OpAt(t)' = OpAt(t)
    BY <1>5, <2>2 DEF OpAt
  <2>4. CASE streams[t][2] = 0
    <3>1. /\ heard' = IF state[OpAt(t)] = Gone THEN heard ELSE [heard EXCEPT ![OpAt(t)] = "fresh"]
          /\ state' = state
      BY <1>5, <2>4 DEF StreamStep, OpAt
    <3> QED
      BY <1>1, <2>1, <2>3, <3>1 DEF Announced, DeclarationOK
  <2>5. CASE streams[t][2] > 0
    BY <1>2, <1>5, <2>3, <2>5 DEF Announced
  <2> QED
    BY <2>1, <2>4, <2>5
<1>6. ASSUME NEW t \in DOMAIN streams', streams'[t][2] > 0
      PROVE  Announced(OpAt(t))'
  <2>1. CASE UNCHANGED streams
    BY <1>4, <1>6, <2>1
  <2>2. ASSUME NEW u \in DOMAIN streams,
               StreamStep(u), streams[u][1] <= u[2], UNCHANGED request,
               streams' = [streams EXCEPT ![u] = Following(request[u[1]].flights, streams[u])]
        PROVE  Announced(OpAt(t))'
    <3>1. CASE t = u
      BY <1>5, <1>6, <2>2, <3>1
    <3>2. CASE t # u
      <4>1. t \in DOMAIN streams /\ streams'[t] = streams[t]
        BY <1>6, <2>2, <3>2
      <4> QED
        BY <1>4, <1>6, <4>1
    <3> QED
      BY <3>1, <3>2
  <2>3. ASSUME NEW r \in Requests, streams' = Sent(r)
        PROVE  Announced(OpAt(t))'
    <3>1. t \in DOMAIN streams /\ streams'[t] = streams[t]
      BY <1>6, <2>3 DEF Sent
    <3> QED
      BY <1>4, <1>6, <3>1
  <2> QED
    BY <2>1, <2>2, <2>3, StreamsMove
<1>7. ASSUME NEW id \in Passed'
      PROVE  Announced(Operation(id))'
  <2>1. CASE id \in Passed
    <3>1. Announced(Operation(id))
      BY <2>1 DEF Stamped, StampedBeforeStored, Announced
    <3> QED
      BY <1>1, <2>1, <3>1, PassedAreWrites, WriteStaysAnnounced
  <2>2. CASE id \notin Passed
    <3>1. PICK t \in DOMAIN streams :
               /\ streams[t][1] <= t[2] /\ streams[t][2] > 0
               /\ id = <<t[1], t[2], streams[t][1], streams[t][2]>>
      BY <2>2, PassedStep
    <3>2. request'[id[1]].flights[id[3]].op = OpAt(t)
      BY <1>2, <3>1
    <3>3. Operation(id)' = OpAt(t)
      BY <3>2 DEF Operation, Flight
    <3> QED
      BY <1>2, <3>1, <3>3 DEF Announced
  <2> QED
    BY <2>1, <2>2
<1> QED
  BY <1>6, <1>7 DEF Stamped, StampedBeforeStored, Announced

(* A reading begins a poll before it asks for rows: the windows meet.      *)
LEMMA PolledStep ==
  ASSUME TypeOK, Polled, Next
  PROVE  Polled'
<1>1. RequestOK /\ RowOK /\ ReadOK /\ Kept
  BY Parts, RequestStep
<1> DEFINE Met(o) ==
      Operation(o.id) = Session =>
         \/ reading = None
         \/ o.at >= reading
         \/ \E p \in Pollers : \/ o \in poll[p].window
                              \/ (poll[p].at = "asking" /\ o.at >= poll[p].after)
<1>2. ASSUME NEW o \in open \union rows
      PROVE  Operation(o.id)' = Operation(o.id) /\ o.at \in 1..clock
  BY <1>1, WriteStaysAnnounced DEF RowOK
<1>3. \A o \in rows \ excused : Met(o)
  BY DEF Polled, PollsMeet
<1>4. CASE UNCHANGED readers /\ UNCHANGED rows
  BY <1>2, <1>3, <1>4 DEF Polled, PollsMeet, readers
<1>5. ASSUME NEW o \in open, CommitRow(o)
      PROVE  Polled'
  <2>1. /\ rows' = rows \union {o} /\ UNCHANGED <<reading, poll>>
        /\ excused' = excused \union (IF reading # None /\ o.at < reading THEN {o} ELSE {})
    BY <1>5 DEF CommitRow
  <2>2. o \in rows' \ excused' => reading = None \/ o.at >= reading
    BY <1>2, <2>1, <1>1 DEF ReadOK
  <2>3. \A x \in rows' \ excused' : x = o \/ x \in rows \ excused
    BY <2>1
  <2> QED
    BY <1>2, <1>3, <2>1, <2>2, <2>3 DEF Polled, PollsMeet
<1>6. ASSUME NEW p \in Pollers, BeginPoll(p)
      PROVE  Polled'
  <2> DEFINE after == IF reading = None THEN clock' - Lookback ELSE reading
  <2>1. /\ poll[p].at = "idle" /\ rows' = rows
        /\ poll' = [poll EXCEPT ![p].at = "asking", ![p].after = after]
        /\ excused' = excused \union {o \in rows : reading = None /\ o.at < after}
        /\ clock' = clock + 1
    BY <1>6 DEF BeginPoll, store
  <2>2. after \in Int /\ clock \in Nat
    BY <1>1, <2>1, TelemetryAssumption DEF ReadOK
  <2>3. /\ poll'[p].at = "asking" /\ poll'[p].after = after /\ poll'[p].window = poll[p].window
        /\ \A q \in Pollers \ {p} : poll'[q] = poll[q]
    BY <1>1, <2>1 DEF ReadOK
  <2>4. ASSUME NEW o \in rows' \ excused', Operation(o.id)' = Session
        PROVE  \E q \in Pollers : \/ o \in poll'[q].window
                                 \/ (poll'[q].at = "asking" /\ o.at >= poll'[q].after)
    <3>1. o \in rows \ excused /\ o.at \in Nat /\ Operation(o.id) = Session
      BY <1>1, <1>2, <2>1, <2>2, <2>4
    <3>2. CASE o.at >= after
      BY <2>3, <3>2
    <3>3. CASE o.at < after
      <4>1. reading # None /\ after = reading
        BY <2>1, <2>4, <3>1, <3>3
      <4>2. ~(o.at >= reading)
        BY <2>2, <3>1, <3>3, <4>1
      <4>3. PICK q \in Pollers : \/ o \in poll[q].window
                                 \/ (poll[q].at = "asking" /\ o.at >= poll[q].after)
        BY <1>3, <3>1, <4>1, <4>2
      <4>4. CASE q = p
        BY <2>1, <2>3, <4>3, <4>4
      <4>5. CASE q # p
        BY <2>3, <4>3, <4>5
      <4> QED
        BY <4>4, <4>5
    <3> QED
      BY <2>2, <3>1, <3>2, <3>3
  <2>5. \A q \in Pollers : poll'[q].at # "done" => poll'[q].window = {}
    BY <2>1, <2>3 DEF Polled
  <2> QED
    BY <2>4, <2>5 DEF Polled, PollsMeet
<1>7. ASSUME NEW p \in Pollers, QueryRows(p)
      PROVE  Polled'
  <2>1. /\ poll[p].at = "asking" /\ UNCHANGED <<rows, reading, excused, clock>>
        /\ poll' = [poll EXCEPT ![p].at = "done", ![p].window = Rows(p)]
    BY <1>7 DEF QueryRows, store
  <2>2. /\ poll'[p].at = "done" /\ poll'[p].window = Rows(p)
        /\ \A q \in Pollers \ {p} : poll'[q] = poll[q]
    BY <1>1, <2>1 DEF ReadOK
  <2>3. poll[p].window = {}
    BY <2>1 DEF Polled
  <2>4. ASSUME NEW o \in rows' \ excused', Operation(o.id)' = Session,
               reading # None, ~(o.at >= reading)
        PROVE  \E q \in Pollers : \/ o \in poll'[q].window
                                 \/ (poll'[q].at = "asking" /\ o.at >= poll'[q].after)
    <3>1. o \in rows \ excused /\ Operation(o.id) = Session
      BY <1>2, <2>1, <2>4
    <3>2. PICK q \in Pollers : \/ o \in poll[q].window
                               \/ (poll[q].at = "asking" /\ o.at >= poll[q].after)
      BY <1>3, <2>4, <3>1
    <3>3. CASE q = p
      <4>1. o \in Rows(p)
        BY <2>3, <3>1, <3>2, <3>3 DEF Rows
      <4> QED
        BY <2>2, <4>1
    <3>4. CASE q # p
      BY <2>2, <3>2, <3>4
    <3> QED
      BY <3>3, <3>4
  <2>5. \A q \in Pollers : poll'[q].at # "done" => poll'[q].window = {}
    BY <2>2 DEF Polled
  <2> QED
    BY <2>1, <2>4, <2>5 DEF Polled, PollsMeet
<1>8. CASE ReadingExpires
  BY <1>8 DEF ReadingExpires, Polled, PollsMeet
<1>9. (UNCHANGED readers /\ UNCHANGED rows) \/ ReadingExpires
      \/ (\E p \in Pollers : BeginPoll(p) \/ QueryRows(p)) \/ (\E o \in open : CommitRow(o))
  BY DEF Next, Serve, Work, Read, Surroundings, StreamStep, FlushRow,
         SubmitTelemetry, SubmitSignedTelemetry, Submit, CheckActive, CheckState,
         OperatorMoves, Delete, WindowEnds, FallsSilent, store
<1> QED
  BY <1>4, <1>5, <1>6, <1>7, <1>8, <1>9

-----------------------------------------------------------------------------
(* Theorems of telemetry.                                                  *)

TelemetryInv == TypeOK /\ Carried /\ Stamped /\ Polled

LEMMA TelemetryInvInit ==
  ASSUME Init
  PROVE  TelemetryInv
<1>1. Passed = {} /\ DOMAIN streams = {}
  BY DEF Init, Passed
<1>2. Carried /\ Stamped
  BY <1>1 DEF Carried, Stamped, StampedBeforeStored
<1>3. Polled
  BY DEF Init, Polled, PollsMeet
<1> QED
  BY <1>2, <1>3, TelemetryInit DEF TelemetryInv

LEMMA TelemetryInvStep ==
  ASSUME TelemetryInv, [Next]_vars
  PROVE  TelemetryInv'
<1>1. CASE Next
  BY <1>1, TelemetryStep, CarriedStep, StampedStep, PolledStep DEF TelemetryInv
<1>2. CASE UNCHANGED vars
  <2>1. TypeOK'
    BY <1>2, TelemetryStep DEF TelemetryInv
  <2>2. Carried' /\ Stamped' /\ Polled'
    BY <1>2 DEF vars, TelemetryInv, Carried, Stamped, Polled, Passed, StampedBeforeStored,
                PollsMeet, Announced, OpAt, Operation, Flight
  <2> QED
    BY <2>1, <2>2 DEF TelemetryInv
<1> QED
  BY <1>1, <1>2

LEMMA TelemetryInvHolds == Spec => []TelemetryInv
<1>1. Init => TelemetryInv
  BY TelemetryInvInit
<1>2. TelemetryInv /\ [Next]_vars => TelemetryInv'
  BY TelemetryInvStep
<1> QED
  BY <1>1, <1>2, PTL DEF Spec

(* Of a request that is refused or fails nothing is stored of the flight   *)
(* it failed at or of a later one, for any number of requests and flights: *)
(* a dispatch carries the flights whose states were seen and no other      *)
(* (submit_telemetry, submit_signed_telemetry).                            *)
THEOREM RefusedStayOut == Spec => []RefusedFlightsStayOut
<1>1. TelemetryInv => RefusedFlightsStayOut
  <2> SUFFICES ASSUME TelemetryInv, NEW id \in Passed, request[id[1]].at # "accepted"
               PROVE  id[3] < request[id[1]].next
    BY DEF RefusedFlightsStayOut
  <2>1. <<id[1], id[2]>> \in DOMAIN streams /\ id[3] <= id[2]
    BY DEF TelemetryInv, Carried
  <2>2. id[2] < request[id[1]].next
    BY <2>1 DEF TelemetryInv, Carried
  <2>3. id \in Requests \X Nat \X Nat \X Nat
    BY PassedAreWrites, Parts DEF TelemetryInv, IsWrite
  <2>4. request[id[1]].next \in Nat
    BY <2>3 DEF TelemetryInv, TypeOK
  <2> QED
    BY <2>1, <2>2, <2>3, <2>4
<1> QED
  BY <1>1, TelemetryInvHolds, PTL

(* The declaration of every stored observation was stamped before it,      *)
(* however the tasks of any number of dispatches interleave                *)
(* (stream_rid_telemetry_data).                                            *)
THEOREM StampedFirst == Spec => []StampedBeforeStored
<1>1. TelemetryInv => StampedBeforeStored
  BY DEF TelemetryInv, Stamped
<1> QED
  BY <1>1, TelemetryInvHolds, PTL

(* The windows of any number of polls of a session meet: no observation of *)
(* it falls between two of them unless it was committed late or the key of *)
(* the last reading had expired (get_air_traffic and the readers that      *)
(* share its key).                                                         *)
THEOREM WindowsMeet == Spec => []PollsMeet
<1>1. TelemetryInv => PollsMeet
  BY DEF TelemetryInv, Polled
<1> QED
  BY <1>1, TelemetryInvHolds, PTL

-----------------------------------------------------------------------------
(* The verdicts.                                                           *)

(* The verdict of a list of tests is the code of one that fails, or that   *)
(* none does.                                                              *)
LEMMA Verdict ==
  ASSUME NEW n \in Nat, NEW tests, DOMAIN tests = 1..n, NEW otherwise
  PROVE  \/ FirstFailed(tests, otherwise) = otherwise /\ \A i \in 1..n : ~tests[i][2]
         \/ \E i \in 1..n : tests[i][2] /\ FirstFailed(tests, otherwise) = tests[i][1]
<1> DEFINE failed == {i \in DOMAIN tests : tests[i][2]}
<1>1. CASE failed = {}
  BY <1>1 DEF FirstFailed
<1>2. CASE failed # {}
  <2>1. Min(failed) \in failed
    BY <1>2, LeastOfNats
  <2> QED
    BY <1>2, <2>1 DEF FirstFailed
<1> QED
  BY <1>1, <1>2

(* A check goes on only with an operation that was heard lately, is active *)
(* and has its intent.                                                     *)
LEMMA ReferenceVerdicts ==
  ASSUME NEW d
  PROVE  /\ ReferenceVerdict(d) \in ReferenceMessages \union {"going on"}
         /\ ReferenceVerdict(d) = "going on" =>
               /\ state[d] \in {2, 3, 4} /\ (Ussp => HasReference(d))
               /\ heard[d] \notin {"never", "stale"}
<1> DEFINE tests == << <<"C11", Ussp /\ ~HasReference(d)>>,
                      <<"C10", state[d] \notin {2, 3, 4}>>,
                      <<"C9b", heard[d] = "stale">>,
                      <<"C9a", heard[d] = "never">> >>
<1>1. ReferenceVerdict(d) = FirstFailed(tests, "going on") /\ DOMAIN tests = 1..4
  BY DEF ReferenceVerdict
<1>2. /\ tests[1][1] = "C11" /\ tests[2][1] = "C10" /\ tests[3][1] = "C9b" /\ tests[4][1] = "C9a"
      /\ tests[1][2] = (Ussp /\ ~HasReference(d)) /\ tests[2][2] = (state[d] \notin {2, 3, 4})
      /\ tests[3][2] = (heard[d] = "stale") /\ tests[4][2] = (heard[d] = "never")
  OBVIOUS
<1> HIDE DEF tests
<1>21. 4 \in Nat /\ 1 \in 1..4 /\ 2 \in 1..4 /\ 3 \in 1..4 /\ 4 \in 1..4
  OBVIOUS
<1>3. \/ ReferenceVerdict(d) = "going on" /\ \A i \in 1..4 : ~tests[i][2]
      \/ \E i \in 1..4 : ReferenceVerdict(d) = tests[i][1]
  <2>1. \A o : \/ FirstFailed(tests, o) = o /\ \A i \in 1..4 : ~tests[i][2]
               \/ \E i \in 1..4 : tests[i][2] /\ FirstFailed(tests, o) = tests[i][1]
    BY <1>1, <1>21, Verdict
  <2> QED
    BY <1>1, <2>1, Zenon
<1>4. CASE ReferenceVerdict(d) = "going on" /\ \A i \in 1..4 : ~tests[i][2]
  <2>1. ~(Ussp /\ ~HasReference(d)) /\ ~(state[d] \notin {2, 3, 4})
        /\ ~(heard[d] = "stale") /\ ~(heard[d] = "never")
    BY <1>2, <1>21, <1>4, Zenon
  <2> QED
    BY <1>4, <2>1
<1>5. ASSUME NEW i \in 1..4, ReferenceVerdict(d) = tests[i][1]
      PROVE  ReferenceVerdict(d) \in {"C11", "C10", "C9b", "C9a"}
  BY <1>2, <1>5
<1> QED
  BY <1>3, <1>4, <1>5 DEF ReferenceMessages

(* The codes of the tests of telemetry, and when its tests of the state    *)
(* raise theirs.                                                           *)
LEMMA TelemetryVerdicts ==
  ASSUME NEW d, NEW id
  PROVE  /\ TelemetryVerdict(d, id) \in TelemetryMessages \union Silent \union {"raised", "conformant"}
         /\ TelemetryVerdict(d, id) \in {"C2", "C4", "C5"} =>
               \/ state[d] = Gone \/ (Ussp /\ ~HasReference(d))
               \/ state[d] \notin {2, 3, 4}
<1> DEFINE place == PlaceOf(id)
           tests == << <<"C2", state[d] = Gone \/ (Ussp /\ ~HasReference(d))>>,
             <<"C3", Aircraft[d] # Flight(id).serial>>,
             <<"C4", state[d] \in {0, 5, 6, 7, 8}>>,
             <<"C5", state[d] \notin {2, 3, 4}>>,
             <<"C6", d \notin current>>,
             <<"raised", form[d] # "volumes">>,
             <<"C7b", ~\E v \in Volumes[d] : AltitudeMm(place) \in v.lower..v.upper>>,
             <<"C7a", ~\E v \in Volumes[d] : v.area = place.area>>,
             <<"C8", place.area \in Fences>> >>
<1>1. TelemetryVerdict(d, id) = FirstFailed(tests, "conformant") /\ DOMAIN tests = 1..9
  BY DEF TelemetryVerdict
<1>2. /\ tests[1][1] = "C2" /\ tests[2][1] = "C3" /\ tests[3][1] = "C4" /\ tests[4][1] = "C5"
      /\ tests[5][1] = "C6" /\ tests[6][1] = "raised" /\ tests[7][1] = "C7b"
      /\ tests[8][1] = "C7a" /\ tests[9][1] = "C8"
      /\ tests[1][2] = (state[d] = Gone \/ (Ussp /\ ~HasReference(d)))
      /\ tests[3][2] = (state[d] \in {0, 5, 6, 7, 8}) /\ tests[4][2] = (state[d] \notin {2, 3, 4})
  OBVIOUS
<1> HIDE DEF tests
<1>21. 9 \in Nat /\ 1..9 = {1, 2, 3, 4, 5, 6, 7, 8, 9}
  OBVIOUS
<1>3. \/ TelemetryVerdict(d, id) = "conformant"
      \/ \E i \in 1..9 : tests[i][2] /\ TelemetryVerdict(d, id) = tests[i][1]
  <2>1. \A o : \/ FirstFailed(tests, o) = o /\ \A i \in 1..9 : ~tests[i][2]
               \/ \E i \in 1..9 : tests[i][2] /\ FirstFailed(tests, o) = tests[i][1]
    BY <1>1, <1>21, Verdict
  <2> QED
    BY <1>1, <2>1, Zenon
<1>4. ASSUME NEW i \in 1..9, tests[i][2], TelemetryVerdict(d, id) = tests[i][1]
      PROVE  /\ TelemetryVerdict(d, id) \in {"C2", "C3", "C4", "C5", "C6", "raised", "C7b", "C7a", "C8"}
             /\ TelemetryVerdict(d, id) \in {"C2", "C4", "C5"} =>
                   \/ state[d] = Gone \/ (Ussp /\ ~HasReference(d))
                   \/ state[d] \notin {2, 3, 4}
  <2>0. TelemetryVerdict(d, id) \in {"C2", "C3", "C4", "C5", "C6", "raised", "C7b", "C7a", "C8"}
    BY <1>2, <1>21, <1>4
  <2>1. CASE i = 1
    <3>1. state[d] = Gone \/ (Ussp /\ ~HasReference(d))
      BY <1>2, <1>4, <2>1, Zenon
    <3> QED
      BY <2>0, <3>1
  <2>2. CASE i = 3
    <3>1. state[d] \in {0, 5, 6, 7, 8}
      BY <1>2, <1>4, <2>2, Zenon
    <3> QED
      BY <2>0, <3>1
  <2>3. CASE i = 4
    <3>1. state[d] \notin {2, 3, 4}
      BY <1>2, <1>4, <2>3, Zenon
    <3> QED
      BY <2>0, <3>1
  <2>4. CASE i \in {2, 5, 6, 7, 8, 9}
    BY <1>2, <1>4, <2>4
  <2> QED
    BY <1>21, <2>1, <2>2, <2>3, <2>4
<1> QED
  BY <1>3, <1>4 DEF TelemetryMessages, Silent

-----------------------------------------------------------------------------
(* The checks beside telemetry.                                            *)

Verdicts == Notified \union Silent \union {"none", "going on", "conformant", "raised"}
CheckInstants == {"idle", "latest", "tests", "signal", "leaving", "done"}

CheckOK ==
    /\ deps \in BOOLEAN /\ form \in [Operations -> Forms]
    /\ check \in [Checks -> [at : CheckInstants, op : Operations \union {None},
                            obs : rows \union {NoObservation}, verdict : Verdicts]]
    /\ \A c \in Checks :
          /\ check[c].at # "idle" => check[c].op \in Operations
          /\ check[c].at \in {"latest", "tests"} => check[c].verdict = "going on"
          /\ check[c].at \in {"signal", "leaving"} => check[c].verdict \in Notified \union Silent
    /\ told \subseteq Checks \X Notified

(* A check that has passed its first session and was not meddled with is   *)
(* of an active operation with its intent; it found telemetry announced.   *)
Undisturbed(c) ==
    /\ check[c].at \in {"latest", "tests"} /\ c \notin meddled =>
          state[check[c].op] \in {2, 3, 4} /\ (Ussp => HasReference(check[c].op))
    /\ check[c].at = "latest" => heard[check[c].op] # "never"

(* What was announced of a declaration is in the store or on its way.      *)
Reported ==
    \A d \in Operations :
        heard[d] # "never" => OnItsWay(d) \/ \E o \in rows : Operation(o.id) = d

(* Every step of the checks is, for telemetry, one of its own or none.     *)
LEMMA ConformanceStepOfTelemetry ==
  ASSUME [ConformanceNext]_allVars
  PROVE  [Next]_vars
<1>1. ASSUME NEW c \in Checks, NEW d \in Operations, CheckReference(c, d)
      PROVE  UNCHANGED vars
  BY <1>1 DEF CheckReference
<1>2. ASSUME NEW c \in Checks, Progress(c)
      PROVE  UNCHANGED vars
  BY <1>2 DEF Progress, FindLatest, TestTelemetry, Signal, EndLoop
<1>3. CASE Beside
  BY <1>3 DEF Beside, Next, Surroundings
<1>4. ASSUME NEW d \in Operations, Meddle(d)
      PROVE  Next
  BY <1>4 DEF Meddle, Next, Surroundings
<1> QED
  BY <1>1, <1>2, <1>3, <1>4 DEF ConformanceNext, allVars

(* Rows are never taken out, and the states of declarations are left alone *)
(* by all but operators.                                                   *)
LEMMA RowsGrow ==
  ASSUME [Next]_vars
  PROVE  rows \subseteq rows'
  BY DEF Next, Serve, Work, Read, Surroundings, FlushRow, CommitRow, QueryRows, BeginPoll,
         ReadingExpires, SubmitTelemetry, SubmitSignedTelemetry, Submit, CheckActive,
         CheckState, StreamStep, OperatorMoves, Delete, WindowEnds, FallsSilent, store, vars

LEMMA BesideKeepsStates ==
  ASSUME Beside
  PROVE  UNCHANGED state
  BY DEF Beside, Serve, Work, FlushRow, CommitRow, SubmitTelemetry, SubmitSignedTelemetry,
         Submit, CheckActive, CheckState, StreamStep, WindowEnds, FallsSilent, declaration

CheckType(seen) == [at : CheckInstants, op : Operations \union {None},
                    obs : seen \union {NoObservation}, verdict : Verdicts]

(* A check that moves alone keeps the types if what it becomes has them.   *)
LEMMA CheckMoves ==
  ASSUME CheckOK, rows \subseteq rows', NEW c \in Checks, UNCHANGED <<form, deps>>,
         told' \subseteq told \union (Checks \X Notified),
         check' \in [Checks -> CheckType(rows)],
         \A k \in Checks : k # c => check'[k] = check[k],
         check'[c].at # "idle" => check'[c].op \in Operations,
         check'[c].at \in {"latest", "tests"} => check'[c].verdict = "going on",
         check'[c].at \in {"signal", "leaving"} => check'[c].verdict \in Notified \union Silent
  PROVE  CheckOK'
<1>1. check' \in [Checks -> CheckType(rows')]
  BY DEF CheckType
<1> QED
  BY <1>1 DEF CheckOK, CheckType

LEMMA CheckTypes ==
  ASSUME CheckOK, [ConformanceNext]_allVars
  PROVE  CheckOK'
<1>1. rows \subseteq rows'
  BY ConformanceStepOfTelemetry, RowsGrow
<1>2. check \in [Checks -> CheckType(rows)] /\ check \in [Checks -> CheckType(rows')]
  BY <1>1 DEF CheckOK, CheckType
<1>3. CASE UNCHANGED checkVars
  BY <1>2, <1>3 DEF checkVars, CheckOK, CheckType
<1>4. ASSUME NEW d \in Operations, Meddle(d)
      PROVE  CheckOK'
  BY <1>2, <1>4 DEF Meddle, CheckOK, CheckType
<1>5. ASSUME NEW c \in Checks, NEW d \in Operations, CheckReference(c, d)
      PROVE  CheckOK'
  <2> DEFINE v == ReferenceVerdict(d)
  <2>1. v \in ReferenceMessages \union {"going on"}
    BY ReferenceVerdicts
  <2>2. /\ check' = [check EXCEPT ![c].op = d, ![c].verdict = v,
                        ![c].at = IF v = "going on" THEN "latest" ELSE "signal"]
        /\ UNCHANGED <<form, deps, told>>
    BY <1>5 DEF CheckReference
  <2>3. v = "going on" \/ (v \in Notified /\ v # "going on")
    BY <2>1 DEF ReferenceMessages, Notified
  <2> HIDE DEF v
  <2>4. PICK a \in {"latest", "signal"} :
           /\ a = IF v = "going on" THEN "latest" ELSE "signal"
           /\ check' = [check EXCEPT ![c].op = d, ![c].verdict = v, ![c].at = a]
    BY <2>2
  <2>5. v \in Verdicts /\ a \in CheckInstants
    BY <2>3, <2>4 DEF Verdicts, CheckInstants
  <2>6. check' \in [Checks -> CheckType(rows)]
    <3> DEFINE Ops == Operations \union {None}
               Obs == rows \union {NoObservation}
    <3>1. check \in [Checks -> [at : CheckInstants, op : Ops, obs : Obs, verdict : Verdicts]] /\ d \in Ops
      BY <1>2 DEF CheckType
    <3> HIDE DEF Ops, Obs
    <3>2. check' \in [Checks -> [at : CheckInstants, op : Ops, obs : Obs, verdict : Verdicts]]
      BY <2>4, <2>5, <3>1
    <3> QED
      BY <3>2 DEF CheckType, Ops, Obs
  <2>7. /\ check'[c].op = d /\ check'[c].verdict = v /\ check'[c].at = a
        /\ \A k \in Checks : k # c => check'[k] = check[k]
    BY <1>2, <2>4 DEF CheckType
  <2> QED
    BY <1>1, <2>2, <2>3, <2>4, <2>6, <2>7, CheckMoves
<1>6. ASSUME NEW c \in Checks, FindLatest(c)
      PROVE  CheckOK'
  <2>1. UNCHANGED <<form, deps, told>> /\ rows' = rows /\ check[c].at = "latest"
    BY <1>6 DEF FindLatest, vars
  <2>2. \/ check' = [check EXCEPT ![c].at = "done", ![c].verdict = "none"]
        \/ \E o \in rows : check' = [check EXCEPT ![c].at = "tests", ![c].obs = o]
    BY <1>6 DEF FindLatest
  <2>3. check[c].op \in Operations /\ check[c].verdict = "going on"
    BY <2>1 DEF CheckOK
  <2>4. CASE check' = [check EXCEPT ![c].at = "done", ![c].verdict = "none"]
    <3>1. "done" \in CheckInstants /\ "none" \in Verdicts
      BY DEF CheckInstants, Verdicts
    <3>2. check' \in [Checks -> CheckType(rows)]
      BY <1>2, <2>4, <3>1 DEF CheckType
    <3>3. /\ check'[c].op = check[c].op /\ check'[c].at = "done"
          /\ \A k \in Checks : k # c => check'[k] = check[k]
      BY <1>2, <2>4 DEF CheckType
    <3> QED
      BY <1>1, <2>1, <2>3, <3>2, <3>3, CheckMoves
  <2>5. ASSUME NEW o \in rows, check' = [check EXCEPT ![c].at = "tests", ![c].obs = o]
        PROVE  CheckOK'
    <3>1. "tests" \in CheckInstants
      BY DEF CheckInstants
    <3>2. check' \in [Checks -> CheckType(rows)]
      BY <1>2, <2>5, <3>1 DEF CheckType
    <3>3. /\ check'[c].op = check[c].op /\ check'[c].at = "tests"
          /\ check'[c].verdict = check[c].verdict
          /\ \A k \in Checks : k # c => check'[k] = check[k]
      BY <1>2, <2>5 DEF CheckType
    <3> QED
      BY <1>1, <2>1, <2>3, <3>2, <3>3, CheckMoves
  <2> QED
    BY <2>2, <2>4, <2>5
<1>7. ASSUME NEW c \in Checks, TestTelemetry(c)
      PROVE  CheckOK'
  <2> DEFINE v == TelemetryVerdict(check[c].op, check[c].obs.id)
  <2>1. v \in TelemetryMessages \union Silent \union {"raised", "conformant"}
    BY TelemetryVerdicts
  <2>2. /\ check' = [check EXCEPT ![c].verdict = v,
                        ![c].at = IF v \in {"conformant", "raised"} THEN "done" ELSE "signal"]
        /\ UNCHANGED <<form, deps, told>> /\ check[c].at = "tests"
    BY <1>7 DEF TestTelemetry
  <2>3. v \in {"conformant", "raised"} \/ (v \in Notified \union Silent /\ v \notin {"conformant", "raised"})
    BY <2>1 DEF TelemetryMessages, Notified, Silent
  <2> HIDE DEF v
  <2>4. PICK a \in {"done", "signal"} :
           /\ a = IF v \in {"conformant", "raised"} THEN "done" ELSE "signal"
           /\ check' = [check EXCEPT ![c].verdict = v, ![c].at = a]
    BY <2>2
  <2>5. v \in Verdicts /\ a \in CheckInstants /\ check[c].op \in Operations
    BY <2>2, <2>3, <2>4 DEF Verdicts, CheckInstants, CheckOK
  <2>6. check' \in [Checks -> CheckType(rows)]
    BY <1>2, <2>4, <2>5 DEF CheckType
  <2>7. /\ check'[c].op = check[c].op /\ check'[c].verdict = v /\ check'[c].at = a
        /\ \A k \in Checks : k # c => check'[k] = check[k]
    BY <1>2, <2>4 DEF CheckType
  <2> QED
    BY <1>1, <2>2, <2>3, <2>4, <2>5, <2>6, <2>7, CheckMoves
<1>8. ASSUME NEW c \in Checks, Signal(c)
      PROVE  CheckOK'
  <2>1. /\ UNCHANGED <<form, deps>> /\ check[c].at = "signal"
        /\ told' \subseteq told \union (Checks \X Notified)
    BY <1>8 DEF Signal
  <2>2. PICK what \in {"done", "leaving"} : check' = [check EXCEPT ![c].at = what]
    BY <1>8 DEF Signal
  <2>3. what \in CheckInstants /\ check[c].op \in Operations /\ check[c].verdict \in Notified \union Silent
    BY <2>1 DEF CheckOK, CheckInstants
  <2>4. check' \in [Checks -> CheckType(rows)]
    BY <1>2, <2>2, <2>3 DEF CheckType
  <2>5. /\ check'[c].op = check[c].op /\ check'[c].verdict = check[c].verdict /\ check'[c].at = what
        /\ \A k \in Checks : k # c => check'[k] = check[k]
    BY <1>2, <2>2 DEF CheckType
  <2> QED
    BY <1>1, <2>1, <2>2, <2>3, <2>4, <2>5, CheckMoves
<1>9. ASSUME NEW c \in Checks, EndLoop(c)
      PROVE  CheckOK'
  BY <1>2, <1>9 DEF EndLoop, CheckOK, CheckInstants, CheckType
<1> QED
  BY <1>3, <1>4, <1>5, <1>6, <1>7, <1>8, <1>9 DEF ConformanceNext, Beside, Progress, allVars

LEMMA UndisturbedStep ==
  ASSUME TypeOK, CheckOK, \A c \in Checks : Undisturbed(c), StateAlarmNeedsMeddling,
         [ConformanceNext]_allVars
  PROVE  (\A c \in Checks : Undisturbed(c)') /\ StateAlarmNeedsMeddling'
<1>1. \A d \in Operations : heard[d] # "never" => heard'[d] # "never"
  BY ConformanceStepOfTelemetry, HeardStays DEF vars
<1>2. \A c \in Checks : check[c].at \in {"latest", "tests"} => check[c].op \in Operations
  BY DEF CheckOK
<1>3. ASSUME UNCHANGED state, meddled \subseteq meddled', NEW k \in Checks, check'[k] = check[k]
      PROVE  Undisturbed(k)' /\ (check'[k].verdict \in {"C2", "C4", "C5"} => k \in meddled')
  BY <1>1, <1>2, <1>3 DEF Undisturbed, StateAlarmNeedsMeddling, HasReference
<1>4. CASE UNCHANGED checkVars /\ UNCHANGED state
  BY <1>3, <1>4 DEF checkVars, StateAlarmNeedsMeddling
<1>5. ASSUME NEW d \in Operations, Meddle(d)
      PROVE  (\A c \in Checks : Undisturbed(c)') /\ StateAlarmNeedsMeddling'
  <2>1. /\ UNCHANGED check
        /\ meddled' = meddled \union {c \in Checks : check[c].op = d /\ check[c].at \in {"latest", "tests"}}
    BY <1>5 DEF Meddle
  <2>2. \A e \in Operations : e # d => state'[e] = state[e]
    BY <1>5 DEF Meddle, OperatorMoves, Delete, TypeOK
  <2>3. \A c \in Checks : Undisturbed(c)'
    BY <1>1, <1>2, <2>1, <2>2 DEF Undisturbed, HasReference
  <2> QED
    BY <2>1, <2>3 DEF StateAlarmNeedsMeddling
<1>6. ASSUME NEW c \in Checks, UNCHANGED vars, UNCHANGED meddled,
             \A k \in Checks : k # c => check'[k] = check[k],
             Undisturbed(c)', check'[c].verdict \in {"C2", "C4", "C5"} => c \in meddled
      PROVE  (\A k \in Checks : Undisturbed(k)') /\ StateAlarmNeedsMeddling'
  <2>1. ASSUME NEW k \in Checks
        PROVE  Undisturbed(k)' /\ (check'[k].verdict \in {"C2", "C4", "C5"} => k \in meddled')
    <3>1. CASE k = c
      BY <1>6, <3>1
    <3>2. CASE k # c
      BY <1>3, <1>6, <3>2 DEF vars
    <3> QED
      BY <3>1, <3>2
  <2> QED
    BY <2>1 DEF StateAlarmNeedsMeddling
<1>7. check \in [Checks -> CheckType(rows)]
  BY DEF CheckOK, CheckType
<1>8. ASSUME NEW c \in Checks, NEW d \in Operations, CheckReference(c, d)
      PROVE  (\A k \in Checks : Undisturbed(k)') /\ StateAlarmNeedsMeddling'
  <2> DEFINE v == ReferenceVerdict(d)
  <2>1. /\ v \in ReferenceMessages \union {"going on"}
        /\ v = "going on" => /\ state[d] \in {2, 3, 4} /\ (Ussp => HasReference(d))
                             /\ heard[d] \notin {"never", "stale"}
    BY ReferenceVerdicts
  <2>2. /\ check' = [check EXCEPT ![c].op = d, ![c].verdict = v,
                        ![c].at = IF v = "going on" THEN "latest" ELSE "signal"]
        /\ UNCHANGED vars /\ UNCHANGED meddled
    BY <1>8 DEF CheckReference
  <2> HIDE DEF v
  <2>3. /\ check'[c].op = d /\ check'[c].verdict = v
        /\ check'[c].at = IF v = "going on" THEN "latest" ELSE "signal"
        /\ \A k \in Checks : k # c => check'[k] = check[k]
    BY <1>7, <2>2 DEF CheckType
  <2>4. v \notin {"C2", "C4", "C5"}
    BY <2>1 DEF ReferenceMessages
  <2>5. state' = state /\ heard' = heard
    BY <2>2 DEF vars
  <2>6. Undisturbed(c)'
    BY <2>1, <2>3, <2>5 DEF Undisturbed, HasReference
  <2> QED
    BY <1>6, <2>2, <2>3, <2>4, <2>6
<1>9. ASSUME NEW c \in Checks, FindLatest(c)
      PROVE  (\A k \in Checks : Undisturbed(k)') /\ StateAlarmNeedsMeddling'
  <2>1. UNCHANGED vars /\ UNCHANGED meddled /\ check[c].at = "latest"
    BY <1>9 DEF FindLatest
  <2>2. \/ check' = [check EXCEPT ![c].at = "done", ![c].verdict = "none"]
        \/ \E o \in rows : check' = [check EXCEPT ![c].at = "tests", ![c].obs = o]
    BY <1>9 DEF FindLatest
  <2>3. /\ check'[c].op = check[c].op /\ check'[c].at \in {"done", "tests"}
        /\ check'[c].verdict \in {check[c].verdict, "none"}
        /\ \A k \in Checks : k # c => check'[k] = check[k]
    BY <1>7, <2>2 DEF CheckType
  <2>4. check'[c].verdict \notin {"C2", "C4", "C5"}
    BY <2>1, <2>3 DEF CheckOK
  <2>5. state' = state
    BY <2>1 DEF vars
  <2>6. Undisturbed(c)'
    BY <2>1, <2>3, <2>5 DEF Undisturbed, HasReference
  <2> QED
    BY <1>6, <2>1, <2>3, <2>4, <2>6
<1>10. ASSUME NEW c \in Checks, TestTelemetry(c)
       PROVE  (\A k \in Checks : Undisturbed(k)') /\ StateAlarmNeedsMeddling'
  <2> DEFINE v == TelemetryVerdict(check[c].op, check[c].obs.id)
  <2>1. v \in {"C2", "C4", "C5"} =>
             \/ state[check[c].op] = Gone \/ (Ussp /\ ~HasReference(check[c].op))
             \/ state[check[c].op] \notin {2, 3, 4}
    BY TelemetryVerdicts
  <2>2. /\ check' = [check EXCEPT ![c].verdict = v,
                        ![c].at = IF v \in {"conformant", "raised"} THEN "done" ELSE "signal"]
        /\ UNCHANGED vars /\ UNCHANGED meddled /\ check[c].at = "tests"
    BY <1>10 DEF TestTelemetry
  <2> HIDE DEF v
  <2>3. /\ check'[c].verdict = v /\ check'[c].at \in {"done", "signal"}
        /\ \A k \in Checks : k # c => check'[k] = check[k]
    BY <1>7, <2>2 DEF CheckType
  <2>4. v \in {"C2", "C4", "C5"} => c \in meddled
    BY <2>1, <2>2, TelemetryAssumption DEF Undisturbed
  <2>5. Undisturbed(c)'
    BY <2>3 DEF Undisturbed
  <2> QED
    BY <1>6, <2>2, <2>3, <2>4, <2>5
<1>11. ASSUME NEW c \in Checks, Signal(c) \/ EndLoop(c)
       PROVE  (\A k \in Checks : Undisturbed(k)') /\ StateAlarmNeedsMeddling'
  <2>1. PICK what \in {"done", "leaving"} : check' = [check EXCEPT ![c].at = what]
    BY <1>11 DEF Signal, EndLoop
  <2>2. /\ check'[c].verdict = check[c].verdict /\ check'[c].at = what
        /\ \A k \in Checks : k # c => check'[k] = check[k]
    BY <1>7, <2>1 DEF CheckType
  <2>3. UNCHANGED vars /\ UNCHANGED meddled
    BY <1>11 DEF Signal, EndLoop
  <2>4. Undisturbed(c)'
    BY <2>2 DEF Undisturbed
  <2> QED
    BY <1>6, <2>2, <2>3, <2>4 DEF StateAlarmNeedsMeddling
<1>12. Beside => UNCHANGED checkVars /\ UNCHANGED state
  BY BesideKeepsStates DEF Beside
<1> QED
  BY <1>4, <1>5, <1>8, <1>9, <1>10, <1>11, <1>12 DEF ConformanceNext, Progress, allVars, vars

(* An observation that is in the store or on its way stays one of both:    *)
(* the task that passes it on, the worker that flushes it and the commit   *)
(* hand it on.                                                             *)
Known(d) == OnItsWay(d) \/ \E o \in rows : Operation(o.id) = d

LEMMA PassedIsKnown ==
  ASSUME NEW d
  PROVE  Known(d) <=> \/ \E id \in Passed : Operation(id) = d
                      \/ \E t \in DOMAIN streams : \E i \in streams[t][1]..t[2] :
                            request[t[1]].flights[i].op = d
  BY DEF Known, OnItsWay, Passed

LEMMA PassedStays ==
  ASSUME TypeOK, Next
  PROVE  Passed \subseteq Passed'
<1>1. CASE UNCHANGED store
  BY <1>1 DEF store, Passed
<1>2. ASSUME NEW t \in DOMAIN streams, StreamStep(t)
      PROVE  Passed \subseteq Passed'
  BY <1>2 DEF StreamStep, Passed
<1>3. ASSUME NEW id \in queued, FlushRow(id)
      PROVE  Passed \subseteq Passed'
  <2>1. /\ queued' = queued \ {id} /\ rows' = rows
        /\ open' = open \union {[id |-> id, at |-> clock']}
    BY <1>3 DEF FlushRow
  <2>2. [id |-> id, at |-> clock'] \in open' /\ [id |-> id, at |-> clock'].id = id
    BY <2>1
  <2>3. id \in Passed'
    BY <2>2 DEF Passed
  <2> QED
    BY <2>1, <2>3 DEF Passed
<1>4. ASSUME NEW o \in open, CommitRow(o)
      PROVE  Passed \subseteq Passed'
  BY <1>4 DEF CommitRow, Passed
<1>5. UNCHANGED store \/ (\E t \in DOMAIN streams : StreamStep(t))
      \/ (\E id \in queued : FlushRow(id)) \/ (\E o \in open : CommitRow(o))
  BY DEF Next, Serve, Work, Read, Surroundings, QueryRows, BeginPoll, ReadingExpires,
         SubmitTelemetry, SubmitSignedTelemetry, Submit, CheckActive, CheckState,
         OperatorMoves, Delete, WindowEnds, FallsSilent, store
<1> QED
  BY <1>1, <1>2, <1>3, <1>4, <1>5

(* A stream task that moves leaves no flight behind but one whose states   *)
(* it has all passed on.                                                   *)
LEMMA StepLeavesNone ==
  ASSUME TypeOK, NEW t \in DOMAIN streams, StreamStep(t), NEW i \in streams[t][1]..t[2]
  PROVE  \/ i \in streams'[t][1]..t[2]
         \/ \E id \in Passed' : Operation(id)' = request[t[1]].flights[i].op
<1> DEFINE fs == request[t[1]].flights
           step == streams[t]
<1>1. RequestOK /\ StreamOK
  BY Parts
<1>2. /\ step[1] <= t[2] /\ streams' = [streams EXCEPT ![t] = Following(fs, step)]
      /\ request' = request
      /\ step[2] > 0 => queued' = queued \union {<<t[1], t[2], step[1], step[2]>>}
  BY DEF StreamStep
<1>3. /\ step \in Nat \X Nat /\ step[1] \in 1..t[2] /\ t[2] \in Nat
      /\ step[2] <= Len(fs[step[1]].places) /\ IsList(fs[step[1]].places)
  <2>1. t[2] \in Nat
    BY <1>1 DEF StreamOK
  <2> QED
    BY <1>1, <1>2, <2>1, StepOfTask
<1>4. streams'[t] = Following(fs, step)
  BY <1>2
<1>5. CASE step[2] < Len(fs[step[1]].places)
  BY <1>3, <1>4, <1>5 DEF Following
<1>6. CASE step[2] >= Len(fs[step[1]].places)
  <2>1. step[2] > 0 /\ streams'[t][1] = step[1] + 1
    BY <1>3, <1>4, <1>6 DEF Following, IsList
  <2>2. CASE i = step[1]
    <3>1. PICK id \in Passed' : id = <<t[1], t[2], step[1], step[2]>>
      BY <1>2, <2>1 DEF Passed
    <3>2. Operation(id)' = fs[step[1]].op
      BY <1>2, <3>1 DEF Operation, Flight
    <3> QED
      BY <2>2, <3>2
  <2>3. CASE i # step[1]
    BY <1>3, <2>1, <2>3
  <2> QED
    BY <2>2, <2>3
<1> QED
  BY <1>3, <1>5, <1>6 DEF IsList

LEMMA KnownStays ==
  ASSUME TypeOK, Next, NEW d, Known(d)
  PROVE  Known(d)'
<1>1. RequestOK /\ StreamOK /\ RowOK /\ Kept
  BY Parts, RequestStep
<1>2. ASSUME NEW id \in Passed, Operation(id) = d
      PROVE  Known(d)'
  <2>1. id \in Passed' /\ Operation(id)' = d
    BY <1>1, <1>2, PassedStays, PassedAreWrites, WriteStaysAnnounced
  <2> QED
    BY <2>1 DEF Known, OnItsWay, Passed
<1>3. ASSUME NEW t \in DOMAIN streams, NEW i \in streams[t][1]..t[2],
             request[t[1]].flights[i].op = d
      PROVE  Known(d)'
  <2>1. streams[t] \in Nat \X Nat /\ t[2] \in Nat
    BY <1>1 DEF StreamOK, IsStep
  <2>2. streams[t][1] <= t[2]
    BY <1>3, <2>1
  <2>3. t[1] \in Requests /\ request[t[1]].at # "idle" /\ streams[t][1] \in 1..t[2]
    BY <1>1, <2>2, StepOfTask
  <2>4. request'[t[1]].flights[i].op = d
    BY <1>1, <1>3, <2>3 DEF Kept
  <2>5. t \in DOMAIN streams' /\ (streams'[t] \in {streams[t], <<1, 0>>} \/ StreamStep(t))
    BY StreamsMove DEF Sent
  <2>6. CASE streams'[t] \in {streams[t], <<1, 0>>}
    <3>1. i \in streams'[t][1]..t[2]
      BY <2>1, <2>3, <2>6
    <3> QED
      BY <2>4, <2>5, <3>1 DEF Known, OnItsWay
  <2>7. CASE StreamStep(t)
    <3>1. CASE i \in streams'[t][1]..t[2]
      BY <2>4, <2>5, <3>1 DEF Known, OnItsWay
    <3>2. ASSUME NEW id \in Passed', Operation(id)' = request[t[1]].flights[i].op
          PROVE  Known(d)'
      BY <1>3, <3>2 DEF Known, OnItsWay, Passed
    <3> QED
      BY <2>7, <3>1, <3>2, StepLeavesNone
  <2> QED
    BY <2>5, <2>6, <2>7
<1> QED
  BY <1>2, <1>3, PassedIsKnown

(* Who stamps a declaration has its states before it.                      *)
LEMMA ReportedStep ==
  ASSUME TypeOK, Reported, Next
  PROVE  Reported'
<1>1. RequestOK /\ StreamOK /\ DeclarationOK
  BY Parts
<1>2. ASSUME NEW d \in Operations, heard'[d] # "never"
      PROVE  Known(d)'
  <2>1. CASE heard[d] # "never"
    BY <2>1, KnownStays DEF Reported, Known
  <2>2. CASE heard[d] = "never"
    <3>1. PICK t \in DOMAIN streams : StreamStep(t) /\ heard' # heard
      <4>1. UNCHANGED heard \/ (\E t \in DOMAIN streams : StreamStep(t))
            \/ (\E e \in Operations : FallsSilent(e))
        BY DEF Next, Serve, Work, Read, Surroundings, FlushRow, CommitRow, QueryRows, BeginPoll,
               ReadingExpires, SubmitTelemetry, SubmitSignedTelemetry, Submit, CheckActive,
               CheckState, OperatorMoves, Delete, WindowEnds, declaration
      <4>2. ASSUME NEW e \in Operations, FallsSilent(e)
            PROVE  FALSE
        BY <1>1, <1>2, <2>2, <4>2 DEF FallsSilent, DeclarationOK
      <4> QED
        BY <1>2, <2>2, <4>1, <4>2
    <3> DEFINE fs == request[t[1]].flights
               step == streams[t]
    <3>2. /\ step[1] <= t[2] /\ step[2] = 0 /\ heard' = [heard EXCEPT ![fs[step[1]].op] = "fresh"]
          /\ streams' = [streams EXCEPT ![t] = Following(fs, step)] /\ request' = request
      BY <3>1 DEF StreamStep
    <3>3. d = fs[step[1]].op
      BY <1>1, <1>2, <2>2, <3>2 DEF DeclarationOK
    <3>4. step[1] \in 1..t[2] /\ IsList(fs[step[1]].places) /\ t[2] \in Nat
      <4>1. t[2] \in Nat
        BY <1>1 DEF StreamOK
      <4> QED
        BY <1>1, <3>2, <4>1, StepOfTask
    <3>5. streams'[t] = <<step[1], 1>>
      BY <3>2, <3>4 DEF Following, IsList
    <3>6. step[1] \in streams'[t][1]..t[2] /\ t \in DOMAIN streams'
      BY <3>2, <3>4, <3>5
    <3> QED
      BY <3>2, <3>3, <3>6 DEF Known, OnItsWay
  <2> QED
    BY <2>1, <2>2
<1> QED
  BY <1>2 DEF Reported, Known

-----------------------------------------------------------------------------
(* Theorems of the checks.                                                 *)

ChecksInv ==
    /\ TelemetryInv /\ CheckOK /\ Reported
    /\ (\A c \in Checks : Undisturbed(c)) /\ StateAlarmNeedsMeddling

LEMMA ChecksInvInit ==
  ASSUME ConformanceInit
  PROVE  ChecksInv
<1>1. TelemetryInv /\ Reported
  BY TelemetryInvInit DEF ConformanceInit, Init, Reported
<1>2. /\ CheckOK /\ StateAlarmNeedsMeddling
      /\ \A c \in Checks : Undisturbed(c)
  BY ChecksAssumption DEF ConformanceInit, CheckOK, CheckInstants, Verdicts, Undisturbed,
       StateAlarmNeedsMeddling
<1> QED
  BY <1>1, <1>2 DEF ChecksInv

LEMMA ChecksInvStep ==
  ASSUME ChecksInv, [ConformanceNext]_allVars
  PROVE  ChecksInv'
<1>1. [Next]_vars /\ TypeOK
  BY ConformanceStepOfTelemetry DEF ChecksInv, TelemetryInv
<1>2. TelemetryInv'
  BY <1>1, TelemetryInvStep DEF ChecksInv
<1>3. CheckOK'
  BY CheckTypes DEF ChecksInv
<1>4. (\A c \in Checks : Undisturbed(c)') /\ StateAlarmNeedsMeddling'
  BY <1>1, UndisturbedStep DEF ChecksInv
<1>5. Reported'
  <2>1. CASE Next
    BY <1>1, <2>1, ReportedStep DEF ChecksInv
  <2>2. CASE UNCHANGED vars
    BY <2>2 DEF ChecksInv, vars, Reported, OnItsWay, Operation, Flight
  <2> QED
    BY <1>1, <2>1, <2>2
<1> QED
  BY <1>2, <1>3, <1>4, <1>5 DEF ChecksInv

LEMMA ChecksInvHolds == ConformanceSpec => []ChecksInv
<1>1. ConformanceInit => ChecksInv
  BY ChecksInvInit
<1>2. ChecksInv /\ [ConformanceNext]_allVars => ChecksInv'
  BY ChecksInvStep
<1> QED
  BY <1>1, <1>2, PTL DEF ConformanceSpec

(* A check signals only codes its receivers may raise, tells only codes    *)
(* they have a message for, and tests only observations of the store       *)
(* (check_flight_conformance).                                             *)
THEOREM ChecksTyped == ConformanceSpec => []ConformanceTypeOK
<1>1. ChecksInv => ConformanceTypeOK
  <2> SUFFICES ASSUME ChecksInv
               PROVE  ConformanceTypeOK
    OBVIOUS
  <2>1. TypeOK /\ CheckOK
    BY DEF ChecksInv, TelemetryInv
  <2> QED
    BY <2>1 DEF ConformanceTypeOK, CheckOK, CheckInstants, Verdicts
<1> QED
  BY <1>1, ChecksInvHolds, PTL

(* Whatever telemetry, tasks and other checks do, the tests of an          *)
(* observation find the declaration gone or in a state that is not active  *)
(* only if an operator moved or deleted it after the first session of the  *)
(* check (check_flight_conformance).                                       *)
THEOREM AlarmsNeedMeddling == ConformanceSpec => []StateAlarmNeedsMeddling
<1>1. ChecksInv => StateAlarmNeedsMeddling
  BY DEF ChecksInv
<1> QED
  BY <1>1, ChecksInvHolds, PTL

(* A check that was told of telemetry and finds no observation gives up    *)
(* only while one is on its way: for any number of requests, dispatches    *)
(* and workers nothing that was announced is lost (check_flight_           *)
(* conformance, stream_rid_telemetry_data).                                *)
THEOREM NothingAnnouncedIsLost == ConformanceSpec => SilentOnlyMeanwhile
<1>1. ASSUME ChecksInv, [ConformanceNext]_allVars, NEW c \in Checks,
             check[c].at = "latest", check'[c].verdict = "none"
      PROVE  OnItsWay(check[c].op)
  <2>1. check[c].verdict = "going on" /\ check[c].op \in Operations
    BY <1>1 DEF ChecksInv, CheckOK
  <2>2. check \in [Checks -> CheckType(rows)]
    BY <1>1 DEF ChecksInv, CheckOK, CheckType
  <2>3. FindLatest(c)
    <3>1. check' # check
      BY <1>1, <2>1
    <3>2. PICK k \in Checks : Progress(k) \/ \E d \in Operations : CheckReference(k, d)
      BY <1>1, <3>1 DEF ConformanceNext, Beside, Meddle, allVars, checkVars
    <3>3. k = c
      BY <1>1, <2>1, <2>2, <3>2 DEF Progress, FindLatest, TestTelemetry, Signal, EndLoop, CheckReference
    <3> QED
      BY <1>1, <3>2, <3>3 DEF Progress, TestTelemetry, Signal, EndLoop, CheckReference
  <2>4. ~\E o \in rows : Operation(o.id) = check[c].op
    <3>1. CASE {o \in rows : Operation(o.id) = check[c].op} = {}
      BY <3>1
    <3>2. ASSUME NEW o, check' = [check EXCEPT ![c].at = "tests", ![c].obs = o]
          PROVE  FALSE
      BY <1>1, <2>1, <2>2, <3>2 DEF CheckType
    <3> QED
      BY <2>3, <3>1, <3>2 DEF FindLatest
  <2>5. heard[check[c].op] # "never"
    BY <1>1 DEF ChecksInv, Undisturbed
  <2> QED
    BY <1>1, <2>1, <2>4, <2>5 DEF ChecksInv, Reported
<1>2. ChecksInv /\ [ConformanceNext]_allVars =>
         [\A c \in Checks :
             check[c].at = "latest" /\ check'[c].verdict = "none" => OnItsWay(check[c].op)]_allVars
  BY <1>1
<1> QED
  BY <1>2, ChecksInvHolds, PTL DEF ConformanceSpec, SilentOnlyMeanwhile

-----------------------------------------------------------------------------
(* The machine of operation states and its handlers.                       *)

Final == {Ended, Withdrawn, Cancelled, Rejected}

(* An event an edge is for takes it, any other stays: where the machine    *)
(* goes is either an edge or no move at all (State.on_event).              *)
LEMMA EdgeOrStay ==
  ASSUME NEW s \in OperationState, NEW e \in Event
  PROVE  OnEvent(s, e) = s \/ <<s, e, OnEvent(s, e)>> \in Edges
  BY DEF OnEvent

(* No edge leads out of a final state.                                     *)
LEMMA NoWayOut ==
  ASSUME NEW s \in Final, NEW e, NEW n
  PROVE  <<s, e, n>> \notin Edges
  BY DEF Edges, Final, NotSubmitted, Accepted, Activated, Nonconforming, Contingent,
         Ended, Withdrawn, Cancelled, Rejected

(* An edge that leads to a final state carries the event its handler waits *)
(* for.                                                                    *)
LEMMA EdgesThatEnd ==
  ASSUME NEW s, NEW e, NEW n \in Final, <<s, e, n>> \in Edges
  PROVE  <<e, n>> \in Ends
  BY DEF Edges, Ends, Final, NotSubmitted, Accepted, Activated, Nonconforming, Contingent,
         Ended, Withdrawn, Cancelled, Rejected

(* The machine and the handlers agree on the end of an operation: every    *)
(* change to a final state that the machine verifies clears the intent in  *)
(* the DSS, so no operation ends whose airspace stays claimed, and after a *)
(* change that clears it no event moves the operation again, so none flies *)
(* on without its intent (verify_ and manage_operation_state_transition).  *)
THEOREM EndsAreForGood ==
  ASSUME NEW s \in OperationState, NEW n \in OperationState, NEW e \in Event,
         Verified(s, n, e) = "yes", n # s
  PROVE  /\ n \in Final => ClearsDss(n, e, TRUE)
         /\ ClearsDss(n, e, TRUE) => \A later \in Event : OnEvent(n, later) = n
<1>1. <<s, e, n>> \in Edges
  BY EdgeOrStay DEF Verified
<1>2. n \in Final => ClearsDss(n, e, TRUE)
  BY <1>1, EdgesThatEnd DEF ClearsDss
<1>3. ASSUME ClearsDss(n, e, TRUE), NEW later \in Event
      PROVE  OnEvent(n, later) = n
  <2>1. n \in Final
    BY <1>3 DEF ClearsDss, Ends, Final
  <2>2. \A m \in OperationState : <<n, later, m>> \notin Edges
    BY <2>1, NoWayOut
  <2> QED
    BY <2>2 DEF OnEvent
<1> QED
  BY <1>2, <1>3

(* Whatever deviation is found, the change its receiver asks for leaves    *)
(* the intent in the DSS and takes no operation back to where it had not   *)
(* taken off (the receivers of services/conformance_svc.py).               *)
THEOREM DeviationsKeepTheIntent ==
  ASSUME NEW s \in OperationState, NEW code, NEW ussp \in BOOLEAN
  PROVE  /\ code \in Code => ~ClearsDss(AskedFor(code).to, AskedFor(code).event, ussp)
         /\ StateAfter(s, code) \in {s, Nonconforming, Contingent}
<1>1. ASSUME code \in Code
      PROVE  AskedFor(code).to \in {Nonconforming, Contingent}
  BY <1>1 DEF AskedFor, Asking, Code
<1>2. ASSUME NEW e PROVE <<e, Nonconforming>> \notin Ends /\ <<e, Contingent>> \notin Ends
  BY DEF Ends, Nonconforming, Contingent, Ended, Withdrawn, Cancelled
<1> QED
  BY <1>1, <1>2 DEF ClearsDss, StateAfter

=============================================================================
