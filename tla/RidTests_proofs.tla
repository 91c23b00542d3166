--------------------------- MODULE RidTests_proofs ---------------------------
(* Theorems about RidTests, for every number of tests, entries and streams *)
(* and all lifetimes: what the variables hold, that a stop is heeded, and  *)
(* that an undisturbed stream sends its own flights only. And about        *)
(* RidDisplay: what a poll of providers tells, for any number of them and  *)
(* of their flights, and what a cluster hides.                             *)
EXTENDS RidTests, RidDisplay, FoldLemmas

-----------------------------------------------------------------------------
(* Types.                                                                  *)

LEMMA NoStreamType == NoStream \in Task
  BY DEF NoStream, Task, Second

LEMMA InitType == Init => TypeOK
<1> SUFFICES ASSUME Init PROVE TypeOK
  OBVIOUS
<1>1. stream \in [Streams -> Task] /\ \A k \in Streams : stream[k].at = "idle"
  BY NoStreamType DEF Init, NoStream
<1>2. DOMAIN set = {}
  BY DEF Init
<1> QED
  BY <1>1, <1>2, RidAssumption DEF Init, TypeOK, Second

(* What a step does to one task keeps the type of all, if it keeps its.    *)
LEMMA TaskType ==
  ASSUME TypeOK, NEW k \in Streams, NEW s \in Task,
         s.at # "idle" => s.test \in Tests, stream' = [stream EXCEPT ![k] = s]
  PROVE  /\ stream' \in [Streams -> Task]
         /\ \A j \in Streams : stream'[j].at # "idle" => stream'[j].test \in Tests
  BY DEF TypeOK

LEMMA ScoresType == ASSUME TypeOK PROVE Scores \subseteq 0..clock /\ Scores \subseteq Nat
  BY DEF TypeOK, Scores

LEMMA StreamType ==
  ASSUME TypeOK, NEW k \in Streams, StreamNext(k)
  PROVE  TypeOK'
<1> DEFINE s == stream[k]
<1>0. s \in Task /\ clock \in Nat
  BY DEF TypeOK
<1>1. CASE BeginStream(k)
  <2>1. [s EXCEPT !.at = "adding"] \in Task
    BY <1>0 DEF Task
  <2>2. stream' = [stream EXCEPT ![k] = [s EXCEPT !.at = "adding"]] /\ s.test \in Tests
    BY <1>1 DEF BeginStream, TypeOK
  <2>3. DOMAIN set' = {} /\ disturbed' \subseteq Streams
    BY <1>1 DEF BeginStream, Others, TypeOK
  <2> QED
    BY <1>0, <1>1, <2>1, <2>2, <2>3, TaskType DEF BeginStream, TypeOK, database, Task
<1>2. CASE AddEntry(k)
  <2> DEFINE entry == <<s.test, s.next>>
  <2>1. [s EXCEPT !.next = @ + 1] \in Task
    BY <1>0 DEF Task
  <2>2. stream' = [stream EXCEPT ![k] = [s EXCEPT !.next = @ + 1]] /\ s.test \in Tests
    BY <1>2 DEF AddEntry, TypeOK
  <2>3. entry \in Entries
    BY <1>2, <2>2 DEF AddEntry, Entries
  <2>4. DOMAIN set' \subseteq Entries /\ \A e \in DOMAIN set' : set'[e] \in 0..clock
    BY <1>0, <1>2, <2>3 DEF AddEntry, TypeOK
  <2>5. disturbed' \subseteq Streams /\ notices' \subseteq Tests \X {"NET0030", "NET0040"}
    BY <1>2, <2>2 DEF AddEntry, Others, TypeOK
  <2>6. UNCHANGED <<clock, key, stopped, sent, lastSeen, late>>
    BY <1>2 DEF AddEntry
  <2> HIDE DEF entry
  <2> QED
    BY <1>0, <2>1, <2>2, <2>4, <2>5, <2>6, TaskType DEF TypeOK, Task
<1>3. CASE Measure(k)
  <2>1. \E t \in Task : t.test = s.test /\ t.at # "idle" /\ stream' = [stream EXCEPT ![k] = t]
    <3>1. CASE stream' = [stream EXCEPT ![k].at = "failed"]
      <4>1. [s EXCEPT !.at = "failed"] \in Task
        BY <1>0 DEF Task
      <4> QED
        BY <1>0, <3>1, <4>1 DEF Task
    <3>2. CASE stream' = [stream EXCEPT ![k].at = "crashed"]
      <4>1. [s EXCEPT !.at = "crashed"] \in Task
        BY <1>0 DEF Task
      <4> QED
        BY <1>0, <3>2, <4>1 DEF Task
    <3>3. ASSUME NEW low \in Scores, NEW high \in Scores,
                 stream' = [stream EXCEPT ![k].at = "resting", ![k].first = low,
                                          ![k].last = high, ![k].due = clock + Rest]
          PROVE  \E t \in Task : t.test = s.test /\ t.at # "idle" /\ stream' = [stream EXCEPT ![k] = t]
      <4> DEFINE t == [s EXCEPT !.at = "resting", !.first = low, !.last = high, !.due = clock + Rest]
      <4>1. low \in Nat /\ high \in Nat /\ clock + Rest \in Nat
        BY <1>0, ScoresType, RidAssumption
      <4>2. t \in Task /\ t.test = s.test /\ t.at # "idle"
        BY <1>0, <4>1 DEF Task, Second
      <4>3. stream' = [stream EXCEPT ![k] = t]
        BY <1>0, <3>3 DEF TypeOK
      <4> QED
        BY <4>2, <4>3
    <3> QED
      BY <1>3, <3>1, <3>2, <3>3 DEF Measure
  <2>2. s.test \in Tests /\ UNCHANGED <<clock, key, stopped, set, sent, notices, lastSeen, disturbed, late>>
    BY <1>3 DEF Measure, TypeOK, database, history
  <2> QED
    BY <1>0, <2>1, <2>2, TaskType DEF TypeOK
<1>4. CASE WakeUp(k)
  <2>1. PICK q \in Scores \union {None} : stream' = [stream EXCEPT ![k].at = "looking", ![k].final = q]
    BY <1>4 DEF WakeUp
  <2>2. [s EXCEPT !.at = "looking", !.final = q] \in Task
    BY <1>0, ScoresType DEF Task, Second
  <2>3. stream' = [stream EXCEPT ![k] = [s EXCEPT !.at = "looking", !.final = q]] /\ s.test \in Tests
    BY <1>4, <2>1 DEF WakeUp, TypeOK
  <2>4. UNCHANGED <<clock, key, stopped, set, sent, notices, lastSeen, disturbed, late>>
    BY <1>4 DEF WakeUp, database, history
  <2> QED
    BY <1>0, <2>2, <2>3, <2>4, TaskType DEF TypeOK, Task
<1>5. CASE Look(k)
  <2>1. PICK p \in {"done", "sending"} : stream' = [stream EXCEPT ![k].at = p]
    BY <1>5 DEF Look
  <2>2. [s EXCEPT !.at = p] \in Task
    BY <1>0 DEF Task
  <2>3. stream' = [stream EXCEPT ![k] = [s EXCEPT !.at = p]] /\ s.test \in Tests
    BY <1>5, <2>1 DEF Look, TypeOK
  <2>4. UNCHANGED <<clock, key, stopped, set, sent, notices, lastSeen, disturbed, late>>
    BY <1>5 DEF Look, database, history
  <2> QED
    BY <1>0, <2>2, <2>3, <2>4, TaskType DEF TypeOK, Task
<1>6. CASE Send(k)
  <2> DEFINE q == QueryTime(s)
             found == IF clock > s.first THEN Closest(q) ELSE {}
  <2>1. s.test \in Tests /\ UNCHANGED <<clock, key, stopped, set, disturbed>>
    BY <1>6 DEF Send, TypeOK
  <2>2. stream' \in [Streams -> Task]
        /\ \A j \in Streams : stream'[j].at # "idle" => stream'[j].test \in Tests
    <3>1. CASE stream' = [stream EXCEPT ![k].at = "crashed"]
      <4>1. [s EXCEPT !.at = "crashed"] \in Task
        BY <1>0 DEF Task
      <4> QED
        BY <1>0, <2>1, <3>1, <4>1, TaskType DEF Task
    <3>2. CASE stream' = [stream EXCEPT ![k].at = "looking", ![k].due = clock + 1]
      <4>0. clock + 1 \in Nat
        BY <1>0
      <4>1. [s EXCEPT !.at = "looking", !.due = clock + 1] \in Task
        <5> HIDE DEF q, found
        <5> QED
          BY <1>0, <4>0 DEF Task
      <4>2. stream' = [stream EXCEPT ![k] = [s EXCEPT !.at = "looking", !.due = clock + 1]]
        BY <1>0, <3>2 DEF TypeOK
      <4> QED
        BY <1>0, <2>1, <4>1, <4>2, TaskType DEF Task
    <3> QED
      BY <1>6, <3>1, <3>2 DEF Send
  <2>3. found \subseteq Entries /\ (found # {} => q \in 0..clock)
    BY DEF TypeOK, Closest
  <2> HIDE DEF found, q
  <2>4. /\ sent' \subseteq sent \union ({k} \X found)
        /\ notices' \subseteq notices \union {<<s.test, "NET0040">>}
        /\ lastSeen' = lastSeen \/ (found # {} /\ lastSeen' = [lastSeen EXCEPT ![s.test] = q])
        /\ late' = late \/ late' = [late EXCEPT ![k] = @ + 1]
    BY <1>6 DEF Send, found, q
  <2>5. sent' \subseteq Streams \X Entries /\ notices' \subseteq Tests \X {"NET0030", "NET0040"}
    BY <2>1, <2>3, <2>4 DEF TypeOK
  <2>6. lastSeen' \in [Tests -> 0..clock \union {None}] /\ late' \in [Streams -> Nat]
    BY <1>0, <2>1, <2>3, <2>4 DEF TypeOK
  <2> QED
    BY <2>1, <2>2, <2>5, <2>6 DEF TypeOK
<1> QED
  BY <1>1, <1>2, <1>3, <1>4, <1>5, <1>6 DEF StreamNext

LEMMA NextType == TypeOK /\ [Next]_vars => TypeOK'
<1> SUFFICES ASSUME TypeOK, [Next]_vars PROVE TypeOK'
  OBVIOUS
<1>0. clock \in Nat /\ MaxTime \in Nat /\ Ttl \in Nat /\ Ttl > 0
  BY RidAssumption DEF TypeOK
<1>1. CASE Tick
  <2>1. clock' \in 0..MaxTime /\ clock' = clock + 1
    BY <1>0, <1>1 DEF Tick
  <2>2. key' \in [Tests -> Second]
    BY <1>1 DEF Tick, TypeOK, Second
  <2>3. \A t \in Tests : key'[t] \in (clock' + 1)..(clock' + Ttl) \union {None}
    BY <1>0, <1>1, <2>1 DEF Tick, TypeOK
  <2>4. 0..clock \subseteq 0..clock'
    BY <1>0, <2>1
  <2>5. lastSeen' \in [Tests -> 0..clock' \union {None}]
    BY <1>1, <2>4 DEF Tick, TypeOK
  <2>6. \A e \in DOMAIN set' : set'[e] \in 0..clock'
    BY <1>1, <2>4 DEF Tick, TypeOK
  <2> QED
    BY <1>1, <2>1, <2>2, <2>3, <2>5, <2>6 DEF Tick, TypeOK, database, history
<1>2. ASSUME NEW t \in Tests, NEW k \in Streams, CreateTest(t, k) PROVE TypeOK'
  <2> DEFINE s == [NoStream EXCEPT !.at = "queued", !.test = t]
  <2>1. s \in Task /\ s.test \in Tests
    BY NoStreamType DEF NoStream, Task
  <2>2. stream' = [stream EXCEPT ![k] = s]
    BY <1>2 DEF CreateTest
  <2>3. /\ key' \in [Tests -> Second]
        /\ \A u \in Tests : key'[u] \in (clock + 1)..(clock + Ttl) \union {None}
    BY <1>0, <1>2 DEF CreateTest, TypeOK, Second
  <2>4. UNCHANGED <<clock, stopped, set, sent, notices, lastSeen, disturbed, late>>
    BY <1>2 DEF CreateTest, database, history
  <2> HIDE DEF s
  <2> QED
    BY <2>1, <2>2, <2>3, <2>4, TaskType DEF TypeOK
<1>3. ASSUME NEW t \in Tests, DeleteTest(t) PROVE TypeOK'
  BY <1>3 DEF DeleteTest, TypeOK, database, history
<1>4. CASE UNCHANGED vars
  BY <1>4 DEF vars, TypeOK
<1> QED
  BY <1>1, <1>2, <1>3, <1>4, StreamType DEF Next

(* The types of the tests, the tasks and the set hold in every state.      *)
THEOREM TypeCorrect == Spec => []TypeOK
<1>1. Init => TypeOK
  BY InitType
<1>2. TypeOK /\ [Next]_vars => TypeOK'
  BY NextType
<1> QED
  BY <1>1, <1>2, PTL DEF Spec

-----------------------------------------------------------------------------
(* A stop.                                                                 *)

(* A task that has sent since its test was stopped did so once, and looks  *)
(* at the stop key before anything else.                                   *)
HasSent(k) ==
  late[k] # 0 => /\ late[k] = 1
                 /\ stream[k].test \in stopped
                 /\ stream[k].at \in {"looking", "done"}

StopInv == TypeOK /\ \A k \in Streams : HasSent(k)

LEMMA StopNext == StopInv /\ [Next]_vars => StopInv'
<1> SUFFICES ASSUME StopInv, [Next]_vars PROVE StopInv'
  OBVIOUS
<1>1. TypeOK /\ TypeOK'
  BY NextType DEF StopInv
<1>2. ASSUME NEW j \in Streams, late'[j] = late[j], stream'[j] = stream[j], stopped \subseteq stopped'
      PROVE  HasSent(j)'
  BY <1>2 DEF StopInv, HasSent
<1>3. CASE Tick \/ UNCHANGED vars
  BY <1>1, <1>2, <1>3 DEF Tick, vars, history, StopInv
<1>4. ASSUME NEW t \in Tests, DeleteTest(t) PROVE StopInv'
  BY <1>1, <1>2, <1>4 DEF DeleteTest, history, StopInv
<1>5. ASSUME NEW t \in Tests, NEW k \in Streams, CreateTest(t, k) PROVE StopInv'
  <2>1. late' = late /\ stopped' = stopped /\ late[k] = 0
    BY <1>5 DEF CreateTest, history, StopInv, HasSent
  <2>2. \A j \in Streams \ {k} : stream'[j] = stream[j]
    BY <1>1, <1>5 DEF CreateTest, TypeOK
  <2>3. HasSent(k)'
    BY <2>1 DEF HasSent
  <2> QED
    BY <1>1, <1>2, <2>1, <2>2, <2>3 DEF StopInv
<1>6. ASSUME NEW k \in Streams, StreamNext(k) PROVE StopInv'
  <2>1. stopped' = stopped /\ \A j \in Streams \ {k} : stream'[j] = stream[j] /\ late'[j] = late[j]
    BY <1>1, <1>6 DEF StreamNext, BeginStream, AddEntry, Measure, WakeUp, Look, Send, history, TypeOK
  <2>2. CASE BeginStream(k) \/ AddEntry(k) \/ Measure(k) \/ WakeUp(k)
    <3>1. late' = late /\ late[k] = 0
      BY <2>2 DEF BeginStream, AddEntry, Measure, WakeUp, history, StopInv, HasSent
    <3> QED
      BY <1>1, <1>2, <2>1, <3>1 DEF StopInv, HasSent
  <2>3. CASE Look(k)
    <3>1. late' = late /\ stream'[k].test = stream[k].test
      BY <1>1, <2>3 DEF Look, history, TypeOK, Task
    <3>2. stream[k].test \in stopped => stream'[k].at = "done"
      BY <1>1, <2>3 DEF Look, TypeOK, Task
    <3> QED
      BY <1>1, <1>2, <2>1, <3>1, <3>2 DEF StopInv, HasSent
  <2>4. CASE Send(k)
    <3>1. late[k] = 0
      BY <2>4 DEF Send, StopInv, HasSent
    <3>2. late'[k] # 0 => /\ late'[k] = 1 /\ stream[k].test \in stopped
                          /\ stream'[k].at = "looking" /\ stream'[k].test = stream[k].test
      <4>1. CASE late' = late
        BY <3>1, <4>1
      <4>2. CASE /\ stream' = [stream EXCEPT ![k].at = "looking", ![k].due = clock + 1]
                 /\ late' = IF stream[k].test \in stopped THEN [late EXCEPT ![k] = @ + 1] ELSE late
        BY <1>1, <3>1, <4>2 DEF TypeOK, Task
      <4> QED
        BY <2>4, <4>1, <4>2 DEF Send
    <3> QED
      BY <1>1, <1>2, <2>1, <3>2 DEF StopInv, HasSent
  <2> QED
    BY <1>6, <2>2, <2>3, <2>4 DEF StreamNext
<1> QED
  BY <1>3, <1>4, <1>5, <1>6 DEF Next

(* Once its test is stopped, however often it is created and deleted       *)
(* again, a task sends once more at most.                                  *)
THEOREM StopIsHeeded == Spec => []OneLookAfterStop
<1>1. Init => StopInv
  <2> SUFFICES ASSUME Init PROVE StopInv
    OBVIOUS
  <2> QED
    BY InitType DEF Init, StopInv, HasSent
<1>2. StopInv /\ [Next]_vars => StopInv'
  BY StopNext
<1>3. StopInv => OneLookAfterStop
  BY DEF StopInv, HasSent, OneLookAfterStop
<1> QED
  BY <1>1, <1>2, <1>3, PTL DEF Spec

-----------------------------------------------------------------------------
(* Whose flights a task sends.                                             *)

OwnSet(k) == \A e \in DOMAIN set : e[1] = stream[k].test
Flights(k) == DOMAIN Telemetry[stream[k].test]
Complete(k, i) == Telemetry[stream[k].test][i]

(* The rest has passed, and whatever bears the score asked for is its own. *)
Past(k) ==
  /\ stream[k].last \in Nat /\ stream[k].last < clock
  /\ stream[k].final \in Nat /\ stream[k].final < clock
  /\ \A e \in DOMAIN set : set[e] = stream[k].final => e[1] = stream[k].test

(* What an undisturbed task relies on, from its start to its last look.    *)
Adding(k) ==
  stream[k].at = "adding" =>
    /\ OwnSet(k)
    /\ \A i \in Flights(k) : i < stream[k].next /\ Complete(k, i) =>
         <<stream[k].test, i>> \in DOMAIN set

Resting(k) ==
  stream[k].at = "resting" =>
    /\ OwnSet(k) /\ DOMAIN set # {}
    /\ stream[k].last \in Nat /\ stream[k].last < stream[k].due
    /\ \A e \in DOMAIN set : set[e] <= stream[k].last

Looping(k) ==
  /\ stream[k].at = "looking" => clock = MaxTime \/ Past(k)
  /\ stream[k].at = "sending" => Past(k)

Crashed(k) == stream[k].at = "crashed" => \A i \in Flights(k) : ~Complete(k, i)

Undisturbed(k) ==
  /\ stream[k].at = "queued" => stream[k].next = 1
  /\ k \notin disturbed => Adding(k) /\ Resting(k) /\ Looping(k) /\ Crashed(k)

(* Two tasks that prepare at once have disturbed each other.               *)
Alone == \A j, k \in Streams : j # k /\ Preparing(j) /\ Preparing(k) => j \in disturbed

SentOwn ==
  \A o \in sent : /\ stream[o[1]].at \notin {"idle"}
                  /\ o[1] \notin disturbed => o[2][1] = stream[o[1]].test

OwnInv == TypeOK /\ Alone /\ SentOwn /\ \A k \in Streams : Undisturbed(k)

LEMMA EntryPair ==
  \A e \in Entries : e = <<e[1], e[2]>> /\ e[1] \in Tests /\ e[2] \in DOMAIN Telemetry[e[1]]
  BY DEF Entries

(* A task that does not move keeps what it relies on, if the set stays.    *)
LEMMA Bystander ==
  ASSUME TypeOK, NEW j \in Streams, Undisturbed(j), stream'[j] = stream[j],
         set' = set, clock' = clock, disturbed \subseteq disturbed'
  PROVE  Undisturbed(j)'
  BY DEF Undisturbed, Adding, Resting, Looping, Crashed, Past, OwnSet, Flights, Complete

(* How the preparation of a task ends.                                     *)
LEMMA MeasureEnds ==
  ASSUME TypeOK, NEW k \in Streams, Measure(k)
  PROVE  /\ \A j \in Streams \ {k} : stream'[j] = stream[j]
         /\ stream[k].at = "adding" /\ stream'[k].at \in {"failed", "crashed", "resting"}
         /\ stream'[k].test = stream[k].test
         /\ UNCHANGED <<clock, set, sent, disturbed>>
<1>1. stream[k].at = "adding" /\ UNCHANGED <<clock, set, sent, disturbed>>
  BY DEF Measure, database, history
<1>2. CASE stream' = [stream EXCEPT ![k].at = "failed"]
  BY <1>1, <1>2 DEF TypeOK, Task
<1>3. CASE stream' = [stream EXCEPT ![k].at = "crashed"]
  BY <1>1, <1>3 DEF TypeOK, Task
<1>4. CASE \E low, high \in Scores :
             stream' = [stream EXCEPT ![k].at = "resting", ![k].first = low,
                                      ![k].last = high, ![k].due = clock + Rest]
  BY <1>1, <1>4 DEF TypeOK, Task
<1> QED
  BY <1>1, <1>2, <1>3, <1>4 DEF Measure

(* A step of the task k leaves the other tasks alone.                      *)
LEMMA OnlyOne ==
  ASSUME TypeOK, NEW k \in Streams, StreamNext(k)
  PROVE  /\ \A j \in Streams \ {k} : stream'[j] = stream[j]
         /\ clock' = clock
         /\ stream'[k].test = stream[k].test /\ stream[k].at # "idle" /\ stream'[k].at # "idle"
         /\ disturbed \subseteq disturbed'
<1>1. BeginStream(k) \/ AddEntry(k) =>
        /\ \A j \in Streams \ {k} : stream'[j] = stream[j]
        /\ clock' = clock /\ disturbed \subseteq disturbed'
        /\ stream'[k].test = stream[k].test /\ stream[k].at # "idle" /\ stream'[k].at # "idle"
  BY DEF BeginStream, AddEntry, TypeOK, Task
<1>2. Measure(k) =>
        /\ \A j \in Streams \ {k} : stream'[j] = stream[j]
        /\ clock' = clock /\ disturbed' = disturbed
        /\ stream'[k].test = stream[k].test /\ stream[k].at # "idle" /\ stream'[k].at # "idle"
  BY MeasureEnds
<1>3. WakeUp(k) \/ Look(k) =>
        /\ \A j \in Streams \ {k} : stream'[j] = stream[j]
        /\ clock' = clock /\ disturbed' = disturbed
        /\ stream'[k].test = stream[k].test /\ stream[k].at # "idle" /\ stream'[k].at # "idle"
  BY DEF WakeUp, Look, TypeOK, Task, history
<1>4. Send(k) =>
        /\ \A j \in Streams \ {k} : stream'[j] = stream[j]
        /\ clock' = clock /\ disturbed' = disturbed
        /\ stream'[k].test = stream[k].test /\ stream[k].at # "idle" /\ stream'[k].at # "idle"
  BY DEF Send, TypeOK, Task
<1> QED
  BY <1>1, <1>2, <1>3, <1>4 DEF StreamNext

(* Only the first step of a task begins a preparation.                     *)
LEMMA AloneNext ==
  ASSUME OwnInv, NEW k \in Streams, StreamNext(k)
  PROVE  Alone'
<1>1. TypeOK
  BY DEF OwnInv
<1>2. SUFFICES ASSUME NEW i \in Streams, NEW j \in Streams, i # j, Preparing(i)', Preparing(j)'
               PROVE  i \in disturbed'
  BY DEF Alone
<1>3. CASE BeginStream(k)
  <2>1. i # k => Preparing(i) /\ i \in Others(k)
    BY <1>1, <1>2, OnlyOne DEF Preparing, Others
  <2>2. i = k => j \in Others(k)
    BY <1>1, <1>2, OnlyOne DEF Preparing, Others
  <2> QED
    BY <1>3, <2>1, <2>2 DEF BeginStream
<1>4. CASE AddEntry(k) \/ Measure(k) \/ WakeUp(k) \/ Look(k) \/ Send(k)
  <2>1. Preparing(k)' => Preparing(k)
    <3>1. CASE AddEntry(k) \/ Measure(k)
      BY <1>1, <3>1, MeasureEnds DEF AddEntry, Preparing
    <3>2. CASE WakeUp(k) \/ Look(k) \/ Send(k)
      BY <1>1, <3>2 DEF WakeUp, Look, Send, Preparing, TypeOK, Task
    <3> QED
      BY <1>4, <3>1, <3>2
  <2>2. Preparing(i) /\ Preparing(j)
    BY <1>1, <1>2, <2>1, OnlyOne DEF Preparing
  <2> QED
    BY <1>1, <1>2, <2>2, OnlyOne DEF OwnInv, Alone
<1> QED
  BY <1>3, <1>4 DEF StreamNext

(* A task that touches the set disturbs those that prepare, and adds       *)
(* nothing under a score that is past.                                     *)
LEMMA OthersKeep ==
  ASSUME OwnInv, NEW k \in Streams, StreamNext(k), NEW j \in Streams \ {k}
  PROVE  Undisturbed(j)'
<1>0. TypeOK /\ Undisturbed(j) /\ clock \in Nat
  BY DEF OwnInv, TypeOK
<1>1. stream'[j] = stream[j] /\ clock' = clock /\ disturbed \subseteq disturbed'
  BY <1>0, OnlyOne
<1>2. CASE set' = set
  BY <1>0, <1>1, <1>2, Bystander
<1>3. CASE set' # set
  <2>1. ~Preparing(j) \/ j \in disturbed'
    BY <1>3 DEF StreamNext, BeginStream, AddEntry, Measure, WakeUp, Look, Send, Others
  <2>2. \A e \in DOMAIN set' : (e \in DOMAIN set /\ set'[e] = set[e]) \/ set'[e] = clock
    <3>1. CASE BeginStream(k)
      <4>1. DOMAIN set' = {}
        BY <3>1 DEF BeginStream
      <4> QED
        BY <4>1
    <3>2. CASE AddEntry(k)
      BY <1>3, <3>2 DEF AddEntry
    <3> QED
      BY <1>3, <3>1, <3>2 DEF StreamNext, Measure, WakeUp, Look, Send
  <2>3. Past(j) => Past(j)'
    BY <1>0, <1>1, <2>2 DEF Past
  <2>4. j \notin disturbed' => Looping(j)' /\ Crashed(j)'
    BY <1>0, <1>1, <2>3 DEF Undisturbed, Looping, Crashed, Flights, Complete
  <2>5. j \notin disturbed' => Adding(j)' /\ Resting(j)'
    BY <1>1, <2>1 DEF Preparing, Adding, Resting
  <2> QED
    BY <1>0, <1>1, <2>4, <2>5 DEF Undisturbed
<1> QED
  BY <1>2, <1>3

LEMMA SelfKeeps ==
  ASSUME OwnInv, NEW k \in Streams, StreamNext(k)
  PROVE  Undisturbed(k)'
<1> DEFINE t == stream[k].test
<1>0. TypeOK /\ Undisturbed(k) /\ clock \in Nat /\ MaxTime \in Nat /\ stream[k] \in Task
  BY RidAssumption DEF OwnInv, TypeOK
<1>1. /\ clock' = clock /\ disturbed \subseteq disturbed' /\ stream'[k].test = t
      /\ stream[k].at # "idle"
  BY <1>0, OnlyOne
<1>2. t \in Tests /\ Telemetry[t] \in Seq(BOOLEAN)
  BY <1>0, <1>1, RidAssumption DEF TypeOK
<1>3. CASE BeginStream(k)
  <2>1. stream'[k].at = "adding" /\ stream'[k].next = 1
    BY <1>0, <1>3 DEF BeginStream, Undisturbed, TypeOK, Task
  <2>2. DOMAIN set' = {}
    BY <1>3 DEF BeginStream
  <2>3. \A i \in DOMAIN Telemetry[t] : i \in Nat /\ ~(i < 1)
    BY <1>2
  <2> QED
    BY <1>1, <2>1, <2>2, <2>3
    DEF Undisturbed, Adding, Resting, Looping, Crashed, OwnSet, Flights, Complete
<1>4. CASE AddEntry(k)
  <2> DEFINE entry == <<t, stream[k].next>>
  <2>1. /\ stream[k].at = "adding" /\ stream'[k].at = "adding"
        /\ stream'[k].next = stream[k].next + 1 /\ stream[k].next \in Nat
    BY <1>0, <1>4 DEF AddEntry, TypeOK, Task
  <2>2. SUFFICES ASSUME k \notin disturbed' PROVE Adding(k)'
    BY <2>1 DEF Undisturbed, Resting, Looping, Crashed
  <2>3. Adding(k)
    BY <1>0, <1>1, <2>2 DEF Undisturbed
  <2>4. /\ DOMAIN set' \subseteq DOMAIN set \union {entry} /\ DOMAIN set \subseteq DOMAIN set'
        /\ Telemetry[t][stream[k].next] => entry \in DOMAIN set'
    BY <1>4 DEF AddEntry
  <2>5. OwnSet(k)'
    BY <1>1, <2>1, <2>3, <2>4 DEF Adding, OwnSet
  <2>6. \A i \in DOMAIN Telemetry[t] : i \in Nat
    BY <1>2
  <2>7. ASSUME NEW i \in DOMAIN Telemetry[t], i < stream[k].next + 1, Telemetry[t][i]
        PROVE  <<t, i>> \in DOMAIN set'
    <3>1. CASE i = stream[k].next
      BY <2>4, <2>7, <3>1
    <3>2. CASE i < stream[k].next
      BY <2>1, <2>3, <2>4, <2>7, <3>2 DEF Adding, Flights, Complete
    <3> QED
      BY <2>1, <2>6, <2>7, <3>1, <3>2
  <2> QED
    BY <1>1, <2>1, <2>5, <2>7 DEF Adding, Flights, Complete
<1>5. CASE Measure(k)
  <2>1. stream[k].at = "adding" /\ stream[k].next > Len(Telemetry[t]) /\ set' = set /\ disturbed' = disturbed
    BY <1>5 DEF Measure, history
  <2>2. CASE stream' = [stream EXCEPT ![k].at = "failed"]
    BY <1>0, <2>2 DEF Undisturbed, Adding, Resting, Looping, Crashed, TypeOK, Task
  <2>3. CASE /\ stream' = [stream EXCEPT ![k].at = "crashed"]
             /\ set = <<>> \/ ~\E i \in DOMAIN Telemetry[t] : Telemetry[t][i]
    <3>1. stream'[k].at = "crashed"
      BY <1>0, <2>3 DEF TypeOK, Task
    <3>2. k \notin disturbed => \A i \in DOMAIN Telemetry[t] : ~Telemetry[t][i]
      <4> SUFFICES ASSUME k \notin disturbed, NEW i \in DOMAIN Telemetry[t], Telemetry[t][i]
                   PROVE  FALSE
        OBVIOUS
      <4>1. i < stream[k].next
        BY <1>0, <1>2, <2>1 DEF Task
      <4>2. <<t, i>> \in DOMAIN set
        BY <1>0, <2>1, <4>1 DEF Undisturbed, Adding, Flights, Complete
      <4>3. set # <<>>
        BY <4>2
      <4> QED
        BY <2>3, <4>3
    <3> QED
      BY <1>1, <2>1, <3>1, <3>2
      DEF Undisturbed, Adding, Resting, Looping, Crashed, Flights, Complete
  <2>4. ASSUME set # <<>>, NEW low \in Scores, NEW high \in Scores, LastScore(high),
               stream' = [stream EXCEPT ![k].at = "resting", ![k].first = low,
                                        ![k].last = high, ![k].due = clock + Rest]
        PROVE  Undisturbed(k)'
    <3>1. stream'[k].at = "resting" /\ stream'[k].last = high /\ stream'[k].due = clock + Rest
      BY <1>0, <2>4 DEF TypeOK, Task
    <3>2. high \in Nat /\ high < clock + Rest
      BY <1>0, <2>4, ScoresType, RidAssumption
    <3>3. DOMAIN set # {} /\ \A e \in DOMAIN set : set[e] <= high
      BY <2>4 DEF LastScore, Scores
    <3>4. k \notin disturbed => OwnSet(k)'
      BY <1>0, <1>1, <2>1 DEF Undisturbed, Adding, OwnSet
    <3> QED
      BY <2>1, <3>1, <3>2, <3>3, <3>4 DEF Undisturbed, Adding, Resting, Looping, Crashed
  <2> QED
    BY <1>5, <2>2, <2>3, <2>4 DEF Measure
<1>6. CASE WakeUp(k)
  <2>1. PICK q \in Scores \union {None} :
          /\ IF set = <<>> THEN q = None ELSE LastScore(q)
          /\ stream' = [stream EXCEPT ![k].at = "looking", ![k].final = q]
    BY <1>6 DEF WakeUp
  <2>2. stream[k].at = "resting" /\ set' = set /\ disturbed' = disturbed /\ Due(stream[k])
    BY <1>6 DEF WakeUp, history
  <2>3. stream'[k].at = "looking" /\ stream'[k].final = q /\ stream'[k].last = stream[k].last
    BY <1>0, <2>1 DEF TypeOK, Task
  <2>4. ASSUME k \notin disturbed, clock # MaxTime PROVE Past(k)'
    <3>1. /\ OwnSet(k) /\ DOMAIN set # {} /\ stream[k].last \in Nat
          /\ stream[k].last < stream[k].due
          /\ \A e \in DOMAIN set : set[e] <= stream[k].last
      BY <1>0, <2>2, <2>4 DEF Undisturbed, Resting
    <3>2. q \in Scores /\ q \in Nat /\ q <= stream[k].last
      BY <1>0, <2>1, <3>1, ScoresType DEF LastScore, Scores
    <3>3. stream[k].due <= clock /\ stream[k].due \in Nat
      BY <1>0, <2>2, <2>4 DEF Due, Task
    <3> QED
      BY <1>0, <1>1, <2>2, <2>3, <3>1, <3>2, <3>3 DEF Past, OwnSet
  <2> QED
    BY <1>1, <2>2, <2>3, <2>4 DEF Undisturbed, Adding, Resting, Looping, Crashed
<1>7. CASE Look(k)
  <2>1. stream[k].at = "looking" /\ set' = set /\ disturbed' = disturbed
    BY <1>7 DEF Look, history
  <2>2. CASE stream' = [stream EXCEPT ![k].at = "done"]
    BY <1>0, <2>2 DEF Undisturbed, Adding, Resting, Looping, Crashed, TypeOK, Task
  <2>3. CASE ~Expired(stream[k]) /\ stream' = [stream EXCEPT ![k].at = "sending"]
    <3>1. stream'[k] = [stream[k] EXCEPT !.at = "sending"] /\ stream'[k].at = "sending"
      BY <1>0, <2>3 DEF TypeOK, Task
    <3>2. k \notin disturbed => Past(k)
      BY <1>0, <2>1, <2>3 DEF Undisturbed, Looping, Expired
    <3>3. Past(k) => Past(k)'
      BY <1>0, <1>1, <2>1, <3>1 DEF Past, Task
    <3> QED
      BY <2>1, <3>1, <3>2, <3>3 DEF Undisturbed, Adding, Resting, Looping, Crashed
  <2> QED
    BY <1>7, <2>2, <2>3 DEF Look
<1>8. CASE Send(k)
  <2>1. stream[k].at = "sending" /\ set' = set /\ disturbed' = disturbed
    BY <1>8 DEF Send
  <2>2. k \notin disturbed => Past(k)
    BY <1>0, <2>1 DEF Undisturbed, Looping
  <2>3. CASE QueryTime(stream[k]) = None /\ stream' = [stream EXCEPT ![k].at = "crashed"]
    <3>1. k \in disturbed
      BY <1>0, <2>2, <2>3, RidAssumption DEF Past, QueryTime
    <3>2. stream'[k].at = "crashed"
      BY <1>0, <2>3 DEF TypeOK, Task
    <3> QED
      BY <2>1, <3>1, <3>2 DEF Undisturbed
  <2>4. CASE stream' = [stream EXCEPT ![k].at = "looking", ![k].due = clock + 1]
    <3>1. /\ stream'[k].at = "looking" /\ stream'[k].last = stream[k].last
          /\ stream'[k].final = stream[k].final
      BY <1>0, <2>4 DEF TypeOK, Task
    <3>2. Past(k) => Past(k)'
      BY <1>1, <2>1, <3>1 DEF Past
    <3> QED
      BY <2>1, <2>2, <3>1, <3>2 DEF Undisturbed, Adding, Resting, Looping, Crashed
  <2> QED
    BY <1>8, <2>3, <2>4 DEF Send
<1> QED
  BY <1>3, <1>4, <1>5, <1>6, <1>7, <1>8 DEF StreamNext

LEMMA SentNext ==
  ASSUME OwnInv, NEW k \in Streams, StreamNext(k)
  PROVE  SentOwn'
<1>0. TypeOK /\ SentOwn /\ clock \in Nat
  BY DEF OwnInv, TypeOK
<1>1. ASSUME NEW o \in sent
      PROVE  /\ stream'[o[1]].at \notin {"idle"}
             /\ o[1] \notin disturbed' => o[2][1] = stream'[o[1]].test
  BY <1>0, OnlyOne DEF SentOwn, TypeOK
<1>2. ASSUME NEW o \in sent', o \notin sent
      PROVE  /\ stream'[o[1]].at \notin {"idle"}
             /\ o[1] \notin disturbed' => o[2][1] = stream'[o[1]].test
  <2>1. Send(k)
    BY <1>2 DEF StreamNext, BeginStream, AddEntry, Measure, WakeUp, Look, Send, database
  <2>2. o[1] = k /\ o[2] \in Closest(QueryTime(stream[k]))
    BY <1>2, <2>1 DEF Send
  <2>3. k \notin disturbed => Past(k)
    BY <2>1 DEF Send, OwnInv, Undisturbed, Looping
  <2>4. k \notin disturbed => QueryTime(stream[k]) = stream[k].final
    BY <1>0, <2>3 DEF Past, QueryTime
  <2> QED
    BY <1>0, <2>2, <2>3, <2>4, OnlyOne DEF Past, Closest
<1> QED
  BY <1>1, <1>2 DEF SentOwn

LEMMA OwnNext == OwnInv /\ [Next]_vars => OwnInv'
<1> SUFFICES ASSUME OwnInv, [Next]_vars PROVE OwnInv'
  OBVIOUS
<1>1. TypeOK /\ TypeOK'
  BY NextType DEF OwnInv
<1>2. CASE UNCHANGED vars
  BY <1>1, <1>2, Bystander DEF OwnInv, vars, Alone, SentOwn, Preparing
<1>3. CASE Tick
  <2>1. UNCHANGED <<stream, set, sent, disturbed>> /\ clock' = clock + 1 /\ clock \in Nat
        /\ MaxTime \in Nat /\ clock < MaxTime
    BY <1>1, <1>3, RidAssumption DEF Tick, database, history, TypeOK
  <2>2. ASSUME NEW k \in Streams PROVE Undisturbed(k)'
    <3>1. Past(k) => Past(k)'
      BY <2>1 DEF Past
    <3>2. Undisturbed(k)
      BY DEF OwnInv
    <3> QED
      BY <2>1, <3>1, <3>2
      DEF Undisturbed, Adding, Resting, Looping, Crashed, OwnSet, Flights, Complete
  <2> QED
    BY <1>1, <2>1, <2>2 DEF OwnInv, Alone, SentOwn, Preparing
<1>4. ASSUME NEW t \in Tests, DeleteTest(t) PROVE OwnInv'
  <2>1. UNCHANGED <<stream, set, sent, disturbed, clock>>
    BY <1>4 DEF DeleteTest, database, history
  <2> QED
    BY <1>1, <2>1, Bystander DEF OwnInv, Alone, SentOwn, Preparing
<1>5. ASSUME NEW t \in Tests, NEW k \in Streams, CreateTest(t, k) PROVE OwnInv'
  <2>1. UNCHANGED <<set, sent, disturbed, clock>>
    BY <1>5 DEF CreateTest, database, history
  <2>2. /\ stream[k].at = "idle" /\ stream'[k].at = "queued" /\ stream'[k].next = 1
        /\ \A j \in Streams \ {k} : stream'[j] = stream[j]
    BY <1>1, <1>5 DEF CreateTest, TypeOK, NoStream
  <2>3. \A j \in Streams : Undisturbed(j)'
    BY <1>1, <2>1, <2>2, Bystander
    DEF OwnInv, Undisturbed, Adding, Resting, Looping, Crashed
  <2>4. \A j \in Streams : Preparing(j)' => Preparing(j)
    BY <2>2 DEF Preparing
  <2>5. Alone'
    BY <2>1, <2>4 DEF OwnInv, Alone
  <2>6. \A o \in sent : o[1] \in Streams \ {k}
    BY <1>1, <2>2 DEF OwnInv, SentOwn, TypeOK
  <2>7. SentOwn'
    BY <2>1, <2>2, <2>6 DEF OwnInv, SentOwn
  <2> QED
    BY <1>1, <2>3, <2>5, <2>7 DEF OwnInv
<1>6. ASSUME NEW k \in Streams, StreamNext(k) PROVE OwnInv'
  BY <1>1, <1>6, AloneNext, OthersKeep, SelfKeeps, SentNext DEF OwnInv
<1> QED
  BY <1>2, <1>3, <1>4, <1>5, <1>6 DEF Next

(* Over one set for all tests, a task whose preparation nobody overlapped  *)
(* sends flights of its own test alone, and does not fail unless it has    *)
(* none, whatever is created and deleted while it streams.                 *)
THEOREM StreamsOwn == Spec => []UndisturbedStreamsOwn
<1>1. Init => OwnInv
  <2> SUFFICES ASSUME Init PROVE OwnInv
    OBVIOUS
  <2>1. \A k \in Streams : stream[k].at = "idle"
    BY DEF Init, NoStream
  <2> QED
    BY <2>1, InitType
    DEF Init, OwnInv, Alone, SentOwn, Preparing, Undisturbed, Adding, Resting, Looping, Crashed
<1>2. OwnInv /\ [Next]_vars => OwnInv'
  BY OwnNext
<1>3. OwnInv => UndisturbedStreamsOwn
  BY DEF OwnInv, SentOwn, Undisturbed, Crashed, Flights, Complete, UndisturbedStreamsOwn, TypeOK
<1> QED
  BY <1>1, <1>2, <1>3, PTL DEF Spec

-----------------------------------------------------------------------------
(* RidDisplay: the rounds of a poll, for any number of providers, flights  *)
(* and rounds.                                                             *)

CONSTANT Id \* the identifiers of flights

Flight == [id : Id, details : Int, state : BOOLEAN, position : BOOLEAN]
Provider == [token : BOOLEAN, status : Int, flights : Seq(Flight)]
Outcome == [known : SUBSET Id, written : Seq(Id), raised : BOOLEAN]

(* What the first k of some flights, or providers, say: which flights are  *)
(* current, which have details, and whether one of them is an error.       *)
Current(flights, k) == {flights[i].id : i \in {j \in 1..k : flights[j].state}}
Detailed(flights, k) == {flights[i].id : i \in {j \in 1..k : flights[j].details = 200}}
Broken(flights, k) == {flights[i] : i \in {j \in 1..k : flights[j].state /\ ~flights[j].position}}

Answers(providers, k) == {i \in 1..k : providers[i].status = 200}
SaidBy(providers, k) ==
  UNION {Current(providers[i].flights, Len(providers[i].flights)) : i \in Answers(providers, k)}
KnownBy(providers, k) ==
  UNION {Detailed(providers[i].flights, Len(providers[i].flights)) : i \in Answers(providers, k)}
Fails(p) ==
  ~p.token \/ (p.status = 200 /\ \E f \in Range(p.flights) : f.state /\ ~f.position)
FailingBy(providers, k) == {providers[i] : i \in {j \in 1..k : Fails(providers[j])}}

(* Outcome n is outcome o and what was said since, unless something failed. *)
Follows(o, n, said, known, fails) ==
  /\ n \in Outcome
  /\ n.raised <=> o.raised \/ fails # {}
  /\ ~n.raised => /\ Range(n.written) = Range(o.written) \cup said
                  /\ n.known = o.known \cup known

LEMMA TakeOne ==
  ASSUME NEW o \in Outcome, NEW f \in Flight
  PROVE  Follows(o, Take(o, f), IF f.state THEN {f.id} ELSE {},
                 IF f.details = 200 THEN {f.id} ELSE {},
                 IF f.state /\ ~f.position THEN {f} ELSE {})
<1>1. /\ o.known \in SUBSET Id /\ o.written \in Seq(Id) /\ o.raised \in BOOLEAN
      /\ f.id \in Id /\ f.state \in BOOLEAN /\ f.position \in BOOLEAN
  BY DEF Outcome, Flight
<1> DEFINE d == DetailsOf(o, f)
           written == Append(o.written, f.id)
<1>2. /\ d \in Outcome /\ d.written = o.written /\ d.raised = o.raised
      /\ d.known = o.known \cup IF f.details = 200 THEN {f.id} ELSE {}
  <2>1. CASE f.id \in o.known \/ f.details # 200
    BY <1>1, <2>1 DEF DetailsOf
  <2>2. CASE ~(f.id \in o.known \/ f.details # 200)
    <3>1. d = [o EXCEPT !.known = o.known \cup {f.id}]
      BY <2>2 DEF DetailsOf
    <3> HIDE DEF d
    <3> QED
      BY <1>1, <2>2, <3>1 DEF Outcome
  <2> QED
    BY <2>1, <2>2
<1>3. written \in Seq(Id) /\ Range(written) = Range(o.written) \cup {f.id}
  <2> DEFINE n == Len(o.written)
  <2>1. /\ n \in Nat /\ written \in Seq(Id) /\ DOMAIN written = 1..(n + 1)
        /\ DOMAIN o.written = 1..n
        /\ written[n + 1] = f.id /\ \A i \in 1..n : written[i] = o.written[i]
    BY <1>1
  <2>2. 1..(n + 1) = 1..n \cup {n + 1}
    BY <2>1
  <2> HIDE DEF written, n
  <2> QED
    BY <2>1, <2>2 DEF Range
<1> HIDE DEF d, written
<1>4. CASE o.raised
  BY <1>4 DEF Take, Follows
<1>5. CASE ~o.raised /\ ~f.state
  BY <1>1, <1>2, <1>5 DEF Take, Follows, d
<1>6. CASE ~o.raised /\ f.state /\ f.position
  <2>1. Take(o, f) = [d EXCEPT !.written = written]
    BY <1>2, <1>6 DEF Take, d, written
  <2>2. /\ Take(o, f) \in Outcome /\ Take(o, f).written = written
        /\ Take(o, f).known = d.known /\ Take(o, f).raised = d.raised
    BY <1>2, <1>3, <2>1 DEF Outcome
  <2> QED
    BY <1>1, <1>2, <1>3, <1>6, <2>2 DEF Follows
<1>7. CASE ~o.raised /\ f.state /\ ~f.position
  <2>1. Take(o, f) = [d EXCEPT !.raised = TRUE]
    BY <1>7 DEF Take, d
  <2>2. Take(o, f) \in Outcome /\ Take(o, f).raised
    BY <1>2, <2>1 DEF Outcome
  <2> QED
    BY <1>7, <2>2 DEF Follows
<1> QED
  BY <1>1, <1>4, <1>5, <1>6, <1>7

LEMMA FollowsOn ==
  ASSUME NEW o, NEW n, NEW m, NEW said, NEW known, NEW fails, NEW said2, NEW known2, NEW fails2,
         Follows(o, n, said, known, fails), Follows(n, m, said2, known2, fails2)
  PROVE  Follows(o, m, said \cup said2, known \cup known2, fails \cup fails2)
  BY DEF Follows

(* One answer: its flights one after the other.                            *)
LEMMA FlightsTaken ==
  ASSUME NEW o \in Outcome, NEW q \in Seq(Flight)
  PROVE  Follows(o, FoldLeft(Take, o, q), Current(q, Len(q)), Detailed(q, Len(q)), Broken(q, Len(q)))
<1> DEFINE n == Len(q)
           step == [x \in (1..n) \X Outcome |-> Take(x[2], q[x[1]])]
           F == CHOOSE f : f = [s \in SUBSET (DOMAIN q) |->
                  IF s = {} THEN o ELSE Take(f[s \ {Max(s)}], q[Max(s)])]
<1>1. n \in Nat /\ DOMAIN q = 1..n /\ \A k \in 1..n : q[k] \in Flight
  OBVIOUS
<1>2. FoldLeft(Take, o, q) = F[DOMAIN q]
  BY DEF FoldLeft, MapThenFoldSet
<1>3. step \in [(1..n) \X Outcome -> Outcome]
  BY <1>1, TakeOne DEF Follows
<1> HIDE DEF n
<1>4. PICK g \in [SUBSET (1..n) -> Outcome] : Folds(g, n, o, step)
  <2> HIDE DEF step
  <2> QED
    BY <1>1, <1>3, FoldExists
<1>5. g = [s \in SUBSET (DOMAIN q) |-> IF s = {} THEN o ELSE Take(g[s \ {Max(s)}], q[Max(s)])]
  <2>1. \A s \in SUBSET (1..n) : s # {} => Max(s) \in 1..n /\ g[s \ {Max(s)}] \in Outcome
    BY <1>1, GreatestIndex
  <2> QED
    BY <1>1, <1>4, <2>1 DEF Folds
<1>6. F = [s \in SUBSET (DOMAIN q) |-> IF s = {} THEN o ELSE Take(F[s \ {Max(s)}], q[Max(s)])]
  BY <1>5
<1> HIDE DEF F
<1>7. PICK w : Passes(w, n, Outcome, o, step) /\ F[1..n] = w[n]
  <2>1. Obeys(F, n, Outcome, o, step)
    <3>1. F[{}] = o
      BY <1>1, <1>6
    <3>2. \A s \in SUBSET (1..n) : s # {} /\ Max(s) \in 1..n /\ F[s \ {Max(s)}] \in Outcome
            => F[s] = step[<<Max(s), F[s \ {Max(s)}]>>]
      BY <1>1, <1>6
    <3> HIDE DEF step
    <3> QED
      BY <1>3, <3>1, <3>2 DEF Obeys
  <2> HIDE DEF step
  <2> QED
    BY <1>1, <2>1, FoldPasses
<1> DEFINE OK(k) == Follows(o, w[k], Current(q, k), Detailed(q, k), Broken(q, k))
           P == {k \in Nat : k <= n => OK(k)}
<1>8. 0 \in P
  <2>1. Current(q, 0) = {} /\ Detailed(q, 0) = {} /\ Broken(q, 0) = {} /\ w[0] = o
    BY <1>7 DEF Current, Detailed, Broken, Passes
  <2> QED
    BY <2>1 DEF Follows
<1>9. ASSUME NEW k \in Nat, k \in P, k + 1 <= n PROVE OK(k + 1)
  <2> DEFINE f == q[k + 1]
  <2>1. k + 1 \in 1..n /\ (k + 1) - 1 = k /\ k <= n /\ k \in 0..n /\ f \in Flight
    BY <1>1, <1>9
  <2>2. OK(k)
    BY <1>9, <2>1
  <2>3. w[k + 1] = Take(w[k], f) /\ w[k] \in Outcome
    BY <1>7, <2>1 DEF Passes
  <2>4. 1..(k + 1) = 1..k \cup {k + 1}
    OBVIOUS
  <2>5. /\ Current(q, k + 1) = Current(q, k) \cup IF f.state THEN {f.id} ELSE {}
        /\ Detailed(q, k + 1) = Detailed(q, k) \cup IF f.details = 200 THEN {f.id} ELSE {}
        /\ Broken(q, k + 1) = Broken(q, k) \cup IF f.state /\ ~f.position THEN {f} ELSE {}
    BY <2>4 DEF Current, Detailed, Broken
  <2> HIDE DEF f
  <2>6. Follows(w[k], w[k + 1], IF f.state THEN {f.id} ELSE {},
                IF f.details = 200 THEN {f.id} ELSE {},
                IF f.state /\ ~f.position THEN {f} ELSE {})
    <3>1. Follows(w[k], Take(w[k], f), IF f.state THEN {f.id} ELSE {},
                  IF f.details = 200 THEN {f.id} ELSE {},
                  IF f.state /\ ~f.position THEN {f} ELSE {})
      BY <2>1, <2>3, TakeOne
    <3> QED
      BY <2>3, <3>1
  <2>7. Follows(o, w[k + 1], Current(q, k) \cup IF f.state THEN {f.id} ELSE {},
                Detailed(q, k) \cup IF f.details = 200 THEN {f.id} ELSE {},
                Broken(q, k) \cup IF f.state /\ ~f.position THEN {f} ELSE {})
    BY <2>2, <2>6, FollowsOn
  <2> QED
    BY <2>5, <2>7 DEF Follows
<1>10. OK(n)
  <2> HIDE DEF OK
  <2>1. \A k \in Nat : k \in P => k + 1 \in P
    <3> SUFFICES ASSUME NEW k \in Nat, k \in P, k + 1 <= n PROVE OK(k + 1)
      OBVIOUS
    <3> QED
      BY <1>9
  <2>2. n \in P
    <3> HIDE DEF P
    <3> QED
      BY <1>1, <1>8, <2>1, SetInduction
  <2> QED
    BY <1>1, <2>2
<1> QED
  BY <1>1, <1>2, <1>7, <1>10 DEF n


(* A provider, and a round of them.                                        *)
LEMMA AskOne ==
  ASSUME NEW o \in Outcome, NEW p \in Provider
  PROVE  Follows(o, Ask(o, p), IF p.status = 200 THEN Current(p.flights, Len(p.flights)) ELSE {},
                 IF p.status = 200 THEN Detailed(p.flights, Len(p.flights)) ELSE {},
                 IF Fails(p) THEN {p} ELSE {})
<1>1. /\ p.token \in BOOLEAN /\ p.flights \in Seq(Flight)
      /\ o.known \in SUBSET Id /\ o.written \in Seq(Id) /\ o.raised \in BOOLEAN
  BY DEF Provider, Outcome
<1> DEFINE q == p.flights
<1>2. Broken(q, Len(q)) # {} <=> \E f \in Range(q) : f.state /\ ~f.position
  <2>1. DOMAIN q = 1..Len(q)
    BY <1>1
  <2> QED
    BY <2>1 DEF Broken, Range
<1>3. CASE o.raised
  BY <1>3 DEF Ask, Follows
<1>4. CASE ~o.raised /\ ~p.token
  <2>1. Ask(o, p) = [o EXCEPT !.raised = TRUE] /\ Fails(p)
    BY <1>4 DEF Ask, Fails
  <2>2. Ask(o, p) \in Outcome /\ Ask(o, p).raised
    BY <2>1 DEF Outcome
  <2> QED
    BY <2>1, <2>2 DEF Follows
<1>5. CASE ~o.raised /\ p.token /\ p.status = 200
  <2>1. Follows(o, FoldLeft(Take, o, q), Current(q, Len(q)), Detailed(q, Len(q)), Broken(q, Len(q)))
    BY <1>1, FlightsTaken
  <2>2. Ask(o, p) = FoldLeft(Take, o, q)
    BY <1>5 DEF Ask
  <2>3. Fails(p) <=> Broken(q, Len(q)) # {}
    BY <1>2, <1>5 DEF Fails
  <2> HIDE DEF q
  <2> QED
    BY <1>5, <2>1, <2>2, <2>3 DEF Follows, q
<1>6. CASE ~o.raised /\ p.token /\ p.status # 200
  BY <1>6 DEF Ask, Fails, Follows
<1> QED
  BY <1>1, <1>3, <1>4, <1>5, <1>6

LEMMA RoundAsked ==
  ASSUME NEW o \in Outcome, NEW q \in Seq(Provider)
  PROVE  Follows(o, Round(o, q), SaidBy(q, Len(q)), KnownBy(q, Len(q)), FailingBy(q, Len(q)))
<1> DEFINE n == Len(q)
           step == [x \in (1..n) \X Outcome |-> Ask(x[2], q[x[1]])]
           F == CHOOSE f : f = [s \in SUBSET (DOMAIN q) |->
                  IF s = {} THEN o ELSE Ask(f[s \ {Max(s)}], q[Max(s)])]
<1>1. n \in Nat /\ DOMAIN q = 1..n /\ \A k \in 1..n : q[k] \in Provider
  OBVIOUS
<1>2. Round(o, q) = F[DOMAIN q]
  BY DEF Round, FoldLeft, MapThenFoldSet
<1>3. step \in [(1..n) \X Outcome -> Outcome]
  BY <1>1, AskOne DEF Follows
<1> HIDE DEF n
<1>4. PICK g \in [SUBSET (1..n) -> Outcome] : Folds(g, n, o, step)
  <2> HIDE DEF step
  <2> QED
    BY <1>1, <1>3, FoldExists
<1>5. g = [s \in SUBSET (DOMAIN q) |-> IF s = {} THEN o ELSE Ask(g[s \ {Max(s)}], q[Max(s)])]
  <2>1. \A s \in SUBSET (1..n) : s # {} => Max(s) \in 1..n /\ g[s \ {Max(s)}] \in Outcome
    BY <1>1, GreatestIndex
  <2> QED
    BY <1>1, <1>4, <2>1 DEF Folds
<1>6. F = [s \in SUBSET (DOMAIN q) |-> IF s = {} THEN o ELSE Ask(F[s \ {Max(s)}], q[Max(s)])]
  BY <1>5
<1> HIDE DEF F
<1>7. PICK w : Passes(w, n, Outcome, o, step) /\ F[1..n] = w[n]
  <2>1. Obeys(F, n, Outcome, o, step)
    <3>1. F[{}] = o
      BY <1>1, <1>6
    <3>2. \A s \in SUBSET (1..n) : s # {} /\ Max(s) \in 1..n /\ F[s \ {Max(s)}] \in Outcome
            => F[s] = step[<<Max(s), F[s \ {Max(s)}]>>]
      BY <1>1, <1>6
    <3> HIDE DEF step
    <3> QED
      BY <1>3, <3>1, <3>2 DEF Obeys
  <2> HIDE DEF step
  <2> QED
    BY <1>1, <2>1, FoldPasses
<1> DEFINE OK(k) == Follows(o, w[k], SaidBy(q, k), KnownBy(q, k), FailingBy(q, k))
           P == {k \in Nat : k <= n => OK(k)}
<1>8. 0 \in P
  <2>1. SaidBy(q, 0) = {} /\ KnownBy(q, 0) = {} /\ FailingBy(q, 0) = {} /\ w[0] = o
    BY <1>7 DEF SaidBy, KnownBy, FailingBy, Answers, Passes
  <2> QED
    BY <2>1 DEF Follows
<1>9. ASSUME NEW k \in Nat, k \in P, k + 1 <= n PROVE OK(k + 1)
  <2> DEFINE p == q[k + 1]
             said == IF p.status = 200 THEN Current(p.flights, Len(p.flights)) ELSE {}
             known == IF p.status = 200 THEN Detailed(p.flights, Len(p.flights)) ELSE {}
             failing == IF Fails(p) THEN {p} ELSE {}
  <2>1. k + 1 \in 1..n /\ (k + 1) - 1 = k /\ k <= n /\ k \in 0..n /\ p \in Provider
    BY <1>1, <1>9
  <2>2. OK(k)
    BY <1>9, <2>1
  <2>3. w[k + 1] = Ask(w[k], p) /\ w[k] \in Outcome
    BY <1>7, <2>1 DEF Passes
  <2>4. 1..(k + 1) = 1..k \cup {k + 1}
    OBVIOUS
  <2>5. Answers(q, k + 1) = Answers(q, k) \cup IF p.status = 200 THEN {k + 1} ELSE {}
    BY <2>4 DEF Answers
  <2>6. FailingBy(q, k + 1) = FailingBy(q, k) \cup failing
    BY <2>4 DEF FailingBy
  <2>7. SaidBy(q, k + 1) = SaidBy(q, k) \cup said
    BY <2>5 DEF SaidBy
  <2>8. KnownBy(q, k + 1) = KnownBy(q, k) \cup known
    BY <2>5 DEF KnownBy
  <2>9. Follows(w[k], w[k + 1], said, known, failing)
    <3> HIDE DEF p
    <3>1. Follows(w[k], Ask(w[k], p), said, known, failing)
      BY <2>1, <2>3, AskOne
    <3> QED
      BY <2>3, <3>1
  <2> HIDE DEF said, known, failing
  <2>10. Follows(o, w[k + 1], SaidBy(q, k) \cup said, KnownBy(q, k) \cup known,
                 FailingBy(q, k) \cup failing)
    BY <2>2, <2>9, FollowsOn
  <2> QED
    BY <2>6, <2>7, <2>8, <2>10
<1>10. OK(n)
  <2> HIDE DEF OK
  <2>1. \A k \in Nat : k \in P => k + 1 \in P
    <3> SUFFICES ASSUME NEW k \in Nat, k \in P, k + 1 <= n PROVE OK(k + 1)
      OBVIOUS
    <3> QED
      BY <1>9
  <2>2. n \in P
    <3> HIDE DEF P
    <3> QED
      BY <1>1, <1>8, <2>1, SetInduction
  <2> QED
    BY <1>1, <2>2
<1> QED
  BY <1>1, <1>2, <1>7, <1>10 DEF n


(* A poll: every round is the same again.                                  *)
LEMMA RoundsAsked ==
  ASSUME NEW known \in SUBSET Id, NEW q \in Seq(Provider), NEW n \in Nat, n # 0
  PROVE  Follows(Idle(known),
                 FoldLeft(LAMBDA before, r : Round(before, q), Idle(known), [r \in 1..n |-> r]),
                 SaidBy(q, Len(q)), KnownBy(q, Len(q)), FailingBy(q, Len(q)))
<1> DEFINE o == Idle(known)
           rounds == [r \in 1..n |-> r]
           step == [x \in (1..n) \X Outcome |-> Round(x[2], q)]
           F == CHOOSE f : f = [s \in SUBSET (DOMAIN rounds) |->
                  IF s = {} THEN o ELSE Round(f[s \ {Max(s)}], q)]
           said == SaidBy(q, Len(q))
           found == KnownBy(q, Len(q))
           failing == FailingBy(q, Len(q))
<1>1. DOMAIN rounds = 1..n
  OBVIOUS
<1>2. FoldLeft(LAMBDA before, r : Round(before, q), Idle(known), rounds) = F[DOMAIN rounds]
  BY DEF FoldLeft, MapThenFoldSet
<1>3. o \in Outcome
  <2>1. <<>> \in Seq(Id)
    OBVIOUS
  <2> QED
    BY <2>1 DEF Idle, Outcome
<1>4. step \in [(1..n) \X Outcome -> Outcome]
  BY RoundAsked DEF Follows
<1> HIDE DEF o, rounds
<1>5. PICK g \in [SUBSET (1..n) -> Outcome] : Folds(g, n, o, step)
  <2> HIDE DEF step
  <2> QED
    BY <1>3, <1>4, FoldExists
<1>6. g = [s \in SUBSET (DOMAIN rounds) |-> IF s = {} THEN o ELSE Round(g[s \ {Max(s)}], q)]
  <2>1. \A s \in SUBSET (1..n) : s # {} => Max(s) \in 1..n /\ g[s \ {Max(s)}] \in Outcome
    BY GreatestIndex
  <2> QED
    BY <1>1, <1>5, <2>1 DEF Folds
<1>7. F = [s \in SUBSET (DOMAIN rounds) |-> IF s = {} THEN o ELSE Round(F[s \ {Max(s)}], q)]
  BY <1>6
<1> HIDE DEF F
<1>8. PICK w : Passes(w, n, Outcome, o, step) /\ F[1..n] = w[n]
  <2>1. Obeys(F, n, Outcome, o, step)
    <3>1. F[{}] = o
      BY <1>1, <1>7
    <3>2. \A s \in SUBSET (1..n) : s # {} /\ Max(s) \in 1..n /\ F[s \ {Max(s)}] \in Outcome
            => F[s] = step[<<Max(s), F[s \ {Max(s)}]>>]
      BY <1>1, <1>7
    <3> HIDE DEF step
    <3> QED
      BY <1>3, <1>4, <3>1, <3>2 DEF Obeys
  <2> HIDE DEF step
  <2> QED
    BY <2>1, FoldPasses
<1> HIDE DEF said, found, failing
<1> DEFINE OK(k) == Follows(o, w[k], said, found, failing)
           P == {k \in Nat : k + 1 <= n => OK(k + 1)}
<1>9. ASSUME NEW k \in Nat, k + 1 <= n
      PROVE  Follows(w[k], w[k + 1], said, found, failing)
  <2>1. k + 1 \in 1..n /\ (k + 1) - 1 = k /\ k \in 0..n
    BY <1>9
  <2>2. w[k + 1] = Round(w[k], q) /\ w[k] \in Outcome
    BY <1>8, <2>1 DEF Passes
  <2>3. Follows(w[k], Round(w[k], q), said, found, failing)
    BY <2>2, RoundAsked DEF said, found, failing
  <2> QED
    BY <2>2, <2>3
<1>10. 0 \in P
  <2>1. w[0] = o
    BY <1>8 DEF Passes
  <2> HIDE DEF OK
  <2>2. 0 + 1 <= n => OK(0 + 1)
    BY <1>9, <2>1 DEF OK
  <2> QED
    BY <2>2
<1>11. ASSUME NEW k \in Nat, k \in P, (k + 1) + 1 <= n PROVE OK((k + 1) + 1)
  <2>1. k + 1 \in Nat /\ k + 1 <= n
    BY <1>11
  <2>2. Follows(o, w[k + 1], said, found, failing)
    BY <1>11, <2>1
  <2>3. Follows(w[k + 1], w[(k + 1) + 1], said, found, failing)
    BY <1>9, <1>11, <2>1
  <2>4. Follows(o, w[(k + 1) + 1], said \cup said, found \cup found, failing \cup failing)
    BY <2>2, <2>3, FollowsOn
  <2>5. said \cup said = said /\ found \cup found = found /\ failing \cup failing = failing
    OBVIOUS
  <2> QED
    BY <2>4, <2>5
<1>12. OK(n)
  <2> HIDE DEF OK
  <2>1. \A k \in Nat : k \in P => k + 1 \in P
    <3> SUFFICES ASSUME NEW k \in Nat, k \in P, (k + 1) + 1 <= n PROVE OK((k + 1) + 1)
      OBVIOUS
    <3> QED
      BY <1>11
  <2>2. n - 1 \in Nat /\ (n - 1) + 1 = n
    OBVIOUS
  <2>3. n - 1 \in P
    <3> HIDE DEF P
    <3> QED
      BY <1>10, <2>1, <2>2, SetInduction
  <2> QED
    BY <2>2, <2>3
<1> QED
  BY <1>1, <1>2, <1>8, <1>12 DEF o, rounds, said, found, failing

(* What the providers that answer say is current, and has details.         *)
Answered(providers) == UNION {Range(p.flights) : p \in {r \in Range(providers) : r.status = 200}}

(* A poll fails exactly if some provider has no token, or answers with a   *)
(* current flight whose position is incomplete; then nothing is written    *)
(* and no details are kept, of whatever provider and round.  Otherwise     *)
(* what is written are the current flights of all that answer, and the     *)
(* details that were not refused are known.                                *)
THEOREM PollTells ==
  ASSUME NEW known \in SUBSET Id, NEW providers \in Seq(Provider), NEW rounds \in Nat, rounds # 0
  PROVE  LET o == Poll(known, providers, rounds)
         IN  /\ o.raised <=> \E p \in Range(providers) : Fails(p)
             /\ o.raised => o.written = <<>> /\ o.known = known
             /\ ~o.raised =>
                  /\ Range(o.written) = {f.id : f \in {g \in Answered(providers) : g.state}}
                  /\ o.known = known \cup {f.id : f \in {g \in Answered(providers) : g.details = 200}}
<1> DEFINE n == Len(providers)
           e == FoldLeft(LAMBDA before, r : Round(before, providers), Idle(known), [r \in 1..rounds |-> r])
           o == Poll(known, providers, rounds)
<1>1. /\ n \in Nat /\ DOMAIN providers = 1..n
      /\ \A i \in 1..n : DOMAIN providers[i].flights = 1..Len(providers[i].flights)
  <2>1. n \in Nat /\ DOMAIN providers = 1..n /\ \A i \in 1..n : providers[i] \in Provider
    OBVIOUS
  <2>2. \A p \in Provider : p.flights \in Seq(Flight)
    BY DEF Provider
  <2> QED
    BY <2>1, <2>2
<1>2. Follows(Idle(known), e, SaidBy(providers, n), KnownBy(providers, n), FailingBy(providers, n))
  BY RoundsAsked
<1>3. o = IF e.raised THEN [e EXCEPT !.known = known, !.written = <<>>] ELSE e
  BY DEF Poll
<1>4. FailingBy(providers, n) # {} <=> \E p \in Range(providers) : Fails(p)
  BY <1>1 DEF FailingBy, Range
<1>5. ASSUME NEW i \in 1..n
      PROVE  /\ Current(providers[i].flights, Len(providers[i].flights))
                   = {f.id : f \in {g \in Range(providers[i].flights) : g.state}}
             /\ Detailed(providers[i].flights, Len(providers[i].flights))
                   = {f.id : f \in {g \in Range(providers[i].flights) : g.details = 200}}
  BY <1>1 DEF Current, Detailed, Range
<1>6. \A f : f \in Answered(providers) <=>
            \E i \in 1..n : providers[i].status = 200 /\ f \in Range(providers[i].flights)
  <2>1. \A r : r \in Range(providers) <=> \E i \in 1..n : r = providers[i]
    BY <1>1 DEF Range
  <2> QED
    BY <2>1 DEF Answered
<1>7. SaidBy(providers, n) = {f.id : f \in {g \in Answered(providers) : g.state}}
  <2>1. ASSUME NEW x
        PROVE  x \in SaidBy(providers, n) <=>
                 \E i \in 1..n : providers[i].status = 200 /\
                   \E f \in Range(providers[i].flights) : f.state /\ x = f.id
    <3>1. x \in SaidBy(providers, n) <=>
            \E i \in 1..n : providers[i].status = 200 /\
              x \in Current(providers[i].flights, Len(providers[i].flights))
      BY DEF SaidBy, Answers
    <3>2. ASSUME NEW i \in 1..n
          PROVE  x \in Current(providers[i].flights, Len(providers[i].flights)) <=>
                   \E f \in Range(providers[i].flights) : f.state /\ x = f.id
      <4>1. Current(providers[i].flights, Len(providers[i].flights))
              = {f.id : f \in {g \in Range(providers[i].flights) : g.state}}
        BY <1>5
      <4> QED
        BY <4>1, Zenon
    <3> QED
      BY <3>1, <3>2
  <2>2. ASSUME NEW x
        PROVE  x \in {f.id : f \in {g \in Answered(providers) : g.state}} <=>
                 \E i \in 1..n : providers[i].status = 200 /\
                   \E f \in Range(providers[i].flights) : f.state /\ x = f.id
    BY <1>6
  <2> QED
    BY <2>1, <2>2
<1>8. KnownBy(providers, n) = {f.id : f \in {g \in Answered(providers) : g.details = 200}}
  <2>1. ASSUME NEW x
        PROVE  x \in KnownBy(providers, n) <=>
                 \E i \in 1..n : providers[i].status = 200 /\
                   \E f \in Range(providers[i].flights) : f.details = 200 /\ x = f.id
    <3>1. x \in KnownBy(providers, n) <=>
            \E i \in 1..n : providers[i].status = 200 /\
              x \in Detailed(providers[i].flights, Len(providers[i].flights))
      BY DEF KnownBy, Answers
    <3>2. ASSUME NEW i \in 1..n
          PROVE  x \in Detailed(providers[i].flights, Len(providers[i].flights)) <=>
                   \E f \in Range(providers[i].flights) : f.details = 200 /\ x = f.id
      BY <1>5
    <3> QED
      BY <3>1, <3>2
  <2>2. ASSUME NEW x
        PROVE  x \in {f.id : f \in {g \in Answered(providers) : g.details = 200}} <=>
                 \E i \in 1..n : providers[i].status = 200 /\
                   \E f \in Range(providers[i].flights) : f.details = 200 /\ x = f.id
    BY <1>6
  <2> QED
    BY <2>1, <2>2
<1>9. /\ Idle(known).raised = FALSE /\ Idle(known).known = known /\ Range(Idle(known).written) = {}
  BY DEF Idle, Range
<1>10. /\ e.raised <=> FailingBy(providers, n) # {}
       /\ ~e.raised => Range(e.written) = SaidBy(providers, n) /\ e.known = known \cup KnownBy(providers, n)
       /\ e \in Outcome
  BY <1>2, <1>9 DEF Follows
<1> HIDE DEF e, o
<1>11. CASE e.raised
  <2>1. o.raised /\ o.known = known /\ o.written = <<>>
    BY <1>3, <1>10, <1>11 DEF Outcome
  <2> QED
    BY <1>4, <1>10, <1>11, <2>1 DEF o
<1>12. CASE ~e.raised
  BY <1>3, <1>4, <1>7, <1>8, <1>10, <1>12 DEF o
<1> QED
  BY <1>11, <1>12

-----------------------------------------------------------------------------
(* RidDisplay: the cluster.                                                *)

BoxType == Int \X Int \X Int \X Int

LEMMA ClusterBounds ==
  ASSUME NEW view \in BoxType, NEW positions, positions \subseteq Int \X Int, IsFiniteSet(positions)
  PROVE  /\ ClusterBox(view, positions) \in BoxType
         /\ \A p \in positions \cup {<<view[1], view[2]>>, <<view[3], view[4]>>} :
              /\ ClusterBox(view, positions)[1] <= p[1] /\ p[1] <= ClusterBox(view, positions)[3]
              /\ ClusterBox(view, positions)[2] <= p[2] /\ p[2] <= ClusterBox(view, positions)[4]
<1> DEFINE x == {p[1] : p \in positions} \cup {view[1], view[3]}
           y == {p[2] : p \in positions} \cup {view[2], view[4]}
<1>1. /\ view[1] \in Int /\ view[2] \in Int /\ view[3] \in Int /\ view[4] \in Int
      /\ \A p \in positions : p[1] \in Int /\ p[2] \in Int
  BY DEF BoxType
<1>2. x \subseteq Int /\ x # {} /\ y \subseteq Int /\ y # {}
  BY <1>1
<1>3. IsFiniteSet(x) /\ IsFiniteSet(y)
  <2>1. IsFiniteSet({p[1] : p \in positions}) /\ IsFiniteSet({p[2] : p \in positions})
    <3> DEFINE first == [p \in positions |-> p[1]]
               second == [p \in positions |-> p[2]]
    <3>1. /\ first \in Surjection(positions, {p[1] : p \in positions})
          /\ second \in Surjection(positions, {p[2] : p \in positions})
      BY DEF Surjection
    <3> QED
      BY <3>1, FS_Surjection
  <2>2. IsFiniteSet({view[1], view[3]}) /\ IsFiniteSet({view[2], view[4]})
    <3>1. /\ IsFiniteSet({} \cup {view[1]}) /\ IsFiniteSet({} \cup {view[2]})
      BY FS_EmptySet, FS_AddElement
    <3>2. /\ IsFiniteSet(({} \cup {view[1]}) \cup {view[3]})
          /\ IsFiniteSet(({} \cup {view[2]}) \cup {view[4]})
      BY <3>1, FS_AddElement
    <3>3. ({} \cup {view[1]}) \cup {view[3]} = {view[1], view[3]}
          /\ ({} \cup {view[2]}) \cup {view[4]} = {view[2], view[4]}
      OBVIOUS
    <3> QED
      BY <3>2, <3>3
  <2> QED
    BY <2>1, <2>2, FS_Union
<1>4. ClusterBox(view, positions) = <<Min(x), Min(y), Max(x), Max(y)>>
  BY DEF ClusterBox
<1>5. /\ \A p \in positions \cup {<<view[1], view[2]>>, <<view[3], view[4]>>} : p[1] \in x /\ p[2] \in y
  OBVIOUS
<1> HIDE DEF x, y
<1>6. /\ Max(x) \in x /\ (\A v \in x : Max(x) >= v) /\ Min(x) \in x /\ \A v \in x : Min(x) <= v
  BY <1>2, <1>3, FiniteExtremes
<1>7. /\ Max(y) \in y /\ (\A v \in y : Max(y) >= v) /\ Min(y) \in y /\ \A v \in y : Min(y) <= v
  BY <1>2, <1>3, FiniteExtremes
<1>8. /\ Min(x) \in Int /\ Max(x) \in Int /\ Min(y) \in Int /\ Max(y) \in Int
      /\ \A v \in x : v \in Int /\ Min(x) <= v /\ v <= Max(x)
      /\ \A v \in y : v \in Int /\ Min(y) <= v /\ v <= Max(y)
  <2>1. Min(x) \in Int /\ Max(x) \in Int /\ Min(y) \in Int /\ Max(y) \in Int
    BY <1>2, <1>6, <1>7
  <2>2. \A v \in x : v \in Int /\ Min(x) <= v /\ v <= Max(x)
    BY <1>2, <1>6, <2>1
  <2>3. \A v \in y : v \in Int /\ Min(y) <= v /\ v <= Max(y)
    BY <1>2, <1>7, <2>1
  <2> QED
    BY <2>1, <2>2, <2>3
<1> QED
  BY <1>4, <1>5, <1>8 DEF BoxType

LEMMA LargerArea ==
  ASSUME NEW w \in Nat, NEW h \in Nat, NEW a \in Nat, NEW b \in Nat, a <= w, b <= h,
         NEW share \in 0..100
  PROVE  ~(100 * (w * h) < (a * b) * share)
<1>1. a * b <= a * h /\ a * h <= w * h
  <2>1. b <= h => a * b <= a * h
    OBVIOUS
  <2>2. a <= w => a * h <= w * h
    OBVIOUS
  <2> QED
    BY <2>1, <2>2
<1>2. PICK s \in Nat, t \in Nat : s = a * b /\ t = w * h
  OBVIOUS
<1>3. s <= t
  BY <1>1, <1>2
<1>4. s * share <= s * 100
  OBVIOUS
<1>5. ~(100 * t < s * share)
  BY <1>3, <1>4
<1> QED
  BY <1>2, <1>5

(* The cluster of an area holds every position and the view itself, whose  *)
(* share of it is therefore never too small: a cluster is not scaled, and  *)
(* an error for one without any area, which nothing guards against, does   *)
(* not occur.  What is returned holds the cluster and is high enough, but  *)
(* it is wide enough only if the cluster was wide enough, or high enough,  *)
(* to begin with: the second extension forgets the first.                  *)
THEOREM ClusterHides ==
  ASSUME NEW view \in BoxType, view[1] <= view[3], view[2] <= view[4],
         NEW positions, positions \subseteq Int \X Int, IsFiniteSet(positions),
         NEW obfuscation \in Nat, NEW share \in 0..100
  PROVE  LET c == ClusterBox(view, positions)
             e == Extend(c, obfuscation, share, (view[3] - view[1]) * (view[4] - view[2]))
         IN  /\ e \in BoxType
             /\ \A p \in positions \cup {<<view[1], view[2]>>, <<view[3], view[4]>>} :
                  e[1] <= p[1] /\ p[1] <= e[3] /\ e[2] <= p[2] /\ p[2] <= e[4]
             /\ e[4] - e[2] >= 2 * obfuscation
             /\ e[3] - e[1] >= 2 * obfuscation <=>
                  c[3] - c[1] >= 2 * obfuscation \/ c[4] - c[2] >= 2 * obfuscation
<1> DEFINE c == ClusterBox(view, positions)
           area == (view[3] - view[1]) * (view[4] - view[2])
           width == c[3] - c[1]
           height == c[4] - c[2]
           e == Extend(c, obfuscation, share, area)
           inside == positions \cup {<<view[1], view[2]>>, <<view[3], view[4]>>}
<1>1. /\ c \in BoxType
      /\ \A p \in inside : c[1] <= p[1] /\ p[1] <= c[3] /\ c[2] <= p[2] /\ p[2] <= c[4]
  BY ClusterBounds
<1>2. \A p \in inside : p[1] \in Int /\ p[2] \in Int
  BY DEF BoxType
<1>3. /\ c[1] <= view[1] /\ view[3] <= c[3] /\ c[2] <= view[2] /\ view[4] <= c[4]
      /\ view[1] \in Int /\ view[2] \in Int /\ view[3] \in Int /\ view[4] \in Int
  <2>1. <<view[1], view[2]>> \in inside /\ <<view[3], view[4]>> \in inside
    OBVIOUS
  <2> HIDE DEF c, inside
  <2> QED
    BY <1>1, <2>1 DEF BoxType
<1> HIDE DEF c, inside
<1>4. c[1] \in Int /\ c[2] \in Int /\ c[3] \in Int /\ c[4] \in Int /\ c = <<c[1], c[2], c[3], c[4]>>
  BY <1>1 DEF BoxType
<1>5. /\ width \in Nat /\ height \in Nat /\ view[3] - view[1] \in Nat /\ view[4] - view[2] \in Nat
      /\ view[3] - view[1] <= width /\ view[4] - view[2] <= height
  BY <1>3, <1>4
<1>6. ~(100 * (width * height) < area * share)
  <2> HIDE DEF width, height
  <2> QED
    BY <1>5, LargerArea
<1>7. 100 * (width * height) = 100 * width * height
  BY <1>5
<1> HIDE DEF area
<1>8. e = IF height < 2 * obfuscation THEN Heighten(c, obfuscation - height \div 2)
          ELSE IF width < 2 * obfuscation THEN Widen(c, obfuscation - width \div 2)
          ELSE c
  BY <1>6, <1>7 DEF Extend
<1> HIDE DEF e
<1>9. CASE height < 2 * obfuscation
  <2> DEFINE by == obfuscation - height \div 2
  <2>1. by \in Nat /\ 2 * by + height >= 2 * obfuscation
    <3>1. PICK z \in Nat : z = height
      BY <1>5
    <3>2. z < 2 * obfuscation => obfuscation - z \div 2 \in Nat /\ 2 * (obfuscation - z \div 2) + z >= 2 * obfuscation
      OBVIOUS
    <3> QED
      BY <1>9, <3>1, <3>2
  <2>2. e = <<c[1], c[2] - by, c[3], c[4] + by>>
    BY <1>8, <1>9 DEF Heighten
  <2> HIDE DEF by
  <2>3. e \in BoxType /\ e[1] = c[1] /\ e[2] = c[2] - by /\ e[3] = c[3] /\ e[4] = c[4] + by
    BY <1>4, <2>1, <2>2 DEF BoxType
  <2>4. \A p \in inside : e[1] <= p[1] /\ p[1] <= e[3] /\ e[2] <= p[2] /\ p[2] <= e[4]
    BY <1>1, <1>2, <1>4, <2>1, <2>3
  <2>5. e[4] - e[2] >= 2 * obfuscation /\ e[3] - e[1] = width
    BY <1>4, <2>1, <2>3
  <2> QED
    BY <1>4, <1>9, <2>3, <2>4, <2>5 DEF c, e, area, inside
<1>10. CASE ~(height < 2 * obfuscation) /\ width < 2 * obfuscation
  <2> DEFINE by == obfuscation - width \div 2
  <2>1. by \in Nat /\ 2 * by + width >= 2 * obfuscation
    <3>1. PICK z \in Nat : z = width
      BY <1>5
    <3>2. z < 2 * obfuscation => obfuscation - z \div 2 \in Nat /\ 2 * (obfuscation - z \div 2) + z >= 2 * obfuscation
      OBVIOUS
    <3> QED
      BY <1>10, <3>1, <3>2
  <2>2. e = <<c[1] - by, c[2], c[3] + by, c[4]>>
    BY <1>8, <1>10 DEF Widen
  <2> HIDE DEF by
  <2>3. e \in BoxType /\ e[1] = c[1] - by /\ e[2] = c[2] /\ e[3] = c[3] + by /\ e[4] = c[4]
    BY <1>4, <2>1, <2>2 DEF BoxType
  <2>4. \A p \in inside : e[1] <= p[1] /\ p[1] <= e[3] /\ e[2] <= p[2] /\ p[2] <= e[4]
    BY <1>1, <1>2, <1>4, <2>1, <2>3
  <2>5. e[3] - e[1] >= 2 * obfuscation /\ e[4] - e[2] = height /\ height >= 2 * obfuscation
    BY <1>4, <1>5, <1>10, <2>1, <2>3
  <2> QED
    BY <2>3, <2>4, <2>5 DEF c, e, area, inside
<1>11. CASE ~(height < 2 * obfuscation) /\ ~(width < 2 * obfuscation)
  <2>1. e = c /\ height >= 2 * obfuscation /\ width >= 2 * obfuscation
    BY <1>5, <1>8, <1>11
  <2> QED
    BY <1>1, <2>1 DEF c, e, area, inside
<1> QED
  BY <1>9, <1>10, <1>11

=============================================================================
