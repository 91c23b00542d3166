------------------------------ MODULE RidTests ------------------------------
(***************************************************************************)
(* Remote ID tests: a test is registered in Redis and a task streams the    *)
(* flights injected with it (api/routers/rid_api.py, create_test and        *)
(* delete_test; tasks/rid_task.py, stream_rid_test_data).  All tests share  *)
(* one sorted set of injected telemetry: every task empties it, adds its    *)
(* own entries with the second at which it adds them as score, rests two    *)
(* seconds, and then sends on, several times a second, the entries of one   *)
(* score, until its test is stopped or 65 seconds have passed.              *)
(*                                                                         *)
(* An entry is named by the test and its place in the test's list: a test   *)
(* that is created again adds the same members.  Several writes of one      *)
(* entry are one element of a set.                                          *)
(***************************************************************************)
EXTENDS Integers, Sequences

CONSTANTS
    Tests,     \* test ids
    Streams,   \* the numbers of the deliveries of stream_rid_test_data
    Telemetry, \* per test, which of its entries have all mandatory fields
    Ttl,       \* seconds a registration lasts (300)
    Rest,      \* seconds a task sleeps before it streams (2)
    Linger,      \* seconds it streams after the last entry (65)
    MaxTime,   \* bound on the clock
    None

ASSUME RidAssumption ==
    /\ {Ttl, Rest, Linger, MaxTime} \subseteq Nat /\ Rest > 0 /\ Ttl > 0
    /\ Streams \subseteq Nat /\ None \notin Nat
    /\ \A t \in Tests : Telemetry[t] \in Seq(BOOLEAN)

VARIABLES
    clock,    \* seconds
    key,      \* rid-test_<id>: when it expires, or None
    stopped,  \* tests whose stop_streaming_<id> is set, for good
    stream,   \* each task: where it is, its test, what it measured
    set,      \* requested_flight_ss: the score of each entry in it
    sent,     \* observations handed to write tasks: the task and the entry
    notices,  \* operator notifications: test and code
    lastSeen, \* <test>_rid_stream_last_observation_timestamp, or None
    disturbed,\* history: tasks whose set another task touched before they streamed
    late      \* history: how often a task has sent since its test was stopped

vars == <<clock, key, stopped, stream, set, sent, notices,
          lastSeen, disturbed, late>>
history == <<disturbed, late>>
database == <<sent, notices>>

-----------------------------------------------------------------------------
NoStream == [at |-> "idle", test |-> None, next |-> 1, first |-> None,
             last |-> None, final |-> None, due |-> 0]

Entries == UNION {{<<t, i>> : i \in DOMAIN Telemetry[t]} : t \in Tests}

Init ==
    /\ clock = 0
    /\ key = [t \in Tests |-> None]
    /\ stopped = {}
    /\ stream = [k \in Streams |-> NoStream]
    /\ set = <<>>
    /\ sent = {} /\ notices = {}
    /\ lastSeen = [t \in Tests |-> None]
    /\ disturbed = {} /\ late = [k \in Streams |-> 0]

Scores == {set[e] : e \in DOMAIN set}
FirstScore(q) == q \in Scores /\ \A p \in Scores : q <= p
LastScore(q) == q \in Scores /\ \A p \in Scores : p <= q
Preparing(k) == stream[k].at \in {"adding", "resting"}

\* Tasks whose own entries may suffer when task k touches the set.
Others(k) == {j \in Streams \ {k} : Preparing(j)}

-----------------------------------------------------------------------------
(* The endpoints.                                                          *)

\* register_rid_test sets the key if it does not exist, and the task is sent;
\* a test whose key exists is answered 409.
CreateTest(t, k) ==
    /\ key[t] = None
    /\ stream[k].at = "idle" /\ \A j \in Streams : stream[j].at = "idle" => k <= j
    /\ key' = [key EXCEPT ![t] = clock + Ttl]
    /\ stream' = [stream EXCEPT ![k] = [NoStream EXCEPT !.at = "queued", !.test = t]]
    /\ UNCHANGED <<clock, stopped, set, database, lastSeen, history>>

\* The key that is deleted is named without the prefix: the registration
\* stays.  (The transaction around it deletes the details and observations of
\* all tests, rows this module leaves out.)
DeleteTest(t) ==
    /\ stopped' = stopped \union {t}
    /\ UNCHANGED <<clock, key, stream, set, database, lastSeen, history>>

-----------------------------------------------------------------------------
(* The task that streams a test.                                           *)

\* The set of all tests is emptied.
BeginStream(k) ==
    /\ stream[k].at = "queued"
    /\ stream' = [stream EXCEPT ![k].at = "adding"]
    /\ set' = <<>>
    /\ disturbed' = disturbed \union Others(k) \union (IF Others(k) = {} THEN {} ELSE {k})
    /\ UNCHANGED <<clock, key, stopped, database, lastSeen, late>>

\* One entry of telemetry: an incomplete one is reported to the operator, a
\* complete one is added under the second at which it is processed.
AddEntry(k) ==
    LET s == stream[k]
        entry == <<s.test, s.next>>
    IN  /\ s.at = "adding" /\ s.next \in DOMAIN Telemetry[s.test]
        /\ stream' = [stream EXCEPT ![k].next = @ + 1]
        /\ \/ /\ Telemetry[s.test][s.next]
              /\ set' = [e \in DOMAIN set \union {entry} |-> IF e = entry THEN clock ELSE set[e]]
              /\ disturbed' = disturbed \union Others(k)
              /\ UNCHANGED notices
           \/ /\ ~Telemetry[s.test][s.next]
              /\ notices' = notices \union {<<s.test, "NET0030">>}
              /\ UNCHANGED <<set, disturbed>>
        /\ UNCHANGED <<clock, key, stopped, sent, lastSeen, late>>

\* What becomes of the ISA of a test: without a token, or without the DSS's
\* consent, there is none and nobody is told; an answer that cannot be read
\* raises, and so does a subscriber for whom there is no token, or the first
\* one when it cannot be reached (a later one is taken to have answered what
\* the one before it did).
CreateDssIsa(token, answer, subscribers) ==
    CASE ~token \/ answer = "refused" -> "none"
      [] answer = "unreadable" -> "raises"
      [] OTHER -> IF \/ \E n \in DOMAIN subscribers : subscribers[n] = "no_token"
                     \/ subscribers # <<>> /\ subscribers[1] = "unreachable"
                    THEN "raises" ELSE "created"

Isas == {CreateDssIsa(token, answer, subscribers) :
            token \in BOOLEAN, answer \in {"refused", "unreadable", "created"},
            subscribers \in {<<>>} \union
               {<<s>> : s \in {"told", "unreachable", "no_token"}}}

\* With the last entry done and the flights' details committed, the first and
\* the last score are read from the set, which must hold an entry, as the
\* task's own list must hold a position; then the ISA is created.
Measure(k) ==
    LET own == \E i \in DOMAIN Telemetry[stream[k].test] : Telemetry[stream[k].test][i]
    IN  /\ stream[k].at = "adding" /\ stream[k].next > Len(Telemetry[stream[k].test])
        /\ \/ /\ set # <<>> /\ own
              /\ \E isa \in Isas, low, high \in Scores :
                   /\ FirstScore(low) /\ LastScore(high)
                   /\ stream' = IF isa = "raises" THEN [stream EXCEPT ![k].at = "failed"]
                                ELSE [stream EXCEPT ![k].at = "resting", ![k].first = low,
                                         ![k].last = high, ![k].due = clock + Rest]
           \/ /\ set = <<>> \/ ~own
              /\ stream' = [stream EXCEPT ![k].at = "crashed"]
        /\ UNCHANGED <<clock, key, stopped, set, database, lastSeen, history>>

\* The last second of the bounded clock stands for all later ones.
Due(s) == clock >= s.due \/ clock = MaxTime
Expired(s) == clock > s.last + Linger \/ clock = MaxTime

\* After the rest the set is read again: the score of its last entry is what
\* the task asks for once the entries it measured are past.
WakeUp(k) ==
    /\ stream[k].at = "resting" /\ Due(stream[k])
    /\ \E q \in Scores \union {None} :
          /\ IF set = <<>> THEN q = None ELSE LastScore(q)
          /\ stream' = [stream EXCEPT ![k].at = "looking", ![k].final = q]
    /\ UNCHANGED <<clock, key, stopped, set, database, lastSeen, history>>

\* Mutant: the loop never looks at the stop key.
LookAtClock(k) ==
    LET s == stream[k]
    IN  /\ s.at = "looking" /\ Due(s)
        /\ stream' = [stream EXCEPT ![k].at = IF Expired(s) THEN "done" ELSE "sending"]
        /\ UNCHANGED <<clock, key, stopped, set, database, lastSeen, history>>

\* Mutant: the loop has no end of its own.
LookAtStop(k) ==
    LET s == stream[k]
    IN  /\ s.at = "looking" /\ Due(s)
        /\ stream' = [stream EXCEPT ![k].at = IF s.test \in stopped THEN "done" ELSE "sending"]
        /\ UNCHANGED <<clock, key, stopped, set, database, lastSeen, history>>

\* One look at the stop key and the clock; the task ends or goes on.
Look(k) ==
    LET s == stream[k]
    IN  /\ s.at = "looking" /\ Due(s)
        /\ \/ /\ s.test \in stopped \/ Expired(s)
              /\ stream' = [stream EXCEPT ![k].at = "done"]
           \/ /\ s.test \notin stopped /\ ~Expired(s)
              /\ stream' = [stream EXCEPT ![k].at = "sending"]
        /\ UNCHANGED <<clock, key, stopped, set, database, lastSeen, history>>

\* The score a round asks for.
QueryTime(s) == IF clock > s.last THEN s.final ELSE clock

\* Mutant: the range has no upper bound.
ClosestFrom(q) == {e \in DOMAIN set : set[e] >= q}

\* The entries of exactly that second.
Closest(q) == {e \in DOMAIN set : set[e] = q}

\* Every entry found is handed to a write task under the test's own id; a gap
\* of more than a second since the last one is notified.  (A bound: one round
\* a second; the code makes three.)
Send(k) ==
    LET s == stream[k]
        q == QueryTime(s)
        found == IF clock > s.first THEN Closest(q) ELSE {}
        gap == lastSeen[s.test] # None /\ found # {} /\ q - lastSeen[s.test] \notin -1..1
    IN  /\ s.at = "sending"
        /\ \/ /\ q = None
              /\ stream' = [stream EXCEPT ![k].at = "crashed"]
              /\ UNCHANGED <<sent, notices, lastSeen, late>>
           \/ /\ q # None
              /\ stream' = [stream EXCEPT ![k].at = "looking", ![k].due = clock + 1]
              /\ sent' = sent \union {<<k, e>> : e \in found}
              /\ notices' = notices \union (IF gap THEN {<<s.test, "NET0040">>} ELSE {})
              /\ lastSeen' = IF found = {} THEN lastSeen ELSE [lastSeen EXCEPT ![s.test] = q]
              /\ late' = IF s.test \in stopped /\ found # {} THEN [late EXCEPT ![k] = @ + 1] ELSE late
        /\ UNCHANGED <<clock, key, stopped, set, disturbed>>

-----------------------------------------------------------------------------
\* Mutant: registrations are given no expiry.
TickOnly ==
    /\ clock < MaxTime /\ clock' = clock + 1
    /\ UNCHANGED <<key, stopped, stream, set, database, lastSeen, history>>

\* A second passes; registrations that have lasted their time are gone.
Tick ==
    /\ clock < MaxTime
    /\ clock' = clock + 1
    /\ key' = [t \in Tests |-> IF key[t] # None /\ key[t] <= clock' THEN None ELSE key[t]]
    /\ UNCHANGED <<stopped, stream, set, database, lastSeen, history>>

StreamNext(k) ==
    \/ BeginStream(k) \/ AddEntry(k) \/ Measure(k)
    \/ WakeUp(k) \/ Look(k) \/ Send(k)

Next ==
    \/ Tick
    \/ \E t \in Tests : (\E k \in Streams : CreateTest(t, k)) \/ DeleteTest(t)
    \/ \E k \in Streams : StreamNext(k)

\* Time passes and workers go on with their tasks.
Spec ==
    /\ Init /\ [][Next]_vars /\ WF_vars(Tick)
    /\ \A k \in Streams : WF_vars(StreamNext(k))

-----------------------------------------------------------------------------
(* Properties.                                                             *)

Second == Nat \union {None}
Task == [at : {"idle", "queued", "adding", "failed", "crashed", "resting", "looking",
               "sending", "done"},
         test : Tests \union {None}, next : Nat,
         first : Second, last : Second, final : Second, due : Nat]

TypeOK ==
    /\ clock \in 0..MaxTime
    /\ key \in [Tests -> Second]
    /\ \A t \in Tests : key[t] \in (clock + 1)..(clock + Ttl) \union {None}
    /\ stopped \subseteq Tests
    /\ stream \in [Streams -> Task]
    /\ \A k \in Streams : stream[k].at # "idle" => stream[k].test \in Tests
    /\ DOMAIN set \subseteq Entries /\ \A e \in DOMAIN set : set[e] \in 0..clock
    /\ sent \subseteq Streams \X Entries
    /\ notices \subseteq Tests \X {"NET0030", "NET0040"}
    /\ lastSeen \in [Tests -> 0..clock \union {None}]
    /\ disturbed \subseteq Streams /\ late \in [Streams -> Nat]

\* After its test is stopped a task sends once more at most, when it had
\* looked before; that holds for every later life of the test, whose key
\* delete_test sets for good (stop_rid_test_stream, the loop of the task).
OneLookAfterStop == \A k \in Streams : late[k] <= 1

\* Tests share one set, yet a task whose preparation no other task overlapped
\* sends only flights of its own test, although later tests empty and fill the
\* set while it streams, and it does not fail unless it had nothing to send
\* (requested_flight_ss in stream_rid_test_data).
UndisturbedStreamsOwn ==
    /\ \A o \in sent : o[2][1] # stream[o[1]].test => o[1] \in disturbed
    /\ \A k \in Streams :
          stream[k].at = "crashed" =>
              \/ k \in disturbed
              \/ \A i \in DOMAIN Telemetry[stream[k].test] : ~Telemetry[stream[k].test][i]

\* A task that is delivered ends: it streams to the end of its 65 seconds at
\* the longest, whatever the other tests do to the set.
StreamsEnd ==
    \A k \in Streams :
        stream[k].at = "queued" ~> stream[k].at \in {"done", "crashed", "failed"}

=============================================================================
