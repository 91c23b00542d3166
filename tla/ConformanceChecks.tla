------------------------- MODULE ConformanceChecks -------------------------
(***************************************************************************)
(* The conformance check of an operation (tasks/conformance_task.py) run   *)
(* beside its telemetry: three sessions of the database, one for the       *)
(* declaration and its operational intent, one for the latest observation,  *)
(* one for the tests of that observation, and then a signal whose receivers *)
(* notify the operator (services/conformance_svc.py).                       *)
(*                                                                         *)
(* Receivers take what they need from a provider; whether anything set it   *)
(* is the parameter Wired.  Nothing in the program does (only its tests     *)
(* do), and Signal.send swallows what a receiver raises.                    *)
(*                                                                         *)
(* The test of the position reads the volumes of the stored declaration in  *)
(* the form "volumes", which no endpoint writes: a declaration from a       *)
(* collection of features is stored "flat", without the nesting the test    *)
(* looks for, one from volumes as a "list", where it looks for a record.    *)
(***************************************************************************)
EXTENDS FlightTelemetry, FiniteSetsExt

CONSTANTS
    Checks,     \* deliveries of check_flight_conformance
    Aircraft,   \* the aircraft each operation declares
    Volumes,    \* the volumes of each operation: area, lower and upper (metres)
    Fences,     \* areas inside a geofence of status 0
    Referred,   \* operations with an operational intent reference
    Wired,      \* the values of "set_conformance_deps was called" to consider
    Forms       \* the forms a declaration may be stored in

ASSUME ChecksAssumption ==
    /\ Forms \subseteq {"volumes", "flat", "list"}
    /\ Wired \subseteq BOOLEAN /\ Referred \subseteq Operations
    /\ \A d \in Operations : \A v \in Volumes[d] : v.lower \in Int /\ v.upper \in Int

VARIABLES
    check,    \* each check: where it is, operation, observation, verdict
    form,     \* the form each declaration is stored in
    deps,     \* whether the provider of the receivers is set
    told,     \* notifications handed to the notifier: check and code
    meddled   \* history: checks whose declaration an operator touched meanwhile

checkVars == <<check, form, deps, told, meddled>>
allVars == <<vars, checkVars>>

NoObservation == [id |-> None, at |-> 0]

ConformanceInit ==
    /\ Init
    /\ deps \in Wired
    /\ form \in [Operations -> Forms]
    /\ check = [c \in Checks |->
                   [at |-> "idle", op |-> None, obs |-> NoObservation, verdict |-> "none"]]
    /\ told = {} /\ meddled = {}

HasReference(d) == d \in Referred /\ state[d] # Gone

\* The verdict of a list of tests made in order: the code of the first that
\* fails, or the given word when none does.
FirstFailed(tests, otherwise) ==
    LET failed == {i \in DOMAIN tests : tests[i][2]}
    IN  IF failed = {} THEN otherwise ELSE tests[Min(failed)][1]

-----------------------------------------------------------------------------
\* Mutant: an operation that has ended passes as an active one.
EndedPasses(d) ==
    FirstFailed(<< <<"C11", Ussp /\ ~HasReference(d)>>,
                   <<"C10", state[d] \notin 2..5>>,
                   <<"C9b", heard[d] = "stale">>,
                   <<"C9a", heard[d] = "never">> >>, "going on")

\* check_flight_operational_intent_reference_conformance
ReferenceVerdict(d) ==
    FirstFailed(<< <<"C11", Ussp /\ ~HasReference(d)>>,
                   <<"C10", state[d] \notin {2, 3, 4}>>,
                   <<"C9b", heard[d] = "stale">>,
                   <<"C9a", heard[d] = "never">> >>, "going on")

CheckReference(c, d) ==
    /\ check[c].at = "idle"
    /\ LET v == ReferenceVerdict(d)
       IN  check' = [check EXCEPT ![c].op = d, ![c].verdict = v,
                        ![c].at = IF v = "going on" THEN "latest" ELSE "signal"]
    /\ UNCHANGED <<vars, form, deps, told, meddled>>

\* Mutant: a check without an observation signals all the same.
SignalNothing(c) ==
    LET obs == {o \in rows : Operation(o.id) = check[c].op}
    IN  /\ check[c].at = "latest"
        /\ \/ /\ obs = {}
              /\ check' = [check EXCEPT ![c].at = "signal", ![c].verdict = "none"]
           \/ \E o \in obs : check' = [check EXCEPT ![c].at = "tests", ![c].obs = o]
        /\ UNCHANGED <<vars, form, deps, told, meddled>>

\* The row of the operation's session with the greatest created_at; without
\* one the check ends and says nothing.
FindLatest(c) ==
    LET d == check[c].op
        obs == {o \in rows : Operation(o.id) = d}
    IN  /\ check[c].at = "latest"
        /\ \/ /\ obs = {}
              /\ check' = [check EXCEPT ![c].at = "done", ![c].verdict = "none"]
           \/ \E o \in obs :
                 /\ \A other \in obs : other.at <= o.at
                 /\ check' = [check EXCEPT ![c].at = "tests", ![c].obs = o]
        /\ UNCHANGED <<vars, form, deps, told, meddled>>

\* The stored altitude is a thousand times the metres that were sent; it is
\* compared with the bounds of the volumes as it is.
AltitudeMm(place) == place.alt * 1000

PlaceOf(id) == Flight(id).places[id[4]]

\* is_operation_conformant_via_telemetry: some volume must hold the altitude
\* and some volume, the same or another, the position.  A declaration that is
\* stored in another form ends the task with an error: nothing is signalled.
TelemetryVerdict(d, id) ==
    LET place == PlaceOf(id)
    IN  FirstFailed(
          << <<"C2", state[d] = Gone \/ (Ussp /\ ~HasReference(d))>>,
             <<"C3", Aircraft[d] # Flight(id).serial>>,
             <<"C4", state[d] \in {0, 5, 6, 7, 8}>>,
             <<"C5", state[d] \notin {2, 3, 4}>>,
             <<"C6", d \notin current>>,
             <<"raised", form[d] # "volumes">>,
             <<"C7b", ~\E v \in Volumes[d] : AltitudeMm(place) \in v.lower..v.upper>>,
             <<"C7a", ~\E v \in Volumes[d] : v.area = place.area>>,
             <<"C8", place.area \in Fences>> >>, "conformant")

TestTelemetry(c) ==
    /\ check[c].at = "tests"
    /\ LET v == TelemetryVerdict(check[c].op, check[c].obs.id)
       IN  check' = [check EXCEPT ![c].verdict = v,
                        ![c].at = IF v \in {"conformant", "raised"} THEN "done" ELSE "signal"]
    /\ UNCHANGED <<vars, form, deps, told, meddled>>

\* The codes each of the two receivers has a message for; it has none for the
\* others its check may raise.
TelemetryMessages == {"C3", "C4", "C5", "C6", "C7a", "C7b"}
ReferenceMessages == {"C9a", "C9b", "C10", "C11"}
Notified == TelemetryMessages \union ReferenceMessages
Silent == {"C2", "C8"}

\* Mutant: the receiver leaves the notification to the work it puts on the loop.
TellFromWork(c) ==
    /\ check[c].at = "signal"
    /\ check' = [check EXCEPT ![c].at = IF deps THEN "leaving" ELSE "done"]
    /\ UNCHANGED <<vars, form, deps, told, meddled>>

\* The receiver raises for want of its provider and the signal swallows it, or
\* it notifies and leaves work on the loop of the task.
Signal(c) ==
    /\ check[c].at = "signal"
    /\ \/ /\ ~deps
          /\ check' = [check EXCEPT ![c].at = "done"]
          /\ UNCHANGED told
       \/ /\ deps
          /\ told' = told \union ({<<c, check[c].verdict>>} \cap (Checks \X Notified))
          /\ check' = [check EXCEPT ![c].at = "leaving"]
    /\ UNCHANGED <<vars, form, deps, meddled>>

\* The coroutine of the task returns; asyncio.run cancels the work the signal
\* left, which was waiting for its first answer of the database: no record of
\* the deviation is stored and no state of the operation changed.
EndLoop(c) ==
    /\ check[c].at = "leaving"
    /\ check' = [check EXCEPT ![c].at = "done"]
    /\ UNCHANGED <<vars, form, deps, told, meddled>>

-----------------------------------------------------------------------------
\* What operators and the clock do to a declaration touches the checks of it.
Meddle(d) ==
    /\ \/ \E s \in Moves : OperatorMoves(d, s)
       \/ Delete(d)
    /\ meddled' = meddled \union
          {c \in Checks : check[c].op = d /\ check[c].at \in {"latest", "tests"}}
    /\ UNCHANGED <<check, form, deps, told>>

Beside ==
    /\ \/ Serve \/ Work
       \/ \E r \in Requests : SubmitTelemetry(r) \/ SubmitSignedTelemetry(r)
       \/ \E d \in Operations : WindowEnds(d) \/ FallsSilent(d)
    /\ UNCHANGED checkVars

Progress(c) == FindLatest(c) \/ TestTelemetry(c) \/ Signal(c) \/ EndLoop(c)

ConformanceNext ==
    \/ Beside
    \/ \E d \in Operations : Meddle(d)
    \/ \E c \in Checks : Progress(c) \/ \E d \in Operations : CheckReference(c, d)

\* A worker finishes the check it has begun.
ConformanceSpec ==
    /\ ConformanceInit /\ [][ConformanceNext]_allVars
    /\ \A c \in Checks : WF_allVars(Progress(c))

-----------------------------------------------------------------------------
(* Properties.                                                             *)

ConformanceTypeOK ==
    /\ TypeOK
    /\ deps \in BOOLEAN /\ form \in [Operations -> Forms]
    /\ \A c \in Checks :
          /\ check[c].at \in {"idle", "latest", "tests", "signal", "leaving", "done"}
          /\ check[c].verdict \in Notified \union Silent
                                  \union {"none", "going on", "conformant", "raised"}
          /\ check[c].at \in {"signal", "leaving"} => check[c].verdict \in Notified \union Silent
          /\ check[c].obs \in rows \union {NoObservation}
    /\ told \subseteq Checks \X Notified

\* The tests of the telemetry find the declaration gone or in a state that is
\* not active only when an operator deleted or moved it after the first
\* session of the check had passed it: no other interleaving of telemetry,
\* tasks and checks raises C2, C4 or C5 (check_flight_conformance).
StateAlarmNeedsMeddling ==
    \A c \in Checks : check[c].verdict \in {"C2", "C4", "C5"} => c \in meddled

\* A state of the operation that is on its way to the store: in a stream task,
\* in a write task, or not yet committed.
OnItsWay(d) ==
    \/ \E id \in queued \union {o.id : o \in open} : Operation(id) = d
    \/ \E t \in DOMAIN streams : \E i \in streams[t][1]..t[2] :
          request[t[1]].flights[i].op = d

\* A check that gives up because it finds no observation, though the
\* declaration says telemetry was heard, does so only while the observation
\* is on its way: telemetry that was announced is never lost for good.
SilentOnlyMeanwhile ==
    [][\A c \in Checks :
          check[c].at = "latest" /\ check'[c].verdict = "none" => OnItsWay(check[c].op)]_allVars

Deviates(c) == check[c].verdict \in Notified \union Silent

\* With the provider set, every deviation for which a receiver has a message
\* is told to the operator, with the code the check found.
DeviationIsTold ==
    \A c \in Checks :
        (deps /\ check[c].verdict \in Notified) ~> (\E code \in Notified :
            <<c, code>> \in told /\ check[c].verdict = code)

=============================================================================
