--------------------------- MODULE GeoZones_proofs ---------------------------
(* Theorems about GeoZones, for every number of sources, requests and      *)
(* zones: what is stored is well formed, what a delete removes stays       *)
(* removed, and a source that is put once is told what became of it.       *)
EXTENDS GeoZones, TLAPS

-----------------------------------------------------------------------------
(* The shape of what a step reads and writes.                              *)
Shaped ==
  /\ DOMAIN call = Call /\ DOMAIN load = Call /\ DOMAIN write = Call
  /\ \A c \in Call : {"at"} \subseteq DOMAIN call[c] \cap DOMAIN load[c]

(* An import that has ended does not begin again, so no task writes a zone *)
(* of it; and a test zone of such an import that is still there was among  *)
(* those the delete has read.                                              *)
Deleting(c) ==
  call[c].at \in {"doomed", "deleting", "deleted"} =>
    /\ call[c].over \subseteq Call
    /\ \A d \in call[c].over : ImportOver(d)
    /\ \A z \in TestZones : z.of \in call[c].over =>
         call[c].at # "deleted" /\ z \in call[c].doomed

DeleteInv == Shaped /\ \A c \in Call : Deleting(c)

LEMMA StaysOver ==
  ASSUME Shaped, [Next]_vars, NEW d \in Call, ImportOver(d)
  PROVE  ImportOver(d)'
<1> USE DEF ImportOver, Shaped
<1>1. ASSUME NEW c \in Harness,
             \/ TellActivating(c) \/ SetExpiry(c) \/ FindSource(c) \/ TellOutcome(c)
             \/ DoomTestZones(c) \/ TellDeactivating(c) \/ CommitDelete(c) \/ CutOff(c)
             \/ AnswerCheck(c)
      PROVE  ImportOver(d)'
  BY <1>1 DEF Call, TellActivating, SetExpiry, FindSource, TellOutcome, DoomTestZones,
              Doomed, TellDeactivating, CommitDelete, CutOff, AnswerCheck
<1>2. ASSUME NEW c \in Call, WriteZone(c) \/ TaskIsLost(c) PROVE ImportOver(d)'
  BY <1>2 DEF WriteZone, TaskIsLost
<1>3. ASSUME NEW c \in Harness, NEW s \in Source, QueueDownload(c, s) \/ FindKey(c, s)
      PROVE  ImportOver(d)'
  BY <1>3 DEF Call, QueueDownload, FindKey
<1>4. ASSUME NEW c \in Harness, NEW o \in Outcome, NEW b \in Document, Download(c, o, b)
      PROVE  ImportOver(d)'
  BY <1>4 DEF Call, Download
<1>5. ASSUME NEW c \in Harness, NEW p \in Place, CheckZones(c, p) PROVE ImportOver(d)'
  BY <1>5 DEF Call, CheckZones
<1>6. ASSUME NEW c \in Operator, NEW b \in Document, SetGeozone(c, b) PROVE ImportOver(d)'
  BY <1>6 DEF Call, SetGeozone
<1>7. ASSUME NEW c \in Operator, NEW b \in Shape, SetGeoFence(c, b) \/ Deconflict(c, b)
      PROVE  ImportOver(d)'
  BY <1>7 DEF Call, SetGeoFence, Deconflict
<1>8. ASSUME NEW c \in Operator, ListInView(c) \/ \E z \in zones : DeleteGeoFence(c, z)
      PROVE  ImportOver(d)'
  BY <1>8 DEF Call, ListInView, DeleteGeoFence
<1>9. CASE UNCHANGED vars \/ \E s \in Source : KeyExpires(s)
  BY <1>9 DEF vars, KeyExpires
<1> QED
  BY <1>1, <1>2, <1>3, <1>4, <1>5, <1>6, <1>7, <1>8, <1>9 DEF Next

LEMMA StaysShaped ==
  ASSUME Shaped, [Next]_vars
  PROVE  Shaped'
<1> USE DEF Shaped
<1>1. ASSUME NEW c \in Harness,
             \/ TellActivating(c) \/ SetExpiry(c) \/ FindSource(c) \/ TellOutcome(c)
             \/ DoomTestZones(c) \/ TellDeactivating(c) \/ CommitDelete(c) \/ CutOff(c)
             \/ AnswerCheck(c)
      PROVE  Shaped'
  BY <1>1 DEF Call, TellActivating, SetExpiry, FindSource, TellOutcome, DoomTestZones,
              Doomed, TellDeactivating, CommitDelete, CutOff, AnswerCheck
<1>2. ASSUME NEW c \in Call, WriteZone(c) \/ TaskIsLost(c) PROVE Shaped'
  BY <1>2 DEF WriteZone, TaskIsLost
<1>3. ASSUME NEW c \in Harness, NEW s \in Source, QueueDownload(c, s) \/ FindKey(c, s)
      PROVE  Shaped'
  BY <1>3 DEF Call, QueueDownload, FindKey
<1>4. ASSUME NEW c \in Harness, NEW o \in Outcome, NEW b \in Document, Download(c, o, b)
      PROVE  Shaped'
  BY <1>4 DEF Call, Download
<1>5. ASSUME NEW c \in Harness, NEW p \in Place, CheckZones(c, p) PROVE Shaped'
  BY <1>5 DEF Call, CheckZones
<1>6. ASSUME NEW c \in Operator, NEW b \in Document, SetGeozone(c, b) PROVE Shaped'
  BY <1>6 DEF Call, SetGeozone
<1>7. ASSUME NEW c \in Operator, NEW b \in Shape, SetGeoFence(c, b) \/ Deconflict(c, b)
      PROVE  Shaped'
  BY <1>7 DEF Call, SetGeoFence, Deconflict
<1>8. ASSUME NEW c \in Operator, ListInView(c) \/ \E z \in zones : DeleteGeoFence(c, z)
      PROVE  Shaped'
  BY <1>8 DEF Call, ListInView, DeleteGeoFence
<1>9. CASE UNCHANGED vars \/ \E s \in Source : KeyExpires(s)
  BY <1>9 DEF vars, KeyExpires
<1> QED
  BY <1>1, <1>2, <1>3, <1>4, <1>5, <1>6, <1>7, <1>8, <1>9 DEF Next

(* A new test zone is one of an import that had not ended.                 *)
LEMMA NewZones ==
  ASSUME [Next]_vars, NEW z \in TestZones', z \notin TestZones
  PROVE  z.of \in Call /\ ~ImportOver(z.of)
<1>1. PICK c \in Call : WriteZone(c) \/ \E b \in Shape : c \in Operator /\ SetGeoFence(c, b)
  BY DEF Next, vars, TestZones, Call, TellActivating, SetExpiry, FindSource, TellOutcome,
         DoomTestZones, Doomed, TellDeactivating, CommitDelete, CutOff, AnswerCheck, TaskIsLost,
         QueueDownload, FindKey, Download, CheckZones, SetGeozone, Deconflict, DeleteGeoFence,
         ListInView, KeyExpires
<1>2. CASE WriteZone(c)
  <2>1. z.of = c
    BY <1>2 DEF WriteZone, Row, TestZones
  <2> QED
    BY <1>2, <2>1 DEF WriteZone, ImportOver
<1>3. ASSUME NEW b \in Shape, SetGeoFence(c, b) PROVE FALSE
  BY <1>3 DEF SetGeoFence, Row, TestZones
<1> QED
  BY <1>1, <1>2, <1>3

(* What one request does to another's record is nothing.                   *)
LEMMA DeleteSteps ==
  ASSUME Shaped, [Next]_vars, NEW c \in Call, call'[c].at \in {"doomed", "deleting", "deleted"}
  PROVE  \/ call'[c] = call[c]
         \/ c \in Harness /\ DoomTestZones(c)
         \/ c \in Harness /\ TellDeactivating(c)
         \/ c \in Harness /\ CommitDelete(c)
<1> USE DEF Shaped
<1>1. ASSUME NEW d \in Harness,
             \/ TellActivating(d) \/ SetExpiry(d) \/ FindSource(d) \/ TellOutcome(d) \/ CutOff(d)
             \/ AnswerCheck(d)
      PROVE  call'[c] = call[c]
  BY <1>1 DEF Call, TellActivating, SetExpiry, FindSource, TellOutcome, CutOff, AnswerCheck
<1>2. ASSUME NEW d \in Harness, DoomTestZones(d) \/ TellDeactivating(d) \/ CommitDelete(d)
      PROVE  call'[c] = call[c] \/ c = d
  BY <1>2 DEF Call, DoomTestZones, Doomed, TellDeactivating, CommitDelete
<1>3. ASSUME NEW d \in Call, WriteZone(d) \/ TaskIsLost(d) PROVE call'[c] = call[c]
  BY <1>3 DEF WriteZone, TaskIsLost
<1>4. ASSUME NEW d \in Harness, NEW s \in Source, QueueDownload(d, s) \/ FindKey(d, s)
      PROVE  call'[c] = call[c]
  BY <1>4 DEF Call, QueueDownload, FindKey
<1>5. ASSUME NEW d \in Harness, NEW o \in Outcome, NEW b \in Document, Download(d, o, b)
      PROVE  call'[c] = call[c]
  BY <1>5 DEF Download
<1>6. ASSUME NEW d \in Harness, NEW p \in Place, CheckZones(d, p) PROVE call'[c] = call[c]
  BY <1>6 DEF Call, CheckZones
<1>7. ASSUME NEW d \in Operator, NEW b \in Document, SetGeozone(d, b) PROVE call'[c] = call[c]
  BY <1>7 DEF Call, SetGeozone
<1>8. ASSUME NEW d \in Operator, NEW b \in Shape, SetGeoFence(d, b) \/ Deconflict(d, b)
      PROVE  call'[c] = call[c]
  <2>1. CASE SetGeoFence(d, b)
    BY <2>1 DEF Call, SetGeoFence
  <2>2. CASE Deconflict(d, b)
    <3>1. PICK r : call' = [call EXCEPT ![d] = [at |-> "set", fenced |-> r]]
      BY <2>2 DEF Deconflict
    <3> QED
      BY <3>1 DEF Call
  <2> QED
    BY <1>8, <2>1, <2>2
<1>9. ASSUME NEW d \in Operator, ListInView(d) \/ \E z \in zones : DeleteGeoFence(d, z)
      PROVE  call'[c] = call[c]
  BY <1>9 DEF Call, ListInView, DeleteGeoFence
<1>10. CASE UNCHANGED vars \/ \E s \in Source : KeyExpires(s)
  BY <1>10 DEF vars, KeyExpires
<1> QED
  BY <1>1, <1>2, <1>3, <1>4, <1>5, <1>6, <1>7, <1>8, <1>9, <1>10 DEF Next

LEMMA DeleteNext == DeleteInv /\ [Next]_vars => DeleteInv'
<1> SUFFICES ASSUME DeleteInv, [Next]_vars, NEW c \in Call,
                    call'[c].at \in {"doomed", "deleting", "deleted"}
             PROVE  /\ call'[c].over \subseteq Call
                    /\ \A d \in call'[c].over : ImportOver(d)'
                    /\ \A z \in TestZones' : z.of \in call'[c].over =>
                         call'[c].at # "deleted" /\ z \in call'[c].doomed
  BY StaysShaped DEF DeleteInv, Deleting
<1>0. Shaped /\ Deleting(c)
  BY DEF DeleteInv
<1>1. CASE call'[c] = call[c]
  <2>1. \A d \in call[c].over : d \in Call /\ ImportOver(d) /\ ImportOver(d)'
    BY <1>0, <1>1, StaysOver DEF Deleting
  <2>2. \A z \in TestZones' : z.of \in call[c].over => z \in TestZones
    BY <2>1, NewZones
  <2> QED
    BY <1>0, <1>1, <2>1, <2>2 DEF Deleting
<1>2. CASE c \in Harness /\ DoomTestZones(c)
  <2>1. /\ call'[c].over = {d \in Call : ImportOver(d)} /\ call'[c].doomed = TestZones
        /\ call'[c].at = "doomed" /\ TestZones' = TestZones
    BY <1>0, <1>2 DEF DoomTestZones, Doomed, Shaped, TestZones
  <2> QED
    BY <1>0, <2>1, StaysOver
<1>3. CASE c \in Harness /\ TellDeactivating(c)
  <2>1. call'[c] = [call[c] EXCEPT !.at = "deleting"] /\ call[c].at = "doomed" /\ zones' = zones
    BY <1>0, <1>3 DEF TellDeactivating, Shaped
  <2>2. /\ call'[c].over = call[c].over /\ call'[c].doomed = call[c].doomed
        /\ call'[c].at = "deleting"
    BY <1>0, <2>1 DEF Shaped
  <2> QED
    BY <1>0, <2>1, <2>2, StaysOver DEF Deleting, TestZones
<1>4. CASE c \in Harness /\ CommitDelete(c)
  <2>1. /\ call'[c].over = call[c].over /\ call'[c].at = "deleted" /\ call[c].at = "deleting"
        /\ zones' = zones \ call[c].doomed
    BY <1>0, <1>4 DEF CommitDelete, Shaped
  <2> QED
    BY <1>0, <2>1, StaysOver DEF Deleting, TestZones
<1> QED
  BY <1>0, <1>1, <1>2, <1>3, <1>4, DeleteSteps

(* Once a delete has committed, no test zone of an import that had ended   *)
(* when the delete read them is left, and none ever comes back, whatever   *)
(* imports, deletes, losses and cuts overlap it.                           *)
THEOREM DeletedForGood == Spec => []DeletedZonesAreGone
<1>1. Init => DeleteInv
  BY GeoZonesAssumption DEF Init, DeleteInv, Shaped, Deleting, Fresh, Call
<1>2. DeleteInv /\ [Next]_vars => DeleteInv'
  BY DeleteNext
<1>3. DeleteInv => DeletedZonesAreGone
  BY DEF DeleteInv, Deleting, DeletedZonesAreGone
<1> QED
  BY <1>1, <1>2, <1>3, PTL DEF Spec

-----------------------------------------------------------------------------
(* Types: what each record holds where its request or task stands.         *)

Sourced == {"queued", "told", "done", "known", "doomed", "deleting", "deleted", "cut"}
ZoneRow == [of : Call, nth : Nat, box : Shape, test : BOOLEAN]

CallOK(c) ==
  /\ call[c].at \in Steps
  /\ call[c].at \in Sourced <=> "source" \in DOMAIN call[c]
  /\ call[c].at \in Sourced => call[c].source \in Source
  /\ call[c].at = "check" => call[c].saw \subseteq ZoneRow

LoadOK(c) ==
  /\ load[c].at \in {"idle", "queued", "loaded", "found", "done", "unheard", "lost"}
  /\ load[c].at # "idle" =>
       /\ call[c].at \in Sourced
       /\ "source" \in DOMAIN load[c] /\ load[c].source = call[c].source
  /\ load[c].at \in {"loaded", "found", "done"} =>
       "outcome" \in DOMAIN load[c] /\ load[c].outcome \in Outcome

WriteOK(c) ==
  /\ write[c].at \in {"idle", "queued", "done", "lost"}
  /\ write[c].at = "queued" =>
       /\ {"at", "n", "boxes", "test"} \subseteq DOMAIN write[c]
       /\ write[c].test \in BOOLEAN /\ write[c].boxes \in Seq(Shape)
       /\ write[c].n \in 1..Len(write[c].boxes)

StatusOK ==
  /\ status \in [Source -> [result : Results, expires : BOOLEAN]]
  /\ \A s \in Source : status[s].expires => status[s].result # "none"

RowsOK == zones \subseteq ZoneRow /\ index \subseteq [of : Call, nth : Nat, box : Tuple4]

Typed ==
  /\ Shaped /\ StatusOK /\ RowsOK
  /\ \A c \in Call : CallOK(c) /\ LoadOK(c) /\ WriteOK(c)

(* No other request names the source of this one.                          *)
Alone(c) ==
  \A d \in Call \ {c} : "source" \in DOMAIN call[d] => call[d].source # call[c].source

(* A source no request has named has no status; of one a single request    *)
(* has named, the status is what that request and its download have told.  *)
Nameless == \A s \in Source :
  (\A c \in Call : "source" \in DOMAIN call[c] => call[c].source # s) => status[s] = NoStatus

Follows(c) ==
  LET result == status[call[c].source].result
  IN  Alone(c) =>
        /\ call[c].at = "queued" =>
             result = "none" /\ load[c].at \in {"queued", "loaded", "unheard", "lost"}
        /\ call[c].at \in {"told", "done"} =>
             /\ load[c].at \in {"queued", "loaded", "found", "unheard"} =>
                   result \in {"Activating", "none"}
             /\ load[c].at = "done" => result \in {load[c].outcome, "none"}

OutcomeInv == Typed /\ Nameless /\ \A c \in Call : Follows(c)

(* Every action touches the records of one request.                        *)
CallStep(c) ==
  \/ TellActivating(c) \/ SetExpiry(c) \/ DoomTestZones(c) \/ TellDeactivating(c)
  \/ CommitDelete(c) \/ CutOff(c) \/ AnswerCheck(c)
  \/ \E s \in Source : QueueDownload(c, s) \/ FindKey(c, s)
  \/ \E p \in Place : CheckZones(c, p)
  \/ \E d \in Document : SetGeozone(c, d)
  \/ \E box \in Shape : SetGeoFence(c, box) \/ Deconflict(c, box)
  \/ \E z \in zones : DeleteGeoFence(c, z)
  \/ ListInView(c)
TaskStep(c) ==
  \/ FindSource(c) \/ TellOutcome(c) \/ WriteZone(c) \/ TaskIsLost(c)
  \/ \E o \in Outcome, d \in Document : Download(c, o, d)

LEMMA StepOfOne ==
  ASSUME Next
  PROVE  (\E c \in Call : CallStep(c) \/ TaskStep(c)) \/ (\E s \in Source : KeyExpires(s))
<1>1. Harness \subseteq Call /\ Operator \subseteq Call
  BY DEF Call
<1> QED
  BY <1>1 DEF Next, CallStep, TaskStep

(* A request that has a source keeps it; one that has none gets one as it  *)
(* queues a download or finds the status, or never.                        *)
KeepsSource(c) ==
  /\ call[c].at \in Sourced /\ call'[c].at \in Sourced
  /\ "source" \in DOMAIN call'[c] /\ call'[c].source = call[c].source
GetsSource(c) ==
  /\ call[c].at = "idle" /\ call'[c].at \in {"queued", "known"}
  /\ "source" \in DOMAIN call'[c] /\ call'[c].source \in Source
NeedsNone(c) ==
  /\ call[c].at \in {"idle", "check"} /\ call'[c].at \in {"set", "check", "answered"}
  /\ "source" \notin DOMAIN call'[c]
  /\ call'[c].at = "check" => call'[c].saw \subseteq ZoneRow

LEMMA CallRecord ==
  ASSUME Shaped, RowsOK, NEW c \in Call, CallOK(c), CallStep(c)
  PROVE  /\ \A d \in Call \ {c} : call'[d] = call[d]
         /\ KeepsSource(c) \/ GetsSource(c) \/ NeedsNone(c)
<1> DEFINE Goal == /\ \A d \in Call \ {c} : call'[d] = call[d]
                   /\ KeepsSource(c) \/ GetsSource(c) \/ NeedsNone(c)
<1>1. ASSUME NEW x \in Sourced, call[c].at \in Sourced, call' = [call EXCEPT ![c].at = x]
      PROVE  Goal
  BY <1>1 DEF Shaped, CallOK, KeepsSource
<1>2. CASE TellActivating(c) \/ SetExpiry(c) \/ TellDeactivating(c)
  BY <1>1, <1>2 DEF TellActivating, SetExpiry, TellDeactivating, Sourced
<1>3. CASE DoomTestZones(c)
  BY <1>3 DEF DoomTestZones, Doomed, Shaped, KeepsSource, Sourced
<1>4. CASE CommitDelete(c)
  BY <1>4 DEF CommitDelete, Shaped, KeepsSource, Sourced
<1>5. CASE CutOff(c)
  <2>1. PICK told : call' = [call EXCEPT ![c] = [at |-> "cut", source |-> @.source, told |-> told]]
    BY <1>5 DEF CutOff
  <2>2. call[c].at \in Sourced
    BY <1>5 DEF CutOff, Sourced
  <2> QED
    BY <2>1, <2>2 DEF Shaped, KeepsSource, Sourced
<1>6. ASSUME NEW s \in Source, QueueDownload(c, s) \/ FindKey(c, s)
      PROVE  Goal
  BY <1>6 DEF QueueDownload, FindKey, Shaped, GetsSource
<1>7. ASSUME NEW p \in Place, CheckZones(c, p)
      PROVE  Goal
  BY <1>7 DEF CheckZones, Shaped, NeedsNone, RowsOK, TestZones
<1>8. CASE AnswerCheck(c)
  <2>1. PICK r : call' = [call EXCEPT ![c] = [at |-> "answered", place |-> @.place, saw |-> @.saw,
                                              present |-> r]]
    BY <1>8 DEF AnswerCheck
  <2> QED
    BY <1>8, <2>1 DEF AnswerCheck, Shaped, NeedsNone
<1>9. CASE call[c].at = "idle" /\ call' = [call EXCEPT ![c] = [at |-> "set"]]
  BY <1>9 DEF Shaped, NeedsNone
<1>10. ASSUME NEW v \in Shape, Deconflict(c, v)
       PROVE  Goal
  <2>1. PICK r : call' = [call EXCEPT ![c] = [at |-> "set", fenced |-> r]]
    BY <1>10 DEF Deconflict
  <2> QED
    BY <1>10, <2>1 DEF Deconflict, Shaped, NeedsNone
<1> QED
  BY <1>2, <1>3, <1>4, <1>5, <1>6, <1>7, <1>8, <1>9, <1>10
  DEF CallStep, SetGeozone, SetGeoFence, DeleteGeoFence, ListInView

LEMMA CallsStep ==
  ASSUME Typed, Next
  PROVE  \A d \in Call :
            /\ CallOK(d)'
            /\ "source" \in DOMAIN call[d] =>
                  "source" \in DOMAIN call'[d] /\ call'[d].source = call[d].source
<1>1. Shaped /\ RowsOK /\ \A d \in Call : CallOK(d)
  BY DEF Typed
<1>2. ASSUME NEW c \in Call, CallStep(c), NEW d \in Call
      PROVE  /\ CallOK(d)'
             /\ "source" \in DOMAIN call[d] =>
                   "source" \in DOMAIN call'[d] /\ call'[d].source = call[d].source
  <2>1. CASE d # c
    <3>1. call'[d] = call[d]
      BY <1>1, <1>2, <2>1, CallRecord
    <3> QED
      BY <1>1, <3>1 DEF CallOK
  <2>2. CASE d = c /\ KeepsSource(c)
    BY <1>1, <2>2 DEF KeepsSource, CallOK, Sourced, Steps
  <2>3. CASE d = c /\ GetsSource(c)
    BY <1>1, <2>3 DEF GetsSource, CallOK, Sourced, Steps
  <2>4. CASE d = c /\ NeedsNone(c)
    BY <1>1, <2>4 DEF NeedsNone, CallOK, Sourced, Steps
  <2> QED
    BY <1>1, <1>2, <2>1, <2>2, <2>3, <2>4, CallRecord
<1>3. CASE UNCHANGED call
  BY <1>1, <1>3 DEF CallOK
<1>4. (\E c \in Call : TaskStep(c)) \/ (\E s \in Source : KeyExpires(s)) => UNCHANGED call
  BY DEF TaskStep, FindSource, TellOutcome, WriteZone, TaskIsLost, Download, KeyExpires
<1> QED
  BY <1>2, <1>3, <1>4, StepOfOne

(* The tasks of a request.                                                 *)
LEMMA LoadsStep ==
  ASSUME Typed, Next
  PROVE  \A d \in Call : LoadOK(d)'
<1>1. Shaped /\ \A d \in Call : CallOK(d) /\ LoadOK(d)
  BY DEF Typed
<1>2. \A d \in Call : CallOK(d)' /\ (call[d].at \in Sourced =>
                           call'[d].at \in Sourced /\ call'[d].source = call[d].source)
  BY <1>1, CallsStep DEF CallOK
<1>3. ASSUME NEW d \in Call, load'[d] = load[d]
      PROVE  LoadOK(d)'
  BY <1>1, <1>2, <1>3 DEF LoadOK
<1>4. ASSUME NEW c \in Call, NEW s \in Source, QueueDownload(c, s)
      PROVE  \A d \in Call : LoadOK(d)'
  <2>1. /\ call' = [call EXCEPT ![c] = [at |-> "queued", source |-> s]]
        /\ load' = [load EXCEPT ![c] = [at |-> "queued", source |-> s]]
    BY <1>4 DEF QueueDownload
  <2>2. LoadOK(c)'
    BY <1>1, <2>1 DEF Shaped, LoadOK, Sourced
  <2> QED
    BY <1>1, <1>3, <2>1, <2>2 DEF Shaped
<1>5. ASSUME NEW c \in Call, NEW o \in Outcome, NEW b \in Document, Download(c, o, b)
      PROVE  \A d \in Call : LoadOK(d)'
  <2>1. /\ load[c].at = "queued" /\ call' = call
        /\ load' = [load EXCEPT ![c] = [at |-> "loaded", source |-> @.source, outcome |-> o]]
    BY <1>5 DEF Download
  <2>2. LoadOK(c)'
    BY <1>1, <2>1 DEF Shaped, LoadOK
  <2> QED
    BY <1>1, <1>3, <2>1, <2>2 DEF Shaped
<1>6. ASSUME NEW c \in Call, FindSource(c)
      PROVE  \A d \in Call : LoadOK(d)'
  <2>1. /\ load[c].at = "loaded" /\ call' = call
        /\ \/ load' = [load EXCEPT ![c] = [@ EXCEPT !.at = "found"]]
           \/ load' = [load EXCEPT ![c] = [at |-> "unheard", source |-> @.source]]
    BY <1>6 DEF FindSource
  <2>2. LoadOK(c)'
    BY <1>1, <2>1 DEF Shaped, LoadOK
  <2> QED
    BY <1>1, <1>3, <2>1, <2>2 DEF Shaped
<1>7. ASSUME NEW c \in Call, TellOutcome(c)
      PROVE  \A d \in Call : LoadOK(d)'
  <2>1. load[c].at = "found" /\ call' = call /\ load' = [load EXCEPT ![c].at = "done"]
    BY <1>7 DEF TellOutcome
  <2>2. LoadOK(c)'
    BY <1>1, <2>1 DEF Shaped, LoadOK
  <2> QED
    BY <1>1, <1>3, <2>1, <2>2 DEF Shaped
<1>8. ASSUME NEW c \in Call, TaskIsLost(c)
      PROVE  \A d \in Call : LoadOK(d)'
  <2>1. /\ call' = call
        /\ \/ load' = load
           \/ /\ load[c].at \in {"queued", "loaded", "found"}
              /\ load' = [load EXCEPT ![c] = [at |-> "lost", source |-> @.source]]
    BY <1>8 DEF TaskIsLost
  <2>2. LoadOK(c)'
    BY <1>1, <2>1 DEF Shaped, LoadOK
  <2> QED
    BY <1>1, <1>3, <2>1, <2>2 DEF Shaped
<1>9. CASE UNCHANGED load
  BY <1>3, <1>9
<1>10. \/ UNCHANGED load
       \/ \E c \in Call : \/ FindSource(c) \/ TellOutcome(c) \/ TaskIsLost(c)
                          \/ \E s \in Source : QueueDownload(c, s)
                          \/ \E o \in Outcome, b \in Document : Download(c, o, b)
  <2>1. ASSUME NEW c \in Call, CallStep(c)
        PROVE  UNCHANGED load \/ \E s \in Source : QueueDownload(c, s)
    BY <2>1 DEF CallStep, TellActivating, SetExpiry, DoomTestZones, Doomed, TellDeactivating,
                CommitDelete, CutOff, AnswerCheck, FindKey, CheckZones, SetGeozone, SetGeoFence,
                Deconflict, DeleteGeoFence, ListInView
  <2> QED
    BY <2>1, StepOfOne DEF TaskStep, WriteZone, KeyExpires
<1> QED
  BY <1>4, <1>5, <1>6, <1>7, <1>8, <1>9, <1>10

LEMMA WritesStep ==
  ASSUME Typed, Next
  PROVE  \A d \in Call : WriteOK(d)'
<1>1. Shaped /\ \A d \in Call : WriteOK(d)
  BY DEF Typed
<1>2. ASSUME NEW d \in Call, write'[d] = write[d]
      PROVE  WriteOK(d)'
  BY <1>1, <1>2 DEF WriteOK
<1>3. ASSUME NEW c \in Call, NEW boxes \in Document, NEW test \in BOOLEAN,
             write' = [write EXCEPT ![c] = Queued(c, boxes, test)]
      PROVE  \A d \in Call : WriteOK(d)'
  <2>1. boxes \in Seq(Shape) /\ 1 \in 1..Len(boxes)
    BY GeoZonesAssumption
  <2>2. write'[c] = [at |-> "queued", test |-> test, n |-> 1, boxes |-> boxes]
    BY <1>1, <1>3 DEF Queued, Shaped
  <2>3. WriteOK(c)'
    BY <2>1, <2>2 DEF WriteOK
  <2> QED
    BY <1>1, <1>2, <1>3, <2>3 DEF Shaped
<1>4. ASSUME NEW c \in Call, write'[c].at \in {"done", "lost"}
      PROVE  WriteOK(c)'
  BY <1>4 DEF WriteOK
<1>5. ASSUME NEW c \in Call, WriteZone(c)
      PROVE  \A d \in Call : WriteOK(d)'
  <2>0. /\ write[c].at = "queued"
        /\ write' = [write EXCEPT ![c] =
             IF write[c].n = Len(write[c].boxes) THEN [at |-> "done"]
             ELSE [write[c] EXCEPT !.n = write[c].n + 1]]
    BY <1>5 DEF WriteZone
  <2>1. /\ write[c].at = "queued"
        /\ \A d \in Call \ {c} : write'[d] = write[d]
        /\ \/ write'[c] = [at |-> "done"]
           \/ /\ write[c].n # Len(write[c].boxes)
              /\ write'[c] = [write[c] EXCEPT !.n = write[c].n + 1]
    <3> DEFINE rest == [write[c] EXCEPT !.n = write[c].n + 1]
               last == write[c].n = Len(write[c].boxes)
    <3>1. write' = [write EXCEPT ![c] = IF last THEN [at |-> "done"] ELSE rest]
      BY <2>0
    <3> HIDE DEF rest, last
    <3>2. /\ \A d \in Call \ {c} : write'[d] = write[d]
          /\ write'[c] = IF last THEN [at |-> "done"] ELSE rest
      BY <1>1, <3>1 DEF Shaped
    <3> QED
      BY <2>0, <3>2 DEF rest, last
  <2>2. CASE write'[c] = [at |-> "done"]
    <3>1. write'[c].at = "done"
      BY <2>2
    <3> QED
      BY <1>2, <1>4, <2>1, <3>1
  <2>3. CASE /\ write[c].n # Len(write[c].boxes)
             /\ write'[c] = [write[c] EXCEPT !.n = write[c].n + 1]
    <3>1. /\ write[c].n \in 1..Len(write[c].boxes) /\ write[c].boxes \in Seq(Shape)
          /\ write[c].test \in BOOLEAN /\ {"at", "n", "boxes", "test"} \subseteq DOMAIN write[c]
      BY <1>1, <2>1 DEF WriteOK
    <3>2. /\ write'[c].n = write[c].n + 1 /\ write'[c].boxes = write[c].boxes
          /\ write'[c].at = "queued" /\ DOMAIN write'[c] = DOMAIN write[c]
      BY <2>1, <2>3, <3>1
    <3>3. write'[c].test = write[c].test
      BY <2>3, <3>1
    <3>4. write'[c].n \in 1..Len(write'[c].boxes)
      BY <2>3, <3>1, <3>2
    <3>5. write'[c].test \in BOOLEAN
      BY <3>1, <3>3
    <3>6. write'[c].boxes \in Seq(Shape)
      BY <3>1, <3>2
    <3>7. {"at", "n", "boxes", "test"} \subseteq DOMAIN write'[c]
      BY <3>1, <3>2
    <3>8. WriteOK(c)'
      BY <3>2, <3>4, <3>5, <3>6, <3>7, Zenon DEF WriteOK
    <3> QED
      BY <1>2, <2>1, <3>8
  <2> QED
    BY <1>2, <2>1, <2>2, <2>3
<1>6. ASSUME NEW c \in Call, TaskIsLost(c)
      PROVE  \A d \in Call : WriteOK(d)'
  <2>1. /\ \A d \in Call \ {c} : write'[d] = write[d]
        /\ write'[c] = write[c] \/ write'[c] = [at |-> "lost"]
    BY <1>1, <1>6 DEF TaskIsLost, Shaped
  <2>2. write'[c] = [at |-> "lost"] => write'[c].at = "lost"
    OBVIOUS
  <2> QED
    BY <1>2, <1>4, <2>1, <2>2
<1>7. CASE UNCHANGED write
  BY <1>2, <1>7
<1>8. \/ UNCHANGED write
      \/ \E c \in Call :
           \/ WriteZone(c) \/ TaskIsLost(c)
           \/ \E boxes \in Document, test \in BOOLEAN :
                write' = [write EXCEPT ![c] = Queued(c, boxes, test)]
  <2>1. ASSUME NEW c \in Call, CallStep(c)
        PROVE  UNCHANGED write \/ \E boxes \in Document : SetGeozone(c, boxes)
    BY <2>1 DEF CallStep, TellActivating, SetExpiry, DoomTestZones, Doomed, TellDeactivating,
                CommitDelete, CutOff, AnswerCheck, QueueDownload, FindKey, CheckZones, SetGeoFence,
                Deconflict, DeleteGeoFence, ListInView
  <2>2. ASSUME NEW c \in Call, TaskStep(c)
        PROVE  \/ UNCHANGED write \/ WriteZone(c) \/ TaskIsLost(c)
               \/ \E boxes \in Document : write' = [write EXCEPT ![c] = Queued(c, boxes, TRUE)]
    BY <2>2 DEF TaskStep, FindSource, TellOutcome, Download
  <2>3. (\E s \in Source : KeyExpires(s)) => UNCHANGED write
    BY DEF KeyExpires
  <2> QED
    BY <2>1, <2>2, <2>3, StepOfOne DEF SetGeozone
<1> QED
  BY <1>3, <1>5, <1>6, <1>7, <1>8

(* Rows are written by the task and by the operator's fences; what a check *)
(* leaves in the index are rows it has read.                               *)
LEMMA RowsStep ==
  ASSUME Typed, Next
  PROVE  RowsOK'
<1>1. Shaped /\ RowsOK /\ \A d \in Call : CallOK(d) /\ WriteOK(d)
  BY DEF Typed
<1>2. ASSUME NEW z \in ZoneRow
      PROVE  Entry(z, Exchanged(z.box)) \in [of : Call, nth : Nat, box : Tuple4]
  BY GeoZonesAssumption DEF ZoneRow, Entry, Exchanged, Tuple4
<1>3. ASSUME NEW some, some \subseteq ZoneRow
      PROVE  Left(some) \subseteq [of : Call, nth : Nat, box : Tuple4]
  <2>1. Inserted(some) \subseteq [of : Call, nth : Nat, box : Tuple4]
    BY <1>1, <1>2, <1>3 DEF Inserted, RowsOK
  <2> QED
    BY <2>1 DEF Left
<1>4. ASSUME NEW c \in Call, WriteZone(c)
      PROVE  RowsOK'
  <2> DEFINE box == write[c].boxes[write[c].n]
  <2>1. box \in Shape /\ write[c].n \in Nat /\ write[c].test \in BOOLEAN
    BY <1>1, <1>4 DEF WriteZone, WriteOK
  <2>2. zones' = zones \cup {Row(c, write[c].n, box, write[c].test)} /\ index' = index
    BY <1>4 DEF WriteZone
  <2> HIDE DEF box
  <2> QED
    BY <1>1, <2>1, <2>2 DEF RowsOK, Row, ZoneRow
<1>5. ASSUME NEW c \in Call, NEW box \in Shape, SetGeoFence(c, box)
      PROVE  RowsOK'
  <2>1. Row(c, 1, box, FALSE) \in ZoneRow
    BY <1>5 DEF Row, ZoneRow
  <2>2. zones' = zones \cup {Row(c, 1, box, FALSE)} /\ index' = index
    BY <1>5 DEF SetGeoFence
  <2> QED
    BY <1>1, <2>1, <2>2 DEF RowsOK
<1>6. ASSUME NEW c \in Call, AnswerCheck(c)
      PROVE  RowsOK'
  <2>1. call[c].saw \subseteq ZoneRow
    BY <1>1, <1>6 DEF AnswerCheck, CallOK
  <2> QED
    BY <1>1, <1>3, <1>6, <2>1 DEF AnswerCheck, RowsOK
<1>7. ASSUME NEW c \in Call, ListInView(c) \/ \E box \in Shape : Deconflict(c, box)
      PROVE  RowsOK'
  <2>1. zones' = zones /\ (index' = Left(zones \ TestZones) \/ index' = Left(zones))
    BY <1>7 DEF ListInView, Deconflict
  <2>2. zones \subseteq ZoneRow /\ zones \ TestZones \subseteq ZoneRow
    BY <1>1 DEF RowsOK
  <2> QED
    BY <1>3, <2>1, <2>2 DEF RowsOK
<1>8. CASE zones' \subseteq zones /\ index' = index
  BY <1>1, <1>8 DEF RowsOK
<1>9. \/ zones' \subseteq zones /\ index' = index
      \/ \E c \in Call : \/ WriteZone(c) \/ AnswerCheck(c) \/ ListInView(c)
                         \/ \E box \in Shape : SetGeoFence(c, box) \/ Deconflict(c, box)
  <2>1. ASSUME NEW c \in Call, CallStep(c)
        PROVE  \/ zones' \subseteq zones /\ index' = index
               \/ AnswerCheck(c) \/ ListInView(c)
               \/ \E box \in Shape : SetGeoFence(c, box) \/ Deconflict(c, box)
    BY <2>1 DEF CallStep, TellActivating, SetExpiry, DoomTestZones, Doomed, TellDeactivating,
                CommitDelete, CutOff, QueueDownload, FindKey, CheckZones, SetGeozone, DeleteGeoFence
  <2>2. ASSUME NEW c \in Call, TaskStep(c)
        PROVE  (zones' \subseteq zones /\ index' = index) \/ WriteZone(c)
    BY <2>2 DEF TaskStep, FindSource, TellOutcome, Download, TaskIsLost
  <2>3. (\E s \in Source : KeyExpires(s)) => zones' = zones /\ index' = index
    BY DEF KeyExpires
  <2> QED
    BY <2>1, <2>2, <2>3, StepOfOne
<1> QED
  BY <1>4, <1>5, <1>6, <1>7, <1>8, <1>9

-----------------------------------------------------------------------------
(* What is told of a source.                                               *)

(* Who changes the status of a source, and to what.                        *)
LEMMA StatusMoves ==
  ASSUME Typed, NEW c \in Call, CallStep(c) \/ TaskStep(c)
  PROVE  \/ UNCHANGED status
         \/ /\ call[c].at \in Sourced
            /\ \/ TellActivating(c) /\ status' = [status EXCEPT ![call[c].source] = Told("Activating")]
               \/ TellDeactivating(c) /\ status' = [status EXCEPT ![call[c].source] = Told("Deactivating")]
               \/ /\ TellOutcome(c) /\ load[c].outcome \in Outcome
                  /\ status' = [status EXCEPT ![call[c].source] = Told(load[c].outcome)]
               \/ SetExpiry(c)
<1>1. LoadOK(c)
  BY DEF Typed
<1>2. CallStep(c) => \/ UNCHANGED status
                     \/ TellActivating(c) \/ TellDeactivating(c) \/ SetExpiry(c)
  BY DEF CallStep, DoomTestZones, Doomed, CommitDelete, CutOff, AnswerCheck, QueueDownload,
         FindKey, CheckZones, SetGeozone, SetGeoFence, Deconflict, DeleteGeoFence, ListInView
<1>3. TaskStep(c) => UNCHANGED status \/ TellOutcome(c)
  BY DEF TaskStep, FindSource, WriteZone, TaskIsLost, Download
<1>4. TellActivating(c) => /\ call[c].at \in Sourced
                           /\ status' = [status EXCEPT ![call[c].source] = Told("Activating")]
  BY DEF TellActivating, Sourced
<1>5. TellDeactivating(c) => /\ call[c].at \in Sourced
                             /\ status' = [status EXCEPT ![call[c].source] = Told("Deactivating")]
  BY DEF TellDeactivating, Sourced
<1>6. TellOutcome(c) => /\ call[c].at \in Sourced /\ load[c].outcome \in Outcome
                        /\ status' = [status EXCEPT ![call[c].source] = Told(load[c].outcome)]
  BY <1>1 DEF TellOutcome, LoadOK
<1>7. SetExpiry(c) => call[c].at \in Sourced
  BY DEF SetExpiry, Sourced
<1> QED
  BY <1>2, <1>3, <1>4, <1>5, <1>6, <1>7

(* A status that expires is one that was told.                             *)
LEMMA ExpiryOfStatus ==
  ASSUME Typed, NEW c \in Call, SetExpiry(c)
  PROVE  /\ StatusOK'
         /\ \A s \in Source : status'[s].result = status[s].result
         /\ \A s \in Source : s # call[c].source => status'[s] = status[s]
         /\ call[c].at = "told" /\ load' = load /\ call' = [call EXCEPT ![c].at = "done"]
<1> DEFINE s == call[c].source
<1>1. s \in Source /\ StatusOK
  BY DEF Typed, CallOK, SetExpiry, Sourced
<1>2. PICK b \in BOOLEAN : /\ b = (status[s].expires \/ status[s] # NoStatus)
                           /\ status' = [status EXCEPT ![s].expires = b]
  BY DEF SetExpiry
<1>3. b => status[s].result # "none"
  <2>1. status[s] \in [result : Results, expires : BOOLEAN]
    BY <1>1 DEF StatusOK
  <2>2. CASE status[s].expires
    BY <1>1, <2>2 DEF StatusOK
  <2>3. CASE ~status[s].expires /\ status[s].result = "none"
    BY <1>2, <2>1, <2>3 DEF NoStatus
  <2> QED
    BY <2>1, <2>2, <2>3
<1>4. /\ status' \in [Source -> [result : Results, expires : BOOLEAN]]
      /\ status'[s].expires = b
      /\ \A x \in Source : status'[x].result = status[x].result
      /\ \A x \in Source : x # s => status'[x] = status[x]
  BY <1>1, <1>2 DEF StatusOK
<1>5. StatusOK'
  BY <1>1, <1>3, <1>4 DEF StatusOK
<1> QED
  BY <1>4, <1>5 DEF SetExpiry

LEMMA StatusStep ==
  ASSUME Typed, Next
  PROVE  StatusOK'
<1>1. StatusOK /\ \A c \in Call : CallOK(c)
  BY DEF Typed
<1>2. ASSUME NEW s \in Source, NEW result \in Results,
             status' = [status EXCEPT ![s] = Told(result)]
      PROVE  StatusOK'
  BY <1>1, <1>2 DEF StatusOK, Told
<1>3. ASSUME NEW s \in Source, status' = [status EXCEPT ![s] = NoStatus]
      PROVE  StatusOK'
  BY <1>1, <1>3 DEF StatusOK, NoStatus, Results
<1>4. {"Activating", "Deactivating"} \cup Outcome \subseteq Results
  BY DEF Results
<1>5. \A c \in Call : call[c].at \in Sourced => call[c].source \in Source
  BY <1>1 DEF CallOK
<1>6. CASE UNCHANGED status
  BY <1>1, <1>6 DEF StatusOK
<1>7. ASSUME NEW c \in Call, CallStep(c) \/ TaskStep(c)
      PROVE  StatusOK'
  BY <1>2, <1>4, <1>5, <1>6, <1>7, ExpiryOfStatus, StatusMoves
<1> QED
  BY <1>3, <1>7, StepOfOne DEF KeyExpires

(* What one request does leaves the records of the others alone, and the   *)
(* status of a source another alone has named.                             *)
LEMMA Others ==
  ASSUME Typed, NEW d \in Call, CallStep(d) \/ TaskStep(d), NEW c \in Call, c # d
  PROVE  /\ call'[c] = call[c] /\ load'[c] = load[c]
         /\ call[c].at \in Sourced /\ Alone(c) =>
              status'[call[c].source] = status[call[c].source]
<1>1. Shaped /\ RowsOK /\ StatusOK /\ CallOK(c) /\ CallOK(d)
  BY DEF Typed
<1>2. call'[c] = call[c]
  <2>1. TaskStep(d) => call' = call
    BY DEF TaskStep, FindSource, TellOutcome, WriteZone, TaskIsLost, Download
  <2> QED
    BY <1>1, <2>1, CallRecord
<1>3. load'[c] = load[c]
  <2>1. CallStep(d) => \/ UNCHANGED load
                       \/ \E s \in Source : load' = [load EXCEPT ![d] = [at |-> "queued", source |-> s]]
    BY DEF CallStep, TellActivating, SetExpiry, DoomTestZones, Doomed, TellDeactivating,
           CommitDelete, CutOff, AnswerCheck, QueueDownload, FindKey, CheckZones, SetGeozone,
           SetGeoFence, Deconflict, DeleteGeoFence, ListInView
  <2>2. TaskStep(d) => \/ UNCHANGED load
                       \/ \E r : load' = [load EXCEPT ![d] = r]
    BY DEF TaskStep, FindSource, TellOutcome, WriteZone, TaskIsLost, Download
  <2> QED
    BY <1>1, <2>1, <2>2 DEF Shaped
<1>4. ASSUME call[c].at \in Sourced, Alone(c)
      PROVE  status'[call[c].source] = status[call[c].source]
  <2>1. call[d].at \in Sourced => call[d].source # call[c].source
    BY <1>1, <1>4 DEF CallOK, Alone
  <2>2. call[c].source \in Source
    BY <1>1, <1>4 DEF CallOK
  <2> QED
    BY <1>1, <2>1, <2>2, StatusMoves, ExpiryOfStatus DEF StatusOK
<1> QED
  BY <1>2, <1>3, <1>4

LEMMA NamelessStep ==
  ASSUME Typed, Nameless, Next
  PROVE  Nameless'
<1> SUFFICES ASSUME NEW s \in Source,
                    \A c \in Call : "source" \in DOMAIN call'[c] => call'[c].source # s
             PROVE  status'[s] = NoStatus
  BY DEF Nameless
<1>1. \A c \in Call : "source" \in DOMAIN call[c] => call[c].source # s
  BY CallsStep
<1>2. status[s] = NoStatus
  BY <1>1 DEF Nameless
<1>3. \A c \in Call : call[c].at \in Sourced => call[c].source # s
  BY <1>1 DEF Typed, CallOK
<1>4. ASSUME NEW c \in Call, CallStep(c) \/ TaskStep(c)
      PROVE  status'[s] = NoStatus
  BY <1>2, <1>3, <1>4, StatusMoves, ExpiryOfStatus DEF Typed, StatusOK
<1>5. ASSUME NEW x \in Source, KeyExpires(x)
      PROVE  status'[s] = NoStatus
  BY <1>2, <1>5 DEF KeyExpires, Typed, StatusOK
<1> QED
  BY <1>4, <1>5, StepOfOne

(* Only a request that puts a source is queued, told and done.             *)
LEMMA OtherCalls ==
  ASSUME Shaped, NEW c \in Call, CallStep(c)
  PROVE  \/ TellActivating(c) \/ SetExpiry(c) \/ \E s \in Source : QueueDownload(c, s)
         \/ call'[c].at \notin {"queued", "told", "done"}
<1> USE DEF Shaped
<1>1. CASE \/ DoomTestZones(c) \/ TellDeactivating(c) \/ CommitDelete(c) \/ CutOff(c)
           \/ AnswerCheck(c) \/ ListInView(c)
  BY <1>1 DEF DoomTestZones, Doomed, TellDeactivating, CommitDelete, CutOff, AnswerCheck, ListInView
<1>2. ASSUME NEW s \in Source, FindKey(c, s)
      PROVE  call'[c].at = "known"
  BY <1>2 DEF FindKey
<1>3. ASSUME NEW p \in Place, CheckZones(c, p)
      PROVE  call'[c].at = "check"
  BY <1>3 DEF CheckZones
<1>4. ASSUME \/ \E d \in Document : SetGeozone(c, d)
             \/ \E box \in Shape : SetGeoFence(c, box)
             \/ \E z \in zones : DeleteGeoFence(c, z)
      PROVE  call'[c].at = "set"
  <2>1. call' = [call EXCEPT ![c] = [at |-> "set"]]
    BY <1>4 DEF SetGeozone, SetGeoFence, DeleteGeoFence
  <2> QED
    BY <2>1
<1>5. ASSUME NEW box \in Shape, Deconflict(c, box)
      PROVE  call'[c].at = "set"
  <2>1. PICK r : call' = [call EXCEPT ![c] = [at |-> "set", fenced |-> r]]
    BY <1>5 DEF Deconflict
  <2> QED
    BY <2>1
<1> QED
  BY <1>1, <1>2, <1>3, <1>4, <1>5 DEF CallStep

(* What a request, alone with its source, and its download do to what is   *)
(* told of it.                                                             *)
LEMMA OwnCall ==
  ASSUME Typed, NEW c \in Call, call[c].at \in Sourced, Alone(c), Follows(c), CallStep(c)
  PROVE  Follows(c)'
<1>1. Shaped /\ StatusOK /\ CallOK(c) /\ LoadOK(c)
  BY DEF Typed
<1>0. call'[c].source = call[c].source
  BY <1>1, CallRecord DEF Typed, KeepsSource, GetsSource, NeedsNone, Sourced
<1>2. CASE TellActivating(c)
  <2>1. /\ call[c].at = "queued" /\ load' = load /\ call'[c].at = "told"
        /\ status' = [status EXCEPT ![call[c].source] = Told("Activating")]
    BY <1>1, <1>2 DEF TellActivating, Shaped
  <2>2. call[c].source \in Source /\ load[c].at \in {"queued", "loaded", "unheard", "lost"}
    BY <1>1, <2>1 DEF CallOK, Follows, Sourced
  <2>3. status'[call'[c].source].result = "Activating"
    BY <1>0, <1>1, <2>1, <2>2 DEF Told, StatusOK
  <2> QED
    BY <2>1, <2>2, <2>3 DEF Follows
<1>3. CASE SetExpiry(c)
  <2>1. /\ call[c].at = "told" /\ load' = load /\ call'[c].at = "done"
        /\ \A s \in Source : status'[s].result = status[s].result
    BY <1>1, <1>3, ExpiryOfStatus DEF Shaped
  <2>2. call[c].source \in Source
    BY <1>1, <2>1 DEF CallOK, Sourced
  <2> QED
    BY <1>0, <2>1, <2>2 DEF Follows, Sourced
<1>4. CASE call'[c].at \notin {"queued", "told", "done"}
  BY <1>4 DEF Follows
<1>5. ~(\E s \in Source : QueueDownload(c, s))
  BY DEF QueueDownload, Sourced
<1> QED
  BY <1>1, <1>2, <1>3, <1>4, <1>5, OtherCalls

LEMMA OwnTask ==
  ASSUME Typed, NEW c \in Call, call[c].at \in Sourced, Alone(c), Follows(c), TaskStep(c)
  PROVE  Follows(c)'
<1>1. Shaped /\ StatusOK /\ CallOK(c) /\ LoadOK(c)
  BY DEF Typed
<1>2. call' = call /\ call[c].source \in Source
  BY <1>1 DEF TaskStep, FindSource, TellOutcome, WriteZone, TaskIsLost, Download, CallOK
<1>3. CASE FindSource(c)
  <2>1. /\ load[c].at = "loaded" /\ status' = status /\ load[c].source = call[c].source
        /\ load'[c].at \in {"found", "unheard"}
        /\ load'[c].at = "found" => status[call[c].source] # NoStatus
    <3>1. load[c].at = "loaded" /\ status' = status /\ load[c].source = call[c].source
      BY <1>1, <1>3 DEF FindSource, LoadOK
    <3>2. CASE status[load[c].source] # NoStatus
      <4>1. load' = [load EXCEPT ![c] = [@ EXCEPT !.at = "found"]]
        BY <1>3, <3>2 DEF FindSource
      <4>2. load'[c].at = "found"
        BY <1>1, <4>1 DEF Shaped
      <4> QED
        BY <3>1, <3>2, <4>2
    <3>3. CASE status[load[c].source] = NoStatus
      <4>1. load' = [load EXCEPT ![c] = [at |-> "unheard", source |-> @.source]]
        BY <1>3, <3>3 DEF FindSource
      <4>2. load'[c].at = "unheard"
        BY <1>1, <4>1 DEF Shaped
      <4> QED
        BY <3>1, <4>2
    <3> QED
      BY <3>2, <3>3
  <2>2. status[call[c].source].result = "none" => status[call[c].source] = NoStatus
    BY <1>1, <1>2 DEF StatusOK, NoStatus
  <2> QED
    BY <1>2, <2>1, <2>2 DEF Follows
<1>4. CASE TellOutcome(c)
  <2>1. /\ load[c].at = "found" /\ load'[c].at = "done" /\ load'[c].outcome = load[c].outcome
        /\ status' = [status EXCEPT ![call[c].source] = Told(load[c].outcome)]
    BY <1>1, <1>4 DEF TellOutcome, LoadOK, Shaped
  <2>2. status'[call[c].source].result = load[c].outcome
    BY <1>1, <1>2, <2>1 DEF StatusOK, Told
  <2> QED
    BY <1>2, <2>1, <2>2 DEF Follows
<1>5. ASSUME NEW o \in Outcome, NEW d \in Document, Download(c, o, d)
      PROVE  Follows(c)'
  <2>1. load[c].at = "queued" /\ load'[c].at = "loaded" /\ status' = status
    BY <1>1, <1>5 DEF Download, Shaped
  <2> QED
    BY <1>2, <2>1 DEF Follows
<1>6. CASE TaskIsLost(c)
  <2>1. status' = status /\ (load'[c] = load[c] \/ load'[c].at = "lost")
    BY <1>1, <1>6 DEF TaskIsLost, Shaped
  <2> QED
    BY <1>2, <2>1 DEF Follows
<1>7. CASE WriteZone(c)
  BY <1>2, <1>7 DEF WriteZone, Follows
<1> QED
  BY <1>3, <1>4, <1>5, <1>6, <1>7 DEF TaskStep

LEMMA FollowsStep ==
  ASSUME Typed, Nameless, Next, NEW c \in Call, Follows(c)
  PROVE  Follows(c)'
<1> SUFFICES ASSUME Alone(c)', call'[c].at \in {"queued", "told", "done"}
             PROVE  Follows(c)'
  BY DEF Follows
<1>1. /\ Shaped /\ RowsOK /\ StatusOK
      /\ \A d \in Call : CallOK(d) /\ CallOK(d)' /\ LoadOK(d)
  BY CallsStep DEF Typed
<1>2. CASE call[c].at \in Sourced
  <2>1. call'[c].source = call[c].source /\ call[c].source \in Source /\ Alone(c)
    <3>1. /\ call'[c].source = call[c].source /\ call[c].source \in Source
      BY <1>1, <1>2, CallsStep DEF CallOK
    <3>2. ASSUME NEW d \in Call \ {c}, "source" \in DOMAIN call[d]
          PROVE  call[d].source # call[c].source
      BY <3>1, <3>2, CallsStep DEF Alone
    <3> QED
      BY <3>1, <3>2 DEF Alone
  <2>2. ASSUME NEW d \in Call, CallStep(d) \/ TaskStep(d), d # c
        PROVE  Follows(c)'
    <3>1. /\ call'[c] = call[c] /\ load'[c] = load[c]
          /\ status'[call[c].source] = status[call[c].source]
      BY <1>2, <2>1, <2>2, Others
    <3> QED
      BY <2>1, <3>1 DEF Follows
  <2>3. CASE CallStep(c) \/ TaskStep(c)
    BY <1>2, <2>1, <2>3, OwnCall, OwnTask
  <2>4. ASSUME NEW s \in Source, KeyExpires(s)
        PROVE  Follows(c)'
    <3>1. /\ call' = call /\ load' = load
          /\ \/ status'[call[c].source] = status[call[c].source]
             \/ status'[call[c].source].result = "none"
      BY <1>1, <2>1, <2>4 DEF KeyExpires, StatusOK, NoStatus
    <3> QED
      BY <2>1, <3>1 DEF Follows
  <2> QED
    BY <2>2, <2>3, <2>4, StepOfOne
<1>3. CASE call[c].at \notin Sourced
  <2>1. call'[c] # call[c]
    BY <1>3 DEF Sourced
  <2>2. CallStep(c)
    <3>1. ASSUME NEW d \in Call, CallStep(d) \/ TaskStep(d), d # c
          PROVE  call'[c] = call[c]
      BY <3>1, Others
    <3>2. TaskStep(c) \/ (\E s \in Source : KeyExpires(s)) => call' = call
      BY DEF TaskStep, FindSource, TellOutcome, WriteZone, TaskIsLost, Download, KeyExpires
    <3> QED
      BY <2>1, <3>1, <3>2, StepOfOne
  <2>3. PICK s \in Source : QueueDownload(c, s)
    BY <1>1, <1>3, <2>2, OtherCalls DEF TellActivating, SetExpiry, Sourced
  <2>4. /\ call'[c] = [at |-> "queued", source |-> s] /\ status' = status
        /\ load'[c] = [at |-> "queued", source |-> s]
        /\ \A d \in Call \ {c} : call'[d] = call[d]
    BY <1>1, <2>3 DEF QueueDownload, Shaped
  <2>5. status[s] = NoStatus
    <3>1. \A d \in Call \ {c} : "source" \in DOMAIN call[d] => call[d].source # s
      BY <2>4 DEF Alone
    <3>2. "source" \notin DOMAIN call[c]
      BY <1>1, <1>3 DEF CallOK
    <3> QED
      BY <3>1, <3>2 DEF Nameless
  <2>6. /\ status'[call'[c].source].result = "none"
        /\ call'[c].at = "queued" /\ load'[c].at = "queued"
    BY <2>4, <2>5 DEF NoStatus
  <2> QED
    BY <2>6 DEF Follows
<1> QED
  BY <1>2, <1>3

LEMMA OutcomeInit == Init => OutcomeInv
<1> SUFFICES ASSUME Init
             PROVE  OutcomeInv
  OBVIOUS
<1> DEFINE served == DOMAIN Past
<1>1. Shaped
  BY DEF Init, Shaped, Fresh
<1>2. \A c \in served : c \in Call /\ Past[c] \in Source
  BY GeoZonesAssumption DEF Call
<1>3. ASSUME NEW c \in Call, c \in served
      PROVE  /\ call[c].at = "done" /\ "source" \in DOMAIN call[c] /\ call[c].source = Past[c]
             /\ load[c].at = "done" /\ "source" \in DOMAIN load[c] /\ load[c].source = Past[c]
             /\ "outcome" \in DOMAIN load[c] /\ load[c].outcome = "Ready"
             /\ write[c].at = "done"
  <2>1. call[c] = [at |-> "done", source |-> Past[c]]
    BY <1>3 DEF Init
  <2>2. load[c] = [at |-> "done", source |-> Past[c], outcome |-> "Ready"]
    BY <1>3 DEF Init
  <2>3. write[c] = [at |-> "done"]
    BY <1>3 DEF Init
  <2>4. call[c].at = "done" /\ "source" \in DOMAIN call[c] /\ call[c].source = Past[c]
    BY <2>1
  <2>5. /\ load[c].at = "done" /\ "source" \in DOMAIN load[c] /\ load[c].source = Past[c]
        /\ "outcome" \in DOMAIN load[c] /\ load[c].outcome = "Ready"
    BY <2>2
  <2>6. write[c].at = "done"
    BY <2>3
  <2> QED
    BY <2>4, <2>5, <2>6
<1>4. ASSUME NEW c \in Call, c \notin served
      PROVE  call[c] = [at |-> "idle"] /\ load[c] = [at |-> "idle"] /\ write[c] = [at |-> "idle"]
  BY <1>4 DEF Init, Fresh
<1>5. served # {} => "Ready" \in Outcome
  BY GeoZonesAssumption
<1>6. ASSUME NEW c \in Call
      PROVE  CallOK(c) /\ LoadOK(c) /\ WriteOK(c)
  <2>1. CASE c \in served
    <3>1. /\ call[c].at = "done" /\ "source" \in DOMAIN call[c] /\ call[c].source = Past[c]
          /\ load[c].at = "done" /\ "source" \in DOMAIN load[c] /\ load[c].source = Past[c]
          /\ "outcome" \in DOMAIN load[c] /\ load[c].outcome = "Ready"
          /\ write[c].at = "done"
      BY <1>3, <2>1
    <3>2. Past[c] \in Source /\ "Ready" \in Outcome
      BY <1>2, <1>5, <2>1
    <3> HIDE DEF served
    <3> QED
      BY <3>1, <3>2 DEF CallOK, LoadOK, WriteOK, Sourced, Steps
  <2>2. CASE c \notin served
    BY <1>4, <2>2 DEF CallOK, LoadOK, WriteOK, Sourced, Steps
  <2> QED
    BY <2>1, <2>2
<1>7. ASSUME NEW s \in Source
      PROVE  \/ status[s] = NoStatus /\ \A c \in served : Past[c] # s
             \/ status[s] = Told("Ready") /\ served # {} /\ \E c \in served : Past[c] = s
  BY DEF Init
<1>8. StatusOK
  <2>1. ASSUME NEW s \in Source
        PROVE  /\ status[s] \in [result : Results, expires : BOOLEAN]
               /\ status[s].expires => status[s].result # "none"
    <3>1. CASE status[s] = NoStatus
      BY <3>1 DEF NoStatus, Results
    <3>2. CASE status[s] = Told("Ready") /\ "Ready" \in Results
      BY <3>2 DEF Told
    <3>3. served # {} => "Ready" \in Results
      BY <1>5 DEF Results
    <3> QED
      BY <1>7, <3>1, <3>2, <3>3
  <2>2. status = [s \in Source |-> status[s]]
    BY DEF Init
  <2> QED
    BY <2>1, <2>2 DEF StatusOK
<1>9. RowsOK
  <2> DEFINE boxes == CHOOSE d \in Document : TRUE
  <2>1. zones = {Row(c, n, boxes[n], TRUE) : c \in served, n \in DOMAIN boxes} /\ index = {}
    BY DEF Init
  <2>2. served # {} => boxes \in Document
    BY GeoZonesAssumption
  <2>3. boxes \in Document => boxes \in Seq(Shape)
    BY GeoZonesAssumption
  <2> HIDE DEF boxes
  <2>4. ASSUME NEW c \in served, NEW n \in DOMAIN boxes
        PROVE  Row(c, n, boxes[n], TRUE) \in ZoneRow
    <3>1. boxes \in Seq(Shape)
      BY <2>2, <2>3
    <3>2. n \in Nat /\ boxes[n] \in Shape /\ c \in Call
      BY <1>2, <3>1
    <3> HIDE DEF served
    <3> QED
      BY <3>2 DEF Row, ZoneRow
  <2> HIDE DEF served
  <2>5. ASSUME NEW z \in zones
        PROVE  z \in ZoneRow
    <3> DEFINE nths == DOMAIN boxes
               row(c, n) == Row(c, n, boxes[n], TRUE)
    <3>1. zones = {row(c, n) : c \in served, n \in nths}
      BY <2>1
    <3>2. \A c \in served, n \in nths : row(c, n) \in ZoneRow
      BY <2>4
    <3> HIDE DEF nths, row
    <3> QED
      BY <2>5, <3>1, <3>2
  <2> QED
    BY <2>1, <2>5 DEF RowsOK
<1>10. Nameless
  <2>1. ASSUME NEW c \in served
        PROVE  c \in Call /\ "source" \in DOMAIN call[c] /\ call[c].source = Past[c]
    BY <1>2, <1>3, <2>1
  <2> HIDE DEF served
  <2> QED
    BY <1>7, <2>1 DEF Nameless
<1>11. ASSUME NEW c \in Call
       PROVE  Follows(c)
  <2>1. CASE c \in served
    <3>1. /\ call[c].at = "done" /\ call[c].source = Past[c] /\ Past[c] \in Source
          /\ load[c].at = "done" /\ load[c].outcome = "Ready"
      BY <1>2, <1>3, <2>1
    <3>2. status[Past[c]].result = "Ready"
      BY <1>7, <2>1, <3>1 DEF Told
    <3> QED
      BY <3>1, <3>2 DEF Follows
  <2>2. CASE c \notin served
    BY <1>4, <2>2 DEF Follows
  <2> QED
    BY <2>1, <2>2
<1> QED
  BY <1>1, <1>6, <1>8, <1>9, <1>10, <1>11 DEF OutcomeInv, Typed

LEMMA OutcomeNext == OutcomeInv /\ [Next]_vars => OutcomeInv'
<1>1. ASSUME OutcomeInv, Next
      PROVE  OutcomeInv'
  <2>1. Typed'
    <3>1. Shaped'
      BY <1>1, StaysShaped DEF OutcomeInv, Typed
    <3> QED
      BY <1>1, <3>1, StatusStep, RowsStep, CallsStep, LoadsStep, WritesStep DEF OutcomeInv, Typed
  <2> QED
    BY <1>1, <2>1, NamelessStep, FollowsStep DEF OutcomeInv
<1>2. ASSUME OutcomeInv, UNCHANGED vars
      PROVE  OutcomeInv'
  <2>1. Typed'
    BY <1>2 DEF vars, OutcomeInv, Typed, Shaped, StatusOK, RowsOK, CallOK, LoadOK, WriteOK
  <2> QED
    BY <1>2, <2>1 DEF vars, OutcomeInv, Nameless, Follows, Alone
<1> QED
  BY <1>1, <1>2

(* Statuses, rows, requests, tasks and the entries of the index are of     *)
(* their types; in particular nothing gives a time to live to a status     *)
(* that is not there.                                                      *)
THEOREM ZonesTyped == Spec => []TypeOK
<1>1. OutcomeInv => TypeOK
  BY DEF OutcomeInv, Typed, StatusOK, RowsOK, CallOK, LoadOK, WriteOK, TypeOK, ZoneRow
<1> QED
  BY <1>1, OutcomeInit, OutcomeNext, PTL DEF Spec

(* A source a single request has put is told what became of its download,  *)
(* or stays Activating where the task has looked before the request told:  *)
(* no other outcome reaches it, in any order of request, task and expiry.  *)
THEOREM OutcomeTold == Spec => []OutcomeIsTold
<1>1. ASSUME OutcomeInv, NEW c \in Call, call[c].at = "done",
             \A d \in Call \ {c} : SourceOf(d) # SourceOf(c)
      PROVE  LET result == status[call[c].source].result
             IN  /\ load[c].at = "done" => result \in {load[c].outcome, "none"}
                 /\ load[c].at = "unheard" => result \in {"Activating", "none"}
  <2>1. "source" \in DOMAIN call[c]
    BY <1>1 DEF OutcomeInv, Typed, CallOK, Sourced
  <2>2. Alone(c)
    BY <1>1, <2>1 DEF Alone, SourceOf
  <2> QED
    BY <1>1, <2>2 DEF OutcomeInv, Follows
<1>2. OutcomeInv => OutcomeIsTold
  BY <1>1 DEF OutcomeIsTold
<1> QED
  BY <1>2, OutcomeInit, OutcomeNext, PTL DEF Spec

=============================================================================
