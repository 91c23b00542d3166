------------------------------ MODULE GeoZones ------------------------------
(***************************************************************************)
(* Geofences.  The geo-awareness interface imports the zones of a source   *)
(* in two tasks, one that downloads and tells the status of the source in  *)
(* Redis and one that writes the zones, and removes every test zone when   *)
(* a source is deleted.  An operator sets and deletes geofences of his     *)
(* own.  Who asks whether a place is inside a zone puts the zones into a   *)
(* spatial index, queries it and takes them out again; the index is a file *)
(* all the processes of the program share.                                 *)
(*                                                                         *)
(* A zone is its bounds (west, south, east, north) and whether it is part  *)
(* of a test.  Times of validity are left out: a zone that is read is one  *)
(* inside the window asked for.                                            *)
(***************************************************************************)
EXTENDS Naturals, FiniteSets, Sequences

CONSTANTS
  Source, \* sources of geozones
  Harness, Operator, \* requests of the test harness and others, each used once
  Past,     \* requests that have been served, and the source of each
  Shape,    \* bounds a zone may have
  Document, \* bounds of the zones a document may have
  Outcome, \* what may become of a download
  Place   \* places asked about: <<longitude, latitude>>

Call == Harness \cup Operator
Tuple4 == Nat \X Nat \X Nat \X Nat

ASSUME GeoZonesAssumption ==
  /\ Shape \subseteq Tuple4
  /\ Document \subseteq Seq(Shape) \ {<<>>}
  /\ Outcome \subseteq {"Ready", "Error", "Unsupported"}
  /\ Harness \cap Operator = {}
  /\ Past \in [DOMAIN Past -> Source] /\ DOMAIN Past \subseteq Harness
  /\ DOMAIN Past # {} => Document # {} /\ "Ready" \in Outcome
  /\ Place \subseteq Nat \X Nat

VARIABLES
  status, \* what Redis tells of each source and whether that expires
  zones,  \* the committed rows
  call,   \* where each request is and what it has read
  load,   \* the download task a request has queued
  write,  \* the task that writes the zones of a request
  index   \* the entries left in the file of the spatial index

vars == <<status, zones, call, load, write, index>>

-----------------------------------------------------------------------------
NoStatus == [result |-> "none", expires |-> FALSE]
Told(result) == [result |-> result, expires |-> FALSE]

Row(c, n, box, test) == [of |-> c, nth |-> n, box |-> box, test |-> test]
TestZones == {z \in zones : z.test}

Fresh == [at |-> "idle"]

\* Some sources have been put before, and their zones imported.
Init ==
  /\ status = [s \in Source |->
       IF \E c \in DOMAIN Past : Past[c] = s THEN Told("Ready") ELSE NoStatus]
  /\ LET boxes == CHOOSE d \in Document : TRUE
     IN  zones = {Row(c, n, boxes[n], TRUE) : c \in DOMAIN Past, n \in DOMAIN boxes}
  /\ call = [c \in Call |-> IF c \in DOMAIN Past
                            THEN [at |-> "done", source |-> Past[c]] ELSE Fresh]
  /\ load = [c \in Call |->
       IF c \in DOMAIN Past
       THEN [at |-> "done", source |-> Past[c], outcome |-> "Ready"] ELSE Fresh]
  /\ write = [c \in Call |->
       IF c \in DOMAIN Past THEN [at |-> "done"] ELSE Fresh]
  /\ index = {}

-----------------------------------------------------------------------------
(* A source is put: the download is queued, then its status set, then the  *)
(* status given fifty minutes to live.  To set a key is to drop its expiry.*)

QueueDownload(c, s) ==
  /\ call[c].at = "idle"
  /\ call' = [call EXCEPT ![c] = [at |-> "queued", source |-> s]]
  /\ load' = [load EXCEPT ![c] = [at |-> "queued", source |-> s]]
  /\ UNCHANGED <<status, zones, write, index>>

TellActivating(c) ==
  /\ call[c].at = "queued"
  /\ status' = [status EXCEPT ![call[c].source] = Told("Activating")]
  /\ call' = [call EXCEPT ![c].at = "told"]
  /\ UNCHANGED <<zones, load, write, index>>

\* Mutant: the status is given a time to live even where it has gone.
ExpiryOfAnyKey(c) ==
  /\ call[c].at = "told"
  /\ status' = [status EXCEPT ![call[c].source].expires = TRUE]
  /\ call' = [call EXCEPT ![c].at = "done"]
  /\ UNCHANGED <<zones, load, write, index>>

SetExpiry(c) ==
  /\ call[c].at = "told"
  /\ LET s == call[c].source
     IN  status' = [status EXCEPT ![s].expires = (@ \/ status[s] # NoStatus)]
  /\ call' = [call EXCEPT ![c].at = "done"]
  /\ UNCHANGED <<zones, load, write, index>>

KeyExpires(s) ==
  /\ status[s].expires
  /\ status' = [status EXCEPT ![s] = NoStatus]
  /\ UNCHANGED <<zones, call, load, write, index>>

-----------------------------------------------------------------------------
(* The tasks.                                                              *)

Queued(c, boxes, test) == [at |-> "queued", test |-> test, n |-> 1, boxes |-> boxes]

\* A document is downloaded and the task that writes it queued, or not.
Download(c, outcome, boxes) ==
  /\ load[c].at = "queued"
  /\ load' = [load EXCEPT ![c] =
       [at |-> "loaded", source |-> @.source, outcome |-> outcome]]
  /\ write' = IF outcome = "Ready"
              THEN [write EXCEPT ![c] = Queued(c, boxes, TRUE)] ELSE write
  /\ UNCHANGED <<status, zones, call, index>>

\* The status is told only to a source that has one.
FindSource(c) ==
  /\ load[c].at = "loaded"
  /\ load' = [load EXCEPT ![c] =
       IF status[@.source] # NoStatus THEN [@ EXCEPT !.at = "found"]
       ELSE [at |-> "unheard", source |-> @.source]]
  /\ UNCHANGED <<status, zones, call, write, index>>

\* Mutant: whatever was downloaded is told to be ready.
TellReady(c) ==
  /\ load[c].at = "found"
  /\ status' = [status EXCEPT ![load[c].source] = Told("Ready")]
  /\ load' = [load EXCEPT ![c].at = "done"]
  /\ UNCHANGED <<zones, call, write, index>>

TellOutcome(c) ==
  /\ load[c].at = "found"
  /\ status' = [status EXCEPT ![load[c].source] = Told(load[c].outcome)]
  /\ load' = [load EXCEPT ![c].at = "done"]
  /\ UNCHANGED <<zones, call, write, index>>

\* Every zone is written in a transaction of its own.
WriteZone(c) ==
  /\ write[c].at = "queued"
  /\ zones' = zones \cup
       {Row(c, write[c].n, write[c].boxes[write[c].n], write[c].test)}
  /\ write' = [write EXCEPT ![c] =
       IF @.n = Len(@.boxes) THEN [at |-> "done"] ELSE [@ EXCEPT !.n = write[c].n + 1]]
  /\ UNCHANGED <<status, call, load, index>>

\* A download that times out while reading raises; a feature that does not
\* parse ends the task; so does the end of its worker.
TaskIsLost(c) ==
  /\ \/ /\ load[c].at \in {"queued", "loaded", "found"}
        /\ load' = [load EXCEPT ![c] = [at |-> "lost", source |-> @.source]]
        /\ UNCHANGED write
     \/ /\ write[c].at = "queued"
        /\ write' = [write EXCEPT ![c] = [at |-> "lost"]]
        /\ UNCHANGED load
  /\ UNCHANGED <<status, zones, call, index>>

-----------------------------------------------------------------------------
(* A source is deleted: the test zones, of this and every other source.    *)
(* The status changes before the transaction commits.                      *)

\* Nothing of the import of a request can still write a zone.
ImportOver(c) ==
  /\ call[c].at \notin {"idle", "queued"}
  /\ load[c].at # "queued"
  /\ write[c].at # "queued"

FindKey(c, s) ==
  /\ call[c].at = "idle"
  /\ status[s] # NoStatus
  /\ call' = [call EXCEPT ![c] = [at |-> "known", source |-> s]]
  /\ UNCHANGED <<status, zones, load, write, index>>

\* over, the imports that have ended, is only there for a property.
Doomed(c, gone) ==
  /\ call[c].at = "known"
  /\ call' = [call EXCEPT ![c] =
       [at |-> "doomed", source |-> @.source, doomed |-> gone,
        over |-> {d \in Call : ImportOver(d)}]]
  /\ UNCHANGED <<status, zones, load, write, index>>

\* Mutant: only the zones of the source asked for, by its latest request.
DoomOwnZones(c) ==
  Doomed(c, {z \in TestZones : /\ load[z.of].source = call[c].source
                               /\ load[z.of].at = "done"})

DoomTestZones(c) == Doomed(c, TestZones)

TellDeactivating(c) ==
  /\ call[c].at = "doomed"
  /\ status' = [status EXCEPT ![call[c].source] = Told("Deactivating")]
  /\ call' = [call EXCEPT ![c].at = "deleting"]
  /\ UNCHANGED <<zones, load, write, index>>

CommitDelete(c) ==
  /\ call[c].at = "deleting"
  /\ zones' = zones \ call[c].doomed
  /\ call' = [call EXCEPT ![c] =
       [at |-> "deleted", source |-> @.source, over |-> @.over]]
  /\ UNCHANGED <<status, load, write, index>>

\* The client goes away, or the process ends, in the middle of a request.
CutOff(c) ==
  /\ call[c].at \in {"queued", "told", "known", "doomed", "deleting"}
  /\ call' = [call EXCEPT ![c] =
       [at |-> "cut", source |-> @.source, told |-> @.at = "told"]]
  /\ UNCHANGED <<status, zones, load, write, index>>

-----------------------------------------------------------------------------
(* The operator's own zones: a fence is a row at once, the zones of an     *)
(* ED-269 document are written by the task.                                *)

SetGeoFence(c, box) ==
  /\ call[c].at = "idle"
  /\ zones' = zones \cup {Row(c, 1, box, FALSE)}
  /\ call' = [call EXCEPT ![c] = [at |-> "set"]]
  /\ UNCHANGED <<status, load, write, index>>

SetGeozone(c, boxes) ==
  /\ call[c].at = "idle"
  /\ write' = [write EXCEPT ![c] = Queued(c, boxes, FALSE)]
  /\ call' = [call EXCEPT ![c] = [at |-> "set"]]
  /\ UNCHANGED <<status, zones, load, index>>

DeleteGeoFence(c, z) ==
  /\ call[c].at = "idle"
  /\ zones' = zones \ {z}
  /\ call' = [call EXCEPT ![c] = [at |-> "set"]]
  /\ UNCHANGED <<status, load, write, index>>

-----------------------------------------------------------------------------
(* The spatial index.  Bounds go into it with the axes exchanged, but are  *)
(* looked for as they are when they are to be taken out.                   *)

Exchanged(box) == <<box[2], box[1], box[4], box[3]>>
Meets(a, b) == /\ a[1] <= b[3] /\ b[1] <= a[3]
               /\ a[2] <= b[4] /\ b[2] <= a[4]

Entry(z, box) == [of |-> z.of, nth |-> z.nth, box |-> box]
Inserted(some) == index \cup {Entry(z, Exchanged(z.box)) : z \in some}
Left(some) == Inserted(some) \ {Entry(z, z.box) : z \in some}
Hits(some, view) == {e \in Inserted(some) : Meets(e.box, view)}
ViewOf(place) == <<place[1], place[2], place[1], place[2]>>

\* A check reads the test zones, then asks the index about the place.
CheckZones(c, place) ==
  /\ call[c].at = "idle"
  /\ call' = [call EXCEPT ![c] = [at |-> "check", place |-> place, saw |-> TestZones]]
  /\ UNCHANGED <<status, zones, load, write, index>>

AnswerCheck(c) ==
  /\ call[c].at = "check"
  /\ index' = Left(call[c].saw)
  /\ call' = [call EXCEPT ![c] =
       [at |-> "answered", place |-> @.place, saw |-> @.saw,
        present |-> Hits(@.saw, ViewOf(@.place)) # {}]]
  /\ UNCHANGED <<status, zones, load, write>>

\* A list of the fences in a viewport and the deconfliction of a flight
\* leave their zones in the index as well; the latter looks at test zones
\* too, and does not open the index where there is no zone at all.
ListInView(c) ==
  /\ call[c].at = "idle"
  /\ index' = Left(zones \ TestZones)
  /\ call' = [call EXCEPT ![c] = [at |-> "set"]]
  /\ UNCHANGED <<status, zones, load, write>>

Deconflict(c, view) ==
  /\ call[c].at = "idle"
  /\ index' = Left(zones)
  /\ call' = [call EXCEPT ![c] =
       [at |-> "set", fenced |-> zones # {} /\ Hits(zones, view) # {}]]
  /\ UNCHANGED <<status, zones, load, write>>

-----------------------------------------------------------------------------
Next ==
  \/ \E c \in Harness :
       \/ TellActivating(c) \/ SetExpiry(c)
       \/ FindSource(c) \/ TellOutcome(c)
       \/ DoomTestZones(c) \/ TellDeactivating(c) \/ CommitDelete(c)
       \/ CutOff(c)
       \/ AnswerCheck(c)
  \/ \E c \in Call : WriteZone(c) \/ TaskIsLost(c)
  \/ \E c \in Harness, s \in Source : QueueDownload(c, s) \/ FindKey(c, s)
  \/ \E c \in Harness, o \in Outcome, d \in Document : Download(c, o, d)
  \/ \E c \in Harness, p \in Place : CheckZones(c, p)
  \/ \E c \in Operator, d \in Document : SetGeozone(c, d)
  \/ \E c \in Operator, box \in Shape : SetGeoFence(c, box) \/ Deconflict(c, box)
  \/ \E c \in Operator, z \in zones : DeleteGeoFence(c, z)
  \/ \E c \in Operator : ListInView(c)
  \/ \E s \in Source : KeyExpires(s)

Spec == Init /\ [][Next]_vars

-----------------------------------------------------------------------------
(* Properties.                                                             *)

Results == Outcome \cup {"none", "Activating", "Deactivating"}
SourceOf(c) == IF "source" \in DOMAIN call[c] THEN call[c].source ELSE "none"
Steps == {"idle", "queued", "told", "done", "known", "doomed", "deleting",
          "deleted", "cut", "set", "check", "answered"}

TypeOK ==
  /\ status \in [Source -> [result : Results, expires : BOOLEAN]]
  /\ \A s \in Source : status[s].expires => status[s].result # "none"
  /\ zones \subseteq [of : Call, nth : Nat, box : Shape, test : BOOLEAN]
  /\ \A c \in Call :
       /\ call[c].at \in Steps
       /\ load[c].at \in {"idle", "queued", "loaded", "found", "done",
                          "unheard", "lost"}
       /\ write[c].at \in {"idle", "queued", "done", "lost"}
  /\ index \subseteq [of : Call, nth : Nat, box : Tuple4]

\* Once a source has been deleted (delete_geozone_source), no test zone is
\* left of an import that had ended when its zones were read, of whatever
\* source, and none of them ever comes back.
DeletedZonesAreGone ==
  \A c \in Call : call[c].at = "deleted" =>
    \A z \in TestZones : z.of \notin call[c].over

\* If one request alone has put a source, its status becomes what became of
\* the download (download_geozone_source) or, where the task looked for the
\* status before the request had set it, is never known: it stays Activating
\* until it expires.
OutcomeIsTold ==
  \A c \in Call :
    /\ call[c].at = "done"
    /\ \A d \in Call \ {c} : SourceOf(d) # SourceOf(c)
    => LET result == status[call[c].source].result
       IN  /\ load[c].at = "done" => result \in {load[c].outcome, "none"}
           /\ load[c].at = "unheard" => result \in {"Activating", "none"}

=============================================================================
