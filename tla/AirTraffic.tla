----------------------------- MODULE AirTraffic -----------------------------
(***************************************************************************)
(* The way of an air traffic observation: a POST is answered and a thread  *)
(* sends it to the broker in chunks; a Celery task writes a chunk to the   *)
(* database and then adds it to the Redis stream, entry by entry; the      *)
(* track tasks of all surveillance sessions read the stream through one    *)
(* consumer group, merge what they read into the tracks of their session   *)
(* (kept in Redis) and publish the last observation of every track.        *)
(*                                                                         *)
(* Each add renews the time to live of the whole stream; when it passes,   *)
(* the entries and the consumer group are gone together.  Entries are      *)
(* known by their number in the log of all entries ever added, as Redis    *)
(* knows them by growing message ids.  A reader takes a new consumer name  *)
(* for every read, so nobody ever claims an unacknowledged entry: the      *)
(* acknowledgement has no effect and is left out.                          *)
(***************************************************************************)
EXTENDS Naturals, Integers, Sequences

CONSTANTS
  Post,      \* requests that post observations, each used once
  Size,      \* Size[p]: how many observations p carries
  Aircraft,  \* aircraft (icao_address)
  Of,        \* Of[o]: the aircraft of an observation
  Chunk,     \* observations per bulk-write task (250)
  Count,     \* entries a reader takes at most (20)
  Session,   \* surveillance sessions
  Reader,    \* chains of track tasks
  SessionOf  \* the session of each chain

Obs == UNION {{<<p, i>> : i \in 1..Size[p]} : p \in Post}

ASSUME AirTrafficAssumption ==
  /\ Size \in [Post -> Nat]
  /\ Of \in [Obs -> Aircraft]
  /\ Chunk \in Nat \ {0}
  /\ Count \in Nat \ {0}
  /\ SessionOf \in [Reader -> Session]

VARIABLES
  post,   \* where each post is and how many observations it has sent on
  job,    \* the bulk-write task that starts at each observation
  stored, \* the committed observations
  log,    \* every entry ever added to the stream
  base,   \* the entries up to here have expired
  group,  \* last entry delivered to the consumer group, or NoGroup
  reader, \* where each track task is and what it has to merge
  track,  \* the tracks of each session: the entries merged, and the last
  shown   \* the entry last published for each track

feed == <<post, job, stored>>
stream == <<log, base, group>>
vars == <<post, job, stored, log, base, group, reader, track, shown>>

-----------------------------------------------------------------------------
NoGroup == -1
NoJob == [at |-> "none", pos |-> 0, end |-> 0]
NoTrack == [ids |-> {}, last |-> 0]
Waiting == [at |-> "waiting", todo |-> {}, on |-> {}, copy |-> NoTrack]
Off == [Waiting EXCEPT !.at = "off"]

CraftOf(i) == Of[log[i]]

(* The last entry the next read through the group returns.                 *)
UpTo == IF group + Count <= Len(log) THEN group + Count ELSE Len(log)

Init ==
  /\ post = [p \in Post |-> [at |-> "idle", sent |-> 0]]
  /\ job = [o \in Obs |-> NoJob]
  /\ stored = {}
  /\ log = <<>>
  /\ base = 0
  /\ group = NoGroup
  /\ reader = [c \in Reader |-> Waiting]
  /\ track = [s \in Session |-> [a \in Aircraft |-> NoTrack]]
  /\ shown = [s \in Session |-> [a \in Aircraft |-> 0]]

(* From the post to the stream --------------------------------------------*)

(* The answer, 201, goes out before anything is sent on.                   *)
Answer(p) ==
  /\ post[p].at = "idle"
  /\ post' = [post EXCEPT ![p].at = "sending"]
  /\ UNCHANGED <<job, stored, stream, reader, track, shown>>

(* Mutant: only full chunks are sent.                                      *)
DispatchFullChunks(p) ==
  /\ post[p].at = "sending"
  /\ LET s == post[p].sent IN
       IF s + Chunk <= Size[p]
         THEN /\ job' = [job EXCEPT ![<<p, s + 1>>] =
                           [at |-> "queued", pos |-> s + 1, end |-> s + Chunk]]
              /\ post' = [post EXCEPT ![p].sent = s + Chunk]
         ELSE /\ post' = [post EXCEPT ![p].at = "sent"]
              /\ UNCHANGED job
  /\ UNCHANGED <<stored, stream, reader, track, shown>>

(* The loop over range(0, len(observations), Chunk).                       *)
Dispatch(p) ==
  /\ post[p].at = "sending"
  /\ LET s == post[p].sent
         e == IF s + Chunk <= Size[p] THEN s + Chunk ELSE Size[p] IN
       IF s < Size[p]
         THEN /\ job' = [job EXCEPT ![<<p, s + 1>>] =
                           [at |-> "queued", pos |-> s + 1, end |-> e]]
              /\ post' = [post EXCEPT ![p].sent = e]
         ELSE /\ post' = [post EXCEPT ![p].at = "sent"]
              /\ UNCHANGED job
  /\ UNCHANGED <<stored, stream, reader, track, shown>>

(* The broker refuses a chunk or the server stops: nobody looks at the     *)
(* result of the thread, the rest of the post is lost.                     *)
LosePost(p) ==
  /\ post[p].at = "sending"
  /\ post' = [post EXCEPT ![p].at = "lost"]
  /\ UNCHANGED <<job, stored, stream, reader, track, shown>>

Become(o, s) == job' = [job EXCEPT ![o].at = s]

(* The first half of the bulk-write task: one committed transaction.       *)
Write(o) ==
  /\ job[o].at = "queued"
  /\ stored' = stored \cup {<<o[1], i>> : i \in job[o].pos..job[o].end}
  /\ Become(o, "adding")
  /\ UNCHANGED <<post, stream, reader, track, shown>>

(* The second half: one entry after the other; an add that fails is logged *)
(* and skipped.                                                            *)
Add(o) ==
  /\ job[o].at = "adding"
  /\ \/ log' = Append(log, <<o[1], job[o].pos>>)
     \/ UNCHANGED log
  /\ IF job[o].pos = job[o].end
       THEN Become(o, "done")
       ELSE job' = [job EXCEPT ![o].pos = @ + 1]
  /\ UNCHANGED <<post, stored, base, group, reader, track, shown>>

(* The worker dies or the database fails; Celery does not run it again.    *)
Kill(o) ==
  /\ job[o].at \in {"queued", "adding"}
  /\ Become(o, "dead")
  /\ UNCHANGED <<post, stored, stream, reader, track, shown>>

(* Mutant: the key expires but the group's position survives.              *)
ExpireEntriesOnly ==
  /\ base < Len(log)
  /\ base' = Len(log)
  /\ group' = IF group = NoGroup THEN NoGroup ELSE 0
  /\ UNCHANGED <<feed, log, reader, track, shown>>

(* The time to live of the stream, set by the last add, has passed.        *)
Expire ==
  /\ base < Len(log)
  /\ base' = Len(log)
  /\ group' = NoGroup
  /\ UNCHANGED <<feed, log, reader, track, shown>>

(* The track task ---------------------------------------------------------*)

(* Mutant: the group is created anew for every read.                       *)
JoinAnew(c) ==
  /\ reader[c].at = "waiting"
  /\ group' = base
  /\ reader' = [reader EXCEPT ![c].at = "joined"]
  /\ UNCHANGED <<feed, log, base, track, shown>>

(* create_consumer_group: at the first entry there is, unless it exists.   *)
Join(c) ==
  /\ reader[c].at = "waiting"
  /\ group' = IF group = NoGroup THEN base ELSE group
  /\ reader' = [reader EXCEPT ![c].at = "joined"]
  /\ UNCHANGED <<feed, log, base, track, shown>>

(* The read itself.  If the stream has expired since, it raises, which is  *)
(* caught: the task goes on with no observation.                           *)
Read(c) ==
  /\ reader[c].at = "joined"
  /\ IF group = NoGroup
       THEN /\ reader' = [reader EXCEPT ![c].at = "merging"]
            /\ UNCHANGED group
       ELSE /\ reader' = [reader EXCEPT ![c].at = "merging",
                                        ![c].todo = (group + 1)..UpTo]
            /\ group' = UpTo
  /\ UNCHANGED <<feed, log, base, track, shown>>

(* Aircraft by aircraft, in the order they were read: take the track ...   *)
Take(c) ==
  /\ reader[c].at = "merging"
  /\ reader[c].on = {}
  /\ \E first \in reader[c].todo :
       /\ \A i \in reader[c].todo : first <= i
       /\ reader' = [reader EXCEPT
            ![c].on = {i \in reader[c].todo : CraftOf(i) = CraftOf(first)},
            ![c].copy = track[SessionOf[c]][CraftOf(first)]]
  /\ UNCHANGED <<feed, stream, track, shown>>

Drop(c) ==
  reader' = [reader EXCEPT ![c].todo = @ \ reader[c].on,
                           ![c].on = {}, ![c].copy = NoTrack]

(* Mutant: the track is written, not extended.                             *)
PutNewOnly(c) ==
  /\ \E last \in reader[c].on :
       /\ \A i \in reader[c].on : i <= last
       /\ track' = [track EXCEPT ![SessionOf[c]][CraftOf(last)] =
            [ids |-> reader[c].on, last |-> last]]
  /\ Drop(c)
  /\ UNCHANGED <<feed, stream, shown>>

(* ... and put it back with the new observations behind the old ones.      *)
Put(c) ==
  /\ \E last \in reader[c].on :
       /\ \A i \in reader[c].on : i <= last
       /\ track' = [track EXCEPT ![SessionOf[c]][CraftOf(last)] =
            [ids |-> reader[c].copy.ids \cup reader[c].on, last |-> last]]
  /\ Drop(c)
  /\ UNCHANGED <<feed, stream, shown>>

(* All tracks of the session are published, and the task is sent again, or *)
(* not, if the broker does not take it.                                    *)
Publish(c) ==
  /\ reader[c].at = "merging"
  /\ reader[c].todo = {}
  /\ shown' = [shown EXCEPT ![SessionOf[c]] =
                 [a \in Aircraft |-> track[SessionOf[c]][a].last]]
  /\ reader' = [reader EXCEPT ![c] = Waiting]
  /\ UNCHANGED <<feed, stream, track>>

(* The chain ends: stopped, expired, or a run raised or its worker died.   *)
Quit(c) ==
  /\ reader[c].at # "off"
  /\ reader' = [reader EXCEPT ![c] = Off]
  /\ UNCHANGED <<feed, stream, track, shown>>

-----------------------------------------------------------------------------
Sender(p) == Dispatch(p) \/ LosePost(p)
Writer(o) == Write(o) \/ Add(o) \/ Kill(o)
Tracker(c) == Join(c) \/ Read(c) \/ Take(c) \/ Put(c) \/ Publish(c) \/ Quit(c)

Next ==
  \/ \E p \in Post : Answer(p) \/ Sender(p)
  \/ \E o \in Obs : Writer(o)
  \/ \E c \in Reader : Tracker(c)
  \/ Expire

Spec == Init /\ [][Next]_vars

(* A thread runs on and Celery runs every task it has received.            *)
Fairness ==
  /\ \A p \in Post : WF_vars(Sender(p))
  /\ \A o \in Obs : WF_vars(Writer(o))

FairSpec == Spec /\ Fairness

-----------------------------------------------------------------------------
Id == 0..Len(log)
Track == [ids : SUBSET Id, last : Id]
ReaderState == {"waiting", "joined", "merging", "off"}

TypeOK ==
  /\ post \in [Post -> [at : {"idle", "sending", "sent", "lost"}, sent : Nat]]
  /\ \A p \in Post : post[p].sent <= Size[p]
  /\ job \in [Obs -> [at : {"none", "queued", "adding", "done", "dead"},
                     pos : Nat, end : Nat]]
  /\ stored \subseteq Obs
  /\ log \in Seq(Obs)
  /\ base \in Id
  /\ group \in Id \cup {NoGroup}
  /\ group # NoGroup => base <= group
  /\ reader \in [Reader -> [at : ReaderState, todo : SUBSET Id, on : SUBSET Id,
                               copy : Track]]
  /\ track \in [Session -> [Aircraft -> Track]]
  /\ shown \in [Session -> [Aircraft -> Id]]

(* No observation is delivered twice: none enters the stream twice, no two *)
(* track tasks hold the same entry, and what a task holds is in no track,  *)
(* of its session or another, yet.  It rests on one group being read by    *)
(* all (clients/redis_client.py), whose position outlives every reader,    *)
(* and on the group and the entries expiring together.                     *)
DeliveredOnce ==
  /\ \A i, j \in 1..Len(log) : log[i] = log[j] => i = j
  /\ \A c \in Reader :
       /\ \A d \in Reader \ {c} : reader[c].todo \cap reader[d].todo = {}
       /\ \A s \in Session, a \in Aircraft :
            reader[c].todo \cap track[s][a].ids = {}

(* A session with one chain of track tasks keeps all it has merged, and    *)
(* what it publishes of an aircraft never goes back to an earlier entry:   *)
(* TrafficDataFuser reads a track, extends it and writes it back, which    *)
(* only a second chain of the same session could disturb.                  *)
Sole(s) == \A c, d \in Reader : SessionOf[c] = s /\ SessionOf[d] = s => c = d

TracksOnlyGrow ==
  [][\A s \in Session, a \in Aircraft : Sole(s) =>
       /\ track[s][a].ids \subseteq track'[s][a].ids
       /\ track[s][a].last <= track'[s][a].last
       /\ shown[s][a] <= shown'[s][a]]_vars

(* What was answered 201 reaches the database, whole chunks and the rest,  *)
(* unless the sending thread or a bulk-write task was lost on the way.     *)
PostsReachStore ==
  \A p \in Post :
    post[p].at = "sending" ~>
      \/ post[p].at = "lost"
      \/ \E i \in 1..Size[p] : job[<<p, i>>].at = "dead"
      \/ \A i \in 1..Size[p] : <<p, i>> \in stored


=============================================================================
