------------------------- MODULE AirTraffic_proofs -------------------------
(***************************************************************************)
(* Proofs about AirTraffic, for every set of posts, sessions and readers   *)
(* and every chunk and read size.  An observation enters the stream once   *)
(* because the bulk-write tasks of a post cover disjoint stretches of it   *)
(* (JobsApart) and leave behind what they add (AddedOnce).  An entry is    *)
(* handed out once because whatever a task holds or a track keeps lies at  *)
(* or before the position of the group, which never moves back (Handed).   *)
(***************************************************************************)
EXTENDS AirTraffic, TLAPS

(* Observation x is still to be added by the task that starts at o.        *)
Waits(o, x) ==
  /\ job[o].at \in {"queued", "adding"}
  /\ x[1] = o[1]
  /\ job[o].pos <= x[2]
  /\ x[2] <= job[o].end

(* The tasks of a post share nothing, and cover only what was sent on.     *)
JobsApart ==
  /\ \A o \in Obs : job[o].at \in {"queued", "adding"} =>
       1 <= job[o].pos /\ job[o].pos <= job[o].end /\ job[o].end <= post[o[1]].sent
  /\ \A o, p, x \in Obs : Waits(o, x) /\ Waits(p, x) => o = p

(* What is in the log was sent on, waits nowhere, and is there once.       *)
AddedOnce ==
  /\ \A i \in 1..Len(log) :
       /\ log[i][2] <= post[log[i][1]].sent
       /\ \A o \in Obs : ~Waits(o, log[i])
  /\ \A i, j \in 1..Len(log) : log[i] = log[j] => i = j

(* The last entry anybody can have been given.                             *)
Given == IF group = NoGroup THEN base ELSE group

(* What is held or kept was given, and no track keeps what a task holds.   *)
Handed ==
  /\ \A c \in Reader : \A i \in reader[c].todo : 1 <= i /\ i <= Given
  /\ \A c \in Reader : reader[c].on \subseteq reader[c].todo
  /\ \A c \in Reader : reader[c].at # "merging" => reader[c].todo = {}
  /\ \A c \in Reader : \A i \in reader[c].copy.ids : i <= Given
  /\ \A s \in Session, a \in Aircraft :
       /\ \A i \in track[s][a].ids : i <= Given
       /\ track[s][a].last <= Given
  /\ \A c, d \in Reader :
       /\ c # d => reader[c].todo \cap reader[d].todo = {}
       /\ reader[c].todo \cap reader[d].copy.ids = {}
  /\ \A c \in Reader, s \in Session, a \in Aircraft :
       reader[c].todo \cap track[s][a].ids = {}

(* The only chain of a session holds what follows the tracks, and extends  *)
(* the track it took.                                                      *)
InStep ==
  /\ \A c \in Reader : reader[c].on # {} =>
       \E a \in Aircraft :
         /\ reader[c].on = {i \in reader[c].todo : CraftOf(i) = a}
         /\ Sole(SessionOf[c]) => reader[c].copy = track[SessionOf[c]][a]
  /\ \A c \in Reader : Sole(SessionOf[c]) =>
       \A i \in reader[c].todo : track[SessionOf[c]][CraftOf(i)].last < i
  /\ \A s \in Session, a \in Aircraft :
       Sole(s) => shown[s][a] <= track[s][a].last

IInv == TypeOK /\ JobsApart /\ AddedOnce /\ Handed /\ InStep

-----------------------------------------------------------------------------
(* An observation is a post and a position in it.                          *)
LEMMA ObsShape ==
  /\ \A o \in Obs : o[1] \in Post /\ o[2] \in 1..Size[o[1]] /\ o = <<o[1], o[2]>>
  /\ \A p \in Post : Size[p] \in Nat
  /\ \A p \in Post, i \in Nat : 1 <= i /\ i <= Size[p] => <<p, i>> \in Obs
<1>1. \A p \in Post : Size[p] \in Nat
  BY AirTrafficAssumption
<1>2. \A o \in Obs : o[1] \in Post /\ o[2] \in 1..Size[o[1]] /\ o = <<o[1], o[2]>>
  BY DEF Obs
<1>3. \A p \in Post, i \in Nat : 1 <= i /\ i <= Size[p] => <<p, i>> \in Obs
  BY <1>1 DEF Obs
<1> QED BY <1>1, <1>2, <1>3

(* Initially there is nothing anywhere.                                    *)
LEMMA InitIInv == Init => IInv
<1> SUFFICES ASSUME Init PROVE IInv
  OBVIOUS
<1>1. Len(log) = 0 /\ log = <<>>
  BY DEF Init
<1>2. TypeOK
  BY <1>1, AirTrafficAssumption
     DEF Init, TypeOK, NoJob, NoGroup, Id, Track, NoTrack, Waiting, ReaderState
<1>3. JobsApart /\ AddedOnce
  BY <1>1 DEF Init, JobsApart, AddedOnce, Waits, NoJob
<1>4. Handed
  BY <1>1 DEF Init, Handed, Given, NoTrack, Waiting
<1>5. InStep
  BY DEF Init, InStep, NoTrack, Waiting
<1> QED BY <1>2, <1>3, <1>4, <1>5 DEF IInv

-----------------------------------------------------------------------------
(* What a step of the feed leaves alone on the side of the readers, even   *)
(* if it adds an entry.                                                    *)
LEMMA FeedStep ==
  ASSUME IInv, UNCHANGED <<base, group, reader, track, shown>>,
         log' = log \/ \E x \in Obs : log' = Append(log, x)
  PROVE  /\ log' \in Seq(Obs) /\ base' \in Id' /\ group' \in Id' \cup {NoGroup}
         /\ group' # NoGroup => base' <= group'
         /\ reader' \in [Reader -> [at : ReaderState, todo : SUBSET Id',
                                    on : SUBSET Id', copy : Track']]
         /\ track' \in [Session -> [Aircraft -> Track']]
         /\ shown' \in [Session -> [Aircraft -> Id']]
         /\ Handed' /\ InStep'
<1> USE DEF IInv
<1>1. log' \in Seq(Obs) /\ Len(log) \in Nat /\ Len(log') \in Nat
      /\ Len(log) <= Len(log') /\ \A i \in 1..Len(log) : log'[i] = log[i]
  <2>1. log \in Seq(Obs)
    BY DEF TypeOK
  <2>2. CASE log' = log
    BY <2>1, <2>2
  <2>3. CASE \E x \in Obs : log' = Append(log, x)
    BY <2>1, <2>3
  <2> QED BY <2>2, <2>3
<1>2. Id \subseteq Id'
  BY <1>1 DEF Id
<1>3. Track \subseteq Track'
  BY <1>2 DEF Track
<1>4. reader' \in [Reader -> [at : ReaderState, todo : SUBSET Id',
                              on : SUBSET Id', copy : Track']]
  <2>1. \A c \in Reader :
          reader[c] \in [at : ReaderState, todo : SUBSET Id', on : SUBSET Id',
                         copy : Track']
    BY <1>2, <1>3 DEF TypeOK
  <2> QED BY <2>1 DEF TypeOK
<1>5. /\ track' \in [Session -> [Aircraft -> Track']]
      /\ shown' \in [Session -> [Aircraft -> Id']]
  BY <1>2, <1>3 DEF TypeOK
<1>6. Given' = Given
  BY DEF Given
<1>7. Handed'
  BY <1>6 DEF Handed
<1>8. Given <= Len(log)
  BY <1>1 DEF TypeOK, Given, Id, NoGroup
<1>9. \A c \in Reader : \A i \in reader[c].todo : CraftOf(i)' = CraftOf(i)
  <2> SUFFICES ASSUME NEW c \in Reader, NEW i \in reader[c].todo
               PROVE  CraftOf(i)' = CraftOf(i)
    OBVIOUS
  <2>1. i \in Nat /\ 1 <= i /\ i <= Given /\ Given \in Int
    BY <1>1 DEF Handed, TypeOK, Id, Given, NoGroup
  <2> QED BY <1>1, <1>8, <2>1 DEF CraftOf
<1>10. InStep'
  <2>1. \A c \in Reader : reader'[c].on # {} =>
          \E a \in Aircraft :
            /\ reader'[c].on = {i \in reader'[c].todo : CraftOf(i)' = a}
            /\ Sole(SessionOf[c]) => reader'[c].copy = track'[SessionOf[c]][a]
    BY <1>9 DEF InStep
  <2>2. \A c \in Reader : Sole(SessionOf[c]) =>
          \A i \in reader'[c].todo : track'[SessionOf[c]][CraftOf(i)'].last < i
    BY <1>9 DEF InStep
  <2> QED BY <2>1, <2>2 DEF InStep, Sole
<1> QED BY <1>1, <1>2, <1>4, <1>5, <1>7, <1>10 DEF TypeOK

(* What a step of a reader leaves alone on the side of the feed.           *)
LEMMA ReaderStep ==
  ASSUME IInv, UNCHANGED <<post, job, stored, log>>
  PROVE  /\ post' \in [Post -> [at : {"idle", "sending", "sent", "lost"}, sent : Nat]]
         /\ \A p \in Post : post'[p].sent <= Size[p]
         /\ job' \in [Obs -> [at : {"none", "queued", "adding", "done", "dead"},
                              pos : Nat, end : Nat]]
         /\ stored' \subseteq Obs
         /\ log' \in Seq(Obs)
         /\ Id' = Id /\ Track' = Track
         /\ JobsApart' /\ AddedOnce'
<1>1. JobsApart' /\ AddedOnce'
  BY DEF IInv, JobsApart, AddedOnce, Waits
<1> QED BY <1>1 DEF IInv, TypeOK, Id, Track

-----------------------------------------------------------------------------
(* A post answered, or lost on the way: nothing was sent on.               *)
LEMMA PostKeeps ==
  ASSUME IInv, NEW p \in Post, Answer(p) \/ LosePost(p)
  PROVE  IInv'
<1> USE DEF IInv
<1>1. /\ UNCHANGED <<job, stored, log, base, group, reader, track, shown>>
      /\ \A q \in Post : post'[q].sent = post[q].sent
      /\ post' \in [Post -> [at : {"idle", "sending", "sent", "lost"}, sent : Nat]]
  <2>1. UNCHANGED <<job, stored, log, base, group, reader, track, shown>>
    BY DEF Answer, LosePost, stream
  <2>2. PICK w \in {"sending", "lost"} : post' = [post EXCEPT ![p].at = w]
    BY DEF Answer, LosePost
  <2>3. post \in [Post -> [at : {"idle", "sending", "sent", "lost"}, sent : Nat]]
    BY DEF TypeOK
  <2>4. w \in {"idle", "sending", "sent", "lost"}
    BY <2>2
  <2>5. /\ \A q \in Post : post'[q].sent = post[q].sent
        /\ post' \in [Post -> [at : {"idle", "sending", "sent", "lost"}, sent : Nat]]
    BY ONLY <2>2, <2>3, <2>4
  <2> QED BY <2>1, <2>5
<1>2. Handed' /\ InStep'
  BY <1>1, FeedStep
<1>3. TypeOK'
  BY <1>1 DEF TypeOK, Id, Track
<1>4. JobsApart'
  BY <1>1, ObsShape DEF JobsApart, Waits
<1>5. AddedOnce'
  <2>1. \A i \in 1..Len(log) : log[i] \in Obs
    BY DEF TypeOK
  <2> QED BY <1>1, <2>1, ObsShape DEF AddedOnce, Waits
<1> QED BY <1>2, <1>3, <1>4, <1>5

(* A chunk sent on covers the next stretch of its post.                    *)
LEMMA DispatchKeeps ==
  ASSUME IInv, NEW p \in Post, Dispatch(p)
  PROVE  IInv'
<1> USE DEF IInv
<1>0. PICK s \in Nat : s = post[p].sent
  BY DEF TypeOK
<1> DEFINE e == IF s + Chunk <= Size[p] THEN s + Chunk ELSE Size[p]
           o == <<p, s + 1>>
           new == [at |-> "queued", pos |-> s + 1, end |-> e]
<1>1. UNCHANGED <<stored, log, base, group, reader, track, shown>>
  BY DEF Dispatch, stream
<1>2. Handed' /\ InStep'
  BY <1>1, FeedStep
<1>3. s \in Nat /\ Size[p] \in Nat /\ Chunk \in Nat /\ 0 < Chunk
      /\ s <= Size[p] /\ e \in Nat /\ s <= e /\ e <= Size[p]
  BY <1>0, AirTrafficAssumption DEF TypeOK
<1>4. CASE s < Size[p]
  <2>1. /\ o \in Obs /\ s + 1 <= e /\ o[1] = p
        /\ job' = [job EXCEPT ![o] = new]
        /\ post' = [post EXCEPT ![p].sent = e]
    BY <1>0, <1>3, <1>4, ObsShape DEF Dispatch
  <2>2. TypeOK'
    <3>0. post \in [Post -> [at : {"idle", "sending", "sent", "lost"}, sent : Nat]]
      BY DEF TypeOK
    <3>1. post' \in [Post -> [at : {"idle", "sending", "sent", "lost"}, sent : Nat]]
      BY ONLY <1>3, <2>1, <3>0
    <3>2. \A q \in Post : post'[q].sent <= Size[q]
      BY <1>3, <2>1 DEF TypeOK
    <3>3. job' \in [Obs -> [at : {"none", "queued", "adding", "done", "dead"},
                            pos : Nat, end : Nat]]
      BY <1>3, <2>1 DEF TypeOK
    <3> QED BY <1>1, <3>1, <3>2, <3>3 DEF TypeOK, Id, Track
  <2>3. /\ \A q \in Post : post[q].sent <= post'[q].sent
        /\ post'[p].sent = e
        /\ \A q \in Post : post[q].sent \in Nat /\ post'[q].sent \in Nat
    BY <1>0, <1>3, <2>1 DEF TypeOK
  <2>4. /\ job'[o] = new
        /\ \A x \in Obs \ {o} : job'[x] = job[x]
        /\ \A x \in Obs : job[x].pos \in Nat /\ job[x].end \in Nat
    BY <2>1 DEF TypeOK
  <2>5. \A x, y \in Obs : x # o /\ Waits(x, y) => y[2] <= post[y[1]].sent
    <3> SUFFICES ASSUME NEW x \in Obs, NEW y \in Obs, Waits(x, y)
                 PROVE  y[2] <= post[y[1]].sent
      OBVIOUS
    <3>1. x[1] \in Post /\ y[2] \in Nat /\ y[1] = x[1]
      BY ObsShape DEF Waits
    <3>2. y[2] <= job[x].end /\ job[x].end <= post[x[1]].sent
      BY DEF Waits, JobsApart
    <3> QED BY <2>3, <2>4, <3>1, <3>2
  <2>6. \A x, y \in Obs : x # o => (Waits(x, y)' <=> Waits(x, y))
    BY <2>4 DEF Waits
  <2>7. \A y \in Obs : Waits(o, y)' <=> y[1] = p /\ s + 1 <= y[2] /\ y[2] <= e
    BY <2>1, <2>4 DEF Waits
  <2>8. JobsApart'
    <3>1. \A x \in Obs : job'[x].at \in {"queued", "adding"} =>
            /\ 1 <= job'[x].pos /\ job'[x].pos <= job'[x].end
            /\ job'[x].end <= post'[x[1]].sent
      <4> SUFFICES ASSUME NEW x \in Obs, job'[x].at \in {"queued", "adding"}
                   PROVE  /\ 1 <= job'[x].pos /\ job'[x].pos <= job'[x].end
                          /\ job'[x].end <= post'[x[1]].sent
        OBVIOUS
      <4>1. CASE x = o
        BY <1>3, <2>1, <2>3, <2>4, <4>1
      <4>2. CASE x # o
        <5>1. job[x].pos <= job[x].end /\ 1 <= job[x].pos /\ job[x].end <= post[x[1]].sent
          BY <2>4, <4>2 DEF JobsApart
        <5> QED BY <2>3, <2>4, <4>2, <5>1, ObsShape
      <4> QED BY <4>1, <4>2
    <3>2. \A x, z, y \in Obs : Waits(x, y)' /\ Waits(z, y)' => x = z
      <4> SUFFICES ASSUME NEW x \in Obs, NEW z \in Obs, NEW y \in Obs,
                          Waits(x, y)', Waits(z, y)', x # z
                   PROVE  FALSE
        OBVIOUS
      <4>1. CASE x # o /\ z # o
        BY <2>6, <4>1 DEF JobsApart
      <4>2. CASE x = o \/ z = o
        <5>1. y[1] = p /\ s + 1 <= y[2]
          BY <2>7, <4>2
        <5>2. y[2] <= post[y[1]].sent
          BY <2>5, <2>6, <4>2
        <5> QED BY <1>0, <1>3, <5>1, <5>2, ObsShape
      <4> QED BY <4>1, <4>2
    <3> QED BY <3>1, <3>2 DEF JobsApart
  <2>9. AddedOnce'
    <3>1. \A i \in 1..Len(log) : log[i] \in Obs /\ log[i][1] \in Post /\ log[i][2] \in Nat
      BY ObsShape DEF TypeOK
    <3>2. \A i \in 1..Len(log) : ~Waits(o, log[i])'
      <4> SUFFICES ASSUME NEW i \in 1..Len(log), Waits(o, log[i])' PROVE FALSE
        OBVIOUS
      <4>1. PICK y \in Obs : y = log[i] /\ y = log'[i]
        BY <1>1, <3>1
      <4>2. y[1] = p /\ s + 1 <= y[2]
        BY <2>7, <4>1
      <4>3. y[2] <= post[y[1]].sent /\ y[2] \in Nat
        BY <3>1, <4>1 DEF AddedOnce
      <4> QED BY <1>0, <4>2, <4>3
    <3>3. \A i \in 1..Len(log) : log[i][2] <= post'[log[i][1]].sent
      BY <2>3, <3>1 DEF AddedOnce
    <3> QED BY <1>1, <2>6, <3>1, <3>2, <3>3 DEF AddedOnce
  <2> QED BY <1>2, <2>2, <2>8, <2>9
<1>5. CASE ~(s < Size[p])
  <2>1. /\ job' = job
        /\ \A q \in Post : post'[q].sent = post[q].sent
        /\ post' \in [Post -> [at : {"idle", "sending", "sent", "lost"}, sent : Nat]]
    <3>1. job' = job /\ post' = [post EXCEPT ![p].at = "sent"]
      BY <1>0, <1>5 DEF Dispatch
    <3>2. post \in [Post -> [at : {"idle", "sending", "sent", "lost"}, sent : Nat]]
      BY DEF TypeOK
    <3>3. /\ \A q \in Post : post'[q].sent = post[q].sent
          /\ post' \in [Post -> [at : {"idle", "sending", "sent", "lost"}, sent : Nat]]
      BY ONLY <3>1, <3>2
    <3> QED BY ONLY <3>1, <3>3
  <2>2. TypeOK'
    BY <1>1, <2>1 DEF TypeOK, Id, Track
  <2>3. JobsApart'
    BY <2>1, ObsShape DEF JobsApart, Waits
  <2>4. AddedOnce'
    <3>1. \A i \in 1..Len(log) : log[i] \in Obs
      BY DEF TypeOK
    <3> QED BY <1>1, <2>1, <3>1, ObsShape DEF AddedOnce, Waits
  <2> QED BY <1>2, <2>2, <2>3, <2>4
<1> QED BY <1>4, <1>5

(* Writing a chunk, or losing a task.                                      *)
LEMMA WriteKeeps ==
  ASSUME IInv, NEW o \in Obs, Write(o) \/ Kill(o)
  PROVE  IInv'
<1> USE DEF IInv
<1>1. /\ UNCHANGED <<post, log, base, group, reader, track, shown>>
      /\ \A x \in Obs : /\ job'[x].pos = job[x].pos /\ job'[x].end = job[x].end
                        /\ job'[x].at \in {"queued", "adding"}
                             => job[x].at \in {"queued", "adding"}
      /\ job' \in [Obs -> [at : {"none", "queued", "adding", "done", "dead"},
                           pos : Nat, end : Nat]]
  <2>1. UNCHANGED <<post, log, base, group, reader, track, shown>>
    BY DEF Write, Kill, stream
  <2>2. /\ job[o].at \in {"queued", "adding"}
        /\ \E w \in {"adding", "dead"} : job' = [job EXCEPT ![o].at = w]
    BY DEF Write, Kill, Become
  <2> QED BY <2>1, <2>2 DEF TypeOK
<1>2. Handed' /\ InStep'
  BY <1>1, FeedStep
<1>3. stored' \subseteq Obs
  <2>1. CASE Write(o)
    <3>1. job[o].at = "queued"
          /\ stored' = stored \cup {<<o[1], i>> : i \in job[o].pos..job[o].end}
      BY <2>1 DEF Write
    <3>2. /\ 1 <= job[o].pos /\ job[o].end <= Size[o[1]] /\ o[1] \in Post
          /\ job[o].pos \in Nat /\ job[o].end \in Nat /\ Size[o[1]] \in Nat
      BY <3>1, ObsShape DEF JobsApart, TypeOK
    <3>3. \A i \in job[o].pos..job[o].end : <<o[1], i>> \in Obs
      BY <3>2, ObsShape
    <3> QED BY <3>1, <3>3 DEF TypeOK
  <2>2. CASE Kill(o)
    BY <2>2 DEF Kill, TypeOK
  <2> QED BY <2>1, <2>2
<1>4. TypeOK'
  BY <1>1, <1>3 DEF TypeOK, Id, Track
<1>5. \A x, y \in Obs : Waits(x, y)' => Waits(x, y)
  BY <1>1 DEF Waits
<1>6. JobsApart'
  BY <1>1, <1>5 DEF JobsApart
<1>7. AddedOnce'
  <2>1. \A i \in 1..Len(log) : log[i] \in Obs
    BY DEF TypeOK
  <2> QED BY <1>1, <1>5, <2>1 DEF AddedOnce
<1> QED BY <1>2, <1>4, <1>6, <1>7

(* Adding an entry: it waited in one task, and waits no more.              *)
LEMMA AddKeeps ==
  ASSUME IInv, NEW o \in Obs, Add(o)
  PROVE  IInv'
<1> USE DEF IInv
<1>0. PICK k \in Nat, e \in Nat : k = job[o].pos /\ e = job[o].end
  BY DEF TypeOK
<1> DEFINE x == <<o[1], k>>
           next == IF k = e THEN [job[o] EXCEPT !.at = "done"]
                            ELSE [job[o] EXCEPT !.pos = k + 1]
<1>1. /\ UNCHANGED <<post, stored, base, group, reader, track, shown>>
      /\ job[o].at = "adding"
      /\ log' = Append(log, x) \/ log' = log
      /\ job' = [job EXCEPT ![o] = next]
  <2>1. /\ UNCHANGED <<post, stored, base, group, reader, track, shown>>
        /\ job[o].at = "adding"
    BY DEF Add
  <2>2. log' = Append(log, x) \/ log' = log
    BY <1>0 DEF Add
  <2>3. CASE k = e
    BY <1>0, <2>1, <2>2, <2>3 DEF Add, Become
  <2>4. CASE k # e
    BY <1>0, <2>1, <2>2, <2>4 DEF Add, Become
  <2> QED BY <2>3, <2>4
<1>2. 1 <= k /\ k <= e /\ e <= post[o[1]].sent
  BY <1>0, <1>1 DEF JobsApart
<1>3. o[1] \in Post /\ post[o[1]].sent <= Size[o[1]] /\ post[o[1]].sent \in Nat
      /\ Size[o[1]] \in Nat
  BY ObsShape DEF TypeOK
<1>4. x \in Obs /\ x[1] = o[1] /\ x[2] = k
  BY <1>2, <1>3, ObsShape
<1>5. Waits(o, x)
  BY <1>0, <1>1, <1>2, <1>4 DEF Waits
<1>6. /\ Handed' /\ InStep' /\ log' \in Seq(Obs) /\ base' \in Id'
      /\ group' \in Id' \cup {NoGroup} /\ (group' # NoGroup => base' <= group')
      /\ reader' \in [Reader -> [at : ReaderState, todo : SUBSET Id',
                                 on : SUBSET Id', copy : Track']]
      /\ track' \in [Session -> [Aircraft -> Track']]
      /\ shown' \in [Session -> [Aircraft -> Id']]
  BY <1>1, <1>4, FeedStep
<1>7. /\ next \in [at : {"adding", "done"}, pos : Nat, end : Nat]
      /\ next.end = e
      /\ next.at \in {"queued", "adding"} => k < e /\ next.pos = k + 1
  <2>1. job[o] \in [at : {"none", "queued", "adding", "done", "dead"},
                    pos : Nat, end : Nat]
    BY DEF TypeOK
  <2>2. CASE k = e
    BY <1>0, <2>1, <2>2
  <2>3. CASE k # e
    BY <1>0, <1>1, <1>2, <2>1, <2>3
  <2> QED BY <2>2, <2>3
<1>8. job'[o] = next /\ \A z \in Obs \ {o} : job'[z] = job[z]
  BY <1>1 DEF TypeOK
<1>9. TypeOK'
  <2>1. job' \in [Obs -> [at : {"none", "queued", "adding", "done", "dead"},
                          pos : Nat, end : Nat]]
    BY <1>1, <1>7 DEF TypeOK
  <2> QED BY <1>1, <1>6, <2>1 DEF TypeOK
<1>10. \A z, y \in Obs : Waits(z, y)' => Waits(z, y) /\ y # x
  <2> SUFFICES ASSUME NEW z \in Obs, NEW y \in Obs, Waits(z, y)'
               PROVE  Waits(z, y) /\ y # x
    OBVIOUS
  <2>1. CASE z = o
    <3>1. /\ next.at \in {"queued", "adding"} /\ y[1] = o[1]
          /\ next.pos <= y[2] /\ y[2] <= next.end
      BY <1>8, <2>1 DEF Waits
    <3>2. y[2] \in Nat
      BY ObsShape
    <3>3. k < e /\ k + 1 <= y[2] /\ y[2] <= e
      BY <1>7, <3>1, <3>2
    <3> QED BY <1>0, <1>1, <1>4, <2>1, <3>1, <3>2, <3>3 DEF Waits
  <2>2. CASE z # o
    <3>1. Waits(z, y)
      BY <1>8, <2>2 DEF Waits
    <3> QED BY <1>4, <1>5, <2>2, <3>1 DEF JobsApart
  <2> QED BY <2>1, <2>2
<1>11. JobsApart'
  <2>1. \A z \in Obs : job'[z].at \in {"queued", "adding"} =>
          /\ 1 <= job'[z].pos /\ job'[z].pos <= job'[z].end
          /\ job'[z].end <= post[z[1]].sent
    <3> SUFFICES ASSUME NEW z \in Obs, job'[z].at \in {"queued", "adding"}
                 PROVE  /\ 1 <= job'[z].pos /\ job'[z].pos <= job'[z].end
                        /\ job'[z].end <= post[z[1]].sent
      OBVIOUS
    <3>1. CASE z = o
      <4>1. next.at \in {"queued", "adding"}
        BY <1>8, <3>1
      <4> QED BY <1>2, <1>3, <1>7, <1>8, <3>1, <4>1
    <3>2. CASE z # o
      BY <1>8, <3>2 DEF JobsApart
    <3> QED BY <3>1, <3>2
  <2> QED BY <1>1, <1>10, <2>1 DEF JobsApart
<1>12. AddedOnce'
  <2>1. \A i \in 1..Len(log) : log[i] \in Obs /\ log[i] # x
    <3>1. \A i \in 1..Len(log) : log[i] \in Obs
      BY DEF TypeOK
    <3> QED BY <1>5, <3>1 DEF AddedOnce
  <2>2. CASE log' = log
    BY <1>1, <1>10, <2>1, <2>2 DEF AddedOnce
  <2>3. CASE log' = Append(log, x)
    <3>1. /\ Len(log) \in Nat /\ Len(log') = Len(log) + 1
          /\ \A i \in 1..Len(log) : log'[i] = log[i]
          /\ log'[Len(log) + 1] = x
      BY <1>4, <2>3 DEF TypeOK
    <3>2. \A i \in 1..Len(log') : i \in 1..Len(log) \/ i = Len(log) + 1
      BY <3>1
    <3>3. \A i \in 1..Len(log') :
            /\ log'[i][2] <= post'[log'[i][1]].sent
            /\ \A z \in Obs : ~Waits(z, log[i])'
      <4> SUFFICES ASSUME NEW i \in 1..Len(log')
                   PROVE  /\ log'[i][2] <= post'[log'[i][1]].sent
                          /\ \A z \in Obs : ~Waits(z, log[i])'
        OBVIOUS
      <4>1. CASE i \in 1..Len(log)
        <5>1. PICK y \in Obs : y = log[i] /\ y = log'[i]
          BY <2>1, <3>1, <4>1
        <5>2. y[2] <= post'[y[1]].sent /\ \A z \in Obs : ~Waits(z, y)
          BY <1>1, <4>1, <5>1 DEF AddedOnce
        <5>3. \A z \in Obs : ~Waits(z, y)'
          BY <1>10, <5>2
        <5>4. \A z \in Obs : ~Waits(z, log[i])'
          BY ONLY <5>1, <5>3 DEF Waits
        <5> QED BY ONLY <5>1, <5>2, <5>4
      <4>2. CASE i = Len(log) + 1
        <5>1. log'[i] = x
          BY <3>1, <4>2
        <5>2. log'[i][2] <= post'[log'[i][1]].sent
          <6>1. k \in Nat /\ e \in Nat /\ k <= post[o[1]].sent
            BY <1>2, <1>3
          <6>2. x[1] = o[1] /\ x[2] = k /\ post' = post
            BY <1>1, <1>4
          <6> QED BY ONLY <5>1, <6>1, <6>2
        <5>3. \A z \in Obs : ~Waits(z, x)'
          BY <1>4, <1>10
        <5>4. \A z \in Obs : ~Waits(z, log[i])'
          BY ONLY <5>1, <5>3 DEF Waits
        <5> QED BY ONLY <5>2, <5>4
      <4> QED BY <3>2, <4>1, <4>2
    <3>4. \A i, j \in 1..Len(log') : log'[i] = log'[j] => i = j
      BY <2>1, <3>1, <3>2 DEF AddedOnce
    <3> QED BY <3>3, <3>4 DEF AddedOnce
  <2> QED BY <1>1, <2>2, <2>3
<1> QED BY <1>6, <1>9, <1>11, <1>12

-----------------------------------------------------------------------------
(* The position of the group is a number of an entry.                      *)
LEMMA GivenIs ==
  ASSUME IInv
  PROVE  /\ Len(log) \in Nat /\ base \in Nat /\ Given \in Nat /\ NoGroup \notin Nat
         /\ base <= Given /\ Given <= Len(log)
         /\ group # NoGroup => group \in Nat /\ group = Given
         /\ group = NoGroup => Given = base
BY DEF IInv, TypeOK, Given, Id, NoGroup

(* Expiry, a new group, a step of the position: nothing that was handed    *)
(* out lies behind it.                                                     *)
LEMMA ExpireKeeps ==
  ASSUME IInv, Expire
  PROVE  IInv'
<1> USE DEF IInv
<1>1. /\ UNCHANGED <<post, job, stored, log, reader, track, shown>>
      /\ base' = Len(log) /\ group' = NoGroup
  BY DEF Expire, feed
<1>2. JobsApart' /\ AddedOnce' /\ Id' = Id /\ Track' = Track
  BY <1>1, ReaderStep
<1>3. TypeOK'
  BY <1>1, <1>2, GivenIs DEF TypeOK, Id
<1>4. Given' = Len(log) /\ Given <= Given'
  BY <1>1, GivenIs DEF Given
<1>5. \A i \in Id : i <= Given => i <= Given'
  BY <1>4, GivenIs DEF Id
<1>6. Handed'
  BY <1>1, <1>5 DEF Handed, TypeOK, Track
<1>7. InStep'
  BY <1>1 DEF InStep, Sole, CraftOf
<1> QED BY <1>2, <1>3, <1>6, <1>7

LEMMA JoinKeeps ==
  ASSUME IInv, NEW c \in Reader, Join(c)
  PROVE  IInv'
<1> USE DEF IInv
<1>1. /\ UNCHANGED <<post, job, stored, log, base, track, shown>>
      /\ reader[c].at = "waiting"
      /\ reader' = [reader EXCEPT ![c].at = "joined"]
      /\ group' = IF group = NoGroup THEN base ELSE group
  BY DEF Join, feed
<1>2. JobsApart' /\ AddedOnce' /\ Id' = Id /\ Track' = Track
  BY <1>1, ReaderStep
<1>3. Given' = Given
  BY <1>1, GivenIs DEF Given
<1>4. TypeOK'
  <2>1. reader' \in [Reader -> [at : ReaderState, todo : SUBSET Id, on : SUBSET Id,
                                copy : Track]]
    BY <1>1 DEF TypeOK, ReaderState
  <2>2. group' \in Id \cup {NoGroup} /\ (group' # NoGroup => base' <= group')
    BY <1>1, GivenIs DEF TypeOK
  <2> QED BY <1>1, <1>2, <2>1, <2>2, ReaderStep DEF TypeOK
<1>5. /\ \A d \in Reader : reader'[d].todo = reader[d].todo
                           /\ reader'[d].on = reader[d].on
                           /\ reader'[d].copy = reader[d].copy
      /\ \A d \in Reader : reader'[d].at # "merging" => reader[d].at # "merging"
  BY <1>1 DEF TypeOK
<1>6. Handed'
  BY <1>1, <1>3, <1>5 DEF Handed
<1>7. InStep'
  BY <1>1, <1>5 DEF InStep, Sole, CraftOf
<1> QED BY <1>2, <1>4, <1>6, <1>7

(* A read hands out what lies behind the position, and moves it there.     *)
LEMMA ReadKeeps ==
  ASSUME IInv, NEW c \in Reader, Read(c)
  PROVE  IInv'
<1> USE DEF IInv
<1>0. PICK g \in Int, u \in Int : g = group /\ u = UpTo
  BY AirTrafficAssumption DEF TypeOK, Id, NoGroup, UpTo
<1> DEFINE new == IF g = NoGroup THEN {} ELSE (g + 1)..u
<1>1. /\ UNCHANGED <<post, job, stored, log, base, track, shown>>
      /\ reader[c].at = "joined"
  BY DEF Read, feed
<1>2. JobsApart' /\ AddedOnce' /\ Id' = Id /\ Track' = Track
  BY <1>1, ReaderStep
<1>3. reader[c].todo = {} /\ reader[c].on = {}
  BY <1>1 DEF Handed
<1>5. /\ g = NoGroup => group' = group /\ Given' = Given
      /\ g # NoGroup => group' = u /\ Given' = u /\ Given = g /\ g <= u
                        /\ u <= Len(log) /\ u \in Nat
  <2>1. CASE g = NoGroup
    <3>1. group' = group
      BY <1>0, <2>1 DEF Read
    <3> QED BY <1>1, <2>1, <3>1 DEF Given
  <2>2. CASE g # NoGroup
    <3>1. group' = u
      BY <1>0, <2>2 DEF Read
    <3>2. g \in Nat /\ g = Given /\ g <= Len(log) /\ Len(log) \in Nat
      BY <1>0, <2>2, GivenIs
    <3>3. u = IF g + Count <= Len(log) THEN g + Count ELSE Len(log)
      BY <1>0 DEF UpTo
    <3>4. g <= u /\ u <= Len(log) /\ u \in Nat
      BY ONLY <3>2, <3>3, AirTrafficAssumption
    <3>5. Given' = u
      BY <3>1, <3>4 DEF Given, NoGroup
    <3> QED BY <2>2, <3>1, <3>2, <3>4, <3>5
  <2> QED BY <2>1, <2>2
<1>6. /\ \A i \in new : Given < i /\ i <= Given' /\ 1 <= i /\ i \in Id
      /\ Given <= Given' /\ Given' <= Len(log) /\ Given' \in Nat
  BY <1>0, <1>5, GivenIs DEF Id
<1>7. \A i \in Id : i <= Given => i <= Given' /\ i \notin new
  BY <1>6, GivenIs DEF Id
<1>4. /\ \A d \in Reader \ {c} : reader'[d] = reader[d]
      /\ reader'[c].at = "merging" /\ reader'[c].todo = new
      /\ reader'[c].on = {} /\ reader'[c].copy = reader[c].copy
      /\ reader' \in [Reader -> [at : ReaderState, todo : SUBSET Id, on : SUBSET Id,
                                 copy : Track]]
  <2>1. new \subseteq Id /\ "merging" \in ReaderState
    BY <1>6 DEF ReaderState
  <2>2. reader \in [Reader -> [at : ReaderState, todo : SUBSET Id, on : SUBSET Id,
                              copy : Track]]
    BY DEF TypeOK
  <2>3. reader' = [reader EXCEPT ![c].at = "merging", ![c].todo = new]
    <3>1. CASE g = NoGroup
      <4>1. reader' = [reader EXCEPT ![c].at = "merging"]
        BY <1>0, <3>1 DEF Read
      <4> QED BY <1>3, <2>2, <3>1, <4>1
    <3>2. CASE g # NoGroup
      BY <1>0, <3>2 DEF Read
    <3> QED BY <3>1, <3>2
  <2> QED BY <1>3, <2>1, <2>2, <2>3
<1>8. TypeOK'
  <2>1. group' \in Id \cup {NoGroup} /\ (group' # NoGroup => base' <= group')
    BY <1>0, <1>1, <1>5, GivenIs DEF TypeOK, Id
  <2> QED BY <1>1, <1>2, <1>4, <2>1, ReaderStep DEF TypeOK
<1>9. Handed'
  <2>1. \A d \in Reader : reader[d].copy.ids \subseteq Id /\ reader[d].todo \subseteq Id
    BY DEF TypeOK, Track
  <2>2. \A s \in Session, a \in Aircraft :
          track[s][a].ids \subseteq Id /\ track[s][a].last \in Id
    BY DEF TypeOK, Track
  <2>3. \A d \in Reader : \A i \in reader'[d].todo : 1 <= i /\ i <= Given'
    BY <1>4, <1>6, <1>7, <2>1 DEF Handed
  <2>4. \A d \in Reader : /\ reader'[d].on \subseteq reader'[d].todo
                          /\ reader'[d].at # "merging" => reader'[d].todo = {}
    BY <1>4 DEF Handed
  <2>5. \A d \in Reader : \A i \in reader'[d].copy.ids : i <= Given'
    BY <1>4, <1>7, <2>1 DEF Handed
  <2>6. \A s \in Session, a \in Aircraft :
          /\ \A i \in track'[s][a].ids : i <= Given'
          /\ track'[s][a].last <= Given'
    BY <1>1, <1>7, <2>2 DEF Handed
  <2>7. \A d \in Reader : /\ reader[d].todo \cap new = {}
                          /\ reader[d].copy.ids \cap new = {}
    BY <1>7, <2>1 DEF Handed
  <2>8. \A d, f \in Reader :
          /\ d # f => reader'[d].todo \cap reader'[f].todo = {}
          /\ reader'[d].todo \cap reader'[f].copy.ids = {}
    BY <1>4, <2>7 DEF Handed
  <2>9. \A s \in Session, a \in Aircraft : new \cap track[s][a].ids = {}
    BY <1>7, <2>2 DEF Handed
  <2>10. \A d \in Reader, s \in Session, a \in Aircraft :
           reader'[d].todo \cap track'[s][a].ids = {}
    BY <1>1, <1>4, <2>9 DEF Handed
  <2> QED BY <2>3, <2>4, <2>5, <2>6, <2>8, <2>10 DEF Handed
<1>10. InStep'
  <2>1. \A d \in Reader : reader'[d].on # {} =>
          \E a \in Aircraft :
            /\ reader'[d].on = {i \in reader'[d].todo : CraftOf(i)' = a}
            /\ Sole(SessionOf[d]) => reader'[d].copy = track'[SessionOf[d]][a]
    BY <1>1, <1>4 DEF InStep, CraftOf
  <2>2. \A i \in new : track[SessionOf[c]][CraftOf(i)].last < i
    <3> SUFFICES ASSUME NEW i \in new PROVE track[SessionOf[c]][CraftOf(i)].last < i
      OBVIOUS
    <3>1. i \in 1..Len(log) /\ Given < i
      BY <1>6, GivenIs DEF Id
    <3>2. CraftOf(i) \in Aircraft /\ SessionOf[c] \in Session
      BY <3>1, AirTrafficAssumption DEF CraftOf, TypeOK
    <3>3. track[SessionOf[c]][CraftOf(i)].last \in Nat
      BY <3>2, GivenIs DEF TypeOK, Track, Id
    <3> QED BY <3>1, <3>2, <3>3, GivenIs DEF Handed
  <2>3. \A d \in Reader : Sole(SessionOf[d]) =>
          \A i \in reader'[d].todo : track'[SessionOf[d]][CraftOf(i)'].last < i
    BY <1>1, <1>4, <2>2 DEF InStep, CraftOf
  <2> QED BY <1>1, <2>1, <2>3 DEF InStep, Sole
<1> QED BY <1>2, <1>8, <1>9, <1>10

(* What is taken is held already, with a track that keeps none of it.      *)
LEMMA TakeKeeps ==
  ASSUME IInv, NEW c \in Reader, Take(c)
  PROVE  IInv'
<1> USE DEF IInv
<1>1. /\ UNCHANGED <<post, job, stored, log, base, group, track, shown>>
      /\ reader[c].at = "merging" /\ reader[c].on = {}
  BY DEF Take, feed, stream
<1>2. JobsApart' /\ AddedOnce' /\ Id' = Id /\ Track' = Track
  BY <1>1, ReaderStep
<1>3. PICK first \in reader[c].todo :
        reader' = [reader EXCEPT
          ![c].on = {i \in reader[c].todo : CraftOf(i) = CraftOf(first)},
          ![c].copy = track[SessionOf[c]][CraftOf(first)]]
  BY DEF Take
<1>4. first \in 1..Len(log) /\ reader[c].todo \subseteq Id
  BY GivenIs DEF TypeOK, Handed, Id
<1>5. PICK a \in Aircraft, s \in Session : a = CraftOf(first) /\ s = SessionOf[c]
  BY <1>4, AirTrafficAssumption DEF CraftOf, TypeOK
<1> DEFINE new == {i \in reader[c].todo : CraftOf(i) = a}
<1>6. track[s][a] \in Track
  BY DEF TypeOK
<1>7. /\ \A d \in Reader \ {c} : reader'[d] = reader[d]
      /\ reader'[c].at = reader[c].at /\ reader'[c].todo = reader[c].todo
      /\ reader'[c].on = new /\ reader'[c].copy = track[s][a]
      /\ reader' \in [Reader -> [at : ReaderState, todo : SUBSET Id, on : SUBSET Id,
                                 copy : Track]]
  <2>1. reader \in [Reader -> [at : ReaderState, todo : SUBSET Id, on : SUBSET Id,
                              copy : Track]]
    BY DEF TypeOK
  <2>2. reader' = [reader EXCEPT ![c].on = new, ![c].copy = track[s][a]]
    BY <1>3, <1>5
  <2>3. PICK m \in SUBSET Id, t \in Track : m = new /\ t = track[s][a]
    BY <1>4, <1>6
  <2>4. reader' = [reader EXCEPT ![c].on = m, ![c].copy = t]
    BY <2>2, <2>3
  <2>5. /\ \A d \in Reader \ {c} : reader'[d] = reader[d]
        /\ reader'[c].at = reader[c].at /\ reader'[c].todo = reader[c].todo
        /\ reader'[c].on = m /\ reader'[c].copy = t
        /\ reader' \in [Reader -> [at : ReaderState, todo : SUBSET Id, on : SUBSET Id,
                                   copy : Track]]
    BY <2>1, <2>4
  <2> QED BY <2>3, <2>5
<1>8. TypeOK'
  BY <1>1, <1>2, <1>7, ReaderStep DEF TypeOK
<1>9. Given' = Given
  BY <1>1 DEF Given
<1>10. Handed'
  <2>1. /\ \A d \in Reader : reader'[d].todo = reader[d].todo
        /\ \A d \in Reader : reader'[d].at = reader[d].at
        /\ \A d \in Reader : reader'[d].on \subseteq reader'[d].todo
    BY <1>7 DEF Handed
  <2>2. /\ \A d \in Reader : \A i \in reader'[d].copy.ids : i <= Given
        /\ \A d, e \in Reader : reader[d].todo \cap reader'[e].copy.ids = {}
    BY <1>7 DEF Handed
  <2> QED BY <1>1, <1>9, <2>1, <2>2 DEF Handed
<1>11. InStep'
  <2>1. \A d \in Reader : reader'[d].on # {} =>
          \E b \in Aircraft :
            /\ reader'[d].on = {i \in reader'[d].todo : CraftOf(i)' = b}
            /\ Sole(SessionOf[d]) => reader'[d].copy = track'[SessionOf[d]][b]
    <3>1. \A i : CraftOf(i)' = CraftOf(i)
      BY <1>1 DEF CraftOf
    <3>2. reader'[c].on = {i \in reader'[c].todo : CraftOf(i)' = a}
      BY <1>7, <3>1
    <3>3. reader'[c].copy = track'[SessionOf[c]][a]
      BY <1>1, <1>5, <1>7
    <3>4. \A d \in Reader \ {c} : reader'[d].on # {} =>
          \E b \in Aircraft :
            /\ reader'[d].on = {i \in reader'[d].todo : CraftOf(i)' = b}
            /\ Sole(SessionOf[d]) => reader'[d].copy = track'[SessionOf[d]][b]
      BY <1>1, <1>7, <3>1 DEF InStep
    <3> QED BY <3>2, <3>3, <3>4
  <2>2. \A d \in Reader : Sole(SessionOf[d]) =>
          \A i \in reader'[d].todo : track'[SessionOf[d]][CraftOf(i)'].last < i
    BY <1>1, <1>7 DEF InStep, CraftOf
  <2> QED BY <1>1, <2>1, <2>2 DEF InStep, Sole
<1> QED BY <1>2, <1>8, <1>10, <1>11

(* A chain that publishes or ends holds nothing any more.                  *)
LEMMA ResetKeeps ==
  ASSUME IInv, NEW c \in Reader, Publish(c) \/ Quit(c)
  PROVE  IInv'
<1> USE DEF IInv
<1>1. UNCHANGED <<post, job, stored, log, base, group, track>>
  BY DEF Publish, Quit, feed, stream
<1>2. JobsApart' /\ AddedOnce' /\ Id' = Id /\ Track' = Track
  BY <1>1, ReaderStep
<1>3. PICK w \in {"waiting", "off"} :
        reader' = [reader EXCEPT ![c] =
          [at |-> w, todo |-> {}, on |-> {}, copy |-> NoTrack]]
  BY DEF Publish, Quit, Waiting, Off
<1>4. /\ shown' \in [Session -> [Aircraft -> Id]]
      /\ \A s \in Session, a \in Aircraft :
           Sole(s) => shown'[s][a] <= track[s][a].last
  <2>1. CASE Publish(c)
    <3>1. SessionOf[c] \in Session
      BY AirTrafficAssumption
    <3> DEFINE new == [a \in Aircraft |-> track[SessionOf[c]][a].last]
    <3>2. new \in [Aircraft -> Id]
      BY <3>1 DEF TypeOK, Track
    <3>3. shown' = [shown EXCEPT ![SessionOf[c]] = new]
      BY <2>1 DEF Publish
    <3>4. shown' \in [Session -> [Aircraft -> Id]]
      BY <3>1, <3>2, <3>3 DEF TypeOK
    <3>5. \A s \in Session, a \in Aircraft :
            shown'[s][a] = shown[s][a] \/ shown'[s][a] = track[s][a].last
      BY <3>1, <3>3 DEF TypeOK
    <3>6. \A s \in Session, a \in Aircraft : track[s][a].last \in Int
      BY GivenIs DEF TypeOK, Track, Id
    <3> QED BY <3>4, <3>5, <3>6 DEF InStep
  <2>2. CASE Quit(c)
    BY <2>2 DEF Quit, InStep, TypeOK
  <2> QED BY <2>1, <2>2
<1>5. NoTrack \in Track /\ NoTrack.ids = {}
  BY GivenIs DEF NoTrack, Track, Id
<1>6. /\ \A d \in Reader \ {c} : reader'[d] = reader[d]
      /\ reader'[c].at # "merging" /\ reader'[c].todo = {}
      /\ reader'[c].on = {} /\ reader'[c].copy = NoTrack
      /\ reader' \in [Reader -> [at : ReaderState, todo : SUBSET Id, on : SUBSET Id,
                                 copy : Track]]
  <2>1. reader \in [Reader -> [at : ReaderState, todo : SUBSET Id, on : SUBSET Id,
                              copy : Track]] /\ w \in ReaderState
    BY DEF TypeOK, ReaderState
  <2> QED BY <1>3, <1>5, <2>1
<1>7. TypeOK'
  BY <1>1, <1>2, <1>4, <1>6, ReaderStep DEF TypeOK
<1>8. Given' = Given
  BY <1>1 DEF Given
<1>9. Handed'
  <2>1. /\ \A d \in Reader : \A i \in reader'[d].todo : 1 <= i /\ i <= Given
        /\ \A d \in Reader : reader'[d].on \subseteq reader'[d].todo
        /\ \A d \in Reader : reader'[d].at # "merging" => reader'[d].todo = {}
        /\ \A d \in Reader : \A i \in reader'[d].copy.ids : i <= Given
    BY <1>5, <1>6 DEF Handed
  <2>2. /\ \A d, e \in Reader :
             /\ d # e => reader'[d].todo \cap reader'[e].todo = {}
             /\ reader'[d].todo \cap reader'[e].copy.ids = {}
        /\ \A d \in Reader, s \in Session, a \in Aircraft :
             reader'[d].todo \cap track[s][a].ids = {}
    BY <1>5, <1>6 DEF Handed
  <2> QED BY <1>1, <1>8, <2>1, <2>2 DEF Handed
<1>10. InStep'
  <2>1. \A d \in Reader : reader'[d].on # {} =>
          \E a \in Aircraft :
            /\ reader'[d].on = {i \in reader'[d].todo : CraftOf(i)' = a}
            /\ Sole(SessionOf[d]) => reader'[d].copy = track'[SessionOf[d]][a]
    BY <1>1, <1>6 DEF InStep, CraftOf
  <2>2. \A d \in Reader : Sole(SessionOf[d]) =>
          \A i \in reader'[d].todo : track'[SessionOf[d]][CraftOf(i)'].last < i
    BY <1>1, <1>6 DEF InStep, CraftOf
  <2> QED BY <1>1, <1>4, <2>1, <2>2 DEF InStep, Sole
<1> QED BY <1>2, <1>7, <1>9, <1>10

(* The track put back keeps what was taken and what was held, and what is  *)
(* still held is about other aircraft.                                     *)
LEMMA PutIs ==
  ASSUME IInv, NEW c \in Reader, Put(c)
  PROVE  \E a \in Aircraft, last \in 1..Len(log) :
           /\ last \in reader[c].on
           /\ track' = [track EXCEPT ![SessionOf[c]][a] =
                [ids |-> reader[c].copy.ids \cup reader[c].on, last |-> last]]
           /\ reader[c].on = {i \in reader[c].todo : CraftOf(i) = a}
           /\ Sole(SessionOf[c]) => reader[c].copy = track[SessionOf[c]][a]
<1> USE DEF IInv
<1>1. PICK last \in reader[c].on :
        track' = [track EXCEPT ![SessionOf[c]][CraftOf(last)] =
          [ids |-> reader[c].copy.ids \cup reader[c].on, last |-> last]]
  BY DEF Put
<1>2. PICK a \in Aircraft :
        /\ reader[c].on = {i \in reader[c].todo : CraftOf(i) = a}
        /\ Sole(SessionOf[c]) => reader[c].copy = track[SessionOf[c]][a]
  BY <1>1 DEF InStep
<1>3. CraftOf(last) = a
  BY <1>1, <1>2
<1>4. last \in 1..Len(log)
  BY <1>1, GivenIs DEF Handed, TypeOK, Id
<1> QED BY <1>1, <1>2, <1>3, <1>4

LEMMA PutKeeps ==
  ASSUME IInv, NEW c \in Reader, Put(c)
  PROVE  IInv'
<1> USE DEF IInv
<1>1. UNCHANGED <<post, job, stored, log, base, group, shown>>
  BY DEF Put, feed, stream
<1>2. JobsApart' /\ AddedOnce' /\ Id' = Id /\ Track' = Track
  BY <1>1, ReaderStep
<1>3. PICK a \in Aircraft, last \in 1..Len(log) :
        /\ last \in reader[c].on
        /\ track' = [track EXCEPT ![SessionOf[c]][a] =
             [ids |-> reader[c].copy.ids \cup reader[c].on, last |-> last]]
        /\ reader[c].on = {i \in reader[c].todo : CraftOf(i) = a}
        /\ Sole(SessionOf[c]) => reader[c].copy = track[SessionOf[c]][a]
  BY PutIs
<1>4. PICK s \in Session : s = SessionOf[c]
  BY AirTrafficAssumption
<1>5. last \in Id /\ 1 <= last /\ reader[c].copy.ids \subseteq Id
      /\ reader[c].on \subseteq Id /\ reader[c].todo \subseteq Id
  BY <1>3, GivenIs DEF TypeOK, Track, Id
<1>6. PICK new \in Track :
        new = [ids |-> reader[c].copy.ids \cup reader[c].on, last |-> last]
  BY <1>5 DEF Track
<1>7. /\ track' \in [Session -> [Aircraft -> Track]]
      /\ track'[s][a] = new
      /\ \A z \in Session, b \in Aircraft :
           z # s \/ b # a => track'[z][b] = track[z][b]
  <2>1. track' = [track EXCEPT ![s][a] = new]
    BY <1>3, <1>4, <1>6
  <2> QED BY <2>1 DEF TypeOK
<1>8. PICK rest \in SUBSET Id : rest = reader[c].todo \ reader[c].on
  BY <1>5
<1>9. NoTrack \in Track /\ NoTrack.ids = {}
  BY GivenIs DEF NoTrack, Track, Id
<1>10. /\ \A d \in Reader \ {c} : reader'[d] = reader[d]
       /\ reader'[c].at = reader[c].at /\ reader'[c].todo = rest
       /\ reader'[c].on = {} /\ reader'[c].copy = NoTrack
       /\ reader' \in [Reader -> [at : ReaderState, todo : SUBSET Id, on : SUBSET Id,
                                  copy : Track]]
  <2>1. reader \in [Reader -> [at : ReaderState, todo : SUBSET Id, on : SUBSET Id,
                              copy : Track]]
    BY DEF TypeOK
  <2>2. reader' = [reader EXCEPT ![c].todo = rest,
                                 ![c].on = {}, ![c].copy = NoTrack]
    BY <1>8, <2>1 DEF Put, Drop
  <2> QED BY <1>9, <2>1, <2>2
<1>11. TypeOK'
  BY <1>1, <1>2, <1>7, <1>10, ReaderStep DEF TypeOK
<1>12. Given' = Given
  BY <1>1 DEF Given
<1>13. \A d \in Reader : reader'[d].todo \subseteq reader[d].todo
  BY <1>8, <1>10
<1>14. Handed'
  <2>1. \A d \in Reader : \A i \in reader'[d].todo : 1 <= i /\ i <= Given
    BY <1>13 DEF Handed
  <2>2. /\ \A d \in Reader : reader'[d].on \subseteq reader'[d].todo
        /\ \A d \in Reader : reader'[d].at # "merging" => reader'[d].todo = {}
    BY <1>10, <1>13 DEF Handed
  <2>3. \A d \in Reader : \A i \in reader'[d].copy.ids : i <= Given
    BY <1>9, <1>10 DEF Handed
  <2>4. \A d, e \in Reader :
          /\ d # e => reader'[d].todo \cap reader'[e].todo = {}
          /\ reader'[d].todo \cap reader'[e].copy.ids = {}
    BY <1>9, <1>10, <1>13 DEF Handed
  <2>5. \A i \in new.ids : i <= Given
    BY <1>6 DEF Handed
  <2>6. new.last <= Given
    BY <1>3, <1>6 DEF Handed
  <2>7. \A z \in Session, b \in Aircraft :
          /\ \A i \in track'[z][b].ids : i <= Given
          /\ track'[z][b].last <= Given
    BY <1>7, <2>5, <2>6 DEF Handed
  <2>8. \A d \in Reader : reader'[d].todo \cap new.ids = {}
    <3>1. \A d \in Reader : reader'[d].todo \cap reader[c].copy.ids = {}
      BY <1>13 DEF Handed
    <3>2. \A d \in Reader : reader'[d].todo \cap reader[c].on = {}
      BY <1>8, <1>10, <1>13 DEF Handed
    <3> QED BY <1>6, <3>1, <3>2
  <2>9. \A d \in Reader, z \in Session, b \in Aircraft :
          reader'[d].todo \cap track'[z][b].ids = {}
    BY <1>7, <1>13, <2>8 DEF Handed
  <2> QED BY <1>12, <2>1, <2>2, <2>3, <2>4, <2>7, <2>9 DEF Handed
<1>15. InStep'
  <2>1. \A i : CraftOf(i)' = CraftOf(i)
    BY <1>1 DEF CraftOf
  <2>2. \A d \in Reader \ {c} : Sole(SessionOf[d]) => SessionOf[d] # s
    BY <1>4 DEF Sole
  <2>3. \A d \in Reader : reader'[d].on # {} =>
          \E b \in Aircraft :
            /\ reader'[d].on = {i \in reader'[d].todo : CraftOf(i)' = b}
            /\ Sole(SessionOf[d]) => reader'[d].copy = track'[SessionOf[d]][b]
    <3> SUFFICES ASSUME NEW d \in Reader \ {c}, reader[d].on # {}
                 PROVE  \E b \in Aircraft :
                   /\ reader'[d].on = {i \in reader'[d].todo : CraftOf(i)' = b}
                   /\ Sole(SessionOf[d]) => reader'[d].copy = track'[SessionOf[d]][b]
      BY <1>10
    <3>1. PICK b \in Aircraft :
            /\ reader[d].on = {i \in reader[d].todo : CraftOf(i) = b}
            /\ Sole(SessionOf[d]) => reader[d].copy = track[SessionOf[d]][b]
      BY DEF InStep
    <3>2. reader'[d].on = {i \in reader'[d].todo : CraftOf(i)' = b}
      BY <1>10, <2>1, <3>1
    <3>3. Sole(SessionOf[d]) => reader'[d].copy = track'[SessionOf[d]][b]
      BY <1>7, <1>10, <2>2, <3>1, AirTrafficAssumption
    <3> QED BY <3>2, <3>3
  <2>4. \A d \in Reader : Sole(SessionOf[d]) =>
          \A i \in reader'[d].todo : track'[SessionOf[d]][CraftOf(i)'].last < i
    <3> SUFFICES ASSUME NEW d \in Reader, Sole(SessionOf[d]), NEW i \in reader'[d].todo
                 PROVE  track'[SessionOf[d]][CraftOf(i)].last < i
      BY <2>1
    <3>1. track[SessionOf[d]][CraftOf(i)].last < i /\ i \in reader[d].todo
      BY <1>13 DEF InStep
    <3>2. i \in 1..Len(log)
      BY <3>1, GivenIs DEF Handed, TypeOK, Id
    <3>3. CraftOf(i) \in Aircraft
      BY <3>2, AirTrafficAssumption DEF CraftOf, TypeOK
    <3>4. CASE d = c
      <4>1. CraftOf(i) # a
        BY <1>3, <1>8, <1>10, <3>1, <3>4
      <4> QED BY <1>4, <1>7, <3>1, <3>3, <3>4, <4>1
    <3>5. CASE d # c
      BY <1>7, <2>2, <3>1, <3>3, <3>5, AirTrafficAssumption
    <3> QED BY <3>4, <3>5
  <2>5. \A z \in Session, b \in Aircraft : Sole(z) => shown'[z][b] <= track'[z][b].last
    <3> SUFFICES ASSUME NEW z \in Session, NEW b \in Aircraft, Sole(z)
                 PROVE  shown[z][b] <= track'[z][b].last
      BY <1>1
    <3>1. shown[z][b] <= track[z][b].last /\ shown[z][b] \in Int
          /\ track[z][b].last \in Int
      BY GivenIs DEF InStep, TypeOK, Track, Id
    <3>2. CASE z = s /\ b = a
      <4>1. track[s][a].last < last
        BY <1>3, <1>4, <3>2 DEF InStep, Handed
      <4> QED BY <1>6, <1>7, <3>1, <3>2, <4>1
    <3>3. CASE ~(z = s /\ b = a)
      BY <1>7, <3>1, <3>3
    <3> QED BY <3>2, <3>3
  <2> QED BY <2>3, <2>4, <2>5 DEF InStep, Sole
<1> QED BY <1>2, <1>11, <1>14, <1>15

-----------------------------------------------------------------------------
(* Every step of every party, and a step of nobody, keeps the invariant.   *)
LEMMA NextKeeps == IInv /\ [Next]_vars => IInv'
<1> SUFFICES ASSUME IInv, [Next]_vars PROVE IInv'
  OBVIOUS
<1>1. ASSUME NEW p \in Post, Answer(p) \/ Sender(p) PROVE IInv'
  BY <1>1, PostKeeps, DispatchKeeps DEF Sender
<1>2. ASSUME NEW o \in Obs, Writer(o) PROVE IInv'
  BY <1>2, WriteKeeps, AddKeeps DEF Writer
<1>3. ASSUME NEW c \in Reader, Tracker(c) PROVE IInv'
  BY <1>3, JoinKeeps, ReadKeeps, TakeKeeps, PutKeeps, ResetKeeps DEF Tracker
<1>4. CASE Expire
  BY <1>4, ExpireKeeps
<1>5. CASE UNCHANGED vars
  <2>1. UNCHANGED <<post, job, stored, log, base, group, reader, track, shown>>
    BY <1>5 DEF vars
  <2>2. Handed' /\ InStep'
    BY <2>1, FeedStep
  <2>3. JobsApart' /\ AddedOnce'
    BY <2>1, ReaderStep
  <2>4. TypeOK'
    BY <2>1 DEF IInv, TypeOK, Id, Track
  <2> QED BY <2>2, <2>3, <2>4 DEF IInv
<1> QED BY <1>1, <1>2, <1>3, <1>4, <1>5 DEF Next

LEMMA Invariant == Spec => []IInv
<1>1. Init => IInv
  BY InitIInv
<1>2. IInv /\ [Next]_vars => IInv'
  BY NextKeeps
<1> QED BY <1>1, <1>2, PTL DEF Spec

(* Every state of the feed, the stream and the track tasks has its type:   *)
(* no task runs past its chunk, no position points past the stream or      *)
(* before what has expired.                                                *)
THEOREM TypeCorrect == Spec => []TypeOK
<1>1. IInv => TypeOK
  BY DEF IInv
<1> QED BY <1>1, Invariant, PTL

(* No observation is delivered twice, whatever the number of sessions, of  *)
(* chains of track tasks, of chunks and of reads, and whenever the stream  *)
(* expires (tasks/flight_feed_task.py, clients/redis_client.py).           *)
THEOREM Delivered == Spec => []DeliveredOnce
<1>1. IInv => DeliveredOnce
  BY DEF IInv, AddedOnce, Handed, DeliveredOnce
<1> QED BY <1>1, Invariant, PTL

(* One step of the track of an aircraft in a session of one chain.         *)
LEMMA GrowStep ==
  ASSUME IInv, [Next]_vars,
         NEW s \in Session, NEW a \in Aircraft, Sole(s)
  PROVE  /\ track[s][a].ids \subseteq track'[s][a].ids
         /\ track[s][a].last <= track'[s][a].last
         /\ shown[s][a] <= shown'[s][a]
<1> USE DEF IInv
<1>1. /\ shown[s][a] <= track[s][a].last
      /\ shown[s][a] \in Int /\ track[s][a].last \in Int
  BY GivenIs DEF InStep, TypeOK, Track, Id
<1>2. CASE UNCHANGED <<track, shown>>
  BY <1>1, <1>2
<1>3. ASSUME NEW c \in Reader, Put(c)
      PROVE  /\ track[s][a].ids \subseteq track'[s][a].ids
             /\ track[s][a].last <= track'[s][a].last
             /\ shown[s][a] <= shown'[s][a]
  <2>1. PICK b \in Aircraft, last \in 1..Len(log) :
          /\ last \in reader[c].on
          /\ track' = [track EXCEPT ![SessionOf[c]][b] =
               [ids |-> reader[c].copy.ids \cup reader[c].on, last |-> last]]
          /\ reader[c].on = {i \in reader[c].todo : CraftOf(i) = b}
          /\ Sole(SessionOf[c]) => reader[c].copy = track[SessionOf[c]][b]
    BY <1>3, PutIs
  <2>2. shown' = shown
    BY <1>3 DEF Put
  <2>3. CASE s = SessionOf[c] /\ a = b
    <3>1. track[s][a].last < last
      BY <2>1, <2>3 DEF InStep
    <3>2. track'[s][a] = [ids |-> track[s][a].ids \cup reader[c].on, last |-> last]
      BY <2>1, <2>3 DEF TypeOK
    <3> QED BY <1>1, <2>2, <3>1, <3>2
  <2>4. CASE ~(s = SessionOf[c] /\ a = b)
    <3>1. track'[s][a] = track[s][a]
      BY <2>1, <2>4 DEF TypeOK
    <3> QED BY <1>1, <2>2, <3>1
  <2> QED BY <2>3, <2>4
<1>4. ASSUME NEW c \in Reader, Publish(c)
      PROVE  track' = track /\ shown[s][a] <= shown'[s][a]
  <2>1. track' = track
    BY <1>4 DEF Publish
  <2>2. shown' = [shown EXCEPT ![SessionOf[c]] =
                    [b \in Aircraft |-> track[SessionOf[c]][b].last]]
    BY <1>4 DEF Publish
  <2>3. shown \in [Session -> [Aircraft -> Id]] /\ SessionOf[c] \in Session
    BY AirTrafficAssumption DEF TypeOK
  <2>4. shown'[s][a] = shown[s][a] \/ shown'[s][a] = track[s][a].last
    BY ONLY <2>2, <2>3
  <2> QED BY ONLY <1>1, <2>1, <2>4
<1>5. \/ UNCHANGED <<track, shown>>
      \/ \E c \in Reader : Put(c) \/ Publish(c)
  <2>1. CASE UNCHANGED vars
    BY <2>1 DEF vars
  <2>2. CASE Next
    <3>1. ASSUME NEW p \in Post, Answer(p) \/ Sender(p)
          PROVE  UNCHANGED <<track, shown>>
      BY <3>1 DEF Sender, Answer, Dispatch, LosePost
    <3>2. ASSUME NEW o \in Obs, Writer(o)
          PROVE  UNCHANGED <<track, shown>>
      BY <3>2 DEF Writer, Write, Add, Kill
    <3>3. ASSUME NEW c \in Reader, Join(c) \/ Read(c) \/ Take(c) \/ Quit(c)
          PROVE  UNCHANGED <<track, shown>>
      BY <3>3 DEF Join, Read, Take, Quit
    <3>4. ASSUME Expire
          PROVE  UNCHANGED <<track, shown>>
      BY <3>4 DEF Expire
    <3> QED BY <2>2, <3>1, <3>2, <3>3, <3>4 DEF Next, Tracker
  <2> QED BY <2>1, <2>2
<1> QED BY <1>1, <1>2, <1>3, <1>4, <1>5

(* In a session with one chain of track tasks no merged observation is     *)
(* lost again, and no published position is followed by an earlier one     *)
(* (services/surveillance_svc.py, TrafficDataFuser).                       *)
THEOREM Grow == Spec => TracksOnlyGrow
<1>1. IInv /\ [Next]_vars =>
        \A s \in Session, a \in Aircraft : Sole(s) =>
          /\ track[s][a].ids \subseteq track'[s][a].ids
          /\ track[s][a].last <= track'[s][a].last
          /\ shown[s][a] <= shown'[s][a]
  BY GrowStep
<1> QED BY <1>1, Invariant, PTL DEF Spec, TracksOnlyGrow

=============================================================================
