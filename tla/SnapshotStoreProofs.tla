------------------------- MODULE SnapshotStoreProofs -------------------------
(***************************************************************************)
(* Theorems of SnapshotStore and of the warm-up on top of it, for any      *)
(* cameras and readers and any number of writes.                           *)
(***************************************************************************)
EXTENDS StartupWarmup, FiniteSetTheorems, SequenceTheorems, TLAPS

\* A write between Begin and its end; only one exists, and only while the process
\* runs: everything called before it is done, everything called after it waits.
Busy == {"imaging", "imaged", "indexing", "indexed"}

Serialized ==
  /\ \A v, w \in Writes :
       v < w => /\ stage[w] # "uncalled" => stage[v] # "uncalled"
                /\ stage[w] \in Busy \cup {"done"} => stage[v] = "done"
  /\ \A w \in Writes : stage[w] \in Busy \cup {"queued"} => up

\* What the write in progress has done to the files and to the record.
Progress ==
  \A w \in Writes :
    LET c == Camera(w) IN
    /\ stage[w] \in Busy => info[w].write = w
    /\ stage[w] \in {"imaging", "imaged"} => info[w].revision = records[c].revision + 1
    /\ stage[w] \in {"imaged", "indexing", "indexed"} => image[c] = w
    /\ stage[w] \in {"indexing", "indexed"} => records[c] = info[w]
    /\ stage[w] = "indexed" => index[c] = info[w]
    /\ stage[w] \in Busy =>
         \A a \in announced : a.camera = c => a.info.revision < info[w].revision

\* A file holds the picture of a write that got past its rename.
ImagesMade ==
  \A c \in Cameras :
    image[c] \in Writes => stage[image[c]] \notin {"uncalled", "queued", "imaging"}

\* While the process runs, its records are at least as new as the index, and what
\* it published at most as new as its records.
RecordsLead ==
  \A c \in Cameras :
    /\ up => /\ index[c].revision <= records[c].revision
             /\ index[c].write <= records[c].write
             /\ published[c].revision <= records[c].revision
    /\ ~up => records[c] = NoInfo /\ published[c] = NoInfo

StoreInv ==
  /\ TypeOK
  /\ Serialized
  /\ Progress
  /\ ImagesMade
  /\ RecordsLead
  /\ MetadataNeverAhead
  /\ AnnouncedDurable
  /\ AnnouncedUnique

-----------------------------------------------------------------------------
LEMMA InfoTypes ==
  /\ NoInfo \in Infos
  /\ \A n \in Nat, w \in Writes : [revision |-> n, write |-> w] \in Infos
  BY MaxWritesAssumption DEF NoInfo, Infos, Writes

LEMMA InitInv == Init => StoreInv
<1> SUFFICES ASSUME Init PROVE StoreInv
  OBVIOUS
<1>1. TypeOK
  <2>1. job \in [Writes -> [camera : Cameras, live : BOOLEAN]]
    <3>1. PICK c \in Cameras : job = [w \in Writes |-> [camera |-> c, live |-> TRUE]]
      BY DEF Init
    <3> QED BY <3>1
  <2>2. image \in [Cameras -> 0..MaxWrites]
    BY MaxWritesAssumption DEF Init
  <2> QED BY <2>1, <2>2, InfoTypes DEF Init, TypeOK, Stages
<1>2. Serialized /\ Progress /\ ImagesMade /\ RecordsLead
  BY MaxWritesAssumption
     DEF Init, Serialized, Progress, ImagesMade, RecordsLead, Busy, Writes, NoInfo
<1>3. MetadataNeverAhead /\ AnnouncedDurable /\ AnnouncedUnique
  BY DEF Init, MetadataNeverAhead, AnnouncedDurable, AnnouncedUnique, NoInfo
<1> QED BY <1>1, <1>2, <1>3 DEF StoreInv

\* The process stops: the disk and the announcements remain.
LEMMA StopInv ==
  ASSUME StoreInv, Stop
  PROVE  StoreInv'
<1>1. TypeOK'
  BY InfoTypes DEF StoreInv, TypeOK, Stop, disk, Stages
<1>2. Serialized' /\ Progress'
  BY DEF StoreInv, TypeOK, Stop, Serialized, Progress, Busy, Camera
<1>3. ImagesMade' /\ RecordsLead'
  BY DEF StoreInv, TypeOK, Stop, disk, ImagesMade, RecordsLead
<1>4. MetadataNeverAhead' /\ AnnouncedDurable' /\ AnnouncedUnique'
  BY DEF StoreInv, TypeOK, Stop, disk, MetadataNeverAhead, AnnouncedDurable, AnnouncedUnique,
         NoInfo
<1> QED BY <1>1, <1>2, <1>3, <1>4 DEF StoreInv

LEMMA CallInv ==
  ASSUME StoreInv, NEW w \in Writes, NEW c \in Cameras, NEW live \in BOOLEAN, Call(w, c, live)
  PROVE  StoreInv'
<1> USE DEF StoreInv, Call, Advance
<1>1. TypeOK'
  BY DEF TypeOK, memory, disk, Stages
<1>2. Serialized'
  BY DEF TypeOK, memory, Serialized, Busy, Writes
<1>3. Progress' /\ ImagesMade'
  BY DEF TypeOK, memory, disk, Progress, ImagesMade, Busy, Camera
<1>4. RecordsLead' /\ MetadataNeverAhead' /\ AnnouncedDurable' /\ AnnouncedUnique'
  BY DEF memory, disk, RecordsLead, MetadataNeverAhead, AnnouncedDurable, AnnouncedUnique
<1> QED BY <1>1, <1>2, <1>3, <1>4

\* No announcement of the camera has a revision beyond its record.
LEMMA AnnouncedBound ==
  ASSUME StoreInv, up, NEW a \in announced
  PROVE  a.info.revision <= records[a.camera].revision
  BY DEF StoreInv, TypeOK, Infos, AnnouncedDurable, RecordsLead

LEMMA BeginInv ==
  ASSUME StoreInv, NEW w \in Writes, Begin(w)
  PROVE  StoreInv'
<1> USE DEF StoreInv, Begin, Advance
<1>1. TypeOK'
  <2>1. records[Camera(w)].revision + 1 \in Nat
    BY DEF TypeOK, Infos, Camera
  <2>2. info' \in [Writes -> Infos]
    BY <2>1, InfoTypes DEF TypeOK
  <2> QED BY <2>2 DEF TypeOK, memory, disk, Stages
<1>2. Serialized'
  BY DEF TypeOK, memory, Serialized, Busy, Writes
<1>3. up /\ \A v \in Writes : v # w => stage[v] \notin Busy
  BY DEF Serialized, Busy, Writes
<1>4. Progress'
  <2>1. \A a \in announced : a.camera = Camera(w) => a.info.revision < info'[w].revision
    BY <1>3, AnnouncedBound DEF TypeOK, Infos, Camera
  <2> QED BY <1>3, <2>1 DEF TypeOK, memory, disk, Progress, Busy, Camera
<1>5. ImagesMade'
  BY DEF TypeOK, disk, ImagesMade
<1>6. RecordsLead' /\ MetadataNeverAhead' /\ AnnouncedDurable' /\ AnnouncedUnique'
  BY DEF memory, disk, RecordsLead, MetadataNeverAhead, AnnouncedDurable, AnnouncedUnique
<1> QED BY <1>1, <1>2, <1>4, <1>5, <1>6

\* The write in progress finds every later picture still waiting.
LEMMA ImageRenamedInv ==
  ASSUME StoreInv, NEW w \in Writes, ImageRenamed(w)
  PROVE  StoreInv' /\ image[Camera(w)] < w
<1> DEFINE c == Camera(w)
<1> USE DEF StoreInv, ImageRenamed, Advance
<1>1. TypeOK'
  BY MaxWritesAssumption DEF TypeOK, memory, Stages, Writes, Camera
<1>2. Serialized'
  BY DEF TypeOK, memory, Serialized, Busy, Writes
<1>3. image[c] < w
  <2>1. c \in Cameras /\ image[c] \in Nat /\ w \in Nat
    BY MaxWritesAssumption DEF TypeOK, Camera, Writes
  <2>2. CASE image[c] \in Writes
    <3>1. stage[image[c]] \notin {"uncalled", "queued", "imaging"}
      BY <2>1, <2>2 DEF ImagesMade
    <3>2. ~(w < image[c]) /\ w # image[c]
      BY <2>2, <3>1 DEF TypeOK, Stages, Serialized, Busy
    <3> QED BY <2>1, <3>2
  <2>3. CASE image[c] = 0
    BY <2>1, <2>3 DEF Writes
  <2> QED BY <2>1, <2>2, <2>3, MaxWritesAssumption DEF TypeOK, Writes
<1>4. \A v \in Writes : v # w => stage[v] \notin Busy
  BY DEF Serialized, Busy, Writes
<1>5. Progress' /\ ImagesMade'
  BY <1>4 DEF TypeOK, memory, Progress, ImagesMade, Busy, Camera
<1>6. MetadataNeverAhead'
  <2>1. \A x \in Cameras : image'[x] \in Nat /\ image[x] \in Nat /\ image'[x] >= image[x]
    BY <1>1, <1>3, MaxWritesAssumption DEF TypeOK, Camera, Writes
  <2>2. \A x \in Cameras, i \in Infos : image[x] >= i.write => image'[x] >= i.write
    BY <2>1, MaxWritesAssumption DEF Infos
  <2>3. \A x \in Cameras : image'[x] >= records'[x].write /\ image'[x] >= index'[x].write
    BY <2>2 DEF TypeOK, memory, MetadataNeverAhead
  <2>4. \A r \in Readers : reads[r] # NoRead => reads[r].camera \in Cameras /\ reads[r].info \in Infos
    BY DEF TypeOK, Reads
  <2> QED BY <2>2, <2>3, <2>4 DEF MetadataNeverAhead
<1>7. RecordsLead' /\ AnnouncedDurable' /\ AnnouncedUnique'
  BY DEF memory, RecordsLead, AnnouncedDurable, AnnouncedUnique
<1> QED BY <1>1, <1>2, <1>3, <1>5, <1>6, <1>7

LEMMA RecordSetInv ==
  ASSUME StoreInv, NEW w \in Writes, RecordSet(w)
  PROVE  StoreInv'
<1> USE DEF StoreInv, RecordSet, Advance
<1>1. TypeOK'
  BY DEF TypeOK, disk, Stages, Camera
<1>2. Serialized'
  BY DEF TypeOK, Serialized, Busy, Writes
<1>3. up /\ \A v \in Writes : v # w => stage[v] \notin Busy
  BY DEF Serialized, Busy, Writes
<1>4. Progress' /\ ImagesMade'
  BY <1>3 DEF TypeOK, disk, Progress, ImagesMade, Busy, Camera
<1>5. /\ info[w].revision = records[Camera(w)].revision + 1
      /\ info[w].write = w /\ image[Camera(w)] = w
  BY DEF Progress, Busy
<1>6. MetadataNeverAhead'
  BY <1>5 DEF TypeOK, disk, MetadataNeverAhead, Writes
<1>7. records[Camera(w)].write <= w
  BY <1>5 DEF TypeOK, MetadataNeverAhead, Camera
<1>8. RecordsLead'
  BY SMTT(30), <1>3, <1>5, <1>7 DEF TypeOK, Infos, disk, RecordsLead, Writes, Camera
<1>9. AnnouncedDurable' /\ AnnouncedUnique'
  BY DEF disk, AnnouncedDurable, AnnouncedUnique
<1> QED BY <1>1, <1>2, <1>4, <1>6, <1>8, <1>9

LEMMA IndexRenamedInv ==
  ASSUME StoreInv, NEW w \in Writes, IndexRenamed(w)
  PROVE  StoreInv' /\ \A c \in Cameras : index'[c].write >= index[c].write
<1> USE DEF StoreInv, IndexRenamed, Advance
<1>1. TypeOK'
  BY DEF TypeOK, memory, Stages
<1>2. Serialized'
  BY DEF TypeOK, memory, Serialized, Busy, Writes
<1>3. up /\ \A v \in Writes : v # w => stage[v] \notin Busy
  BY DEF Serialized, Busy, Writes
<1>4. Progress' /\ ImagesMade'
  BY <1>3 DEF TypeOK, memory, Progress, ImagesMade, Busy, Camera
<1>5. \A c \in Cameras : index'[c].write >= index[c].write /\ index'[c].revision >= index[c].revision
  BY <1>3 DEF TypeOK, Infos, RecordsLead
<1>6. MetadataNeverAhead' /\ RecordsLead'
  BY <1>3 DEF TypeOK, Infos, memory, MetadataNeverAhead, RecordsLead
<1>7. AnnouncedDurable' /\ AnnouncedUnique'
  BY <1>5 DEF TypeOK, Infos, AnnouncedDurable, AnnouncedUnique
<1> QED BY <1>1, <1>2, <1>4, <1>5, <1>6, <1>7

LEMMA AnnounceInv ==
  ASSUME StoreInv, NEW w \in Writes, Announce(w)
  PROVE  StoreInv' /\ up /\ published'[Camera(w)] = records[Camera(w)]
<1> DEFINE new == [camera |-> Camera(w), info |-> info[w]]
<1> USE DEF StoreInv, Announce, Advance
<1>1. TypeOK'
  BY DEF TypeOK, disk, Stages, Camera
<1>2. Serialized'
  BY DEF TypeOK, Serialized, Busy, Writes
<1>3. up /\ \A v \in Writes : v # w => stage[v] \notin Busy
  BY DEF Serialized, Busy, Writes
<1>4. Progress' /\ ImagesMade'
  BY <1>3 DEF TypeOK, disk, Progress, ImagesMade, Busy, Camera
<1>5. records[Camera(w)] = info[w] /\ index[Camera(w)] = info[w]
  BY DEF Progress
<1>6. RecordsLead' /\ MetadataNeverAhead'
  BY <1>3, <1>5 DEF TypeOK, Infos, disk, RecordsLead, MetadataNeverAhead, Camera
<1>7. AnnouncedDurable'
  BY <1>5 DEF TypeOK, Infos, disk, AnnouncedDurable, Camera
<1>8. \A a \in announced : a.camera = Camera(w) => a.info.revision < info[w].revision
  BY DEF Progress, Busy
<1>9. AnnouncedUnique'
  <2> SUFFICES ASSUME NEW a \in announced', NEW b \in announced', a.camera = b.camera,
                      a.info.revision = b.info.revision
               PROVE  a = b
    BY DEF AnnouncedUnique
  <2>1. CASE a \in announced /\ b \in announced
    BY <2>1 DEF AnnouncedUnique
  <2>2. \A x \in announced : x.camera = new.camera => x.info.revision # new.info.revision
    BY <1>8 DEF TypeOK, Infos
  <2> QED BY <2>1, <2>2
<1>10. published'[Camera(w)] = records[Camera(w)]
  BY <1>5 DEF TypeOK, Camera
<1> QED BY <1>1, <1>2, <1>3, <1>4, <1>6, <1>7, <1>9, <1>10

LEMMA WriteFailsInv ==
  ASSUME StoreInv, NEW w \in Writes, WriteFails(w)
  PROVE  StoreInv'
<1>1. CASE Stop
  BY <1>1, StopInv
<1>2. CASE /\ stage' = [stage EXCEPT ![w] = "done"]
           /\ UNCHANGED <<memory, job, info, reads, disk, announced>>
  <2> USE <1>2 DEF StoreInv, WriteFails
  <2>1. TypeOK'
    BY DEF TypeOK, memory, disk, Stages
  <2>2. Serialized'
    BY DEF TypeOK, memory, Serialized, Busy, Writes
  <2>3. Progress' /\ ImagesMade'
    BY DEF TypeOK, memory, disk, Progress, ImagesMade, Busy, Camera
  <2>4. RecordsLead' /\ MetadataNeverAhead' /\ AnnouncedDurable' /\ AnnouncedUnique'
    BY DEF memory, disk, RecordsLead, MetadataNeverAhead, AnnouncedDurable, AnnouncedUnique
  <2> QED BY <2>1, <2>2, <2>3, <2>4
<1> QED BY <1>1, <1>2 DEF WriteFails

LEMMA ReadInv ==
  ASSUME StoreInv, NEW r \in Readers, ReadEnds(r) \/ \E c \in Cameras : ReadBegins(r, c)
  PROVE  StoreInv'
<1> USE DEF StoreInv, ReadEnds, ReadBegins
<1>1. TypeOK'
  BY DEF TypeOK, memory, calls, disk, Reads
<1>2. Serialized' /\ Progress' /\ ImagesMade'
  BY DEF memory, calls, disk, Serialized, Progress, ImagesMade, Camera
<1>3. MetadataNeverAhead'
  <2>1. \A x \in Readers : reads'[x] # NoRead =>
          \/ reads[x] # NoRead /\ reads'[x] = reads[x]
          \/ \E c \in Cameras : reads'[x] = [camera |-> c, info |-> records[c]]
    BY DEF TypeOK
  <2>2. image' = image /\ index' = index /\ records' = records
    BY DEF memory, disk
  <2>3. \A x \in Readers : reads'[x] # NoRead =>
          image[reads'[x].camera] >= reads'[x].info.write
    <3> SUFFICES ASSUME NEW x \in Readers, reads'[x] # NoRead
                 PROVE  image[reads'[x].camera] >= reads'[x].info.write
      OBVIOUS
    <3>1. CASE reads[x] # NoRead /\ reads'[x] = reads[x]
      BY <3>1 DEF MetadataNeverAhead
    <3>2. CASE \E c \in Cameras : reads'[x] = [camera |-> c, info |-> records[c]]
      <4>1. PICK c \in Cameras : reads'[x] = [camera |-> c, info |-> records[c]]
        BY <3>2
      <4>2. reads'[x].camera = c /\ reads'[x].info = records[c]
        BY <4>1
      <4> QED BY <4>2 DEF MetadataNeverAhead
    <3> QED BY <2>1, <3>1, <3>2
  <2> QED BY <2>2, <2>3 DEF MetadataNeverAhead
<1>4. RecordsLead' /\ AnnouncedDurable' /\ AnnouncedUnique'
  BY DEF memory, disk, RecordsLead, AnnouncedDurable, AnnouncedUnique
<1> QED BY <1>1, <1>2, <1>3, <1>4

LEMMA RegisterInv ==
  ASSUME StoreInv, NEW c \in Cameras, Register(c)
  PROVE  StoreInv'
<1> USE DEF StoreInv, Register
<1>1. TypeOK'
  BY DEF TypeOK, calls, disk
<1>2. Serialized' /\ Progress' /\ ImagesMade'
  BY DEF calls, disk, Serialized, Progress, ImagesMade, Camera
<1>3. RecordsLead'
  BY DEF TypeOK, Infos, disk, RecordsLead
<1>4. MetadataNeverAhead' /\ AnnouncedDurable' /\ AnnouncedUnique'
  BY DEF disk, MetadataNeverAhead, AnnouncedDurable, AnnouncedUnique
<1> QED BY <1>1, <1>2, <1>3, <1>4

LEMMA RestartInv ==
  ASSUME StoreInv, Restart
  PROVE  StoreInv'
<1> USE DEF StoreInv, Restart
<1>1. TypeOK'
  BY DEF TypeOK, calls, disk
<1>2. \A w \in Writes : stage[w] \notin Busy \cup {"queued"}
  BY DEF Serialized
<1>3. Serialized' /\ Progress' /\ ImagesMade'
  BY <1>2 DEF calls, disk, Serialized, Progress, ImagesMade, Camera, Busy
<1>4. RecordsLead' /\ MetadataNeverAhead'
  BY DEF TypeOK, Infos, NoInfo, disk, RecordsLead, MetadataNeverAhead
<1>5. AnnouncedDurable' /\ AnnouncedUnique'
  BY DEF disk, AnnouncedDurable, AnnouncedUnique
<1> QED BY <1>1, <1>3, <1>4, <1>5

LEMMA NextInv == StoreInv /\ [StoreNext]_storeVars => StoreInv'
<1> SUFFICES ASSUME StoreInv, [StoreNext]_storeVars PROVE StoreInv'
  OBVIOUS
<1>1. CASE \E w \in Writes : \E c \in Cameras, live \in BOOLEAN : Call(w, c, live)
  BY <1>1, CallInv
<1>2. CASE \E w \in Writes : Step(w) \/ WriteFails(w)
  BY <1>2, BeginInv, ImageRenamedInv, RecordSetInv, IndexRenamedInv, AnnounceInv, WriteFailsInv
     DEF Step
<1>3. CASE \E r \in Readers : (\E c \in Cameras : ReadBegins(r, c)) \/ ReadEnds(r)
  BY <1>3, ReadInv
<1>4. CASE \E c \in Cameras : Register(c)
  BY <1>4, RegisterInv
<1>5. CASE Crash \/ Restart
  BY <1>5, StopInv, RestartInv DEF Crash
<1>6. CASE UNCHANGED storeVars
  BY <1>6 DEF storeVars, memory, calls, disk, StoreInv, TypeOK, Serialized, Progress, ImagesMade,
              RecordsLead, MetadataNeverAhead, AnnouncedDurable, AnnouncedUnique, Camera
<1> QED BY <1>1, <1>2, <1>3, <1>4, <1>5, <1>6 DEF StoreNext

LEMMA AlwaysInv == StoreSpec => []StoreInv
  BY InitInv, NextInv, PTL DEF StoreSpec

\* Every variable of the store keeps its type, whatever crashes and failures.
THEOREM StoreTypes == StoreSpec => []TypeOK
<1>1. StoreInv => TypeOK
  BY DEF StoreInv
<1> QED BY <1>1, AlwaysInv, PTL

\* The order of the two renames in SnapshotStore.write: metadata, in memory or
\* after a restart, never describes a picture the file does not hold yet.
THEOREM MetadataBehindImage == StoreSpec => []MetadataNeverAhead
<1>1. StoreInv => MetadataNeverAhead
  BY DEF StoreInv
<1> QED BY <1>1, AlwaysInv, PTL

\* What write() returned, and a snapshot-updated event announced, survives a crash.
THEOREM AnnouncementsDurable == StoreSpec => []AnnouncedDurable
<1>1. StoreInv => AnnouncedDurable
  BY DEF StoreInv
<1> QED BY <1>1, AlwaysInv, PTL

\* No two announced pictures of a camera share a revision, across restarts too.
THEOREM RevisionsUnique == StoreSpec => []AnnouncedUnique
<1>1. StoreInv => AnnouncedUnique
  BY DEF StoreInv
<1> QED BY <1>1, AlwaysInv, PTL

\* The write queue keeps the pictures of a camera in the order of the calls, in
\* its file and in the index.
THEOREM PicturesOrdered == StoreSpec => PicturesInOrder
<1> DEFINE Ordered ==
      \A c \in Cameras : image'[c] >= image[c] /\ index'[c].write >= index[c].write
<1>1. ASSUME StoreInv, [StoreNext]_storeVars PROVE Ordered
  <2>1. \A c \in Cameras : image[c] \in Nat /\ index[c].write \in Nat
    BY <1>1, MaxWritesAssumption DEF StoreInv, TypeOK, Infos
  <2>2. CASE image' = image /\ index' = index
    BY <2>1, <2>2
  <2>3. CASE \E w \in Writes : ImageRenamed(w)
    <3>1. PICK w \in Writes : ImageRenamed(w)
      BY <2>3
    <3>2. image[Camera(w)] < w /\ image' = [image EXCEPT ![Camera(w)] = w] /\ index' = index
      BY <1>1, <3>1, ImageRenamedInv DEF ImageRenamed
    <3> QED BY <1>1, <2>1, <3>2, MaxWritesAssumption DEF StoreInv, TypeOK, Writes
  <2>4. CASE \E w \in Writes : IndexRenamed(w)
    BY <1>1, <2>1, <2>4, IndexRenamedInv DEF IndexRenamed
  <2> QED BY <1>1, <2>2, <2>3, <2>4
          DEF StoreNext, Step, Call, Begin, RecordSet, Announce, WriteFails, ReadBegins, ReadEnds,
              Register, Crash, Restart, Stop, disk, storeVars
<1>2. StoreInv /\ [StoreNext]_storeVars => [Ordered]_storeVars
  BY <1>1
<1> QED BY <1>2, AlwaysInv, PTL DEF StoreSpec, PicturesInOrder

\* The revision GatewayState publishes only grows while the process runs, also
\* when a new login restores it from the records of an unfinished write.
THEOREM PublishedGrows == StoreSpec => PublishedAdvances
<1> DEFINE Grows == up' => \A c \in Cameras : published'[c].revision >= published[c].revision
<1>1. ASSUME StoreInv, [StoreNext]_storeVars PROVE Grows
  <2> SUFFICES ASSUME up' PROVE \A c \in Cameras : published'[c].revision >= published[c].revision
    OBVIOUS
  <2>1. \A c \in Cameras : published[c].revision \in Nat /\ records[c].revision \in Nat
    BY <1>1 DEF StoreInv, TypeOK, Infos
  <2>2. CASE published' = published
    BY <2>1, <2>2
  <2>3. CASE \E w \in Writes : Announce(w)
    <3>1. PICK w \in Writes : Announce(w)
      BY <2>3
    <3>2. up /\ published'[Camera(w)] = records[Camera(w)]
      BY <1>1, <3>1, AnnounceInv
    <3>3. \A c \in Cameras : c # Camera(w) => published'[c] = published[c]
      BY <1>1, <3>1 DEF StoreInv, TypeOK, Announce
    <3>4. \A c \in Cameras : published[c].revision <= records[c].revision
      BY <1>1, <3>2 DEF StoreInv, RecordsLead
    <3>5. \A c \in Cameras : published'[c] = published[c] \/ published'[c] = records[c]
      BY <3>2, <3>3
    <3> QED BY <2>1, <3>4, <3>5
  <2>4. CASE \E c \in Cameras : Register(c)
    <3>1. PICK d \in Cameras : Register(d)
      BY <2>4
    <3>2. \A c \in Cameras : published'[c] = published[c] \/ published'[c] = records[c]
      BY <1>1, <3>1 DEF StoreInv, TypeOK, Register
    <3>3. \A c \in Cameras : published[c].revision <= records[c].revision
      BY <1>1, <3>1 DEF StoreInv, RecordsLead, Register
    <3> QED BY <2>1, <3>2, <3>3
  <2>5. CASE \E w \in Writes : WriteFails(w)
    <3>1. Stop \/ published' = published
      BY <2>5 DEF WriteFails, memory
    <3>2. ~Stop
      BY DEF Stop
    <3> QED BY <2>2, <3>1, <3>2
  <2> QED BY <1>1, <2>2, <2>3, <2>4, <2>5
          DEF StoreNext, Step, Call, Begin, ImageRenamed, RecordSet, IndexRenamed, ReadBegins,
              ReadEnds, Crash, Restart, Stop, memory, storeVars
<1>2. StoreInv /\ [StoreNext]_storeVars => [Grows]_storeVars
  BY <1>1
<1> QED BY <1>2, AlwaysInv, PTL DEF StoreSpec, PublishedAdvances

-----------------------------------------------------------------------------
(***************************************************************************)
(* The warm-up.                                                            *)
(***************************************************************************)

\* The chain holds every camera once; between start and stop it holds those that are
\* scheduled, and before start nothing.  The capture that is awaited is its first.
ChainInv ==
  /\ scheduled \subseteq Cameras /\ IsFiniteSet(scheduled)
  /\ chain \in Seq(Cameras) /\ IsInjective(chain)
  /\ capturing # NoCamera => chain # <<>> /\ capturing = Head(chain)
  /\ ~started => chain = <<>>
  /\ started /\ ~stopped => ToSet(chain) = scheduled

\* A step of the composition is a step of the store, or none that it notices.
LEMMA WarmupStoreStep == [Next]_vars => [StoreNext]_storeVars
<1> SUFFICES ASSUME [Next]_vars PROVE [StoreNext]_storeVars
  OBVIOUS
<1>1. ASSUME NEW c \in Cameras, RegisterCamera(c) \/ CaptureBegins(c) \/ CaptureEnds(c)
      PROVE  StoreNext \/ UNCHANGED storeVars
  BY <1>1 DEF RegisterCamera, CaptureBegins, CaptureEnds, StoreNext
<1>2. CASE Start \/ StopWarmup
  BY <1>2 DEF Start, StopWarmup
<1>3. CASE UNCHANGED vars
  BY <1>3 DEF vars
<1> QED BY <1>1, <1>2, <1>3 DEF Next, StoreNext

\* What the composition adds does not disturb the store: it implements StoreSpec.
THEOREM WarmupKeepsStore == Spec => StoreSpec
<1>1. WarmupInit => Init
  BY DEF WarmupInit
<1> QED BY <1>1, WarmupStoreStep, PTL DEF Spec, StoreSpec

\* So the promises of the store hold of the gateway with its warm-up too.
THEOREM StoreKeptInGateway ==
  Spec => [](MetadataNeverAhead /\ AnnouncedDurable /\ AnnouncedUnique) /\ PublishedAdvances
  BY WarmupKeepsStore, MetadataBehindImage, AnnouncementsDurable, RevisionsUnique, PublishedGrows, PTL

\* A queue that holds every element once: its tail has all but the first.
LEMMA TailOnce ==
  ASSUME NEW S, NEW q \in Seq(S), q # <<>>, IsInjective(q)
  PROVE  /\ Tail(q) \in Seq(S) /\ IsInjective(Tail(q))
         /\ ToSet(Tail(q)) = ToSet(q) \ {Head(q)}
<1> DEFINE t == Tail(q)
<1>1. /\ Len(q) \in Nat \ {0} /\ DOMAIN q = 1 .. Len(q)
      /\ t \in Seq(S) /\ Len(t) = Len(q) - 1 /\ DOMAIN t = 1 .. Len(q) - 1
      /\ \A i \in 1 .. Len(q) - 1 : t[i] = q[i + 1]
      /\ Head(q) = q[1]
  OBVIOUS
<1> HIDE DEF t
<1>2. \A i, j \in DOMAIN q : q[i] = q[j] => i = j
  BY DEF IsInjective
<1>3. \A i \in DOMAIN t : i + 1 \in DOMAIN q /\ t[i] = q[i + 1]
  BY <1>1
<1>4. ASSUME NEW i \in DOMAIN t, NEW j \in DOMAIN t, t[i] = t[j] PROVE i = j
  <2>1. i + 1 = j + 1
    BY <1>2, <1>3, <1>4
  <2> QED BY <1>1, <2>1
<1>5. ToSet(t) = ToSet(q) \ {Head(q)}
  <2>1. ASSUME NEW i \in DOMAIN t PROVE t[i] \in ToSet(q) /\ t[i] # q[1]
    <3>1. i + 1 # 1 /\ 1 \in DOMAIN q
      BY <1>1
    <3> QED BY <1>2, <1>3, <3>1 DEF ToSet
  <2>2. ASSUME NEW i \in DOMAIN q, q[i] # q[1] PROVE q[i] \in ToSet(t)
    <3>1. i - 1 \in DOMAIN t /\ (i - 1) + 1 = i
      BY <1>1, <2>2
    <3> QED BY <1>3, <3>1 DEF ToSet
  <2> QED BY <1>1, <2>1, <2>2 DEF ToSet
<1> QED BY <1>1, <1>4, <1>5 DEF IsInjective, t

LEMMA AppendOnce ==
  ASSUME NEW S, NEW q \in Seq(S), NEW e \in S, IsInjective(q), e \notin ToSet(q)
  PROVE  /\ Append(q, e) \in Seq(S) /\ IsInjective(Append(q, e))
         /\ ToSet(Append(q, e)) = ToSet(q) \cup {e}
<1> DEFINE a == Append(q, e)
<1>1. /\ Len(q) \in Nat /\ DOMAIN q = 1 .. Len(q)
      /\ a \in Seq(S) /\ DOMAIN a = 1 .. Len(q) + 1
      /\ \A i \in DOMAIN q : a[i] = q[i]
      /\ a[Len(q) + 1] = e
  OBVIOUS
<1> HIDE DEF a
<1>2. \A i \in DOMAIN a : i \in DOMAIN q \/ i = Len(q) + 1
  BY <1>1
<1>3. \A i \in DOMAIN q : a[i] # e
  BY <1>1 DEF ToSet
<1>4. ASSUME NEW i \in DOMAIN a, NEW j \in DOMAIN a, a[i] = a[j] PROVE i = j
  BY <1>1, <1>2, <1>3, <1>4 DEF IsInjective
<1>5. Len(q) + 1 \in DOMAIN a /\ DOMAIN q \subseteq DOMAIN a
  BY <1>1
<1>6. ToSet(a) = ToSet(q) \cup {e}
  BY <1>1, <1>2, <1>5 DEF ToSet
<1> QED BY <1>1, <1>4, <1>6 DEF IsInjective, a

\* The order in which start() walks the schedule has all of it, once.
LEMMA OrderOnce ==
  ASSUME NEW S, IsFiniteSet(S), NEW order \in SetToSeqs(S)
  PROVE  order \in Seq(S) /\ IsInjective(order) /\ ToSet(order) = S
<1> DEFINE n == Cardinality(S)
<1>1. n \in Nat
  BY FS_CardinalityType
<1>2. order \in [1 .. n -> S] /\ \A i, j \in 1 .. n : i # j => order[i] # order[j]
  BY DEF SetToSeqs
<1>3. IsFiniteSet(1 .. n) /\ Cardinality(1 .. n) = n
  BY <1>1, FS_Interval
<1>4. order \in Injection(1 .. n, S)
  BY <1>2 DEF Injection, IsInjective
<1>5. order \in Surjection(1 .. n, S)
  BY <1>3, <1>4, FS_Injection
<1>6. order \in Seq(S)
  BY <1>1, <1>2
<1> QED BY <1>2, <1>4, <1>5, <1>6 DEF Injection, Surjection, ToSet

LEMMA InitChain == WarmupInit => ChainInv
<1> SUFFICES ASSUME WarmupInit PROVE ChainInv
  OBVIOUS
<1>1. IsInjective(<<>>) /\ <<>> \in Seq(Cameras)
  BY DEF IsInjective
<1> QED BY <1>1, FS_EmptySet DEF WarmupInit, ChainInv

\* The first camera leaves the queue and the schedule.
LEMMA LeaveChain ==
  ASSUME ChainInv, chain # <<>>, chain' = Tail(chain), scheduled' = scheduled \ {Head(chain)},
         capturing' = NoCamera, UNCHANGED <<started, stopped>>
  PROVE  ChainInv'
<1>1. /\ Tail(chain) \in Seq(Cameras) /\ IsInjective(Tail(chain))
      /\ ToSet(Tail(chain)) = ToSet(chain) \ {Head(chain)}
  BY TailOnce DEF ChainInv
<1>2. IsFiniteSet(scheduled')
  BY FS_RemoveElement DEF ChainInv
<1> QED BY <1>1, <1>2 DEF ChainInv

LEMMA EnqueueChain ==
  ASSUME ChainInv, NEW c \in Cameras, Enqueue(c)
  PROVE  ChainInv'
<1>1. CASE stopped \/ c \in scheduled
  BY <1>1 DEF Enqueue, warmupVars, ChainInv
<1>2. CASE ~stopped /\ c \notin scheduled
  <2>1. /\ scheduled' = scheduled \cup {c}
        /\ chain' = IF started THEN Append(chain, c) ELSE chain
        /\ UNCHANGED <<capturing, started, stopped>>
    BY <1>2 DEF Enqueue
  <2>2. IsFiniteSet(scheduled')
    BY <2>1, FS_AddElement DEF ChainInv
  <2>3. CASE started
    <3>1. ToSet(chain) = scheduled
      BY <1>2, <2>3 DEF ChainInv
    <3>2. /\ chain' \in Seq(Cameras) /\ IsInjective(chain')
          /\ ToSet(chain') = ToSet(chain) \cup {c}
      BY <1>2, <2>1, <2>3, <3>1, AppendOnce DEF ChainInv
    <3>3. capturing # NoCamera => chain' # <<>> /\ Head(chain') = Head(chain)
      BY <2>1, <2>3, HeadTailAppend DEF ChainInv
    <3> QED BY <2>1, <2>2, <3>1, <3>2, <3>3 DEF ChainInv
  <2>4. CASE ~started
    BY <2>1, <2>2, <2>4 DEF ChainInv
  <2> QED BY <2>3, <2>4
<1> QED BY <1>1, <1>2

LEMMA StartChain ==
  ASSUME ChainInv, Start
  PROVE  ChainInv'
<1>1. PICK order \in SetToSeqs(scheduled) : chain' = chain \o order
  BY DEF Start
<1>2. order \in Seq(scheduled) /\ IsInjective(order) /\ ToSet(order) = scheduled
  BY OrderOnce DEF ChainInv
<1>3. chain = <<>> /\ order \in Seq(Cameras)
  BY <1>2, SeqMonotonic DEF Start, ChainInv
<1>4. chain' = order
  BY <1>1, <1>3, ConcatEmptySeq
<1> QED BY <1>2, <1>3, <1>4 DEF Start, ChainInv

LEMMA ChainStep ==
  ASSUME ChainInv, [Next]_vars
  PROVE  ChainInv'
<1>1. CASE WarmupFollows
  <2>1. IsInjective(<<>>) /\ <<>> \in Seq(Cameras)
    BY DEF IsInjective
  <2>2. CASE UNCHANGED warmupVars
    BY <2>2 DEF warmupVars, ChainInv
  <2>3. CASE /\ scheduled' = {} /\ chain' = <<>> /\ capturing' = NoCamera
             /\ started' = FALSE /\ stopped' = FALSE
    BY <2>1, <2>3, FS_EmptySet DEF ChainInv
  <2> QED BY <1>1, <2>2, <2>3 DEF WarmupFollows
<1>2. ASSUME NEW c \in Cameras, RegisterCamera(c) PROVE ChainInv'
  BY <1>2, EnqueueChain DEF RegisterCamera, warmupVars, ChainInv
<1>3. ASSUME NEW c \in Cameras, CaptureBegins(c) PROVE ChainInv'
  <2>1. chain # <<>> /\ c = Head(chain) /\ capturing = NoCamera /\ UNCHANGED <<started, stopped>>
    BY <1>3 DEF CaptureBegins
  <2>2. CASE stopped \/ published[c] # NoInfo
    BY <1>3, <2>1, <2>2, LeaveChain DEF CaptureBegins
  <2>3. CASE ~(stopped \/ published[c] # NoInfo)
    BY <1>3, <2>1, <2>3 DEF CaptureBegins, ChainInv
  <2> QED BY <2>2, <2>3
<1>4. ASSUME NEW c \in Cameras, CaptureEnds(c) PROVE ChainInv'
  <2>1. chain # <<>> /\ c = Head(chain)
    BY <1>4, NoCameraAssumption DEF CaptureEnds, ChainInv
  <2> QED BY <1>4, <2>1, LeaveChain DEF CaptureEnds
<1>5. CASE Start
  BY <1>5, StartChain
<1>6. CASE StopWarmup
  BY <1>6, FS_EmptySet DEF StopWarmup, ChainInv
<1>7. CASE UNCHANGED vars
  BY <1>7 DEF vars, warmupVars, ChainInv
<1> QED BY <1>1, <1>2, <1>3, <1>4, <1>5, <1>6, <1>7 DEF Next

\* Between start and stop the queue of the warm-up holds exactly the scheduled
\* cameras, each once, for any number of them registered in any order.
THEOREM ScheduleExact == Spec => []QueueMatchesSchedule
<1>1. ChainInv => QueueMatchesSchedule
  BY DEF ChainInv, QueueMatchesSchedule
<1> QED BY <1>1, InitChain, ChainStep, PTL DEF Spec

\* After stop() no capture begins, whatever is still queued behind the last one.
THEOREM StopsCapturing == Spec => NoCaptureAfterStop
<1>1. [Next]_vars =>
        [stopped /\ up' => capturing' \in {capturing, NoCamera}]_vars
  BY DEF Next, WarmupFollows, RegisterCamera, Enqueue, CaptureBegins, CaptureEnds, Start,
         StopWarmup, warmupVars, vars
<1> QED BY <1>1, PTL DEF Spec, NoCaptureAfterStop
=============================================================================
