---------------------------- MODULE SnapshotStore ----------------------------
(***************************************************************************)
(* The retained images of the gateway: SnapshotStore                       *)
(* (storage/snapshot-store.ts), the image metadata GatewayState publishes, *)
(* and the calls of main.ts and live-stream-manager.ts that connect them,  *)
(* through crashes and restarts.                                           *)
(*                                                                         *)
(* A write replaces a camera's image file, then its record in memory, then *)
(* the index of all records; each file is replaced by one rename, which is *)
(* atomic, and the temporary file it renames is not seen by anyone.  The   *)
(* process may stop between any two of these steps.                        *)
(*                                                                         *)
(* Writes are numbered in the order of the calls.  An image is known by    *)
(* the number of the write that made it, and so is its metadata, which     *)
(* carries the time of capture.                                            *)
(*                                                                         *)
(* A definition named Op_Defect is Op with a plausible slip; it is no part *)
(* of the specification, and serves to see that the properties can fail.   *)
(***************************************************************************)
EXTENDS Naturals

CONSTANTS
  Cameras,
  MaxWrites,  \* bound on the calls of write
  Readers,    \* HTTP requests for an image
  NoRead

Writes == 1..MaxWrites
Infos == [revision : Nat, write : 0..MaxWrites]
NoInfo == [revision |-> 0, write |-> 0]
Reads == [camera : Cameras, info : Infos]

ASSUME MaxWritesAssumption == MaxWrites \in Nat
ASSUME NoReadAssumption == NoRead \notin Reads

VARIABLES
  \* the process
  up,         \* it runs
  known,      \* cameras registered with GatewayState
  records,    \* #records of the store
  published,  \* camera.snapshot of GatewayState
  \* calls of SnapshotStore.write
  stage,      \* how far each write is
  job,        \* its camera, and whether the live stream made it
  info,       \* the metadata it computed
  reads,      \* what each read() found before it awaits the file
  \* the disk
  image,      \* the write whose image each file holds, 0 for no file
  index,      \* index.json
  \* history
  announced   \* snapshot-updated events ever emitted

memory == <<up, known, records, published>>
calls == <<stage, job, info>>
disk == <<image, index>>
storeVars == <<memory, calls, reads, disk, announced>>

\* queued: waits for #writeQueue; imaging: awaits the image's rename; imaged: that
\* is done; indexing: awaits the index's rename; indexed: that is done.
Stages == {"uncalled", "queued", "imaging", "imaged", "indexing", "indexed", "done"}

TypeOK ==
  /\ up \in BOOLEAN
  /\ known \subseteq Cameras
  /\ records \in [Cameras -> Infos]
  /\ published \in [Cameras -> Infos]
  /\ stage \in [Writes -> Stages]
  /\ job \in [Writes -> [camera : Cameras, live : BOOLEAN]]
  /\ info \in [Writes -> Infos]
  /\ reads \in [Readers -> Reads \cup {NoRead}]
  /\ image \in [Cameras -> 0..MaxWrites]
  /\ index \in [Cameras -> Infos]
  /\ announced \subseteq [camera : Cameras, info : Infos]

Init ==
  /\ up = TRUE
  /\ known = {}
  /\ records = [c \in Cameras |-> NoInfo]
  /\ published = [c \in Cameras |-> NoInfo]
  /\ stage = [w \in Writes |-> "uncalled"]
  /\ job \in {[w \in Writes |-> [camera |-> c, live |-> TRUE]] : c \in Cameras}
  /\ info = [w \in Writes |-> NoInfo]
  /\ reads = [r \in Readers |-> NoRead]
  /\ image = [c \in Cameras |-> 0]
  /\ index = [c \in Cameras |-> NoInfo]
  /\ announced = {}

-----------------------------------------------------------------------------

\* All that the process holds is gone; unfinished writes never finish.
Stop ==
  /\ up' = FALSE
  /\ known' = {}
  /\ records' = [c \in Cameras |-> NoInfo]
  /\ published' = [c \in Cameras |-> NoInfo]
  /\ stage' = [w \in Writes |-> IF stage[w] = "uncalled" THEN "uncalled" ELSE "done"]
  /\ reads' = [r \in Readers |-> NoRead]
  /\ UNCHANGED <<job, info, disk, announced>>

Advance(w, from, to) ==
  /\ stage[w] = from
  /\ stage' = [stage EXCEPT ![w] = to]

Camera(w) == job[w].camera

-----------------------------------------------------------------------------
\* write(), called with a push picture or a live frame of a known camera.
Call(w, c, live) ==
  /\ up /\ c \in known
  /\ \A v \in Writes : v < w => stage[v] # "uncalled"
  /\ Advance(w, "uncalled", "queued")
  /\ job' = [job EXCEPT ![w] = [camera |-> c, live |-> live]]
  /\ UNCHANGED <<memory, info, reads, disk, announced>>

Begin_Unqueued(w) ==
  /\ Advance(w, "queued", "imaging")
  /\ info' = [info EXCEPT ![w] = [revision |-> records[Camera(w)].revision + 1, write |-> w]]
  /\ UNCHANGED <<memory, job, reads, disk, announced>>

Begin_RecordsFirst(w) ==
  /\ \A v \in Writes : v < w => stage[v] = "done"
  /\ Advance(w, "queued", "imaging")
  /\ info' = [info EXCEPT ![w] = [revision |-> records[Camera(w)].revision + 1, write |-> w]]
  /\ records' = [records EXCEPT ![Camera(w)] = info'[w]]
  /\ UNCHANGED <<up, known, published, job, reads, disk, announced>>

\* #writeQueue reaches the write, whatever became of the ones before it.
Begin(w) ==
  /\ \A v \in Writes : v < w => stage[v] = "done"
  /\ Advance(w, "queued", "imaging")
  /\ info' = [info EXCEPT ![w] = [revision |-> records[Camera(w)].revision + 1, write |-> w]]
  /\ UNCHANGED <<memory, job, reads, disk, announced>>

ImageRenamed(w) ==
  /\ Advance(w, "imaging", "imaged")
  /\ image' = [image EXCEPT ![Camera(w)] = w]
  /\ UNCHANGED <<memory, job, info, reads, index, announced>>

RecordSet_ReturnsEarly(w) ==
  /\ Advance(w, "imaged", "indexed")
  /\ records' = [records EXCEPT ![Camera(w)] = info[w]]
  /\ UNCHANGED <<up, known, published, job, info, reads, disk, announced>>

\* The record is replaced, and the index composed from all records.
RecordSet(w) ==
  /\ Advance(w, "imaged", "indexing")
  /\ records' = [records EXCEPT ![Camera(w)] = info[w]]
  /\ UNCHANGED <<up, known, published, job, info, reads, disk, announced>>

IndexRenamed(w) ==
  /\ Advance(w, "indexing", "indexed")
  /\ index' = records
  /\ UNCHANGED <<memory, job, info, reads, image, announced>>

\* write() resolves and its caller publishes the metadata: updateSnapshot.
Announce(w) ==
  /\ Advance(w, "indexed", "done")
  /\ published' = [published EXCEPT ![Camera(w)] = info[w]]
  /\ announced' = announced \cup {[camera |-> Camera(w), info |-> info[w]]}
  /\ UNCHANGED <<up, known, records, job, info, reads, disk>>

WriteFails_Retries(w) ==
  /\ stage[w] \in {"imaging", "indexing"}
  /\ IF job[w].live
       THEN /\ stage' = [stage EXCEPT ![w] = "queued"]
            /\ UNCHANGED <<memory, job, info, reads, disk, announced>>
       ELSE Stop

\* A file cannot be written or renamed and write() rejects. The stream manager
\* reports it; main.ts has no handler for a push picture, so Node ends the
\* process on the unhandled rejection.
WriteFails(w) ==
  /\ stage[w] \in {"imaging", "indexing"}
  /\ IF job[w].live
       THEN /\ stage' = [stage EXCEPT ![w] = "done"]
            /\ UNCHANGED <<memory, job, info, reads, disk, announced>>
       ELSE Stop

\* read() takes the record, then awaits the file.
ReadBegins(r, c) ==
  /\ up /\ c \in known
  /\ reads[r] = NoRead
  /\ records[c] # NoInfo
  /\ reads' = [reads EXCEPT ![r] = [camera |-> c, info |-> records[c]]]
  /\ UNCHANGED <<memory, calls, disk, announced>>

ReadEnds(r) ==
  /\ reads[r] # NoRead
  /\ reads' = [reads EXCEPT ![r] = NoRead]
  /\ UNCHANGED <<memory, calls, disk, announced>>

\* The provider reports a camera of the inventory, more than once when a login is
\* completed again: registerCamera, and restoreSnapshot of a retained image.
Register(c) ==
  /\ up
  /\ known' = known \cup {c}
  /\ published' = [published EXCEPT ![c] = IF records[c] = NoInfo THEN @ ELSE records[c]]
  /\ UNCHANGED <<up, records, calls, reads, disk, announced>>

Crash ==
  /\ up
  /\ Stop

\* initialize() of the next process.
Restart ==
  /\ ~up
  /\ up' = TRUE
  /\ records' = index
  /\ UNCHANGED <<known, published, calls, reads, disk, announced>>

Step(w) ==
  Begin(w) \/ ImageRenamed(w) \/ RecordSet(w) \/ IndexRenamed(w) \/ Announce(w)

StoreNext ==
  \/ \E w \in Writes : \E c \in Cameras, live \in BOOLEAN : Call(w, c, live)
  \/ \E w \in Writes : Step(w) \/ WriteFails(w)
  \/ \E r \in Readers : (\E c \in Cameras : ReadBegins(r, c)) \/ ReadEnds(r)
  \/ \E c \in Cameras : Register(c)
  \/ Crash \/ Restart

StoreSpec == Init /\ [][StoreNext]_storeVars

-----------------------------------------------------------------------------
(***************************************************************************)
(* Properties.                                                             *)
(***************************************************************************)

\* Metadata is never ahead of the image file, in memory, on disk or in the hands
\* of a reader: whatever crash, what it describes is in the file or was replaced
\* by a later picture, and a record never lacks its file.
MetadataNeverAhead ==
  /\ \A c \in Cameras : image[c] >= records[c].write /\ image[c] >= index[c].write
  /\ \A r \in Readers : reads[r] # NoRead => image[reads[r].camera] >= reads[r].info.write

\* "write returns only after both the image and index have been replaced": what a
\* snapshot-updated event announced is not lost by a crash.
AnnouncedDurable ==
  \A a \in announced : index[a.camera].revision >= a.info.revision

\* The revision is the ETag of an image: no two announced pictures of a camera
\* share one, before or after a restart.
AnnouncedUnique ==
  \A a, b \in announced :
    a.camera = b.camera /\ a.info.revision = b.info.revision => a = b

\* Pictures of a camera replace each other in the order of the calls.
PicturesInOrder ==
  [][\A c \in Cameras : image'[c] >= image[c] /\ index'[c].write >= index[c].write]_storeVars

\* The revision that GatewayState publishes never goes back while the process
\* runs; captures tell a fresh picture by a greater revision.
PublishedAdvances ==
  [][up' => \A c \in Cameras : published'[c].revision >= published[c].revision]_storeVars

\* A write that was called is carried out or fails, however the ones before it
\* in #writeQueue end.
WritesFinish == \A w \in Writes : stage[w] = "queued" ~> stage[w] = "done"
=============================================================================
