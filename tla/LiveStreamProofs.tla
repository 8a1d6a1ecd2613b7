-------------------------- MODULE LiveStreamProofs --------------------------
(***************************************************************************)
(* Theorems of LiveStream, for any sets of viewers, tasks and sessions.    *)
(***************************************************************************)
EXTENDS LiveStream, FiniteSetTheorems, TLAPS

\* Types, the lease count and the idle timer are inductive only together: the
\* counter stays a natural number because it counts tasks, and the timer stays
\* safe because a task that gives a lease back still holds one.
\* A failed start sends its caller to its finally block, so it also matters that
\* a task that awaits a start is in progress, and awaits no other.
StarterWaits ==
  \A s \in Sessions :
    starter[s] \in Tasks =>
      /\ task[starter[s]] \in {"waiting", "rolling", "settled", "recorded"}
      /\ \A t \in Sessions : starter[t] = starter[s] => t = s

LeaseInv == TypeOK /\ LeasesCounted /\ IdleTimerSafe /\ StarterWaits

-----------------------------------------------------------------------------

\* Settling tasks that are in progress keeps them in progress.
LEMMA SettleActive ==
  ASSUME TypeOK, NEW F \in SUBSET Active
  PROVE  /\ Settle(F) \in [Tasks -> TaskStates]
         /\ \A k \in Tasks : Settle(F)[k] = "absent" <=> task[k] = "absent"
  BY DEF TypeOK, Settle, Active, TaskStates

LEMMA CollectingActive ==
  ASSUME TypeOK
  PROVE  Collecting \in SUBSET Active
  BY DEF TypeOK, Collecting, Active, Tasks

\* A step that starts and ends no task leaves the lease count right.
LEMMA SameTasks ==
  ASSUME \A k \in Tasks : task'[k] = "absent" <=> task[k] = "absent"
  PROVE  Active' = Active
  BY DEF Active

\* A task in progress holds a lease.
LEMMA LeaseHeld ==
  ASSUME TypeOK, LeasesCounted, NEW k \in Tasks, task[k] # "absent"
  PROVE  /\ leases - 1 \in Nat
         /\ leases - 1 = Cardinality(Active \ {k})
<1>1. IsFiniteSet(Active) /\ k \in Active
  BY FiniteTasks, FS_Subset DEF Active
<1>2. Cardinality(Active \ {k}) = Cardinality(Active) - 1
  BY <1>1, FS_RemoveElement
<1>3. Cardinality(Active \ {k}) \in Nat
  BY <1>1, FS_RemoveElement, FS_CardinalityType
<1> QED BY <1>2, <1>3 DEF LeasesCounted, TypeOK

LEMMA ResetTypes ==
  ASSUME TypeOK, ResetCamera
  PROVE  /\ source' \in Sessions \cup {None}
         /\ state' \in StreamStates
         /\ owned' \in BOOLEAN
         /\ clients' = {}
         /\ resp' \in [Viewers -> RespStates]
  BY DEF TypeOK, ResetCamera, EndResponses, StreamStates, RespStates

LEMMA StopTypes ==
  ASSUME TypeOK, StopStream
  PROVE  /\ open' \in [Sessions -> BOOLEAN]
         /\ linked' \in [Sessions -> BOOLEAN]
         /\ bounded' \in [Sessions -> BOOLEAN]
         /\ mapped' \in Sessions \cup {None}
         /\ ending' \subseteq Sessions
         /\ source' \in Sessions \cup {None}
         /\ state' \in StreamStates
         /\ owned' \in BOOLEAN
         /\ clients' = {}
         /\ resp' \in [Viewers -> RespStates]
<1>1. ResetCamera
  BY DEF StopStream
<1> QED BY <1>1, ResetTypes DEF TypeOK, StopStream, CloseSessions

LEMMA EnsureTypes ==
  ASSUME TypeOK, NEW c \in Callers, NEW refused \in BOOLEAN, EnsureStarted(c, refused)
  PROVE  /\ open' \in [Sessions -> BOOLEAN]
         /\ linked' \in [Sessions -> BOOLEAN]
         /\ bounded' \in [Sessions -> BOOLEAN]
         /\ mapped' \in Sessions \cup {None}
         /\ ending' \subseteq Sessions
         /\ starter' \in [Sessions -> Callers \cup {None}]
         /\ state' \in StreamStates
         /\ owned' \in BOOLEAN
<1>1. CASE UNCHANGED <<state, owned, provider>>
  BY <1>1 DEF TypeOK, provider, peers
<1>2. CASE state' = "starting" /\ owned' = TRUE /\ \E s \in Sessions : OpenSession(c, s)
  <2>1. PICK s \in Sessions : OpenSession(c, s)
    BY <1>2
  <2> QED BY <1>2, <2>1 DEF TypeOK, OpenSession, StreamStates
<1>3. CASE state' = "error" /\ owned' = FALSE /\ UNCHANGED provider
  BY <1>3 DEF TypeOK, provider, peers, StreamStates
<1> QED BY <1>1, <1>2, <1>3 DEF EnsureStarted

-----------------------------------------------------------------------------

LEMMA LeaseInit == Init => LeaseInv
<1> SUFFICES ASSUME Init PROVE LeaseInv
  OBVIOUS
<1>1. TypeOK
  BY DEF Init, TypeOK, StreamStates, RespStates, TaskStates
<1>2. Active = {}
  BY DEF Init, Active
<1>3. LeasesCounted /\ IdleTimerSafe
  BY <1>2, FS_EmptySet DEF Init, LeasesCounted, IdleTimerSafe
<1>4. StarterWaits
  BY NoneAssumption DEF Init, StarterWaits, Callers
<1> QED BY <1>1, <1>3, <1>4 DEF LeaseInv

\* A step that keeps the lease count, starts and ends no task, and leaves the
\* timer and the viewers as they were or stops both.
LEMMA QuietStep ==
  ASSUME LeaseInv, leases' = leases,
         \A k \in Tasks : task'[k] = "absent" <=> task[k] = "absent",
         timer' => timer, clients' \subseteq clients
  PROVE  LeasesCounted' /\ IdleTimerSafe'
<1>1. Active' = Active
  BY SameTasks
<1> QED BY <1>1 DEF LeaseInv, LeasesCounted, IdleTimerSafe

\* What a step may do to the starters and to the tasks they name.
LEMMA StarterStep ==
  ASSUME LeaseInv, starter' = starter,
         \A k \in Tasks : Awaiting(k) /\ task[k] \in {"waiting", "rolling", "settled", "recorded"}
           => task'[k] \in {"waiting", "rolling", "settled", "recorded"}
  PROVE  StarterWaits'
  BY DEF LeaseInv, StarterWaits, Awaiting

LEMMA SettleStep ==
  ASSUME LeaseInv, starter' = starter, NEW F,
         \A k \in Tasks : task'[k] = Settle(F)[k]
  PROVE  StarterWaits'
<1>1. \A k \in Tasks : Awaiting(k) /\ task[k] \in {"waiting", "rolling", "settled", "recorded"}
           => task'[k] \in {"waiting", "rolling", "settled", "recorded"}
  BY DEF Settle
<1> QED BY <1>1, StarterStep

LEMMA LeaseAddClient ==
  ASSUME LeaseInv, NEW v \in Viewers, AddClient(v)
  PROVE  LeaseInv'
<1>1. PICK refused \in BOOLEAN :
        /\ EnsureStarted(v, refused)
        /\ resp' = [resp EXCEPT ![v] = IF refused THEN "closing" ELSE "open"]
  BY DEF AddClient
<1>2. v \in Callers /\ TypeOK
  BY DEF Callers, LeaseInv
<1>3. TypeOK'
  BY <1>1, <1>2, EnsureTypes DEF AddClient, TypeOK, RespStates
<1>4. Active' = Active /\ leases' = leases /\ ~timer'
  BY DEF AddClient, Active
<1>5. \/ starter' = starter
      \/ \E s \in Sessions : starter' = [starter EXCEPT ![s] = v]
  BY <1>1 DEF EnsureStarted, OpenSession, provider
<1>6. v \notin Tasks
  BY ConsumersAssumption
<1>7. StarterWaits'
  BY <1>2, <1>5, <1>6 DEF LeaseInv, StarterWaits, AddClient, TypeOK
<1> QED BY <1>3, <1>4, <1>7 DEF LeaseInv, LeasesCounted, IdleTimerSafe

LEMMA LeaseRemoveClient ==
  ASSUME LeaseInv, NEW v \in Viewers, RemoveClient(v)
  PROVE  LeaseInv'
<1>1. TypeOK'
  BY DEF LeaseInv, RemoveClient, TypeOK, RespStates, provider, peers
<1>2. Active' = Active /\ leases' = leases
  BY DEF RemoveClient, Active
<1>3. IdleTimerSafe'
  BY DEF LeaseInv, RemoveClient, IdleTimerSafe, TypeOK
<1>4. StarterWaits'
  BY StarterStep DEF RemoveClient, provider
<1> QED BY <1>1, <1>2, <1>3, <1>4 DEF LeaseInv, LeasesCounted

LEMMA LeaseBeginTask ==
  ASSUME LeaseInv, NEW k \in Tasks, BeginTask(k)
  PROVE  LeaseInv'
<1>1. PICK refused \in BOOLEAN :
        /\ EnsureStarted(k, refused)
        /\ task' = [task EXCEPT ![k] = IF refused THEN "finishing" ELSE "waiting"]
  BY DEF BeginTask
<1>2. k \in Callers /\ TypeOK
  BY DEF Callers, LeaseInv
<1>3. TypeOK'
  <2>1. task' \in [Tasks -> TaskStates]
    BY <1>1, <1>2 DEF TypeOK, TaskStates
  <2>2. leases' \in Nat
    BY <1>2 DEF BeginTask, TypeOK
  <2>3. /\ open' \in [Sessions -> BOOLEAN]
        /\ linked' \in [Sessions -> BOOLEAN]
        /\ bounded' \in [Sessions -> BOOLEAN]
        /\ mapped' \in Sessions \cup {None}
        /\ ending' \subseteq Sessions
        /\ starter' \in [Sessions -> Callers \cup {None}]
        /\ state' \in StreamStates
        /\ owned' \in BOOLEAN
    BY <1>1, <1>2, EnsureTypes
  <2> QED BY <1>2, <2>1, <2>2, <2>3 DEF BeginTask, TypeOK
<1>4. Active' = Active \cup {k} /\ k \notin Active
  BY <1>1, <1>2 DEF BeginTask, Active, TypeOK
<1>5. IsFiniteSet(Active)
  BY FiniteTasks, FS_Subset DEF Active
<1>6. LeasesCounted'
  BY <1>4, <1>5, FS_AddElement DEF LeaseInv, LeasesCounted, BeginTask
<1>7. IdleTimerSafe'
  BY DEF BeginTask, IdleTimerSafe
<1>8. StarterWaits'
  <2>1. \A s \in Sessions : starter[s] # k
    BY DEF LeaseInv, StarterWaits, BeginTask
  <2>2. CASE starter' = starter
    BY <1>1, <2>1, <2>2 DEF LeaseInv, StarterWaits, TypeOK
  <2>3. CASE ~refused /\ \E s \in Sessions : starter' = [starter EXCEPT ![s] = k]
    BY <1>1, <2>1, <2>3 DEF LeaseInv, StarterWaits, TypeOK
  <2> QED BY <1>1, <2>2, <2>3 DEF EnsureStarted, OpenSession, provider
<1> QED BY <1>3, <1>6, <1>7, <1>8 DEF LeaseInv

LEMMA LeaseSnapshotUpdated ==
  ASSUME LeaseInv, NEW F \in SUBSET Captures, SnapshotUpdated(F)
  PROVE  LeaseInv'
<1>1. TypeOK /\ F \in SUBSET Active
  BY DEF LeaseInv, Active, Tasks, SnapshotUpdated
<1>2. /\ task' \in [Tasks -> TaskStates]
      /\ \A k \in Tasks : task'[k] = "absent" <=> task[k] = "absent"
  BY <1>1, SettleActive DEF SnapshotUpdated
<1>3. TypeOK'
  BY <1>1, <1>2 DEF SnapshotUpdated, TypeOK, manager, provider, peers
<1>4. leases' = leases /\ timer' = timer /\ clients' = clients
  BY DEF SnapshotUpdated, manager
<1>5. StarterWaits'
  BY SettleStep DEF SnapshotUpdated, provider
<1> QED BY <1>2, <1>3, <1>4, <1>5, QuietStep DEF LeaseInv

LEMMA LeaseWaitTimesOut ==
  ASSUME LeaseInv, NEW k \in Tasks, WaitTimesOut(k)
  PROVE  LeaseInv'
<1>1. TypeOK /\ {k} \in SUBSET Active
  BY DEF LeaseInv, Active, WaitTimesOut
<1>2. /\ task' \in [Tasks -> TaskStates]
      /\ \A j \in Tasks : task'[j] = "absent" <=> task[j] = "absent"
  BY <1>1, SettleActive DEF WaitTimesOut
<1>3. TypeOK'
  BY <1>1, <1>2 DEF WaitTimesOut, TypeOK, manager, provider, peers
<1>4. leases' = leases /\ timer' = timer /\ clients' = clients
  BY DEF WaitTimesOut, manager
<1>5. StarterWaits'
  BY SettleStep DEF WaitTimesOut, provider
<1> QED BY <1>2, <1>3, <1>4, <1>5, QuietStep DEF LeaseInv

LEMMA LeaseVideoChunk ==
  ASSUME LeaseInv, NEW slow \in SUBSET clients, NEW oversized \in SUBSET Collecting,
         VideoChunk(slow, oversized)
  PROVE  LeaseInv'
<1>1. TypeOK /\ Collecting \in SUBSET Active /\ oversized \in SUBSET Active
  BY CollectingActive DEF LeaseInv
<1>2. /\ Settle(oversized) \in [Tasks -> TaskStates]
      /\ \A k \in Tasks : Settle(oversized)[k] = "absent" <=> task[k] = "absent"
  BY <1>1, SettleActive
<1>3. /\ task' \in [Tasks -> TaskStates]
      /\ \A k \in Tasks : task'[k] = "absent" <=> task[k] = "absent"
  BY <1>1, <1>2 DEF VideoChunk, TypeOK, TaskStates, Active
<1>4. TypeOK'
  BY <1>1, <1>3 DEF VideoChunk, EndResponses, TypeOK, RespStates, manager, provider, peers
<1>5. leases' = leases /\ timer' = timer /\ clients' = clients
  BY DEF VideoChunk, manager
<1>6. StarterWaits'
  BY <1>1, StarterStep DEF VideoChunk, Settle, provider
<1> QED BY <1>3, <1>4, <1>5, <1>6, QuietStep DEF LeaseInv

LEMMA LeaseRecordingSteps ==
  ASSUME LeaseInv, NEW r \in Recordings, ClipComplete(r) \/ RemuxDone(r)
  PROVE  LeaseInv'
<1>1. r \in Tasks /\ TypeOK
  BY DEF LeaseInv, Tasks
<1>2. /\ task' \in [Tasks -> TaskStates]
      /\ \A k \in Tasks : task'[k] = "absent" <=> task[k] = "absent"
  BY <1>1 DEF ClipComplete, RemuxDone, TypeOK, TaskStates
<1>3. TypeOK'
  BY <1>1, <1>2 DEF ClipComplete, RemuxDone, TypeOK, manager, provider, peers
<1>4. leases' = leases /\ timer' = timer /\ clients' = clients
  BY DEF ClipComplete, RemuxDone, manager
<1>5. StarterWaits'
  BY <1>1, StarterStep DEF ClipComplete, RemuxDone, TypeOK, provider
<1> QED BY <1>2, <1>3, <1>4, <1>5, QuietStep DEF LeaseInv

LEMMA LeaseReleaseLease ==
  ASSUME LeaseInv, NEW k \in Tasks, ReleaseLease(k)
  PROVE  LeaseInv'
<1>1. TypeOK /\ LeasesCounted /\ task[k] = "finishing"
  BY DEF LeaseInv, ReleaseLease
<1>2. leases' \in Nat /\ leases' = Cardinality(Active \ {k})
  BY <1>1, LeaseHeld DEF ReleaseLease
<1>3. Active' = Active \ {k}
  BY <1>1 DEF ReleaseLease, Active, TypeOK
<1>4. TypeOK'
  BY <1>1, <1>2 DEF ReleaseLease, TypeOK, TaskStates, Unused, provider, peers
<1>5. leases # 0
  BY <1>1, <1>2 DEF ReleaseLease, TypeOK
<1>6. IdleTimerSafe'
  BY <1>5 DEF LeaseInv, ReleaseLease, IdleTimerSafe, Unused
<1>7. StarterWaits'
  BY <1>1, StarterStep DEF ReleaseLease, TypeOK, provider
<1> QED BY <1>2, <1>3, <1>4, <1>6, <1>7 DEF LeaseInv, LeasesCounted

LEMMA LeaseReleaseStartup ==
  ASSUME LeaseInv, NEW k \in Startups, ReleaseStartup(k)
  PROVE  LeaseInv'
<1>1. TypeOK /\ LeasesCounted /\ k \in Tasks /\ task[k] = "finishing"
  BY ConsumersAssumption DEF LeaseInv, ReleaseStartup, Tasks
<1>2. leases' \in Nat /\ leases' = Cardinality(Active \ {k})
  BY <1>1, LeaseHeld DEF ReleaseStartup
<1>3. /\ Settle(Collecting) \in [Tasks -> TaskStates]
      /\ \A j \in Tasks : Settle(Collecting)[j] = "absent" <=> task[j] = "absent"
  BY <1>1, CollectingActive, SettleActive
<1>4. /\ task' \in [Tasks -> TaskStates]
      /\ \A j \in Tasks : task'[j] = "absent" <=> task[j] = "absent" \/ j = k
  BY <1>1, <1>3 DEF ReleaseStartup, TaskStates
<1>5. Active' = Active \ {k}
  BY <1>1, <1>4 DEF Active
<1>6. StopStream /\ timer' = FALSE /\ UNCHANGED <<closed, starter>>
  BY DEF ReleaseStartup
<1>7. TypeOK'
  BY <1>1, <1>2, <1>4, <1>6, StopTypes DEF TypeOK
<1>8. StarterWaits'
  BY <1>1, <1>3, <1>6, StarterStep DEF ReleaseStartup, Settle, TypeOK
<1> QED BY <1>2, <1>5, <1>6, <1>7, <1>8 DEF LeaseInv, LeasesCounted, IdleTimerSafe

LEMMA LeaseCameraAnswers ==
  ASSUME LeaseInv, NEW s \in Sessions, CameraAnswers(s)
  PROVE  LeaseInv'
<1>1. TypeOK
  BY DEF LeaseInv
<1>2. \A k \in Tasks :
        \/ task'[k] = task[k]
        \/ /\ k = starter[s]
           /\ task[k] \in {"settled", "recorded"}
           /\ task'[k] \in {"finishing", "remuxing"}
  BY <1>1 DEF CameraAnswers, TypeOK
<1>3. \A k \in Tasks : task'[k] = "absent" <=> task[k] = "absent"
  BY <1>2
<1>4. task' \in [Tasks -> TaskStates]
  BY <1>1 DEF CameraAnswers, TypeOK, TaskStates
<1>5. TypeOK'
  BY <1>1, <1>4, NoneAssumption DEF CameraAnswers, TypeOK, StreamStates, callers
<1>6. leases' = leases /\ timer' = timer /\ clients' = clients
  BY DEF CameraAnswers
<1>7. starter' = [starter EXCEPT ![s] = None] /\ None \notin Tasks
  BY NoneAssumption DEF CameraAnswers, Callers
<1>8. StarterWaits'
  BY <1>1, <1>2, <1>7 DEF LeaseInv, StarterWaits, TypeOK
<1> QED BY <1>3, <1>5, <1>6, <1>8, QuietStep DEF LeaseInv

LEMMA LeaseStartFails ==
  ASSUME LeaseInv, NEW s \in Sessions, StartFails(s)
  PROVE  LeaseInv'
<1>1. TypeOK /\ starter' = [starter EXCEPT ![s] = None] /\ None \notin Tasks
  BY NoneAssumption DEF LeaseInv, StartFails, Callers
<1>2. \A k \in Tasks : task'[k] = IF k = starter[s] THEN "finishing" ELSE task[k]
  BY DEF StartFails
<1>3. \A k \in Tasks : k = starter[s] => task[k] # "absent"
  BY DEF LeaseInv, StarterWaits
<1>4. \A k \in Tasks : task'[k] = "absent" <=> task[k] = "absent"
  BY <1>2, <1>3
<1>5. task' \in [Tasks -> TaskStates]
  BY <1>1 DEF StartFails, TypeOK, TaskStates
<1>6. TypeOK'
  BY <1>1, <1>5 DEF StartFails, EndResponses, TypeOK, StreamStates, RespStates, peers
<1>7. leases' = leases /\ timer' = timer /\ clients' = clients
  BY DEF StartFails
<1>8. StarterWaits'
  BY <1>1, <1>2 DEF LeaseInv, StarterWaits, TypeOK
<1> QED BY <1>4, <1>6, <1>7, <1>8, QuietStep DEF LeaseInv

\* LateAnswer, LifetimeExpires and ProviderClose touch only the sessions.
LEMMA LeaseSessionSteps ==
  ASSUME LeaseInv,
         ProviderClose \/ \E s \in Sessions : LateAnswer(s) \/ LifetimeExpires(s)
  PROVE  LeaseInv'
<1>1. TypeOK'
  <2>1. ASSUME NEW s \in Sessions, LateAnswer(s) PROVE TypeOK'
    BY <2>1 DEF LeaseInv, LateAnswer, TypeOK, manager, callers
  <2>2. ASSUME NEW s \in Sessions, LifetimeExpires(s) PROVE TypeOK'
    BY <2>2 DEF LeaseInv, LifetimeExpires, CloseSessions, TypeOK, manager, callers
  <2>3. CASE ProviderClose
    BY <2>3 DEF LeaseInv, ProviderClose, CloseSessions, TypeOK, manager, callers
  <2> QED BY <2>1, <2>2, <2>3
<1>2. /\ leases' = leases /\ timer' = timer /\ clients' = clients
      /\ task' = task /\ starter' = starter
  BY DEF LateAnswer, LifetimeExpires, ProviderClose, manager, callers
<1>3. StarterWaits'
  BY <1>2, StarterStep
<1> QED BY <1>1, <1>2, <1>3, QuietStep DEF LeaseInv

LEMMA LeaseSourceEnds ==
  ASSUME LeaseInv, NEW s \in Sessions, SourceEnds(s)
  PROVE  LeaseInv'
<1>1. TypeOK
  BY DEF LeaseInv
<1>2. CASE ResetCamera /\ task' = Settle(Collecting)
  <2>1. /\ task' \in [Tasks -> TaskStates]
        /\ \A k \in Tasks : task'[k] = "absent" <=> task[k] = "absent"
    BY <1>1, <1>2, CollectingActive, SettleActive
  <2>2. TypeOK'
    BY <1>1, <1>2, <2>1, ResetTypes DEF SourceEnds, TypeOK, peers
  <2>3. leases' = leases /\ timer' = timer /\ clients' = {}
    BY <1>2 DEF SourceEnds, ResetCamera
  <2>4. StarterWaits'
    BY <1>2, SettleStep DEF SourceEnds
  <2> QED BY <2>1, <2>2, <2>3, <2>4, QuietStep DEF LeaseInv
<1>3. CASE UNCHANGED <<source, state, owned, clients, callers>>
  <2>1. TypeOK'
    BY <1>1, <1>3 DEF SourceEnds, TypeOK, callers, peers
  <2>2. /\ leases' = leases /\ timer' = timer /\ clients' = clients
        /\ task' = task /\ starter' = starter
    BY <1>3 DEF SourceEnds, callers
  <2>3. StarterWaits'
    BY <2>2, StarterStep
  <2> QED BY <2>1, <2>2, <2>3, QuietStep DEF LeaseInv
<1> QED BY <1>2, <1>3 DEF SourceEnds

\* The idle timer and a HomeBase write both stop the source.
LEMMA LeaseStops ==
  ASSUME LeaseInv, GraceExpires \/ StopStationMedia
  PROVE  LeaseInv'
<1>1. /\ TypeOK /\ StopStream
      /\ task' = Settle(Collecting)
      /\ leases' = leases /\ closed' = closed /\ starter' = starter
      /\ timer' = FALSE \/ timer' = timer
  BY DEF LeaseInv, GraceExpires, StopStationMedia
<1>2. /\ task' \in [Tasks -> TaskStates]
      /\ \A k \in Tasks : task'[k] = "absent" <=> task[k] = "absent"
  BY <1>1, CollectingActive, SettleActive
<1>3. TypeOK' /\ clients' = {}
  BY <1>1, <1>2, StopTypes DEF TypeOK
<1>4. StarterWaits'
  BY <1>1, SettleStep
<1> QED BY <1>1, <1>2, <1>3, <1>4, QuietStep DEF LeaseInv

LEMMA LeaseClose ==
  ASSUME LeaseInv, Close
  PROVE  LeaseInv'
<1> DEFINE F == Collecting \cup {k \in Captures : task[k] = "waiting"}
<1>1. TypeOK /\ F \in SUBSET Active
  BY CollectingActive DEF LeaseInv, Active, Tasks
<1>2. /\ task' \in [Tasks -> TaskStates]
      /\ \A k \in Tasks : task'[k] = "absent" <=> task[k] = "absent"
  BY <1>1, SettleActive DEF Close
<1>3. TypeOK'
  BY <1>1, <1>2 DEF Close, CloseSessions, EndResponses, TypeOK, StreamStates, RespStates, peers
<1>4. leases' = leases /\ ~timer' /\ clients' \subseteq clients /\ starter' = starter
  BY DEF Close
<1>5. StarterWaits'
  BY <1>4, SettleStep DEF Close
<1> QED BY <1>2, <1>3, <1>4, <1>5, QuietStep DEF LeaseInv

LEMMA LeaseStutter ==
  ASSUME LeaseInv, UNCHANGED vars
  PROVE  LeaseInv'
  BY DEF LeaseInv, TypeOK, LeasesCounted, IdleTimerSafe, StarterWaits, Active,
         vars, manager, provider, peers, callers

LEMMA LeaseNext == LeaseInv /\ [Next]_vars => LeaseInv'
<1> SUFFICES ASSUME LeaseInv, [Next]_vars PROVE LeaseInv'
  OBVIOUS
<1>1. CASE \E v \in Viewers : AddClient(v) \/ RemoveClient(v)
  BY <1>1, LeaseAddClient, LeaseRemoveClient
<1>2. CASE \E k \in Tasks : BeginTask(k) \/ WaitTimesOut(k) \/ ReleaseLease(k)
  BY <1>2, LeaseBeginTask, LeaseWaitTimesOut, LeaseReleaseLease
<1>3. CASE \E k \in Startups : ReleaseStartup(k)
  BY <1>3, LeaseReleaseStartup
<1>4. CASE \E F \in SUBSET Captures : SnapshotUpdated(F)
  BY <1>4, LeaseSnapshotUpdated
<1>5. CASE \E slow \in SUBSET clients :
             \E oversized \in SUBSET Collecting : VideoChunk(slow, oversized)
  BY <1>5, LeaseVideoChunk
<1>6. CASE \E r \in Recordings : ClipComplete(r) \/ RemuxDone(r)
  BY <1>6, LeaseRecordingSteps
<1>7. CASE \E s \in Sessions : CameraAnswers(s) \/ StartFails(s) \/ LateAnswer(s)
  BY <1>7, LeaseCameraAnswers, LeaseStartFails, LeaseSessionSteps
<1>8. CASE \E s \in Sessions : LifetimeExpires(s) \/ SourceEnds(s)
  BY <1>8, LeaseSessionSteps, LeaseSourceEnds
<1>9. CASE GraceExpires \/ StopStationMedia \/ Close \/ ProviderClose
  BY <1>9, LeaseStops, LeaseClose, LeaseSessionSteps
<1>10. CASE UNCHANGED vars
  BY <1>10, LeaseStutter
<1> QED BY <1>1, <1>2, <1>3, <1>4, <1>5, <1>6, <1>7, <1>8, <1>9, <1>10 DEF Next

LEMMA LeaseAlways == Spec => []LeaseInv
  BY LeaseInit, LeaseNext, PTL DEF Spec

\* Every variable of the stream model keeps its type in every reachable state, in
\* particular session.leases of live-stream-manager.ts never goes below zero.
THEOREM TypeCorrect == Spec => []TypeOK
<1>1. LeaseInv => TypeOK
  BY DEF LeaseInv
<1> QED BY <1>1, LeaseAlways, PTL

\* The lease counter is exactly the number of captures and recordings in
\* progress, whatever starts, stops, fails or times out under them.
THEOREM LeasesExact == Spec => []LeasesCounted
<1>1. LeaseInv => LeasesCounted
  BY DEF LeaseInv
<1> QED BY <1>1, LeaseAlways, PTL

\* The idle timer of scheduleStopIfUnused never runs while a viewer, a capture or
\* a recording uses the camera, so its firing cuts nobody off.
THEOREM IdleStopSafe == Spec => []IdleTimerSafe
<1>1. LeaseInv => IdleTimerSafe
  BY DEF LeaseInv
<1> QED BY <1>1, LeaseAlways, PTL

-----------------------------------------------------------------------------
(***************************************************************************)
(* One session, one source, one owner.  What the manager believes of the   *)
(* camera is tied to the provider's sessions by one invariant: every open  *)
(* session is the mapped one, the source is the mapped and linked session  *)
(* unless its end is queued, and only a starting or streaming camera is    *)
(* owned.                                                                  *)
(***************************************************************************)

SourceVars == <<state, source, owned, closed, mapped, peers, ending>>

LiveOnlyIfOpen == \A s \in Sessions : linked[s] \/ bounded[s] => open[s]

EndingIsSource == \A s \in ending : s = source /\ ~open[s]

SourceIsLinked == source # None /\ source \notin ending => mapped = source /\ linked[source]

OwnedIsBusy == owned => state \in {"starting", "streaming"} /\ ~closed

BoundedIsSource == \A s \in Sessions : bounded[s] /\ ~closed => source = s

SessionInv ==
  /\ TypeOK
  /\ OneOpenSession
  /\ BoundedIsSource
  /\ LiveOnlyIfOpen
  /\ EndingIsSource
  /\ SourceIsLinked
  /\ OwnedIsBusy
  /\ StateMatchesSource
  /\ OwnedHasSession

LEMMA SessionInit == Init => SessionInv
<1> SUFFICES ASSUME Init PROVE SessionInv
  OBVIOUS
<1>1. TypeOK
  BY LeaseInit DEF LeaseInv
<1> QED BY <1>1 DEF Init, SessionInv, OneOpenSession, LiveOnlyIfOpen, EndingIsSource,
            BoundedIsSource, SourceIsLinked, OwnedIsBusy, StateMatchesSource, OwnedHasSession

LEMMA SameSource ==
  ASSUME SessionInv, UNCHANGED SourceVars, TypeOK'
  PROVE  SessionInv'
  BY DEF SourceVars, peers, SessionInv, OneOpenSession, LiveOnlyIfOpen, EndingIsSource,
         BoundedIsSource, SourceIsLinked, OwnedIsBusy, StateMatchesSource, OwnedHasSession

\* A consumer that finds the camera stopped opens a session; otherwise it shares.
LEMMA SessionEnsureStarted ==
  ASSUME SessionInv, TypeOK', NEW c \in Callers, NEW refused \in BOOLEAN,
         EnsureStarted(c, refused), ending = {}, ~closed, UNCHANGED <<source, closed>>
  PROVE  SessionInv'
<1>1. CASE UNCHANGED <<state, owned, provider>>
  BY <1>1, SameSource DEF SourceVars, provider
<1>2. CASE /\ state \in {"idle", "error"} /\ state' = "starting" /\ owned' = TRUE
           /\ \E s \in Sessions : OpenSession(c, s)
  <2>1. PICK s \in Sessions : OpenSession(c, s)
    BY <1>2
  <2>2. /\ OneOpenSession' /\ LiveOnlyIfOpen' /\ OwnedHasSession'
    BY <2>1, NoneAssumption
       DEF SessionInv, TypeOK, OpenSession, Free, OneOpenSession, LiveOnlyIfOpen, OwnedHasSession
  <2>3. EndingIsSource'
    BY <2>1 DEF SessionInv, TypeOK, OpenSession, Free, OneOpenSession, EndingIsSource
  <2>4. SourceIsLinked'
    BY <2>1 DEF SessionInv, TypeOK, OpenSession, LiveOnlyIfOpen, SourceIsLinked
  <2>5. OwnedIsBusy' /\ StateMatchesSource'
    BY <1>2 DEF OwnedIsBusy, StateMatchesSource
  <2>6. BoundedIsSource'
    BY <2>1 DEF SessionInv, OpenSession, OneOpenSession, LiveOnlyIfOpen, BoundedIsSource
  <2> QED BY <2>2, <2>3, <2>4, <2>5, <2>6 DEF SessionInv
<1>3. CASE state' = "error" /\ owned' = FALSE /\ UNCHANGED provider
  BY <1>3 DEF provider, peers, SessionInv, OneOpenSession, LiveOnlyIfOpen, EndingIsSource,
              BoundedIsSource, SourceIsLinked, OwnedIsBusy, StateMatchesSource, OwnedHasSession
<1> QED BY <1>1, <1>2, <1>3 DEF EnsureStarted

LEMMA SessionStopStream ==
  ASSUME SessionInv, TypeOK', StopStream, closed' = closed
  PROVE  SessionInv'
<1>1. /\ source' = None /\ mapped' = None /\ state' = "idle" /\ owned' = FALSE
      /\ ending' = ending \ {source}
      /\ \A s \in Sessions : /\ open'[s] = (open[s] /\ s # mapped)
                            /\ linked'[s] = (linked[s] /\ s # mapped)
                            /\ bounded'[s] = (bounded[s] /\ s # mapped)
  BY DEF StopStream, ResetCamera, CloseSessions
<1>2. \A s \in Sessions : ~open'[s]
  BY <1>1 DEF SessionInv, OneOpenSession
<1>3. ending' = {}
  BY <1>1 DEF SessionInv, EndingIsSource
<1>4. LiveOnlyIfOpen'
  BY <1>1 DEF SessionInv, LiveOnlyIfOpen
<1>5. BoundedIsSource'
  BY <1>2, <1>4 DEF LiveOnlyIfOpen, BoundedIsSource
<1> QED BY <1>1, <1>2, <1>3, <1>4, <1>5
        DEF SessionInv, OneOpenSession, EndingIsSource, SourceIsLinked, OwnedIsBusy,
            StateMatchesSource, OwnedHasSession

\* A camera answers only when no source is attached: the attached one would be
\* the open, mapped and already linked session.
LEMMA SessionCameraAnswers ==
  ASSUME SessionInv, TypeOK', NEW s \in Sessions, CameraAnswers(s)
  PROVE  SessionInv'
<1>1. mapped = s /\ ending = {} /\ ~linked[s]
  BY DEF SessionInv, OneOpenSession, CameraAnswers, Quiet
<1>2. source = None
  BY <1>1 DEF SessionInv, SourceIsLinked
<1>3. /\ open' = open /\ mapped' = mapped /\ source' = s /\ ending' = {}
      /\ linked' = [linked EXCEPT ![s] = TRUE] /\ bounded' = [bounded EXCEPT ![s] = TRUE]
      /\ state' = "streaming" /\ owned' = owned /\ closed' = closed /\ open[s]
  BY <1>2 DEF CameraAnswers
<1>4. LiveOnlyIfOpen' /\ BoundedIsSource' /\ OneOpenSession'
  BY <1>1, <1>3 DEF SessionInv, TypeOK, LiveOnlyIfOpen, BoundedIsSource, OneOpenSession
<1>5. SourceIsLinked' /\ EndingIsSource' /\ OwnedHasSession'
  BY <1>1, <1>3 DEF SessionInv, TypeOK, SourceIsLinked, EndingIsSource, OwnedHasSession
<1>6. OwnedIsBusy' /\ StateMatchesSource'
  BY <1>3, NoneAssumption DEF SessionInv, OwnedIsBusy, StateMatchesSource
<1> QED BY <1>4, <1>5, <1>6 DEF SessionInv

LEMMA SessionStartFails ==
  ASSUME SessionInv, TypeOK', NEW s \in Sessions, StartFails(s)
  PROVE  SessionInv'
  BY DEF StartFails, peers, SessionInv, OneOpenSession, LiveOnlyIfOpen, EndingIsSource,
         BoundedIsSource, SourceIsLinked, OwnedIsBusy, StateMatchesSource, OwnedHasSession

LEMMA SessionLateAnswer ==
  ASSUME SessionInv, TypeOK', NEW s \in Sessions, LateAnswer(s)
  PROVE  SessionInv'
<1>1. LiveOnlyIfOpen' /\ SourceIsLinked'
  BY DEF LateAnswer, manager, SessionInv, TypeOK, LiveOnlyIfOpen, SourceIsLinked
<1> QED BY <1>1
        DEF LateAnswer, manager, SessionInv, OneOpenSession, EndingIsSource, BoundedIsSource,
            OwnedIsBusy, StateMatchesSource, OwnedHasSession

\* The session that reaches its lifetime is the source, so its end is queued.
LEMMA SessionLifetimeExpires ==
  ASSUME SessionInv, TypeOK', NEW s \in Sessions, LifetimeExpires(s)
  PROVE  SessionInv'
<1>1. /\ ending = {} /\ ending' = {s} \cap {source}
      /\ UNCHANGED <<state, source, owned, closed, mapped>>
      /\ \A x \in Sessions : /\ open'[x] = (open[x] /\ x # s)
                            /\ linked'[x] = (linked[x] /\ x # s)
                            /\ bounded'[x] = (bounded[x] /\ x # s)
  BY DEF LifetimeExpires, Quiet, CloseSessions, manager
<1>2. bounded[s] /\ open[s] /\ mapped = s
  BY DEF LifetimeExpires, SessionInv, LiveOnlyIfOpen, OneOpenSession
<1>3. source # None => source = s
  BY <1>1, <1>2 DEF SessionInv, SourceIsLinked
<1>4. owned => source = s
  BY <1>2 DEF SessionInv, OwnedIsBusy, BoundedIsSource
<1>5. OneOpenSession' /\ LiveOnlyIfOpen' /\ BoundedIsSource' /\ EndingIsSource'
  BY <1>1 DEF SessionInv, OneOpenSession, LiveOnlyIfOpen, BoundedIsSource, EndingIsSource
<1>6. SourceIsLinked' /\ OwnedHasSession'
  BY <1>1, <1>3, <1>4 DEF SourceIsLinked, OwnedHasSession
<1>7. OwnedIsBusy' /\ StateMatchesSource'
  BY <1>1 DEF SessionInv, OwnedIsBusy, StateMatchesSource
<1> QED BY <1>5, <1>6, <1>7 DEF SessionInv

\* sourceEnded always finds the source it belongs to, in a camera not yet idle.
LEMMA SessionSourceEnds ==
  ASSUME SessionInv, TypeOK', NEW s \in Sessions, SourceEnds(s)
  PROVE  SessionInv'
<1>1. s = source /\ ~open[s] /\ ending' = {}
  BY DEF SourceEnds, SessionInv, EndingIsSource
<1>2. state # "idle"
  BY <1>1, NoneAssumption DEF SessionInv, StateMatchesSource
<1>3. /\ source' = None /\ state' = "idle" /\ owned' = FALSE
      /\ UNCHANGED <<closed, open, linked, bounded>>
      /\ mapped' = IF mapped = s /\ (state = "idle" \/ source # s) THEN None ELSE mapped
  BY <1>2 DEF SourceEnds, ResetCamera, peers
<1>4. \A x \in Sessions : ~bounded[x] \/ closed
  BY <1>1 DEF SessionInv, BoundedIsSource, LiveOnlyIfOpen
<1>5. OneOpenSession' /\ LiveOnlyIfOpen' /\ BoundedIsSource'
  BY <1>1, <1>3, <1>4 DEF SessionInv, OneOpenSession, LiveOnlyIfOpen, BoundedIsSource
<1> QED BY <1>1, <1>3, <1>5
        DEF SessionInv, EndingIsSource, SourceIsLinked, OwnedIsBusy, StateMatchesSource,
            OwnedHasSession

LEMMA SessionClose ==
  ASSUME SessionInv, TypeOK', Close
  PROVE  SessionInv'
<1>1. closed' = TRUE /\ source' = None /\ ending = {} /\ ending' = {}
  BY DEF Close, Quiet
<1>2. CASE owned
  <2>1. /\ mapped' = None /\ state' = "idle" /\ owned' = FALSE
        /\ \A s \in Sessions : /\ open'[s] = (open[s] /\ s # mapped)
                              /\ linked'[s] = (linked[s] /\ s # mapped)
                              /\ bounded'[s] = (bounded[s] /\ s # mapped)
    BY <1>2 DEF Close, CloseSessions
  <2> QED BY <1>1, <2>1
          DEF SessionInv, OneOpenSession, LiveOnlyIfOpen, EndingIsSource, BoundedIsSource,
              SourceIsLinked, OwnedIsBusy, StateMatchesSource, OwnedHasSession
<1>3. CASE ~owned
  <2>1. UNCHANGED <<peers, mapped, state, owned>>
    BY <1>3 DEF Close
  <2> QED BY <1>1, <1>3, <2>1
          DEF peers, SessionInv, OneOpenSession, LiveOnlyIfOpen, EndingIsSource,
              BoundedIsSource, SourceIsLinked, OwnedIsBusy, StateMatchesSource, OwnedHasSession
<1> QED BY <1>2, <1>3

LEMMA SessionProviderClose ==
  ASSUME SessionInv, TypeOK', ProviderClose
  PROVE  SessionInv'
<1>1. /\ closed /\ ending = {} /\ mapped' = None
      /\ ending' = {s \in Sessions : s = mapped /\ s = source /\ open[s]}
      /\ UNCHANGED <<state, source, owned, closed>>
      /\ \A s \in Sessions : /\ open'[s] = (open[s] /\ s # mapped)
                            /\ linked'[s] = (linked[s] /\ s # mapped)
                            /\ bounded'[s] = (bounded[s] /\ s # mapped)
  BY DEF ProviderClose, Quiet, CloseSessions, manager
<1>2. source # None => source \in ending'
  BY <1>1 DEF SessionInv, TypeOK, SourceIsLinked, LiveOnlyIfOpen
<1> QED BY <1>1, <1>2
        DEF SessionInv, OneOpenSession, LiveOnlyIfOpen, EndingIsSource, BoundedIsSource,
            SourceIsLinked, OwnedIsBusy, StateMatchesSource, OwnedHasSession

LEMMA SessionStarts ==
  ASSUME SessionInv, TypeOK', (\E v \in Viewers : AddClient(v)) \/ \E k \in Tasks : BeginTask(k)
  PROVE  SessionInv'
<1>1. PICK c \in Callers, refused \in BOOLEAN : EnsureStarted(c, refused)
  BY DEF AddClient, BeginTask, Callers
<1>2. ending = {} /\ ~closed /\ UNCHANGED <<source, closed>>
  BY DEF AddClient, BeginTask, Quiet
<1> QED BY <1>1, <1>2, SessionEnsureStarted

\* Steps of the consumers that leave the camera alone.
LEMMA SessionUntouched ==
  ASSUME SessionInv, TypeOK',
         \/ \E v \in Viewers : RemoveClient(v)
         \/ \E k \in Tasks : WaitTimesOut(k) \/ ReleaseLease(k)
         \/ \E F \in SUBSET Captures : SnapshotUpdated(F)
         \/ \E slow \in SUBSET clients :
              \E oversized \in SUBSET Collecting : VideoChunk(slow, oversized)
         \/ \E r \in Recordings : ClipComplete(r) \/ RemuxDone(r)
         \/ UNCHANGED vars
  PROVE  SessionInv'
<1>1. UNCHANGED SourceVars
  BY DEF RemoveClient, WaitTimesOut, ReleaseLease, SnapshotUpdated, VideoChunk, ClipComplete,
         RemuxDone, SourceVars, manager, provider, vars
<1> QED BY <1>1, SameSource

LEMMA SessionStops ==
  ASSUME SessionInv, TypeOK',
         GraceExpires \/ StopStationMedia \/ \E k \in Startups : ReleaseStartup(k)
  PROVE  SessionInv'
<1>1. StopStream /\ closed' = closed
  BY DEF GraceExpires, StopStationMedia, ReleaseStartup
<1> QED BY <1>1, SessionStopStream

LEMMA SessionNext == LeaseInv /\ SessionInv /\ [Next]_vars => SessionInv'
<1> SUFFICES ASSUME LeaseInv, SessionInv, [Next]_vars PROVE SessionInv'
  OBVIOUS
<1>1. TypeOK'
  BY LeaseNext DEF LeaseInv
<1>2. CASE \/ \E v \in Viewers : AddClient(v)
           \/ \E k \in Tasks : BeginTask(k)
  BY <1>1, <1>2, SessionStarts
<1>3. CASE \/ \E v \in Viewers : RemoveClient(v)
           \/ \E k \in Tasks : WaitTimesOut(k) \/ ReleaseLease(k)
           \/ \E F \in SUBSET Captures : SnapshotUpdated(F)
           \/ \E slow \in SUBSET clients :
                \E oversized \in SUBSET Collecting : VideoChunk(slow, oversized)
           \/ \E r \in Recordings : ClipComplete(r) \/ RemuxDone(r)
           \/ UNCHANGED vars
  BY <1>1, <1>3, SessionUntouched
<1>4. CASE GraceExpires \/ StopStationMedia \/ \E k \in Startups : ReleaseStartup(k)
  BY <1>1, <1>4, SessionStops
<1>5. CASE \E s \in Sessions : CameraAnswers(s) \/ StartFails(s) \/ LateAnswer(s)
  BY <1>1, <1>5, SessionCameraAnswers, SessionStartFails, SessionLateAnswer
<1>6. CASE \E s \in Sessions : LifetimeExpires(s) \/ SourceEnds(s)
  BY <1>1, <1>6, SessionLifetimeExpires, SessionSourceEnds
<1>7. CASE Close \/ ProviderClose
  BY <1>1, <1>7, SessionClose, SessionProviderClose
<1> QED BY <1>2, <1>3, <1>4, <1>5, <1>6, <1>7 DEF Next

LEMMA SessionAlways == Spec => [](LeaseInv /\ SessionInv)
<1>1. Init => LeaseInv /\ SessionInv
  BY LeaseInit, SessionInit
<1>2. LeaseInv /\ SessionInv /\ [Next]_vars => LeaseInv' /\ SessionInv'
  BY LeaseNext, SessionNext
<1> QED BY <1>1, <1>2, PTL DEF Spec

\* However starts, stops, failures and late events interleave, the provider has
\* at most one open PPCS session for a camera, the one #ppcsStreams holds.
THEOREM SessionsExclusive == Spec => []OneOpenSession
<1>1. SessionInv => OneOpenSession
  BY DEF SessionInv
<1> QED BY <1>1, SessionAlways, PTL

\* attachSource never meets another source, and the source it attached is the
\* session that stopStream would close, until that session's end is delivered.
THEOREM SourceAlwaysCurrent == Spec => []SourceIsCurrent
<1>1. SessionInv => SourceIsCurrent
  BY DEF SessionInv, SourceIsLinked, SourceIsCurrent
<1> QED BY <1>1, SessionAlways, PTL

\* The state the manager publishes agrees with the source it holds.
THEOREM StateAlwaysMatches == Spec => []StateMatchesSource
<1>1. SessionInv => StateMatchesSource
  BY DEF SessionInv
<1> QED BY <1>1, SessionAlways, PTL

\* An owned camera always has an open session for the idle stop to close.
THEOREM OwnerHasSession == Spec => []OwnedHasSession
<1>1. SessionInv => OwnedHasSession
  BY DEF SessionInv
<1> QED BY <1>1, SessionAlways, PTL

\* Only a consumer that finds the camera unowned opens a session, so consumers
\* that arrive together share one.
THEOREM SessionsShared == Spec => NoDuplicateSession
<1> DEFINE Shared == \A s \in Sessions : open'[s] /\ ~open[s] => ~owned
<1>1. ASSUME SessionInv, [Next]_vars
      PROVE  Shared
  <2> SUFFICES ASSUME NEW s \in Sessions, open'[s], ~open[s] PROVE ~owned
    OBVIOUS
  <2>1. CASE \E c \in Callers, refused \in BOOLEAN : EnsureStarted(c, refused)
    <3>1. state \in {"idle", "error"}
      BY <2>1 DEF EnsureStarted, provider, peers
    <3> QED BY <1>1, <3>1 DEF SessionInv, OwnedIsBusy
  <2>2. CASE \A x \in Sessions : open'[x] => open[x]
    BY <2>2
  <2>3. CASE (\E v \in Viewers : AddClient(v)) \/ \E k \in Tasks : BeginTask(k)
    BY <2>1, <2>3 DEF AddClient, BeginTask, Callers
  <2>4. CASE \/ \E v \in Viewers : RemoveClient(v)
             \/ \E k \in Tasks : WaitTimesOut(k) \/ ReleaseLease(k)
             \/ \E F \in SUBSET Captures : SnapshotUpdated(F)
             \/ \E slow \in SUBSET clients :
                  \E oversized \in SUBSET Collecting : VideoChunk(slow, oversized)
             \/ \E r \in Recordings : ClipComplete(r) \/ RemuxDone(r)
             \/ UNCHANGED vars
    BY <2>2, <2>4 DEF RemoveClient, WaitTimesOut, ReleaseLease, SnapshotUpdated, VideoChunk,
                      ClipComplete, RemuxDone, manager, provider, peers, vars
  <2>5. CASE \/ \E x \in Sessions : CameraAnswers(x) \/ StartFails(x) \/ LateAnswer(x)
             \/ \E x \in Sessions : LifetimeExpires(x) \/ SourceEnds(x)
    BY <2>2, <2>5 DEF CameraAnswers, StartFails, LateAnswer, LifetimeExpires, SourceEnds,
                      CloseSessions, peers
  <2>6. CASE \/ GraceExpires \/ StopStationMedia \/ Close \/ ProviderClose
             \/ \E k \in Startups : ReleaseStartup(k)
    BY <2>2, <2>6 DEF GraceExpires, StopStationMedia, Close, ProviderClose, ReleaseStartup,
                      StopStream, CloseSessions, peers
  <2> QED BY <1>1, <2>3, <2>4, <2>5, <2>6 DEF Next
<1>2. SessionInv /\ [Next]_vars => [Shared]_vars
  BY <1>1
<1> QED BY <1>2, SessionAlways, PTL DEF Spec, NoDuplicateSession

=====================
