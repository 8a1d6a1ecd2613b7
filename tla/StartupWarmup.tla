---------------------------- MODULE StartupWarmup ----------------------------
(***************************************************************************)
(* StartupSnapshotWarmup (startup-snapshot-warmup.ts) on top of the        *)
(* snapshot store: cameras that are registered without a retained image    *)
(* have one captured, one camera after another, once the provider is       *)
(* connected.  The capture itself is LiveStream's.                         *)
(***************************************************************************)
EXTENDS SnapshotStore, Sequences, SequencesExt

CONSTANT NoCamera
ASSUME NoCameraAssumption == NoCamera \notin Cameras

VARIABLES
  scheduled,  \* #scheduled
  chain,      \* cameras of the closures chained to #queue
  capturing,  \* the camera whose capture() is awaited
  started,
  stopped

warmupVars == <<scheduled, chain, capturing, started, stopped>>
vars == <<storeVars, warmupVars>>

WarmupInit ==
  /\ Init
  /\ scheduled = {}
  /\ chain = <<>>
  /\ capturing = NoCamera
  /\ started = FALSE
  /\ stopped = FALSE

-----------------------------------------------------------------------------
Enqueue_NoDuplicateCheck(c) ==
  IF stopped
    THEN UNCHANGED warmupVars
    ELSE /\ scheduled' = scheduled \cup {c}
         /\ chain' = IF started THEN Append(chain, c) ELSE chain
         /\ UNCHANGED <<capturing, started, stopped>>

Enqueue(c) ==
  IF stopped \/ c \in scheduled
    THEN UNCHANGED warmupVars
    ELSE /\ scheduled' = scheduled \cup {c}
         /\ chain' = IF started THEN Append(chain, c) ELSE chain
         /\ UNCHANGED <<capturing, started, stopped>>

\* providerEvents.camera of main.ts.
RegisterCamera(c) ==
  /\ Register(c)
  /\ IF records[c] = NoInfo THEN Enqueue(c) ELSE UNCHANGED warmupVars

\* start(), when the provider reports that it is connected; #scheduled is a Set
\* and is walked in the order of insertion, which matters to nobody.
Start ==
  /\ up /\ ~started /\ ~stopped
  /\ started' = TRUE
  /\ \E order \in SetToSeqs(scheduled) : chain' = chain \o order
  /\ UNCHANGED <<storeVars, scheduled, capturing, stopped>>

\* stop(), the first step of shutdown.
StopWarmup ==
  /\ up /\ ~stopped
  /\ stopped' = TRUE
  /\ scheduled' = {}
  /\ UNCHANGED <<storeVars, chain, capturing, started>>

CaptureBegins_IgnoresStop(c) ==
  /\ up /\ capturing = NoCamera
  /\ chain # <<>> /\ c = Head(chain)
  /\ IF published[c] # NoInfo
       THEN /\ scheduled' = scheduled \ {c}
            /\ chain' = Tail(chain)
            /\ UNCHANGED capturing
       ELSE capturing' = c /\ UNCHANGED <<scheduled, chain>>
  /\ UNCHANGED <<storeVars, started, stopped>>

\* The queue reaches a camera: capture it unless it got an image meanwhile.
CaptureBegins(c) ==
  /\ up /\ capturing = NoCamera
  /\ chain # <<>> /\ c = Head(chain)
  /\ IF stopped \/ published[c] # NoInfo
       THEN /\ scheduled' = scheduled \ {c}
            /\ chain' = Tail(chain)
            /\ UNCHANGED capturing
       ELSE capturing' = c /\ UNCHANGED <<scheduled, chain>>
  /\ UNCHANGED <<storeVars, started, stopped>>

CaptureEnds_KeepsScheduled(c) ==
  /\ capturing = c /\ c # NoCamera
  /\ capturing' = NoCamera
  /\ chain' = Tail(chain)
  /\ UNCHANGED <<storeVars, scheduled, started, stopped>>

\* capture() resolves or rejects; either way the camera may be scheduled again.
CaptureEnds(c) ==
  /\ capturing = c
  /\ capturing' = NoCamera
  /\ scheduled' = scheduled \ {c}
  /\ chain' = Tail(chain)
  /\ UNCHANGED <<storeVars, started, stopped>>

\* A store step that ends the process takes the warm-up with it.
WarmupFollows ==
  IF up' THEN UNCHANGED warmupVars
  ELSE /\ scheduled' = {} /\ chain' = <<>> /\ capturing' = NoCamera
       /\ started' = FALSE /\ stopped' = FALSE

Next ==
  \/ /\ \/ \E w \in Writes : \E c \in Cameras, live \in BOOLEAN : Call(w, c, live)
        \/ \E w \in Writes : Step(w) \/ WriteFails(w)
        \/ \E r \in Readers : (\E c \in Cameras : ReadBegins(r, c)) \/ ReadEnds(r)
        \/ Crash \/ Restart
     /\ WarmupFollows
  \/ \E c \in Cameras : RegisterCamera(c) \/ CaptureBegins(c) \/ CaptureEnds(c)
  \/ Start \/ StopWarmup

Spec == WarmupInit /\ [][Next]_vars

(***************************************************************************)
(* File operations complete, queued callbacks run, and every capture ends  *)
(* (TasksFinish of LiveStream).                                            *)
(***************************************************************************)
Fairness ==
  /\ \A w \in Writes : WF_vars(Step(w) /\ WarmupFollows)
  /\ \A c \in Cameras : WF_vars(CaptureBegins(c)) /\ WF_vars(CaptureEnds(c))

FairSpec == Spec /\ Fairness

-----------------------------------------------------------------------------
\* A battery camera is woken once per schedule: between start and stop the queue
\* holds exactly the scheduled cameras, each of them once, although cameras are
\* registered before, during and after start, and again after a new login.
QueueMatchesSchedule ==
  started /\ ~stopped => ToSet(chain) = scheduled /\ IsInjective(chain)

\* "stop prevents queued work from opening another camera while process shutdown
\* is in progress".
NoCaptureAfterStop ==
  [][stopped /\ up' => capturing' \in {capturing, NoCamera}]_vars

\* Every scheduled camera gets its turn, also behind cameras whose capture fails,
\* and failed ones become eligible again.
ScheduleDrains == \A c \in Cameras : started /\ c \in scheduled ~> c \notin scheduled
=============================================================================
