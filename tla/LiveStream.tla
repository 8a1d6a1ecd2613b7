----------------------------- MODULE LiveStream -----------------------------
(***************************************************************************)
(* The life of one camera's shared video source: LiveStreamManager         *)
(* (stream/live-stream-manager.ts), the part of EufyProvider that opens    *)
(* and closes PPCS sessions, and the life of those sessions                *)
(* (stream/first-party-ppcs.ts).  Cameras share nothing but the closed     *)
(* flag of the manager, so one camera is the whole story.                  *)
(*                                                                         *)
(* The program is one JavaScript thread.  An action is one macrotask: a    *)
(* timer, a socket message, an HTTP event, together with every call it     *)
(* makes up to its first await.  Work that Node queues to run before the   *)
(* next macrotask is an action of its own that the others wait for, see    *)
(* Quiet: the 'end' and 'close' events of a source (nextTick), and the     *)
(* finally block of a settled capture or recording (microtask).            *)
(*                                                                         *)
(* The "stopping" state is not a state here: every stopStream of           *)
(* EufyProvider calls markStopped before it returns, so the camera is idle *)
(* again before anything else runs.                                        *)
(*                                                                         *)
(* A definition named Op_Defect is Op with a plausible slip; it is no part *)
(* of the specification, and serves to see that the properties can fail.   *)
(***************************************************************************)
EXTENDS Naturals, FiniteSets

CONSTANTS
  Viewers,      \* HTTP responses of the stream route
  Captures,     \* calls of captureSnapshot
  Startups,     \* the ones among them made by captureStartupSnapshot
  Recordings,   \* calls of recordClip
  Sessions,     \* PPCS sessions; a finished one is reused for the next
  None          \* no session, no caller

Tasks == Captures \cup Recordings
Callers == Viewers \cup Tasks

ASSUME ConsumersAssumption ==
  /\ Startups \subseteq Captures
  /\ Viewers \cap Tasks = {}
  /\ Captures \cap Recordings = {}
ASSUME NoneAssumption == None \notin Sessions /\ None \notin Callers
ASSUME FiniteTasks == IsFiniteSet(Tasks)

VARIABLES
  \* LiveStreamManager's record of the camera
  clients,  \* session.clients
  state,    \* session.state
  source,   \* session.source; the FFmpeg extractor lives exactly as long
  timer,    \* session.stopTimer is armed
  owned,    \* session.owned
  leases,   \* session.leases
  closed,   \* #closed
  \* EufyProvider and its PPCS sessions
  mapped,   \* the camera's entry in #ppcsStreams
  open,     \* the session's close has not run
  linked,   \* it is open and CAM_ID has arrived: video can flow
  bounded,  \* its maxSeconds timer is armed
  starter,  \* the caller that awaits its start(), None once that settled
  ending,   \* sources that closed while they had listeners
  \* the callers
  resp,     \* HTTP responses
  task      \* captures and recordings

manager == <<clients, state, source, timer, owned, leases, closed>>
peers == <<open, linked, bounded>>
provider == <<mapped, peers, starter, ending>>
callers == <<resp, task>>
vars == <<manager, provider, callers>>

StreamStates == {"idle", "starting", "streaming", "error"}
RespStates == {"absent", "open", "closing"}

\* waiting: its promise is pending; rolling: a recording that has seen video;
\* settled: rejected or resolved while start() is still awaited; recorded: the
\* same for a recording that has its video; remuxing: FFmpeg packages it;
\* finishing: its finally block is queued.
TaskStates == {"absent", "waiting", "rolling", "settled", "recorded",
               "remuxing", "finishing"}

TypeOK ==
  /\ clients \subseteq Viewers
  /\ state \in StreamStates
  /\ source \in Sessions \cup {None}
  /\ timer \in BOOLEAN
  /\ owned \in BOOLEAN
  /\ leases \in Nat
  /\ closed \in BOOLEAN
  /\ mapped \in Sessions \cup {None}
  /\ open \in [Sessions -> BOOLEAN]
  /\ linked \in [Sessions -> BOOLEAN]
  /\ bounded \in [Sessions -> BOOLEAN]
  /\ starter \in [Sessions -> Callers \cup {None}]
  /\ ending \subseteq Sessions
  /\ resp \in [Viewers -> RespStates]
  /\ task \in [Tasks -> TaskStates]

Init ==
  /\ clients = {}
  /\ state = "idle"
  /\ source = None
  /\ timer = FALSE
  /\ owned = FALSE
  /\ leases = 0
  /\ closed = FALSE
  /\ mapped = None
  /\ open = [s \in Sessions |-> FALSE]
  /\ linked = [s \in Sessions |-> FALSE]
  /\ bounded = [s \in Sessions |-> FALSE]
  /\ starter = [s \in Sessions |-> None]
  /\ ending = {}
  /\ resp = [v \in Viewers |-> "absent"]
  /\ task = [k \in Tasks |-> "absent"]

-----------------------------------------------------------------------------
(***************************************************************************)
(* Shared pieces of the handlers.                                          *)
(***************************************************************************)

Active == {k \in Tasks : task[k] # "absent"}
Finishing == {k \in Tasks : task[k] = "finishing"}
Collecting == {r \in Recordings : task[r] \in {"waiting", "rolling"}}
Awaiting(c) == \E s \in Sessions : starter[s] = c

\* Nothing is queued ahead of the next timer, message or request.
Quiet == ending = {} /\ Finishing = {}

\* A session object that nothing refers to any more.
Free(s) == ~open[s] /\ starter[s] = None /\ s \notin ({mapped, source} \cup ending)

\* The camera is held by nobody: the condition of scheduleStopIfUnused.
Unused(n) == clients = {} /\ n = 0 /\ owned

\* The promise of every task in F settles.  The call that made the task goes on
\* to its finally block unless it still awaits ensureStarted.
Settle(F) ==
  [k \in Tasks |->
     IF k \notin F THEN task[k] ELSE IF Awaiting(k) THEN "settled" ELSE "finishing"]

\* FirstPartyPpcsSession.close of the sessions in S.
CloseSessions(S) ==
  /\ open' = [s \in Sessions |-> open[s] /\ s \notin S]
  /\ linked' = [s \in Sessions |-> linked[s] /\ s \notin S]
  /\ bounded' = [s \in Sessions |-> bounded[s] /\ s \notin S]

\* A response is ended or destroyed; its 'close' event comes later.
EndResponses(V) ==
  resp' = [v \in Viewers |-> IF v \in V /\ resp[v] = "open" THEN "closing" ELSE resp[v]]

ResetCamera_KeepsSource ==
  /\ UNCHANGED source
  /\ state' = "idle"
  /\ owned' = FALSE
  /\ clients' = {}
  /\ EndResponses(clients)

\* markStopped, and sourceEnded without an error: fail the recordings, drop the
\* source with its listeners, and end the viewers.
ResetCamera ==
  /\ source' = None
  /\ state' = "idle"
  /\ owned' = FALSE
  /\ clients' = {}
  /\ EndResponses(clients)

\* EufyProvider.stopStream.
StopStream ==
  /\ CloseSessions({mapped})
  /\ mapped' = None
  /\ ResetCamera
  /\ ending' = ending \ {source}

OpenSession_KeepsPrevious(c, s) ==
  /\ Free(s)
  /\ open' = [open EXCEPT ![s] = TRUE]
  /\ linked' = [linked EXCEPT ![s] = FALSE]
  /\ bounded' = [bounded EXCEPT ![s] = FALSE]
  /\ starter' = [starter EXCEPT ![s] = c]
  /\ mapped' = s
  /\ UNCHANGED ending

\* EufyProvider.startStream up to its await: the camera's previous session is
\* closed and a new one takes its entry and looks the camera up.
OpenSession(c, s) ==
  /\ Free(s)
  /\ open' = [x \in Sessions |-> x = s \/ (open[x] /\ x # mapped)]
  /\ linked' = [x \in Sessions |-> linked[x] /\ x \notin {s, mapped}]
  /\ bounded' = [x \in Sessions |-> bounded[x] /\ x \notin {s, mapped}]
  /\ starter' = [starter EXCEPT ![s] = c]
  /\ mapped' = s
  /\ ending' = {x \in Sessions : x = source /\ x = mapped /\ open[x]}

EnsureStarted_SeesOnlyStreaming(c, refused) ==
  IF state = "streaming"
    THEN ~refused /\ UNCHANGED <<state, owned, provider>>
    ELSE /\ ~refused
         /\ state' = "starting"
         /\ owned' = TRUE
         /\ \E s \in Sessions : OpenSession(c, s)

\* ensureStarted, called by c. The provider refuses at once when the camera has
\* no route, or no DSK key while completeStartup reloads them.
EnsureStarted(c, refused) ==
  \/ /\ state \notin {"idle", "error"} /\ ~refused
     /\ UNCHANGED <<state, owned, provider>>
  \/ /\ state \in {"idle", "error"} /\ ~refused
     /\ state' = "starting"
     /\ owned' = TRUE
     /\ \E s \in Sessions : OpenSession(c, s)
  \/ /\ state \in {"idle", "error"} /\ refused
     /\ state' = "error"
     /\ owned' = FALSE
     /\ UNCHANGED provider

-----------------------------------------------------------------------------
(***************************************************************************)
(* Viewers.                                                                *)
(***************************************************************************)

\* A request for the live stream. main.ts closes the HTTP server before the
\* manager, so no request finds the manager closed.
AddClient(v) ==
  /\ Quiet /\ ~closed
  /\ resp[v] = "absent" /\ ~Awaiting(v)
  /\ timer' = FALSE
  /\ clients' = clients \cup {v}
  /\ \E refused \in BOOLEAN :
       /\ EnsureStarted(v, refused)
       /\ resp' = [resp EXCEPT ![v] = IF refused THEN "closing" ELSE "open"]
  /\ UNCHANGED <<source, leases, closed, task>>

\* The response's 'close' event: the viewer left, or was ended or destroyed.
RemoveClient(v) ==
  /\ Quiet
  /\ resp[v] # "absent"
  /\ resp' = [resp EXCEPT ![v] = "absent"]
  /\ clients' = clients \ {v}
  /\ timer' = (timer \/ (~closed /\ clients' = {} /\ leases = 0 /\ owned))
  /\ UNCHANGED <<state, source, owned, leases, closed, provider, task>>

-----------------------------------------------------------------------------
(***************************************************************************)
(* Captures and recordings.                                                *)
(***************************************************************************)

BeginTask_KeepsTimer(k) ==
  /\ Quiet /\ ~closed
  /\ task[k] = "absent"
  /\ leases' = leases + 1
  /\ \E refused \in BOOLEAN :
       /\ EnsureStarted(k, refused)
       /\ task' = [task EXCEPT ![k] = IF refused THEN "finishing" ELSE "waiting"]
  /\ UNCHANGED <<clients, source, timer, closed, resp>>

\* captureSnapshot, captureStartupSnapshot or recordClip up to its first await.
BeginTask(k) ==
  /\ Quiet /\ ~closed
  /\ task[k] = "absent"
  /\ timer' = FALSE
  /\ leases' = leases + 1
  /\ \E refused \in BOOLEAN :
       /\ EnsureStarted(k, refused)
       /\ task' = [task EXCEPT ![k] = IF refused THEN "finishing" ELSE "waiting"]
  /\ UNCHANGED <<clients, source, closed, resp>>

\* A snapshot-updated event of this camera, from FFmpeg or from a push event. It
\* resolves the captures that read an older revision: all that wait, except one
\* that began after a new login restored this revision, see SnapshotStore.
SnapshotUpdated(F) ==
  /\ Quiet
  /\ F # {} /\ \A k \in F : task[k] = "waiting"
  /\ task' = Settle(F)
  /\ UNCHANGED <<manager, provider, resp>>

\* A capture's frame timer, or a recording's timer for its first video.
WaitTimesOut(k) ==
  /\ Quiet
  /\ task[k] = "waiting"
  /\ task' = Settle({k})
  /\ UNCHANGED <<manager, provider, resp>>

\* Bytes from the camera reach the source's 'data' listener. A viewer too slow
\* to take them is destroyed; a recording over its size limit fails.
VideoChunk(slow, oversized) ==
  /\ Quiet
  /\ source # None /\ linked[source]
  /\ EndResponses(slow)
  /\ task' = [k \in Tasks |-> IF k \in oversized THEN Settle(oversized)[k]
                              ELSE IF k \in Collecting THEN "rolling" ELSE task[k]]
  /\ UNCHANGED <<manager, provider>>

\* A recording's duration timer resolves it with what it collected.
ClipComplete(r) ==
  /\ Quiet
  /\ task[r] = "rolling"
  /\ task' = [task EXCEPT ![r] = IF Awaiting(r) THEN "recorded" ELSE "remuxing"]
  /\ UNCHANGED <<manager, provider, resp>>

\* The remuxing FFmpeg exits or its 30 s timer kills it.
RemuxDone(r) ==
  /\ Quiet
  /\ task[r] = "remuxing"
  /\ task' = [task EXCEPT ![r] = "finishing"]
  /\ UNCHANGED <<manager, provider, resp>>

\* The finally block: give the lease back and arm the idle timer.
ReleaseLease(k) ==
  /\ task[k] = "finishing"
  /\ ~(k \in Startups /\ Unused(leases - 1))
  /\ task' = [task EXCEPT ![k] = "absent"]
  /\ leases' = leases - 1
  /\ timer' = (timer \/ (~closed /\ Unused(leases')))
  /\ UNCHANGED <<clients, state, source, owned, closed, provider, resp>>

\* The same for a startup capture that leaves the camera unused: its own
\* finally block cancels the timer again and stops the camera at once.
ReleaseStartup(k) ==
  /\ task[k] = "finishing"
  /\ k \in Startups /\ Unused(leases - 1)
  /\ task' = [Settle(Collecting) EXCEPT ![k] = "absent"]
  /\ leases' = leases - 1
  /\ timer' = FALSE
  /\ StopStream
  /\ UNCHANGED <<closed, starter>>

-----------------------------------------------------------------------------
(***************************************************************************)
(* The PPCS session.                                                       *)
(***************************************************************************)

CameraAnswers_ForgetsSettled(s) ==
  /\ Quiet
  /\ open[s] /\ ~linked[s] /\ starter[s] # None
  /\ linked' = [linked EXCEPT ![s] = TRUE]
  /\ bounded' = [bounded EXCEPT ![s] = TRUE]
  /\ starter' = [starter EXCEPT ![s] = None]
  /\ source' = s
  /\ state' = "streaming"
  /\ ending' = {source} \ {None}
  /\ UNCHANGED <<clients, timer, owned, leases, closed, mapped, open, callers>>

CameraAnswers_Unbounded(s) ==
  /\ Quiet
  /\ open[s] /\ ~linked[s] /\ starter[s] # None
  /\ linked' = [linked EXCEPT ![s] = TRUE]
  /\ starter' = [starter EXCEPT ![s] = None]
  /\ source' = s
  /\ state' = "streaming"
  /\ ending' = {source} \ {None}
  /\ UNCHANGED <<clients, timer, owned, leases, closed, mapped, open, bounded, callers>>

\* CAM_ID arrives while start() waits for it: start() resolves and arms the
\* lifetime timer, startStream attaches the output, and the caller goes on.
CameraAnswers(s) ==
  /\ Quiet
  /\ open[s] /\ ~linked[s] /\ starter[s] # None
  /\ linked' = [linked EXCEPT ![s] = TRUE]
  /\ bounded' = [bounded EXCEPT ![s] = TRUE]
  /\ starter' = [starter EXCEPT ![s] = None]
  /\ source' = s
  /\ state' = "streaming"
  /\ ending' = {source} \ {None}
  /\ task' = [k \in Tasks |->
                CASE k = starter[s] /\ task[k] = "settled" -> "finishing"
                  [] k = starter[s] /\ task[k] = "recorded" -> "remuxing"
                  [] OTHER -> task[k]]
  /\ UNCHANGED <<clients, timer, owned, leases, closed, mapped, open, resp>>

StartFails_SkipsFinally(s) ==
  /\ Quiet
  /\ starter[s] # None
  /\ starter' = [starter EXCEPT ![s] = None]
  /\ state' = "error"
  /\ owned' = FALSE
  /\ EndResponses({starter[s]})
  /\ task' = [k \in Tasks |-> IF k = starter[s] THEN "absent" ELSE task[k]]
  /\ UNCHANGED <<clients, source, timer, leases, closed, mapped, peers, ending>>

\* start() rejects: the 20 s lookup timer, also of a session closed meanwhile, or
\* a socket error. ensureStarted marks the camera failed and rethrows to its
\* caller, which destroys the response or goes to its finally block.
StartFails(s) ==
  /\ Quiet
  /\ starter[s] # None
  /\ starter' = [starter EXCEPT ![s] = None]
  /\ state' = "error"
  /\ owned' = FALSE
  /\ EndResponses({starter[s]})
  /\ task' = [k \in Tasks |-> IF k = starter[s] THEN "finishing" ELSE task[k]]
  /\ UNCHANGED <<clients, source, timer, leases, closed, mapped, peers, ending>>

\* CAM_ID arrives after start() gave up: nothing closed the socket.
LateAnswer(s) ==
  /\ Quiet
  /\ open[s] /\ ~linked[s] /\ starter[s] = None
  /\ linked' = [linked EXCEPT ![s] = TRUE]
  /\ UNCHANGED <<manager, mapped, open, bounded, starter, ending, callers>>

\* The lifetime timer closes the session.
LifetimeExpires(s) ==
  /\ Quiet
  /\ bounded[s]
  /\ CloseSessions({s})
  /\ ending' = {s} \cap {source}
  /\ UNCHANGED <<manager, mapped, starter, callers>>

\* The 'end' and 'close' events of a closed source. sourceEnded does nothing to
\* an idle camera; otherwise it removes every listener of the current source, the
\* provider's own 'close' listener among them.
SourceEnds(s) ==
  /\ s \in ending
  /\ ending' = ending \ {s}
  /\ IF state # "idle" \/ mapped = s
       THEN /\ ResetCamera
            /\ task' = Settle(Collecting)
       ELSE UNCHANGED <<source, state, owned, clients, callers>>
  /\ mapped' = IF mapped = s /\ (state = "idle" \/ source # s) THEN None ELSE mapped
  /\ UNCHANGED <<timer, leases, closed, peers, starter>>

-----------------------------------------------------------------------------
(***************************************************************************)
(* Stopping.                                                               *)
(***************************************************************************)

\* The idle timer fires.
GraceExpires ==
  /\ Quiet
  /\ timer
  /\ timer' = FALSE
  /\ StopStream
  /\ task' = Settle(Collecting)
  /\ UNCHANGED <<leases, closed, starter>>

\* A HomeBase write stops the media of its cameras first (stopStationMedia).
StopStationMedia ==
  /\ Quiet
  /\ mapped # None
  /\ StopStream
  /\ task' = Settle(Collecting)
  /\ UNCHANGED <<timer, leases, closed, starter>>

\* LiveStreamManager.close.  main.ts calls it after GatewayServer.close, which
\* waits for every open response; the model allows it at any moment.
Close ==
  /\ Quiet /\ ~closed
  /\ closed' = TRUE
  /\ timer' = FALSE
  /\ source' = None
  /\ task' = Settle(Collecting \cup {k \in Captures : task[k] = "waiting"})
  /\ EndResponses(clients)
  /\ IF owned
       THEN /\ CloseSessions({mapped})
            /\ mapped' = None
            /\ state' = "idle"
            /\ owned' = FALSE
            /\ clients' = {}
       ELSE UNCHANGED <<peers, mapped, state, owned, clients>>
  /\ UNCHANGED <<leases, starter, ending>>

ProviderClose_DropsEntry ==
  /\ Quiet /\ closed
  /\ mapped # None
  /\ mapped' = None
  /\ UNCHANGED <<manager, peers, starter, ending, callers>>

\* EufyProvider.close, which main.ts runs after the manager's.
ProviderClose ==
  /\ Quiet /\ closed
  /\ mapped # None
  /\ CloseSessions({mapped})
  /\ mapped' = None
  /\ ending' = {s \in Sessions : s = mapped /\ s = source /\ open[s]}
  /\ UNCHANGED <<manager, starter, callers>>

Next ==
  \/ \E v \in Viewers : AddClient(v) \/ RemoveClient(v)
  \/ \E k \in Tasks : BeginTask(k) \/ WaitTimesOut(k) \/ ReleaseLease(k)
  \/ \E k \in Startups : ReleaseStartup(k)
  \/ \E F \in SUBSET Captures : SnapshotUpdated(F)
  \/ \E slow \in SUBSET clients :
       \E oversized \in SUBSET Collecting : VideoChunk(slow, oversized)
  \/ \E r \in Recordings : ClipComplete(r) \/ RemuxDone(r)
  \/ \E s \in Sessions : CameraAnswers(s) \/ StartFails(s) \/ LateAnswer(s)
  \/ \E s \in Sessions : LifetimeExpires(s) \/ SourceEnds(s)
  \/ GraceExpires \/ StopStationMedia \/ Close \/ ProviderClose

Spec == Init /\ [][Next]_vars

(***************************************************************************)
(* Node never starves a due timer, a queued callback or a finished I/O, so *)
(* each is strongly fair: it loses its turn only to queued work that runs  *)
(* first.  main.ts closes the provider right after the manager.  A request, *)
(* a departing viewer, video, a camera's answer and a shutdown may never   *)
(* come.                                                                   *)
(***************************************************************************)
Fairness ==
  /\ \A k \in Tasks : SF_vars(WaitTimesOut(k)) /\ WF_vars(ReleaseLease(k))
  /\ \A k \in Startups : WF_vars(ReleaseStartup(k))
  /\ \A r \in Recordings : SF_vars(ClipComplete(r)) /\ SF_vars(RemuxDone(r))
  /\ \A s \in Sessions : SF_vars(StartFails(s)) /\ SF_vars(LifetimeExpires(s))
  /\ \A s \in Sessions : WF_vars(SourceEnds(s))
  /\ SF_vars(ProviderClose)

FairSpec == Spec /\ Fairness

-----------------------------------------------------------------------------
(***************************************************************************)
(* Properties.                                                             *)
(***************************************************************************)

\* The idle timer is armed only while nobody uses the camera: when it fires,
\* no viewer, capture or recording loses its video (scheduleStopIfUnused arms
\* it, cancelStop disarms it for every new consumer).
IdleTimerSafe == timer => clients = {} /\ leases = 0

\* The lease counter is the number of captures and recordings in progress, on
\* every path through their finally blocks.
LeasesCounted == leases = Cardinality(Active)

\* The provider never has two open PPCS sessions for the camera, and it always
\* holds the open one in #ppcsStreams, where a stop can find it.
OneOpenSession == \A s \in Sessions : open[s] => mapped = s

\* Video is read from the session a stop would close, and attachSource never
\* finds another source in place: that source's 'close' event would end the new
\* one.
SourceIsCurrent ==
  source # None => /\ mapped = source \/ source \in ending
                   /\ linked[source] \/ source \in ending

\* A published state never lies about the camera: "streaming" has a source, and
\* "idle" has none and is not owned, so the next consumer may start it.
StateMatchesSource ==
  /\ state = "streaming" /\ ~closed => source # None
  /\ state = "idle" => source = None /\ ~owned

\* A camera the manager owns has a session that a stop will close; owned is what
\* decides whether an idle stop is ever armed.
OwnedHasSession == owned /\ ending = {} => mapped # None /\ open[mapped]

\* Sessions are shared, never duplicated: a PPCS session is opened only while the
\* manager owns none, however many viewers and captures ask at once.
NoDuplicateSession == [][\A s \in Sessions : open'[s] /\ ~open[s] => ~owned]_vars

\* Every capture and recording ends, whatever the camera does: its promise is
\* settled by a timer, a start it awaits settles by the lookup timer, and its
\* finally block then runs.
TasksFinish == \A k \in Tasks : task[k] # "absent" ~> task[k] = "absent"

\* No source stays attached for ever, not even one the manager lost track of: the
\* lifetime timer that start() arms ends it.
SourceDetaches == \A s \in Sessions : source = s ~> source # s

\* Shutdown leaves nothing behind: once the manager and then the provider are
\* closed, no PPCS session is open and no FFmpeg runs, and none comes back.
ShutdownClosesCamera ==
  closed ~> [](source = None /\ \A s \in Sessions : ~open[s])

(***************************************************************************)
(* What a comment of the source promises and the code does not keep: a run *)
(* expects TLC to refute it.                                               *)
(***************************************************************************)

\* eufy-provider.ts: a session is closed when the last consumer releases the
\* source, so a live source nobody uses has its idle timer running.
UnusedSourceIsReleased ==
  source # None /\ linked[source] /\ clients = {} /\ leases = 0 /\ ~closed => timer
=============================================================================
