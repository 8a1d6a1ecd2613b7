---------------------------- MODULE StationQueue ----------------------------
(***************************************************************************)
(* The state and commands of one HomeBase: the operation queue of          *)
(* EufyProvider (#queueStationOperation), the recovery poll, the pushes    *)
(* that change the same state, and the short-lived local sessions of       *)
(* HomeBasePpcsSession that read and write it.  HomeBases share nothing.   *)
(*                                                                         *)
(* As in LiveStream an action is one macrotask, and microtasks run before  *)
(* the next one: a queued operation whose predecessor has settled begins   *)
(* before any timer, message or request, see Quiet.                        *)
(*                                                                         *)
(* The guard mode stands for the four values a write sets and a read       *)
(* returns.  The HomeBase is the environment: its mode is changed by       *)
(* accepted writes and by other clients of the account, its siren goes on  *)
(* and off, and each change sends a push that may be lost or late.         *)
(*                                                                         *)
(* Op_Defect is Op with a plausible slip, and no part of the specification. *)
(***************************************************************************)
EXTENDS Naturals, FiniteSets

CONSTANTS
  Writes,     \* requests that set the mode
  Refreshes,  \* requests that only read
  Poll,       \* the operation of the refresh timer
  NoOp,       \* no operation
  Cameras,    \* the cameras attached to this HomeBase
  Modes,
  NoMode,     \* guardMode is null until the first observation
  MaxChanges  \* bound: changes made by other clients, and siren changes

Requests == Writes \cup Refreshes
Ops == Requests \cup {Poll}

ASSUME OpsAssumption == Writes \cap Refreshes = {} /\ Poll \notin Requests /\ NoOp \notin Ops
ASSUME ModesAssumption == NoMode \notin Modes

VARIABLES
  phase,      \* how far an operation is
  after,      \* previous: the unsettled operation it is chained to
  ahead,      \* history: the unsettled operations requested before it
  tail,       \* the HomeBase's entry in #stationOperations
  goal,       \* the mode a write asks for
  reply,      \* the camera-info answer that is on its way to the session
  station,    \* the HomeBase's entry in #stations, published as it changes
  media,      \* cameras of the HomeBase with an entry in #ppcsStreams
  service,    \* whether the provider is open, closing or closed
  \* the HomeBase and the push service
  device,     \* its setting: the mode and how many times it was set
  command,    \* what became of the command of a write
  applied,    \* history: the setting number a command produced
  siren,
  pushes,     \* on their way
  changes,    \* counter behind MaxChanges
  lastSiren   \* history: the siren state of the last push handled

queue == <<phase, after, ahead, tail, goal, reply>>
homebase == <<device, siren, changes>>
history == <<applied, lastSiren>>
vars == <<queue, station, media, service, homebase, command, pushes, history>>

InSession == {"connecting", "writing", "reading", "storage"}
Phases == {"idle", "queued", "ok", "failed"} \cup InSession

Settings == [mode : Modes \cup {NoMode}, number : Nat]
Sirens == {"unknown", "on", "off"}
NoSetting == [mode |-> NoMode, number |-> 0]
ModePush(s) == [kind |-> "mode", setting |-> s, siren |-> "unknown"]
SirenPush(x) == [kind |-> "siren", setting |-> NoSetting, siren |-> x]
Pushes == [kind : {"mode", "siren"}, setting : Settings, siren : Sirens]

TypeOK ==
  /\ phase \in [Ops -> Phases]
  /\ after \in [Ops -> Ops \cup {NoOp}]
  /\ ahead \in [Ops -> SUBSET Ops]
  /\ tail \in Ops \cup {NoOp}
  /\ goal \in [Writes -> Modes \cup {NoMode}]
  /\ reply \in [Ops -> Settings]
  /\ station \in [setting : Settings, connected : BOOLEAN, alarm : Sirens]
  /\ media \subseteq Cameras
  /\ service \in {"open", "closing", "closed"}
  /\ device \in [mode : Modes, number : Nat]
  /\ command \in [Writes -> {"none", "sent", "accepted", "rejected"}]
  /\ applied \in [Writes -> Nat]
  /\ siren \in Sirens
  /\ pushes \subseteq Pushes
  /\ changes \in Nat
  /\ lastSiren \in Sirens

Init ==
  /\ phase = [t \in Ops |-> "idle"]
  /\ after = [t \in Ops |-> NoOp]
  /\ ahead = [t \in Ops |-> {}]
  /\ tail = NoOp
  /\ goal = [w \in Writes |-> NoMode]
  /\ reply = [t \in Ops |-> NoSetting]
  /\ station = [setting |-> NoSetting, connected |-> FALSE, alarm |-> "unknown"]
  /\ media = {}
  /\ service = "open"
  /\ device \in [mode : Modes, number : {1}]
  /\ command = [w \in Writes |-> "none"]
  /\ applied = [w \in Writes |-> 0]
  /\ siren = "off"
  /\ pushes = {}
  /\ changes = 0
  /\ lastSiren = "unknown"

-----------------------------------------------------------------------------
Pending == {t \in Ops : phase[t] \in {"queued"} \cup InSession}

\* No operation is about to begin.
Quiet == \A t \in Ops : ~(phase[t] = "queued" /\ after[t] = NoOp)

Enqueue_Unchained(t) ==
  /\ phase' = [phase EXCEPT ![t] = "queued"]
  /\ after' = [after EXCEPT ![t] = NoOp]
  /\ ahead' = [ahead EXCEPT ![t] = Pending]
  /\ tail' = t
  /\ UNCHANGED reply

\* #queueStationOperation chains the operation to the one in #stationOperations
\* and takes its place there.
Enqueue(t) ==
  /\ phase' = [phase EXCEPT ![t] = "queued"]
  /\ after' = [after EXCEPT ![t] = tail]
  /\ ahead' = [ahead EXCEPT ![t] = Pending]
  /\ tail' = t
  /\ UNCHANGED reply

Settle_AlwaysDeletes(t, outcome) ==
  /\ reply' = [reply EXCEPT ![t] = NoSetting]
  /\ phase' = [phase EXCEPT ![t] = outcome]
  /\ after' = [u \in Ops |-> IF after[u] = t THEN NoOp ELSE after[u]]
  /\ ahead' = [u \in Ops |-> ahead[u] \ {t}]
  /\ tail' = NoOp

Settle_KeepsEntry(t, outcome) ==
  /\ reply' = [reply EXCEPT ![t] = NoSetting]
  /\ phase' = [phase EXCEPT ![t] = outcome]
  /\ after' = [u \in Ops |-> IF after[u] = t THEN NoOp ELSE after[u]]
  /\ ahead' = [u \in Ops |-> ahead[u] \ {t}]
  /\ UNCHANGED tail

Settle_BlocksOnFailure(t, outcome) ==
  /\ reply' = [reply EXCEPT ![t] = NoSetting]
  /\ phase' = [phase EXCEPT ![t] = outcome]
  /\ after' = [u \in Ops |-> IF after[u] = t /\ outcome # "failed" THEN NoOp ELSE after[u]]
  /\ ahead' = [u \in Ops |-> ahead[u] \ {t}]
  /\ tail' = IF tail = t THEN NoOp ELSE tail

\* The promise of an operation settles: its session is closed and hears no more,
\* its entry is deleted if it is still its own, and the operation chained to it
\* may begin, whatever the outcome.
Settle(t, outcome) ==
  /\ reply' = [reply EXCEPT ![t] = NoSetting]
  /\ phase' = [phase EXCEPT ![t] = outcome]
  /\ after' = [u \in Ops |-> IF after[u] = t THEN NoOp ELSE after[u]]
  /\ ahead' = [u \in Ops |-> ahead[u] \ {t}]
  /\ tail' = IF tail = t THEN NoOp ELSE tail

\* A step of the session that leaves the queue and the state alone.
Advance(t, from, to) ==
  /\ Quiet
  /\ phase[t] = from
  /\ phase' = [phase EXCEPT ![t] = to]
  /\ UNCHANGED <<after, ahead, tail, goal, station, media, service, homebase, pushes, history>>

-----------------------------------------------------------------------------
(***************************************************************************)
(* Operations.                                                             *)
(***************************************************************************)

\* POST of a command or a refresh (server.ts, #stationCommand); the value of a
\* command is checked before it is queued.
Request(t) ==
  /\ Quiet /\ service = "open"
  /\ phase[t] = "idle"
  /\ Enqueue(t)
  /\ IF t \in Writes THEN \E m \in Modes : goal' = [goal EXCEPT ![t] = m]
                     ELSE UNCHANGED goal
  /\ UNCHANGED <<station, media, service, homebase, command, pushes, history>>

\* The refresh timer passes by while an operation is pending or media runs.
PollTimer ==
  /\ Quiet /\ service = "open"
  /\ tail = NoOp /\ media = {}
  /\ Enqueue(Poll)
  /\ UNCHANGED <<goal, station, media, service, homebase, command, pushes, history>>

\* An operation's turn: a write stops the media of the HomeBase, a read gives
\* way to it; then the session looks the HomeBase up.
Begin(t) ==
  /\ phase[t] = "queued" /\ after[t] = NoOp
  /\ \/ /\ t \notin Writes /\ media # {}
        /\ Settle(t, "ok")
        /\ UNCHANGED media
     \/ /\ t \in Writes \/ media = {}
        /\ media' = {}
        /\ phase' = [phase EXCEPT ![t] = "connecting"]
        /\ UNCHANGED <<after, ahead, tail, reply>>
  /\ UNCHANGED <<goal, station, service, homebase, command, pushes, history>>

Connected_ReadsFirst(t) ==
  /\ Advance(t, "connecting", "reading")
  /\ \/ t \in Writes /\ command' = [command EXCEPT ![t] = "sent"]
     \/ t \notin Writes /\ UNCHANGED command
  /\ UNCHANGED reply

\* connect() resolves, once CAM_ID answers the lookup and GATEWAY_INFO the
\* handshake: a write sends its command, once, and a read asks for the state.
Connected(t) ==
  /\ \/ /\ t \in Writes
        /\ Advance(t, "connecting", "writing")
        /\ command' = [command EXCEPT ![t] = "sent"]
     \/ /\ t \notin Writes
        /\ Advance(t, "connecting", "reading")
        /\ UNCHANGED command
  /\ UNCHANGED reply

\* The command's result arrives: the state is read back.
AckArrives(t) ==
  /\ t \in Writes /\ command[t] = "accepted"
  /\ Advance(t, "writing", "reading")
  /\ UNCHANGED <<reply, command>>

\* The readback shows the value the write asked for.
Confirm(t) == reply[t].mode = goal[t]

Publish_FromScratch(s) ==
  station' = [setting |-> s, connected |-> TRUE, alarm |-> "unknown"]

\* mergeHomeBaseState: the observation replaces the settings; the alarm is not
\* part of it.
Publish(s) == station' = [station EXCEPT !.setting = s, !.connected = TRUE]

\* The camera-info answer arrives: a confirmed write publishes it, a read goes on
\* to the storage request.
ReadArrives(t) ==
  /\ Quiet
  /\ phase[t] = "reading" /\ reply[t] # NoSetting
  /\ \/ /\ t \in Writes /\ Confirm(t)
        /\ Publish(reply[t])
        /\ Settle(t, "ok")
     \/ /\ t \notin Writes
        /\ phase' = [phase EXCEPT ![t] = "storage"]
        /\ UNCHANGED <<after, ahead, tail, reply, station>>
  /\ UNCHANGED <<goal, media, service, homebase, command, pushes, history>>

\* The storage request is answered, rejected or timed out; either way the read
\* publishes the settings it got before.
StorageSettles(t) ==
  /\ Quiet
  /\ phase[t] = "storage"
  /\ Publish(reply[t])
  /\ Settle(t, "ok")
  /\ UNCHANGED <<goal, media, service, homebase, command, pushes, history>>

\* A 10 s timer of the session, a socket error, a rejected command, or a readback
\* that shows another value.
Fails(t) ==
  /\ Quiet
  /\ phase[t] \in InSession \ {"storage"}
  /\ station' = [station EXCEPT !.connected = FALSE]
  /\ Settle(t, "failed")
  /\ UNCHANGED <<goal, media, service, homebase, command, pushes, history>>

-----------------------------------------------------------------------------
(***************************************************************************)
(* Pushes, camera media, shutdown.                                         *)
(***************************************************************************)

\* #handlePush of a push; one that never arrives is lost.  Event type 9 carries
\* the mode, type 10 the siren.
PushArrives(p) ==
  /\ Quiet /\ service = "open"
  /\ p \in pushes
  /\ pushes' = pushes \ {p}
  /\ IF p.kind = "mode"
       THEN station' = [station EXCEPT !.setting = p.setting] /\ UNCHANGED lastSiren
       ELSE station' = [station EXCEPT !.alarm = p.siren] /\ lastSiren' = p.siren
  /\ UNCHANGED <<queue, media, service, homebase, command, applied>>

\* startStream of a camera; it does not look at the operations.
MediaStarts(c) ==
  /\ Quiet /\ service = "open"
  /\ c \notin media
  /\ media' = media \cup {c}
  /\ UNCHANGED <<queue, station, service, homebase, command, pushes, history>>

\* stopStream of a camera, or the end of its session.
MediaEnds(c) ==
  /\ Quiet
  /\ c \in media
  /\ media' = media \ {c}
  /\ UNCHANGED <<queue, station, service, homebase, command, pushes, history>>

\* EufyProvider.close up to its wait for the operations; the HTTP server and the
\* push receiver are closed by then.
Close ==
  /\ Quiet /\ service = "open"
  /\ service' = "closing"
  /\ media' = {}
  /\ UNCHANGED <<queue, station, homebase, command, pushes, history>>

CloseEnds_NoWait ==
  /\ Quiet /\ service = "closing"
  /\ service' = "closed"
  /\ UNCHANGED <<queue, station, media, homebase, command, pushes, history>>

\* Promise.allSettled over #stationOperations, whose entry is the last of the
\* chain.
CloseEnds ==
  /\ Quiet /\ service = "closing"
  /\ tail = NoOp
  /\ service' = "closed"
  /\ UNCHANGED <<queue, station, media, homebase, command, pushes, history>>

-----------------------------------------------------------------------------
(***************************************************************************)
(* The HomeBase, which acts at any moment.                                 *)
(***************************************************************************)

SetMode(m) ==
  /\ device' = [mode |-> m, number |-> device.number + 1]
  /\ pushes' = pushes \cup {ModePush(device')}

\* A command arrives, even when its session has given up.
CommandArrives(w) ==
  /\ Quiet
  /\ command[w] = "sent"
  /\ \/ /\ command' = [command EXCEPT ![w] = "accepted"]
        /\ SetMode(goal[w])
        /\ applied' = [applied EXCEPT ![w] = device'.number]
     \/ /\ command' = [command EXCEPT ![w] = "rejected"]
        /\ UNCHANGED <<device, pushes, applied>>
  /\ UNCHANGED <<queue, station, media, service, siren, changes, lastSiren>>

\* The HomeBase answers a camera-info request; the answer travels.
ReadAnswered(t) ==
  /\ Quiet
  /\ phase[t] = "reading" /\ reply[t] = NoSetting
  /\ reply' = [reply EXCEPT ![t] = device]
  /\ UNCHANGED <<phase, after, ahead, tail, goal>>
  /\ UNCHANGED <<station, media, service, homebase, command, pushes, history>>

\* Somebody changes the mode in the Eufy app or at the keypad.
OtherClientSets(m) ==
  /\ Quiet /\ changes < MaxChanges
  /\ changes' = changes + 1
  /\ SetMode(m)
  /\ UNCHANGED <<queue, station, media, service, siren, command, history>>

SirenChanges ==
  /\ Quiet /\ changes < MaxChanges
  /\ changes' = changes + 1
  /\ siren' = IF siren = "on" THEN "off" ELSE "on"
  /\ pushes' = pushes \cup {SirenPush(siren')}
  /\ UNCHANGED <<queue, station, media, service, device, command, history>>

Next ==
  \/ \E t \in Requests : Request(t)
  \/ PollTimer
  \/ \E t \in Ops : Begin(t) \/ Connected(t) \/ AckArrives(t)
  \/ \E t \in Ops : ReadArrives(t) \/ StorageSettles(t) \/ Fails(t)
  \/ \E p \in pushes : PushArrives(p)
  \/ \E c \in Cameras : MediaStarts(c) \/ MediaEnds(c)
  \/ Close \/ CloseEnds
  \/ \E w \in Writes : CommandArrives(w)
  \/ \E t \in Ops : ReadAnswered(t)
  \/ \E m \in Modes : OtherClientSets(m)
  \/ SirenChanges

Spec == Init /\ [][Next]_vars

(***************************************************************************)
(* Every promise of a session settles, by its 10 s timer if by nothing     *)
(* else, so none of these waits for ever; queued operations begin and the  *)
(* refresh interval comes round.  Requests, pushes, media and the shutdown *)
(* may never come.                                                         *)
(***************************************************************************)
Fairness ==
  /\ \A t \in Ops : WF_vars(Begin(t)) /\ SF_vars(Fails(t)) /\ SF_vars(StorageSettles(t))
  /\ WF_vars(PollTimer)
  /\ SF_vars(CloseEnds)

FairSpec == Spec /\ Fairness

\* A HomeBase that is asked again and again answers some of the time.  This is a
\* fact about the network, so it is the premise of a property, never of the
\* specification.
HomeBaseAnswers ==
  /\ SF_vars(Connected(Poll))
  /\ SF_vars(ReadAnswered(Poll))
  /\ SF_vars(ReadArrives(Poll))

-----------------------------------------------------------------------------
(***************************************************************************)
(* Properties.                                                             *)
(***************************************************************************)

\* MEGA_PLATFORM.md: the gateway serializes operations for each HomeBase.  No two
\* sessions with it are open at once, however requests, polls, failures and the
\* deletion of entries interleave in #queueStationOperation.
OneSession ==
  \A t, u \in Ops : phase[t] \in InSession /\ phase[u] \in InSession => t = u

\* Operations take their turns in the order of their requests: nothing requested
\* before an operation with an open session is unsettled.
ServedInOrder == \A t \in Ops : phase[t] \in InSession => ahead[t] = {}

\* The same of the whole queue, as TurnQueue says it: whatever fails, settles or is
\* requested again in the meantime, operations on a HomeBase take turns one at a
\* time, in the order in which they were requested.
Turns == INSTANCE TurnQueue WITH
  Clients <- Ops,
  waiting <- {t \in Ops : phase[t] = "queued"},
  served  <- {t \in Ops : phase[t] \in InSession},
  before  <- ahead

TakesTurns == Turns!Spec

\* #stationOperations has an entry exactly while an operation is pending, and it
\* is the last one: the refresh timer and the shutdown rely on it.
EntryWhilePending ==
  /\ tail # NoOp => tail \in Pending
  /\ tail = NoOp => Pending = {}

\* "Home Assistant never presents an optimistic setting as confirmed": a write
\* succeeds only when the HomeBase has applied it, with what it said afterwards.
ConfirmedIsReal ==
  [][\A w \in Writes : phase[w] # "ok" /\ phase'[w] = "ok" =>
       /\ applied[w] > 0
       /\ station'.setting.mode = goal[w]
       /\ station'.setting.number >= applied[w]]_vars

\* The alarm state is the last one pushed, whatever reads and writes publish in
\* between: #queueStationOperation merges into the state it finds at the end.
AlarmFollowsPushes == station.alarm = lastSiren

\* Once the provider is closed no session with the HomeBase is open or to come.
ClosedIsQuiet == service = "closed" => Pending = {}

\* Every operation settles, whatever the HomeBase does and however many wait.
OperationsSettle == \A t \in Ops : t \in Pending ~> t \notin Pending

\* The 60-second poll recovers missed notifications: while nothing keeps the poll
\* from running, the published setting becomes the HomeBase's and stays so.
SettingRecovers ==
  HomeBaseAnswers /\ <>[](service = "open" /\ media = {})
    => <>[](station.setting = device)
=============================================================================
