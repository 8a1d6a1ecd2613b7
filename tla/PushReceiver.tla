---------------------------- MODULE PushReceiver ----------------------------
(***************************************************************************)
(* The push receiver: the client that keeps one connection to Firebase     *)
(* (android-push/push-client.ts), and the receiver that remembers on disk  *)
(* which notifications have been handed on (push.ts), across lost          *)
(* connections, rejected logins, crashes and restarts.                     *)
(*                                                                         *)
(* Frames arrive as McsParser delivers them.  Firebase keeps a             *)
(* notification until a login request lists it as received, and may send   *)
(* it any number of times.  The registration before the first connection   *)
(* is part of Startup; pings and their answers are left out.               *)
(*                                                                         *)
(* Op_Defect is Op with a plausible slip, and no part of the specification. *)
(***************************************************************************)
EXTENDS Naturals, Sequences, SequencesExt

CONSTANTS
  Messages,     \* notifications, by their persistent id
  Window,       \* ids remembered: 100
  MaxFailures,  \* MAX_LOGIN_FAILURES
  FirstDelay, DelayStep, SlowDelay, SlowStep, MaxDelay,  \* of scheduleReconnect
  MaxChunk,     \* bound: frames in one chunk
  MaxRestarts   \* bound: starts of a new process

ASSUME BoundsAssumption ==
  /\ {FirstDelay, DelayStep, SlowDelay, SlowStep, MaxDelay, MaxFailures, MaxChunk, MaxRestarts}
       \subseteq Nat
  /\ Window \in Nat \ {0}
ASSUME DelayAssumption ==
  /\ 0 < FirstDelay /\ FirstDelay <= DelayStep
  /\ DelayStep <= SlowDelay /\ SlowDelay <= MaxDelay
ASSUME MessagesAssumption == "idle" \notin Messages

VARIABLES
  \* of the client
  socket,        \* "none", "connecting", "login": asked, "on", or "destroyed"
  frames,        \* rest of the chunk that is being handled
  heartbeat,     \* the heartbeat timer runs
  timer,         \* what the reconnect timer was set to, or 0
  currentDelay,
  loginFailures, \* as far as MaxFailures
  ids,           \* persistentIds of the client
  \* of the receiver
  phase,         \* "up", "closing": in close(), "closed", or "down": no process
  recorded,      \* persistentIds of its state
  saving,        \* the save in progress: a sequence of ids, or Idle
  queued,        \* another save waits for it
  \* outside the process
  disk,          \* ids in mega-push.json
  posted,        \* notifications Eufy has sent
  mail,          \* those Firebase still holds
  restarts,
  \* history
  handled,       \* notifications handed on to the provider
  recent,        \* the last of them, in order, but for those a crash may forget
  recentSaving,  \* what recent was when the save in progress began
  recentDisk,    \* and when the one that is on the disk began
  failed,        \* the last save failed
  waited         \* the last wait since a login was accepted

client == <<socket, frames, heartbeat, timer, currentDelay, loginFailures, ids>>
files == <<recorded, saving, queued, disk>>
outside == <<posted, mail, restarts>>
history == <<handled, recent, recentSaving, recentDisk, failed>>
vars == <<client, phase, files, outside, history, waited>>

Idle == <<"idle">>
Accept == "accept"
Reject == "reject"
ServerClose == "close"
Unreadable == "unreadable"

\* In any order, but nothing follows a frame that ends the connection.
Chunks(first, allowed) ==
  {chunk \in SeqOf(first \cup allowed, MaxChunk) :
     /\ Len(chunk) > 0
     /\ chunk[1] \in first
     /\ \A i \in 2 .. Len(chunk) : chunk[i] \in allowed
     /\ \A i \in 1 .. Len(chunk) - 1 : chunk[i] \notin {Reject, ServerClose, Unreadable}}

Windows == {w \in Seq(Messages) : Len(w) <= Window}

PushTypeOK ==
  /\ socket \in {"none", "connecting", "login", "on", "destroyed"}
  /\ frames \in Seq(Messages \cup {Accept, Reject, ServerClose, Unreadable})
  /\ heartbeat \in BOOLEAN /\ queued \in BOOLEAN /\ failed \in BOOLEAN
  /\ timer \in Nat /\ currentDelay \in Nat /\ waited \in Nat
  /\ loginFailures \in 0 .. MaxFailures
  /\ ids \in Windows /\ recorded \in Windows /\ disk \in Windows
  /\ recent \in Windows /\ recentSaving \in Windows /\ recentDisk \in Windows
  /\ saving \in Windows \cup {Idle}
  /\ phase \in {"up", "closing", "closed", "down"}
  /\ posted \subseteq Messages /\ mail \subseteq posted /\ handled \subseteq Messages
  /\ restarts \in Nat

\* slice(-99) and the new id.
Remember(window, m) ==
  Append(IF Len(window) < Window THEN window ELSE Tail(window), m)

-----------------------------------------------------------------------------
(***************************************************************************)
(* The client.                                                             *)
(***************************************************************************)

Init ==
  /\ socket = "connecting" /\ frames = <<>>
  /\ heartbeat = FALSE /\ timer = 0 /\ currentDelay = 0 /\ loginFailures = 0
  /\ phase = "up"
  /\ ids = <<>> /\ recorded = <<>> /\ disk = <<>> /\ saving = Idle /\ queued = FALSE
  /\ posted = {} /\ mail = {} /\ restarts = 0
  /\ handled = {} /\ failed = FALSE /\ waited = 0
  /\ recent = <<>> /\ recentSaving = <<>> /\ recentDisk = <<>>

\* The TLS connection stands: the login request lists the ids that are known.
SecureConnect_Resets ==
  /\ socket = "connecting"
  /\ socket' = "login"
  /\ mail' = mail \ ToSet(ids)
  /\ currentDelay' = 0
  /\ UNCHANGED <<frames, heartbeat, timer, loginFailures, ids,
                 phase, files, posted, restarts, history, waited>>

SecureConnect ==
  /\ socket = "connecting"
  /\ socket' = "login"
  /\ mail' = mail \ ToSet(ids)
  /\ UNCHANGED <<frames, heartbeat, timer, currentDelay, loginFailures, ids,
                 phase, files, posted, restarts, history, waited>>

\* A chunk of frames: the answer to the login first, then what Firebase holds.
ChunkArrives ==
  /\ frames = <<>>
  /\ \/ socket = "login" /\ frames' \in Chunks({Accept, Reject, Unreadable}, mail)
     \/ socket = "on" /\ frames' \in
          Chunks(mail \cup {ServerClose, Unreadable}, mail \cup {ServerClose, Unreadable})
  /\ UNCHANGED <<socket, heartbeat, timer, currentDelay, loginFailures, ids,
                 phase, files, outside, history, waited>>

\* onMessage, for the next frame of the chunk.
HandleLogin ==
  /\ frames # <<>> /\ Head(frames) = Accept
  /\ frames' = Tail(frames)
  /\ socket' = "on"
  /\ currentDelay' = 0 /\ loginFailures' = 0
  /\ heartbeat' = TRUE
  /\ waited' = 0
  /\ UNCHANGED <<timer, ids, phase, files, outside, history>>

\* onLoginError, a Close frame, or handleData throwing: the socket is destroyed.
HandleEnd ==
  /\ frames # <<>> /\ Head(frames) \in {Reject, ServerClose, Unreadable}
  /\ frames' = Tail(frames)
  /\ socket' = "destroyed"
  /\ loginFailures' = IF Head(frames) = Reject /\ loginFailures < MaxFailures
                      THEN loginFailures + 1 ELSE loginFailures
  /\ UNCHANGED <<heartbeat, timer, currentDelay, ids, phase, files, outside, history, waited>>

\* The receiver's message listener: record the id, have it saved, hand it on.
Record(m) ==
  IF m \in ToSet(recorded) THEN UNCHANGED <<recorded, saving, queued, recentSaving>>
  ELSE /\ recorded' = Remember(recorded, m)
       /\ saving' = IF saving = Idle THEN recorded' ELSE saving
       /\ recentSaving' = IF saving = Idle THEN recent' ELSE recentSaving
       /\ queued' = (queued \/ saving # Idle)

\* handleDataMessage.
HandleMessage_DropsWhileSaving ==
  /\ frames # <<>> /\ Head(frames) \in Messages
  /\ frames' = Tail(frames)
  /\ LET m == Head(frames) IN
     IF m \in ToSet(ids)
     THEN UNCHANGED <<ids, recorded, saving, queued, handled, recent, recentSaving>>
     ELSE /\ ids' = Remember(ids, m)
          /\ handled' = IF saving = Idle THEN handled \cup {m} ELSE handled
          /\ recent' = IF saving = Idle THEN Remember(recent, m) ELSE recent
          /\ Record(m)
  /\ UNCHANGED <<socket, heartbeat, timer, currentDelay, loginFailures,
                 phase, disk, outside, recentDisk, failed, waited>>

HandleMessage ==
  /\ frames # <<>> /\ Head(frames) \in Messages
  /\ frames' = Tail(frames)
  /\ LET m == Head(frames) IN
     IF m \in ToSet(ids)
     THEN UNCHANGED <<ids, recorded, saving, queued, handled, recent, recentSaving>>
     ELSE /\ ids' = Remember(ids, m)
          /\ handled' = handled \cup {m}
          /\ recent' = Remember(recent, m)
          /\ Record(m)
  /\ UNCHANGED <<socket, heartbeat, timer, currentDelay, loginFailures,
                 phase, disk, outside, recentDisk, failed, waited>>

\* The connection is lost, or cannot be made.
ConnectionLost ==
  /\ socket \in {"connecting", "login", "on"} /\ frames = <<>>
  /\ socket' = "destroyed"
  /\ UNCHANGED <<frames, heartbeat, timer, currentDelay, loginFailures, ids,
                 phase, files, outside, history, waited>>

\* scheduleReconnect.
ScheduleReconnect ==
  /\ currentDelay' = currentDelay +
       (IF currentDelay < SlowDelay THEN DelayStep
        ELSE IF currentDelay < MaxDelay THEN SlowStep ELSE 0)
  /\ timer' = IF timer # 0 THEN timer
              ELSE IF currentDelay = 0 THEN FirstDelay ELSE currentDelay
  /\ waited' = timer'

\* onClose, when the socket is closed.
OnClose_Always ==
  /\ socket = "destroyed" /\ frames = <<>>
  /\ socket' = "none"
  /\ heartbeat' = FALSE
  /\ ScheduleReconnect
  /\ UNCHANGED <<frames, loginFailures, ids, phase, files, outside, history>>

OnClose_GivesUp ==
  /\ socket = "destroyed" /\ frames = <<>>
  /\ socket' = "none"
  /\ heartbeat' = FALSE
  /\ IF phase = "up" /\ loginFailures < MaxFailures
     THEN ScheduleReconnect ELSE UNCHANGED <<timer, currentDelay, waited>>
  /\ UNCHANGED <<frames, loginFailures, ids, phase, files, outside, history>>

OnClose ==
  /\ socket = "destroyed" /\ frames = <<>>
  /\ socket' = "none"
  /\ heartbeat' = FALSE
  /\ IF phase = "up" THEN ScheduleReconnect ELSE UNCHANGED <<timer, currentDelay, waited>>
  /\ UNCHANGED <<frames, loginFailures, ids, phase, files, outside, history>>

\* The reconnect timer fires: connect().
Reconnect ==
  /\ timer # 0
  /\ timer' = 0
  /\ socket' = "connecting"
  /\ UNCHANGED <<frames, heartbeat, currentDelay, loginFailures, ids,
                 phase, files, outside, history, waited>>

-----------------------------------------------------------------------------
(***************************************************************************)
(* The receiver.                                                           *)
(***************************************************************************)

\* saveState ends: the file holds what the state was when it began, or, after an
\* error, what it held before.  The next queued save takes the state as it is.
NextSave ==
  /\ saving' = IF queued THEN recorded ELSE Idle
  /\ recentSaving' = IF queued THEN recent ELSE <<>>
  /\ queued' = FALSE

SaveDone ==
  /\ saving # Idle /\ frames = <<>>
  /\ disk' = saving /\ recentDisk' = recentSaving
  /\ failed' = FALSE
  /\ NextSave
  /\ UNCHANGED <<client, phase, recorded, outside, handled, recent, waited>>

SaveFails ==
  /\ saving # Idle /\ frames = <<>>
  /\ failed' = TRUE
  /\ NextSave
  /\ UNCHANGED <<client, phase, recorded, disk, outside, handled, recent, recentDisk, waited>>

\* close(), or the end of a login that took too long: the client is closed.
Close ==
  /\ phase = "up" /\ frames = <<>>
  /\ phase' = "closing"
  /\ heartbeat' = FALSE /\ timer' = 0
  /\ socket' = IF socket = "none" THEN "none" ELSE "destroyed"
  /\ UNCHANGED <<frames, currentDelay, loginFailures, ids, files, outside, history, waited>>

\* close() has awaited the saves.
CloseDone_TooSoon ==
  /\ phase = "closing" /\ ~queued
  /\ phase' = "closed"
  /\ UNCHANGED <<client, files, outside, history, waited>>

CloseDone ==
  /\ phase = "closing" /\ saving = Idle
  /\ phase' = "closed"
  /\ UNCHANGED <<client, files, outside, history, waited>>

-----------------------------------------------------------------------------
\* Eufy sends a notification.
Post(m) ==
  /\ m \notin posted
  /\ posted' = posted \cup {m} /\ mail' = mail \cup {m}
  /\ UNCHANGED <<client, phase, files, restarts, history, waited>>

\* The process ends, in whatever state.  Only a crash, or a write that failed, is
\* allowed to lose ids.
Exit ==
  /\ phase # "down" /\ frames = <<>>
  /\ phase' = "down"
  /\ socket' = "none" /\ heartbeat' = FALSE /\ timer' = 0
  /\ saving' = Idle /\ queued' = FALSE
  /\ recent' = IF phase = "closed" /\ ~failed THEN recent ELSE recentDisk
  /\ recentSaving' = <<>>
  /\ failed' = FALSE
  /\ UNCHANGED <<frames, currentDelay, loginFailures, ids, recorded, disk, outside, handled,
                 recentDisk, waited>>

\* A new process loads its state and connects.
StartAgain ==
  /\ phase = "down" /\ restarts < MaxRestarts
  /\ restarts' = restarts + 1
  /\ phase' = "up"
  /\ recorded' = disk /\ ids' = disk
  /\ socket' = "connecting"
  /\ currentDelay' = 0 /\ loginFailures' = 0 /\ waited' = 0
  /\ UNCHANGED <<frames, heartbeat, timer, saving, queued, disk, posted, mail, history>>

HandleFrame == HandleLogin \/ HandleEnd \/ HandleMessage

Next ==
  \/ SecureConnect \/ ChunkArrives \/ HandleFrame \/ ConnectionLost \/ OnClose \/ Reconnect
  \/ SaveDone \/ SaveFails \/ Close \/ CloseDone \/ Exit \/ StartAgain
  \/ \E m \in Messages : Post(m)

Spec == Init /\ [][Next]_vars

\* A chunk is handled to its end, a destroyed socket closes, due timers fire and
\* writes end.  Nothing is assumed of the network or of Firebase.
FairSpec ==
  /\ Spec
  /\ WF_vars(HandleFrame) /\ WF_vars(OnClose) /\ WF_vars(Reconnect)
  /\ WF_vars(SaveDone \/ SaveFails)

-----------------------------------------------------------------------------
(***************************************************************************)
(* Properties.                                                             *)
(***************************************************************************)

\* CHANGELOG.md: a restart does not replay old notifications.  However often
\* Firebase sends it, a notification is not handed on twice within the window,
\* unless the process ended before its id was on disk: without close(), or after a
\* close() whose last save failed.
HandedOnce == IsInjective(recent)

\* Firebase is told that a notification was received only after it was handed on,
\* also when connections break or the process ends in between: none is lost.
NothingLost == posted \ mail \subseteq handled

\* A client that is not closed always connects again, also after rejected logins.
KeepsTrying ==
  socket \in {"none", "destroyed"} /\ phase = "up" ~> socket = "connecting" \/ phase # "up"

\* As long as no login is accepted, whatever the connections come to, the client
\* waits no shorter than the time before.
BackoffGrows ==
  [][timer = 0 /\ timer' # 0 => timer' >= waited /\ timer' >= FirstDelay]_vars

\* Whatever was in progress, a closed client opens no other connection: no timer
\* runs, and the close event of its socket starts none.
QuietWhenClosed ==
  phase # "up" => timer = 0 /\ ~heartbeat /\ socket \in {"none", "destroyed"}
=============================================================================
