# Verification of the Eufy event gateway

Paths of the form `stream/...`, `provider/...` are below
`src/eufy_event_gateway/src/`.

## The system

The gateway is one Node.js process between the Eufy cloud, the cameras and
HomeBases of a household, and Home Assistant.

| Component | State | Operations | Modelled |
|---|---|---|---|
| Live stream manager (`stream/live-stream-manager.ts`) | per camera: viewers, recordings, lease counter, source, FFmpeg extractor, idle timer, published state | addClient, captureSnapshot, captureStartupSnapshot, recordClip, attachSource, markStopped, close | yes |
| Eufy provider (`provider/eufy-provider.ts`) | devices, keys, `#ppcsStreams`, HomeBase states, one operation queue per HomeBase, login challenges, push receiver | start, startStream, stopStream, HomeBase writes and reads, submitCaptcha, submitVerification, close | partly |
| Camera session (`stream/first-party-ppcs.ts`) | UDP socket, remote, key, reassembly buffers, timers | start, close, packet handlers | yes |
| HomeBase control session (`stream/homebase-ppcs.ts`) | UDP socket, command counters, pending replies | connect, writes, readState, close | partly |
| Snapshot store (`storage/snapshot-store.ts`) | records, write queue, image files, index | initialize, write, read | yes |
| Startup warm-up (`startup-snapshot-warmup.ts`) | schedule, capture queue | enqueue, start, stop | yes |
| Gateway state (`domain/gateway-state.ts`) | cameras, HomeBases, detection flags and timers | register, record, update, close | yes |
| Cloud client (`mega/client.ts`, `mega/session-store.ts`) | session and its file, pending CAPTCHA | connect, inventory, keys | partly |
| Push receiver (`mega/push.ts`) | persistent ids and their file | start, close | partly |
| Push client (`mega/android-push/push-client.ts`, `parser.ts`) | socket, parser, timers, ids | connect, reconnect, close | yes |
| HTTP server (`server.ts`) | SSE clients | REST, SSE, live stream | partly |
| Process (`main.ts`) | | start, shutdown, fatal | partly |
| Home Assistant coordinator and client (`src/custom_components/`) | coordinator data | poll, events, command answers | yes |

`main.ts` connects the parts of the gateway by callbacks: the provider reports
cameras, events and sources to gateway state, snapshot store and stream manager;
these emit what the HTTP server sends to Home Assistant.

### What is hard

* One thread, but nearly every operation awaits something, and state read before
  an `await` is used after it: a superseded start still settles, a `read()` serves
  metadata that a write has replaced, a poll's answer is older than the events
  applied while it travelled.
* Ownership is counted, not scoped: viewers, captures and recordings share one
  session per camera, which the idle timer, the lifetime timer, a HomeBase write, a
  failed start, the camera itself and shutdown may each end.
* Events come late: a socket's `close` event arrives after the call that closed it
  returned, possibly when a newer one is in its place.
* UDP loses, repeats and reorders; TLS streams arrive in chunks of any size;
  Firebase delivers until told otherwise; an event stream dies silently.
* Disks fail, and the process may stop between any two file operations.
* A login may ask for an image or a code in between; nothing keeps two answers, or
  a restart, from overlapping.

`PROJECT.json` lists every hazard at its line with the properties about it.

## Modules

| Module | Models |
|---|---|
| `LiveStream` | one camera in the live stream manager, with the provider's streams and the life of its sessions |
| `PpcsMedia` | the inside of one of these sessions: lookup, key exchange, reassembly, close |
| `SnapshotStore` | the snapshot store with its disk, and the image metadata of gateway state |
| `StartupWarmup` | the warm-up, composed with `SnapshotStore` |
| `StationQueue` | one HomeBase: operation queue, recovery poll, control sessions, pushes, close |
| `TurnQueue` | abstract: turns, one at a time, in the order of asking; implemented by `StationQueue` |
| `GatewayState` | objects, detection flags and their timers |
| `StateFeed` | `GatewayState` composed with the HTTP server, Home Assistant's coordinator, shutdown and restart |
| `Startup` | login with its challenges, session file, startup, push receiver, restart |
| `McsParser` | the parser of the push connection, byte by byte |
| `FrameStream` | abstract: frames arrive whole, in order and once; implemented by `McsParser` |
| `PushReceiver` | the push client's connection and the receiver's memory of ids |
| `...Proofs` | theorems of `LiveStream`, `PpcsMedia`, `SnapshotStore`, `StationQueue`, `StateFeed`, `Startup`, `PushReceiver`, `McsParser` |
| `MC...` | instances for TLC |

Definitions named `Op_Defect` are slips of `Op` that a property must detect.

An action is one macrotask of Node: a timer, a message, an HTTP event or the
continuation of an `await`, with all calls up to the next `await`. Where a call
has many steps (the loop of a parser, events queued by a `destroy`), these are
actions of their own for which all others wait (`Quiet`, `running`, `frames`).

### LiveStream

Cameras share only the `#closed` flag, so one is modelled.

| State | Code |
|---|---|
| `clients`, `state`, `source`, `timer`, `owned`, `leases` | the fields of `Session` in the manager; the FFmpeg extractor lives exactly as long as `source` |
| `mapped` | the camera's entry of `#ppcsStreams` |
| `open`, `linked`, `bounded` | per session: `close` has not run; CAM_ID arrived; lifetime timer armed |
| `starter` | which caller awaits `start()` of the session |
| `ending` | sources destroyed while they had listeners |
| `resp`, `task` | HTTP responses; captures and recordings, by where they wait |

Left out: video bytes, FFmpeg's frames (a refreshed snapshot is an event that may
come at any time), MP4 packaging but for its success or failure, and messages.
`stopping` is not a state: `stopStream` calls `markStopped` before it yields. A
refused start (no route, no key) is a choice.

### PpcsMedia

| State | Code |
|---|---|
| `starting`, `socket`, `remote`, `beating` | the promise of `start()`, `#socket`, `#remote`, `#timer` with `#heartbeat` |
| `level2Key`, `lookup` | `#level2Key`, and a `#gatewayPromise` in progress |
| `pending`, `last` | `#pendingByType`, `#lastSequenceByType` |
| `handed` | the frames `#consumeData` cuts out |
| `commands`, `network`, `streaming`, `informing`, `sent` | datagrams in either direction, and the peer |
| `crashed` | an unhandled rejection ended the process |

A part is a stretch of the peer's byte stream and is known by its position, so a
whole frame is one whose positions follow each other from its header on. Sequence
numbers are compared as the code does, in 16 bits; the instance crosses the wrap,
and the network leaves two datagrams that arrive one after the other less than a
wrap apart (`InWindow`). The code appends a datagram that comes again right after
itself; `seam` is history and marks the place, so that `NoPartMissing`
leaves out the frames that contain one and no others. It does not excuse a datagram
that is repeated later. A frame's contents and encryption are left out.

### SnapshotStore and StartupWarmup

Writes are numbered by call, and an image is known by the number of the write
that made it; metadata carries the capture time, so it names its write too. A
write passes through `Begin`, `ImageRenamed`, `RecordSet`, `IndexRenamed` and
`Announce`, one action per point between two awaits or disk effects. `WriteFails`
rejects it: a live frame is reported, a push picture ends the process, because
`main.ts` leaves the rejection unhandled. `Stop` is any end of the process; it
keeps the disk only. `Register` is `providerEvents.camera`: it restores the
retained image, again after every completed login. `StartupWarmup` adds the
schedule and the capture queue; a capture ends at some time, which is
`TasksFinish` of `LiveStream`.

### StationQueue

HomeBases share nothing, so one is modelled. An operation is a request or the poll
of the refresh timer, and goes from `queued` (its promise hangs on another) through
`connecting`, `writing`, `reading` and `storage`, the awaits of its session, to
`ok` or `failed`.

| State | Code |
|---|---|
| `tail` | the HomeBase's entry in `#stationOperations` |
| `after` | the promise an operation is chained to, while that is unsettled |
| `station` | its entry in `#stations`: settings, `connected`, alarm |
| `media` | its cameras in `#ppcsStreams` |
| `goal`, `reply` | the value a write asks for; a camera-info answer on its way |
| `device`, `siren`, `command`, `pushes` | the HomeBase itself, and messages that may be late or never come |
| `ahead`, `applied`, `lastSiren` | history, for stating properties only |

The four values a write can set behave alike; the mode stands for them. Settings
are numbered, so two visits to one mode are told apart. The lookup and handshake
are one await (`Connected`), which fails by its timer like every other. A command
may take effect after its session gave up. The model assumes a completed login.

### GatewayState and StateFeed

Whatever is published of a camera or HomeBase other than detections is a revision
number. Timers count ticks; a due timer fires some time later. `view` is the
coordinator's data; it is fed by events (`channel`), by the two lists of a poll
(`asked`, `answer`), and by answers of HomeBase commands (`replies`), which travel
on different connections, so an answer may arrive after a later event. `sse` is
the event listener, which may be connected to a gateway that cannot be heard.
`main` follows `shutdown()`: `draining` is the wait in `server.close()`.

### Startup

`provider.start`, `submitCaptcha` and `submitVerification` are callers; `step` is
the await each is at, in `MegaClient.connect` or `#completeStartup`. `session`,
`pending`, `challenge`, `verify`, `push` are the fields of the client and of the
provider, `disk` is the session file. A token is known by the number of the login
that issued it, a CAPTCHA by the number of its image, so that a mix-up shows. What
the cloud answers is a choice; `revoked` tokens are refused. Any request and any
save may fail, also with a single caller. A configured code is what `start()` is
called with after a restart (`given`); when it is refused, `start()` stores the
challenge it gets, unlike a submission, which throws (`Submitted`). The user answers
what the page shows and enters the code of the last mail (`mailed`). `overlap`,
`asked` and `accepted` are history: two callers were in progress at once; the last
mail whose code was asked for; the last image that a login succeeded with.

The properties about logins leave out callers that overlap, because the code breaks
them when callers do: while an answer waits for the session file, a repeated
login or a second answer may replace the image it was read from, or a refused code
fetch an image that the page does not show. `ConnectedHasReceiver` leaves
overlap out as well, and `connected` in it is the receiver's first login: a later
loss of the connection is not reported. `CodeUsesItsToken` leaves out a configured
code whose token was not saved, and `AnswerMatchesImage` the answer to an image
that a login had already succeeded with; both are among the observations below.

### McsParser and PushReceiver

`McsParser` has the parser's fields by their names and a wire of bytes that is cut
into chunks anywhere; varints use digits in a small base, so that sizes of one to
four bytes occur, as many as those of a legal frame have in the code. `PushReceiver` takes whole frames: `socket`, `heartbeat`,
`timer`, `currentDelay`, `loginFailures` and `ids` are the client's; `recorded`,
`saving`, `queued` and `disk` are the receiver's list of ids with its queue of
saves; `mail` is what Firebase still holds. `HandedOnce` allows a notification to
come again after a crash, and after a `close()` whose last save failed, because its
id is not on disk then. `handled`, `recent`, `failed` and
`waited` are history, and `recentSaving` and `recentDisk` what `recent` was when
the save in progress, and the one on disk, were taken.

## Runs

| Run | Instance | States | Shows |
|---|---|---|---|
| `livestream` | 1 viewer, 1 startup capture, 1 recording, 2 sessions | 3,552 | consumers are never cut by the idle timer, sessions neither duplicated nor lost; captures and recordings end, sources detach, shutdown is complete |
| `snapshots` | 2 cameras, 2 writes, 1 reader | 63,174 | durability and order of images through errors and crashes; the warm-up queue |
| `station` | 1 write, the recurring poll, 1 camera, 2 modes, 1 change from outside | 22,518 | the queue implements `TurnQueue`; confirmation, settling and recovery |
| `feed` | 1 camera, 1 HomeBase, 2 events on their way, 1 restart | 194,571 | flags are held in full; Home Assistant converges to the gateway |
| `startup` | 2 submissions, 2 accounts, 2 logins, 2 images, 1 restart | 159,818 | challenges get their own answers, a good session is resumed, connected means connected, calls finish |
| `parser` | 6 kinds of frames, 3 frames, 2 connections, chunks up to 4 bytes | 34,794 | `McsParser` implements `FrameStream`; connections are given up for a reason |
| `push` | 3 notifications, window of 2, 1 restart | 329,610 | handed on once, none lost, retry with backoff, quiet when closed |
| `ppcs` | 2 datagram types around the wrap, 1 repetition | 161,445 | frames are whole, `start()` settles, media starts |
| `unused_source_kept` | 2 viewers, 1 capture, 3 sessions | | violation, finding 1 |
| `shutdown_hangs` | as `feed`, no restart | | violation, finding 2 |
| `lost_datagram` | as `ppcs` | | violation, finding 3 |
| `closed_session` | as `ppcs` | | violation, finding 4 |

Bounds.

* `livestream`: consumers interact only through membership of `clients`, through
  `leases` and through which of them awaits a start. One of each kind gives every
  pair of different kinds; two viewers and three sessions are in
  `unused_source_kept`, and the safety theorems hold for any sets. A finished
  session is reused, so lives of any length are covered; two give an open one and
  a superseded one.
* `snapshots`: two writes give every pair of (earlier, later) on one camera or two,
  with a crash or a failure anywhere; the theorems remove the bound.
* `station`: the poll comes again and again, so a write meets operations before it,
  behind it and several polls in a row. A refresh request is a poll that comes
  once. One change from outside suffices for a push to overtake, or be overtaken
  by, an answer. The theorems hold for any requests and changes.
* `feed`: two events on their way let an answer fall between them; the HomeBase
  changes once and is answered by a command, the camera changes through its
  detections. One kind of detection suffices for timers, which are kept per kind;
  persons, doorbells and their precedence are covered by the theorems.
* `startup`: two submissions are the least that overlap; two logins give an old and
  a new token, two images an old and a new challenge.
* `parser`: lengths of one to four bytes, a frame that is too long, and one that
  cannot be decoded; the frame limit is the first length of four bytes (in the code
  2 MiB is one of four bytes too), the buffer limit twice that, as in the code.
* `push`: a window of two with three notifications forgets one; the delays pass
  through every branch of `scheduleReconnect`.
* `ppcs`: frames of one to three parts that share datagrams, span datagrams and
  straddle the wrap, and one over the size limit.

`CHECK_DEADLOCK FALSE` is set where the system may really stop: after a shutdown
(`livestream`, `station`), when nobody starts the gateway again (`feed`, `push`),
when a failed startup waits for its user (`startup`; the code never retries it),
when Firebase has nothing more to send (`parser`), and when a session is closed
(`ppcs`).

### Fairness

Node never starves a due timer, a queued callback or a completed file operation.
Such actions are strongly fair where queued work may overtake them and weakly
fair where nothing can. What others do is never fair: viewers, cameras, HomeBases,
Firebase, Eufy, Home Assistant's user, crashes, restarts and shutdowns may come or
not. In particular:

* `LiveStream`: `ProviderClose` is fair because `main.ts` awaits the manager's close
  and then calls the provider's.
* `StationQueue`: a queued operation whose turn has come begins, the refresh
  interval comes round, and the 10-second timer behind each await fires. That the
  HomeBase answers some of the polls is the premise of `SettingRecovers`.
* `StateFeed`: the gateway answers requests, sent events arrive or their connection
  is lost, and a listener that can connect does. That some polls succeed is the
  premise of `Converges`.
* `Startup`: requests of the cloud client end, because each has a time limit. That
  Firebase accepts a login is not assumed; the receiver's timer is fair.
* `PushReceiver`: only the client's own timers, events and writes.
* `PpcsMedia`: timers and key lookups are weakly fair. The commands that are sent
  once (1100 for the gateway information, 1700 to a direct camera) may be lost for
  good; `MediaStarts` speaks of attached cameras whose key is known. Of start commands that are
  sent again and again one arrives (strong fairness of `PeerHears`): this is an
  assumption about the network, the weakest under which `MediaStarts` means
  anything.

## Proofs

TLAPS proves 45 theorems, each for every value of the constants that satisfies the
named assumptions. Type invariants are proved and not listed in the runs.

* `LiveStreamProofs`. `LeaseInv` (types, lease count, idle timer, and
  `StarterWaits`: a task that awaits a start is in progress and awaits no other) is
  inductive. The counter stays natural because it counts tasks, and it counts them
  because a failed start sends only a task in progress to its `finally` block.
  `SessionInv` ties the manager's beliefs to the provider's sessions: every open
  session is the mapped one; a source is mapped and linked or its end is queued; an
  ended source is closed and still the current source; only a starting or streaming
  camera of a running manager is owned; a session with a lifetime is the source.
* `SnapshotStoreProofs`. `StoreInv` says that writes are serialized, what the write
  in progress has done to file, record and index, and that in a running process
  index <= record and published <= record. `WarmupKeepsStore` is a refinement: every
  step of the gateway with its warm-up is a step of the store or leaves it alone, so
  the store's theorems hold there too. `ChainInv`: the queue holds each scheduled
  camera once, and what runs is its head; a lemma on tails of sequences without
  repetition carries it over a capture.
* `StationQueueProofs`. The entry in `#stationOperations` alone does not show that
  sessions are serialized, because a chain is only as good as its links. `Line`, a
  conjunct of `StationInv`, says that the sets `ahead` order the pending operations
  totally, that the entry is the last of that order, and that an operation hangs on
  nothing exactly when it is the first. Enqueueing at the end and settling at the
  front keep it. With `WriteProgress`, which relates a write's phase to its command,
  goal and answer, `StationInv` is inductive. `QueueTakesTurns` is the refinement:
  initial states map to initial states of `TurnQueue`, and every step to a step or
  a stutter.
* `StateFeedProofs`. Flags and timers correspond, a timer's remaining time and the
  age of its detection together make at least the hold period, and a doorbell that
  hides a person from `lastDetection` is no older.
* `StartupProofs`. `Alone` says what holds until two callers overlap: one caller is
  in progress, it was given what the page asks for, nothing is asked for once the
  startup is being completed, and `#push` is the receiver that the caller waits for.
  The three histories hold by what was true when the request was built: `ImageInv`
  (the page shows, and an answer on its way answers, the image that is pending, or
  one that a login has succeeded with since), `CodeInv` (the token of the last mail, or a later one, is in
  the session while the page asks for the code, and on disk once it has come to ask)
  and `ResumeInv` (a caller that goes on to a login nobody asked for has found the
  stored token useless, which it stays). `SessionInv` ties memory to disk under all
  three.
* `PpcsProofs`. Behind its seam, what is pending on a type is a stretch of the
  stream that ends where its last datagram ends: each part plus the number of parts
  behind it is that end (`Joined`, in this form because it needs no induction).
  Appending keeps it because distances in 16 bits are true distances within the
  window (`InWindow`, of two successive datagrams); cutting off a frame keeps it
  because the rest keeps its end. A frame cut off while there is no seam is the
  stretch its header announces (`CutWhole`).
* `PushProofs`. `Known`: every id that may be reported as received, in memory, in a
  save or on disk, was handed on. `Waits`: the next delay is at least the last wait,
  and no socket exists while the timer runs. `Shut`: a client that is not up has no
  timer, socket or unread frame. `HandedOnce` needs the windows at four places (in
  memory, being saved, on disk, and as the history has them) to be ends of each
  other: remembering an id keeps common ends, and an id that is not in the window is
  new to the shorter ones.
* `McsParserProofs`. `InStep`: the bytes read, buffered and on their way are the
  stream that the server wrote, laid out as a version byte and frames that end at
  `ends[n]`, and the parser stands where its state says: at a frame, behind its tag,
  or behind its length. The stream and `ends` are bound by a quantifier in the
  invariant and never built by recursion: a frame that is sent extends them
  (`LayoutGrows`), a chunk moves bytes within them (`LeftArrived`), and a step of the
  parser moves the place (`BodyRead`, `HeaderRead`). `LengthRead` is the argument about
  varints: the first byte without a continuation bit is the last one written, so any
  cut is either a whole length or an incomplete one. `Waits` says that at most three
  bytes, or less than a legal body, are left between chunks; with `RoomAssumption`
  the buffer never overflows. `ParserImplements` is the refinement of `FrameStream`,
  without its fairness. `SizesAssumption` bounds bodies to lengths of four varint
  bytes: below 2^28 bytes for 128 digits, which covers every frame within the limit
  of 2 MiB and those over it that the parser has to refuse.

Only model-checked: the liveness properties (`TasksFinish`, `SourceDetaches`,
`ShutdownClosesCamera`, `WritesFinish`, `ScheduleDrains`, `OperationsSettle`,
`SettingRecovers`, `Converges`, `CallersFinish`, `KeepsTrying`, `StartSettles`,
`MediaStarts`, and in `DeliversFrames` the fairness of `Deliver`). They rest on
fairness and ENABLED, which are out of the prover's reach. Every invariant and
every action property of a passing run is proved.

## Findings

Each is the counterexample of a run; `PROJECT.json` quotes the line it contradicts.

1. `stream/live-stream-manager.ts:274`: the rejection of a superseded start disowns
   the session that replaced it, which then streams to nobody until its lifetime
   ends (`unused_source_kept`).
2. `main.ts:150`: a shutdown waits in `server.close()` for Home Assistant's event
   stream, which only the client ends, so streams and provider are not closed
   (`shutdown_hangs`).
3. `stream/first-party-ppcs.ts:174`: after the loss of the datagram that begins a
   frame, its continuation stays at the head of the buffer and blocks all frames
   until the next gap (`lost_datagram`).
4. `stream/first-party-ppcs.ts:224`: a key that arrives after `close()` is used to
   send on the closed socket; the rejection ends the gateway (`closed_session`).

Observed while modelling, and kept in the models as the code has them, without runs
of their own:

* `stream/first-party-ppcs.ts:174`: a datagram that arrives again right after itself
  has distance 0 and is appended again. The frame it belongs to is handed on with a
  part repeated and its end missing, for instance positions 5, 5 for a frame of the
  parts 5 and 6. `NoPartMissing` leaves out these frames.
* `mega/client.ts:136`: the code is mailed before its token is saved. If the process
  ends or the save fails between the two, the code that is entered in the options is
  submitted without the token that requested it, which `README.md:119` says it is
  submitted with. `CodeUsesItsToken` leaves out such codes.
* `mega/client.ts:148`: the pending CAPTCHA is forgotten before the session is
  saved. If the save fails, the page goes on showing the image, whose answer is then
  sent with an empty `captcha_id`. `AnswerMatchesImage` leaves out such answers.
* A finished session stays in `#ppcsStreams`: cleaning up a source removes the
  provider's own `close` listener (`stream/live-stream-manager.ts:422`), so recovery
  polls of that HomeBase stay suspended.
* A failed start leaves its session open; a late answer makes it stream without a
  lifetime (`provider/eufy-provider.ts:162`). A viewer that joined that start stays
  connected to nothing (`stream/live-stream-manager.ts:266`).
* Between the two renames of a write a picture is served under the metadata of the
  one before (`storage/snapshot-store.ts:58,85`). A push picture whose write fails
  ends the process (`main.ts:108`).
* The recovery poll reads no siren state, so an alarm whose last push was missed
  stays published, while `docs/MEGA_PLATFORM.md:132` has the poll recover missed
  notifications.
* With two submissions at once an answer may go out with the identifier of another
  image, and the second receiver may replace the first, which stays open (`provider/eufy-provider.ts:235`). When inventory fails after an
  accepted CAPTCHA, the state stays `authentication-required` with nothing to
  answer. A failed startup is never retried.
* A reconnecting push client has no time limit on the login
  (`mega/android-push/push-client.ts:143`).

## Not modelled

* The JPEG frame parser: a scan for two markers in one call, without concurrency.
* The reassembly of HomeBase datagrams repeats that of camera sessions line for
  line; `PpcsMedia` stands for both. Handshake steps of a control session are one
  await.
* The request throttle of the cloud client delays requests and decides nothing;
  signing, encryption and decoding are conversions.
* The translation of device parameters and push payloads, capability tables,
  configuration, logging: pure functions of tables.
* FCM registration and protobuf codecs: one-shot requests and generated code.
* HTTP routing, authentication, media responses and the web page: I/O.
* The simulated provider, a stand-in for development; Home Assistant's entities,
  which are views of the coordinator.

## Plan

The components with state and concurrency are modelled, and what the runs check of
their safety is proved. Worth doing next: the composition of `PpcsMedia` with
`LiveStream` (a session that starts, emits and ends as its manager assumes), an
abstract camera (held while wanted, one session) that `LiveStream` implements while
no start fails, and the request throttle with concurrent callers.
