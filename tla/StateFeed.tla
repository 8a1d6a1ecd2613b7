----------------------------- MODULE StateFeed ------------------------------
(***************************************************************************)
(* How Home Assistant follows the gateway: GatewayState composed with the  *)
(* HTTP server that sends it (server.ts: the SSE stream, the two lists and *)
(* the answers of HomeBase commands), the integration's coordinator that   *)
(* merges all of these, and the shutdown and restart of the gateway.       *)
(*                                                                         *)
(* Answers and events travel on different connections: each keeps its      *)
(* order, but an answer may arrive after an event that was sent later.     *)
(* Events that the coordinator does not read (detection, snapshot-updated, *)
(* connection-updated, heartbeats) are left out.                           *)
(***************************************************************************)
EXTENDS GatewayState, Sequences

CONSTANTS
  MaxEvents,   \* bound: events on their way
  MaxRestarts  \* bound: starts of a new gateway process

VARIABLES
  main,      \* "running", "draining": in server.close(), "closed": after it
  restarts,  \* counter behind MaxRestarts
  sse,       \* the event listener: "unstarted", "waiting" to reconnect, "on",
             \* or "silent": connected to a gateway that cannot be heard
  channel,   \* events on their way
  polling,   \* a refresh is in progress
  asked,     \* its requests that the gateway has not answered
  answer,    \* what it was answered
  replies,   \* answers of HomeBase commands on their way
  view       \* the coordinator's data

feed == <<sse, channel, polling, asked, answer, replies, view>>
vars == <<states, main, restarts, feed>>

Absent == [revision |-> 0, raised |-> {}]
Publication == [revision : Nat, raised : SUBSET Kinds]
Lists == {"cameras", "stations"}

\* The ready event carries the cameras only.
Ready(listing) == [type |-> "ready", cameras |-> listing]
Update(o, state) == [type |-> "update", object |-> o, state |-> state]
Events ==
  [type : {"ready"}, cameras : [Cameras -> Publication]]
    \cup [type : {"update"}, object : Objects, state : Publication]

FeedTypeOK ==
  /\ StateTypeOK
  /\ main \in {"running", "draining", "closed"}
  /\ restarts \in Nat
  /\ sse \in {"unstarted", "waiting", "on", "silent"}
  /\ channel \in Seq(Events)
  /\ polling \in BOOLEAN
  /\ asked \subseteq Lists
  /\ answer \in [Objects -> Publication]
  /\ replies \subseteq [object : Stations, state : Publication]
  /\ view \in [Objects -> Publication]

Init ==
  /\ StateInit
  /\ main = "running"
  /\ restarts = 0
  /\ sse = "unstarted"
  /\ channel = <<>>
  /\ polling = FALSE
  /\ asked = {}
  /\ answer = [o \in Objects |-> Absent]
  /\ replies = {}
  /\ view = [o \in Objects |-> Absent]

-----------------------------------------------------------------------------
(***************************************************************************)
(* The gateway.                                                            *)
(***************************************************************************)

\* The event listener of an SSE response forwards what GatewayState emits.
Emit(o) ==
  /\ sse = "on" => Len(channel) < MaxEvents
  /\ channel' = IF sse = "on" THEN Append(channel, Update(o, Published(o)')) ELSE channel
  /\ UNCHANGED <<main, restarts, sse, polling, asked, answer, replies, view>>

Detection(c, k) == RecordDetection(c, k) /\ Emit(c)
DetectionEnds(c, k) == ClearDetection(c, k) /\ Emit(c)
NewObject(o) == Register(o) /\ Emit(o)
Change(o) == Revise(o) /\ Emit(o)

TimePasses == Tick /\ UNCHANGED <<main, restarts, feed>>

\* stationCommand: the confirmed state is registered and sent as the answer.
StationCommand(s) ==
  /\ main = "running" /\ sse # "unstarted" /\ replies = {}
  /\ Revise(s)
  /\ sse = "on" => Len(channel) < MaxEvents
  /\ channel' = IF sse = "on" THEN Append(channel, Update(s, Published(s)')) ELSE channel
  /\ replies' = {[object |-> s, state |-> Published(s)']}
  /\ UNCHANGED <<main, restarts, sse, polling, asked, answer, view>>

\* The GET handlers of the camera and the HomeBase list.
AnswerList(list) ==
  /\ list \in asked
  /\ asked' = asked \ {list}
  /\ answer' = [o \in Objects |->
       IF o \in (IF list = "cameras" THEN Cameras ELSE Stations) THEN Published(o) ELSE answer[o]]
  /\ UNCHANGED <<states, main, restarts, sse, channel, polling, replies, view>>

\* shutdown() until it waits for the HTTP server.
Shutdown ==
  /\ main = "running" /\ Dispose
  /\ main' = "draining"
  /\ UNCHANGED <<restarts, feed>>

\* The HTTP server is closed once no response is open; only then does shutdown go
\* on to close the streams and the provider.
ServerClosed ==
  /\ main = "draining"
  /\ sse \notin {"on", "silent"} /\ asked = {}
  /\ main' = "closed"
  /\ UNCHANGED <<states, restarts, feed>>

\* The process ends, in whatever state, and another one starts with empty state.
Restart ==
  /\ restarts < MaxRestarts
  /\ restarts' = restarts + 1
  /\ main' = "running"
  /\ revision' = [o \in Objects |-> 0]
  /\ raised' = [c \in Cameras |-> {}]
  /\ timers' = [c \in Cameras |-> [k \in Kinds |-> {}]]
  /\ age' = [c \in Cameras |-> [k \in Kinds |-> Forgotten]]
  /\ last' = [c \in Cameras |-> NoDetection]
  /\ disposed' = FALSE
  /\ sse' = IF sse = "on" THEN "waiting" ELSE sse
  /\ polling' = (polling /\ asked = {})
  /\ answer' = IF asked = {} THEN answer ELSE [o \in Objects |-> Absent]
  /\ asked' = {}
  /\ channel' = <<>>
  /\ UNCHANGED <<replies, view>>

-----------------------------------------------------------------------------
(***************************************************************************)
(* The coordinator.                                                        *)
(***************************************************************************)

\* #events: the ready event, then the listener.
Connect ==
  /\ sse = "waiting" /\ main = "running"
  /\ sse' = "on"
  /\ channel' = <<Ready([c \in Cameras |-> Published(c)])>>
  /\ UNCHANGED <<states, main, restarts, polling, asked, answer, replies, view>>

\* The stream ends or fails: the listener sleeps and connects again.
Disconnect ==
  /\ sse \in {"on", "silent"}
  /\ sse' = "waiting"
  /\ channel' = <<>>
  /\ UNCHANGED <<states, main, restarts, polling, asked, answer, replies, view>>

\* The connection is lost, and the client, which has no read timeout, not told.
GoSilent ==
  /\ sse = "on"
  /\ sse' = "silent"
  /\ channel' = <<>>
  /\ UNCHANGED <<states, main, restarts, polling, asked, answer, replies, view>>

\* _apply_event: a list replaces all cameras, an update one object.
ApplyEvent ==
  /\ channel # <<>>
  /\ channel' = Tail(channel)
  /\ view' = LET event == Head(channel) IN
       IF event.type = "ready"
       THEN [o \in Objects |-> IF o \in Cameras THEN event.cameras[o] ELSE view[o]]
       ELSE [view EXCEPT ![event.object] = event.state]
  /\ UNCHANGED <<states, main, restarts, sse, polling, asked, answer, replies>>

\* async_set_station with the answer of a command, or the command fails.
ReplyArrives ==
  /\ \E r \in replies :
       /\ replies' = replies \ {r}
       /\ view' \in {view, [view EXCEPT ![r.object] = r.state]}
  /\ UNCHANGED <<states, main, restarts, sse, channel, polling, asked, answer>>

\* _async_update_data asks for both lists at once.
StartPoll ==
  /\ ~polling /\ main = "running"
  /\ polling' = TRUE
  /\ asked' = Lists
  /\ UNCHANGED <<states, main, restarts, sse, channel, answer, replies, view>>

\* Both answers replace everything; the first refresh starts the event listener.
FinishPoll_Merges ==
  /\ polling /\ asked = {}
  /\ polling' = FALSE
  /\ answer' = [o \in Objects |-> Absent]
  /\ view' = [o \in Objects |-> IF answer[o] = Absent THEN view[o] ELSE answer[o]]
  /\ sse' = IF sse = "unstarted" THEN "waiting" ELSE sse
  /\ UNCHANGED <<states, main, restarts, channel, asked, replies>>

FinishPoll ==
  /\ polling /\ asked = {}
  /\ polling' = FALSE
  /\ answer' = [o \in Objects |-> Absent]
  /\ view' = answer
  /\ sse' = IF sse = "unstarted" THEN "waiting" ELSE sse
  /\ UNCHANGED <<states, main, restarts, channel, asked, replies>>

FailPoll ==
  /\ polling
  /\ polling' = FALSE
  /\ answer' = [o \in Objects |-> Absent]
  /\ asked' = {}
  /\ UNCHANGED <<states, main, restarts, sse, channel, replies, view>>

-----------------------------------------------------------------------------
Coordinator ==
  Connect \/ Disconnect \/ GoSilent \/ ApplyEvent \/ ReplyArrives
    \/ StartPoll \/ FinishPoll \/ FailPoll

Gateway ==
  \/ \E c \in Cameras, k \in Kinds : Detection(c, k) \/ DetectionEnds(c, k)
  \/ \E o \in Objects : NewObject(o) \/ Change(o)
  \/ \E s \in Stations : StationCommand(s)
  \/ \E list \in Lists : AnswerList(list)
  \/ TimePasses \/ Shutdown \/ ServerClosed \/ Restart

Next == Gateway \/ Coordinator

Spec == Init /\ [][Next]_vars

\* Timers fire, the gateway answers, sent events and answers arrive, and a
\* listener that may connect does so.  Nothing makes Home Assistant disconnect.
Fairness ==
  /\ \A c \in Cameras, k \in Kinds : WF_vars(DetectionEnds(c, k))
  /\ \A list \in Lists : WF_vars(AnswerList(list))
  /\ WF_vars(ApplyEvent) /\ WF_vars(ReplyArrives) /\ WF_vars(FinishPoll)
  /\ WF_vars(TimePasses) /\ WF_vars(Connect) /\ WF_vars(ServerClosed)

FairSpec == Spec /\ Fairness

-----------------------------------------------------------------------------
(***************************************************************************)
(* Properties.                                                             *)
(***************************************************************************)

\* Whatever answers overtook events, were lost or came from a process that has
\* been restarted: when an object changes no more, whatever the others do, and
\* some refreshes succeed, Home Assistant ends up with what the gateway holds.
Converges ==
  \A o \in Objects :
    (<>[][UNCHANGED Published(o)]_vars /\ []<><<FinishPoll>>_vars)
      => <>[](view[o] = Published(o))

\* CHANGELOG.md: the gateway exits cleanly after SIGTERM.  With all connections
\* in order, a shutdown that began should get to closing streams and provider.
ShutdownCompletes ==
  [](sse # "silent") => (main = "draining" ~> main # "draining")
=============================================================================
