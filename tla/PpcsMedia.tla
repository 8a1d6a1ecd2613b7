----------------------------- MODULE PpcsMedia ------------------------------
(***************************************************************************)
(* One media session with a camera or its HomeBase                         *)
(* (stream/first-party-ppcs.ts): lookup, the key exchange of an attached   *)
(* camera, heartbeats, close, and how frames are put together from UDP     *)
(* datagrams that are lost, repeated and overtaken.  LiveStream sees of    *)
(* all this only whether a session starts, emits and ends.                 *)
(*                                                                         *)
(* A part is a stretch of the byte stream the peer sends on one datagram   *)
(* type, by its position; a frame begins at a position in DOMAIN           *)
(* Size[t].  The frames of "data" carry gateway information, those of      *)
(* "video" are written to output; what encryption does to them is left     *)
(* out, and so are acknowledgements: a datagram the peer repeats for want  *)
(* of one is a repeated datagram.                                          *)
(*                                                                         *)
(* A call of #consumeData lasts from Receive to the last HandFrame that    *)
(* follows it, and nothing happens meanwhile, see Quiet.                   *)
(*                                                                         *)
(* Op_Defect is Op with a plausible slip, and no part of the specification. *)
(***************************************************************************)
EXTENDS Integers, Sequences, SequencesExt

CONSTANTS
  Types,         \* of datagrams: "data" and "video"
  First,         \* number of the first datagram of a type; n carries n % 65536
  Ends,          \* where the parts of datagram n of type t end
  Size,          \* of the frame that begins at a position, in parts
  MaxFrameSize,  \* 16 MiB
  MaxRepeats     \* bound: datagrams that arrive again

Datagrams(t) == DOMAIN Ends[t] \ {First - 1}

ASSUME NumbersAssumption == First \in Nat \ {0} /\ MaxFrameSize \in Nat /\ MaxRepeats \in Nat
ASSUME EndsAssumption ==
  \A t \in Types :
    /\ First - 1 \in DOMAIN Ends[t]
    /\ \A n \in DOMAIN Ends[t] : n \in Nat /\ Ends[t][n] \in Nat
    /\ \A n \in Datagrams(t) : n - 1 \in DOMAIN Ends[t] /\ Ends[t][n - 1] < Ends[t][n]
ASSUME SizeAssumption ==
  \A t \in Types : \A p \in DOMAIN Size[t] : Size[t][p] \in Nat \ {0}

VARIABLES
  attached,   \* homeBaseAttached
  socket,     \* "new", "open" or "closed"
  starting,   \* the promise of start(): "no", "lookup", "resolved", "rejected"
  remote,     \* whether #remote is known
  beating,    \* #timer and #heartbeat are armed
  level2Key,
  lookup,     \* #gatewayPromise: a cipher key is being looked up
  crashed,    \* a rejection nobody handles ended the process
  pending,    \* #pendingByType
  last,       \* #lastSequenceByType, as the number of the datagram, or 0
  handed,     \* frames #consumeData has cut out, oversize ones left out
  \* the network and the peer
  commands,   \* on their way to the peer
  streaming,  \* media was started
  informing,  \* gateway information was asked for
  sent,       \* the last datagram of each type
  network,    \* datagrams on their way
  repeats,    \* counter behind MaxRepeats
  run,        \* history: datagrams run[t] .. last[t] came one right after the other
  seam        \* history: how many of the pending parts are in front of a datagram that
              \* came again right after itself, or 0

session == <<attached, socket, starting, remote, beating, level2Key, lookup, crashed>>
assembly == <<pending, last, handed, run, seam>>
peer == <<streaming, informing, sent>>
vars == <<session, assembly, commands, peer, network, repeats>>

PpcsTypeOK ==
  /\ attached \in BOOLEAN
  /\ socket \in {"new", "open", "closed"}
  /\ starting \in {"no", "lookup", "resolved", "rejected"}
  /\ remote \in BOOLEAN /\ beating \in BOOLEAN
  /\ level2Key \in BOOLEAN /\ lookup \in BOOLEAN /\ crashed \in BOOLEAN
  /\ pending \in [Types -> Seq(Nat)]
  /\ last \in [Types -> Nat]
  /\ handed \in [Types -> Seq(Seq(Nat))]
  /\ commands \subseteq {"gateway", "start"}
  /\ streaming \in BOOLEAN /\ informing \in BOOLEAN
  /\ sent \in [Types -> Nat]
  /\ network \subseteq UNION {{t} \X Datagrams(t) : t \in Types}
  /\ repeats \in 0 .. MaxRepeats
  /\ run \in [Types -> Nat] /\ seam \in [Types -> Nat]

Init ==
  /\ attached \in BOOLEAN
  /\ socket = "new" /\ starting = "no"
  /\ remote = FALSE /\ beating = FALSE
  /\ level2Key = FALSE /\ lookup = FALSE /\ crashed = FALSE
  /\ pending = [t \in Types |-> <<>>] /\ last = [t \in Types |-> 0]
  /\ handed = [t \in Types |-> <<>>]
  /\ commands = {} /\ streaming = FALSE /\ informing = FALSE
  /\ sent = [t \in Types |-> First - 1]
  /\ network = {} /\ repeats = 0
  /\ run = [t \in Types |-> 0] /\ seam = [t \in Types |-> 0]

-----------------------------------------------------------------------------
(***************************************************************************)
(* From datagrams to frames.                                               *)
(***************************************************************************)

\* A frame header is at the head of what is pending.
AtHeader(t) == pending[t] # <<>> /\ Head(pending[t]) \in DOMAIN Size[t]

FrameSize(t) == Size[t][Head(pending[t])]

Oversize(t) == AtHeader(t) /\ FrameSize(t) > MaxFrameSize

Ready(t) == AtHeader(t) /\ (Oversize(t) \/ Len(pending[t]) >= FrameSize(t))

Quiet == ~crashed /\ \A t \in Types : ~Ready(t)

Parts(t, n) == [i \in 1 .. Ends[t][n] - Ends[t][n - 1] |-> Ends[t][n - 1] + i]

\* How far a sequence number is behind another one, in 16 bits.
Distance(m, n) == ((m % 65536) - (n % 65536)) % 65536

Gap(t, n) == last[t] # 0 /\ Distance(n, last[t]) > 1

\* The first half of #consumeData: after a gap the unfinished frame is given up.
Receive_KeepsPending(t, n) ==
  /\ pending' = [pending EXCEPT ![t] = @ \o Parts(t, n)]
  /\ last' = [last EXCEPT ![t] = n]
  /\ run' = [run EXCEPT ![t] = IF last[t] # 0 /\ n = last[t] + 1 THEN @ ELSE n]
  /\ seam' = [seam EXCEPT ![t] = IF n = last[t] THEN Len(pending[t]) ELSE @]
  /\ UNCHANGED <<session, handed, commands, peer>>

Receive(t, n) ==
  /\ pending' = [pending EXCEPT ![t] = (IF Gap(t, n) THEN <<>> ELSE @) \o Parts(t, n)]
  /\ last' = [last EXCEPT ![t] = n]
  /\ run' = [run EXCEPT ![t] = IF last[t] # 0 /\ n = last[t] + 1 THEN @ ELSE n]
  /\ seam' = [seam EXCEPT ![t] = IF Gap(t, n) THEN 0
                                 ELSE IF n = last[t] THEN Len(pending[t]) ELSE @]
  /\ UNCHANGED <<session, handed, commands, peer>>

\* #handleGatewayInfo: one key lookup at a time, and none once the key is known.
GatewayInfo(t) ==
  /\ lookup' = (lookup \/ (t = "data" /\ attached /\ ~level2Key))
  /\ UNCHANGED <<attached, socket, starting, remote, beating, level2Key, crashed>>

\* One round of the loop: a frame of what size its header says is cut off.
HandFrame(t) ==
  /\ ~crashed /\ Ready(t) /\ ~Oversize(t)
  /\ handed' = [handed EXCEPT ![t] = Append(@, SubSeq(pending[t], 1, FrameSize(t)))]
  /\ pending' = [pending EXCEPT ![t] = SubSeq(@, FrameSize(t) + 1, Len(@))]
  /\ seam' = [seam EXCEPT ![t] = IF @ > FrameSize(t) THEN @ - FrameSize(t) ELSE 0]
  /\ GatewayInfo(t)
  /\ UNCHANGED <<last, run, commands, peer, network, repeats>>

DropOversize(t) ==
  /\ ~crashed /\ Oversize(t)
  /\ pending' = [pending EXCEPT ![t] = <<>>]
  /\ seam' = [seam EXCEPT ![t] = 0]
  /\ UNCHANGED <<session, last, handed, run, commands, peer, network, repeats>>

-----------------------------------------------------------------------------
(***************************************************************************)
(* The session.                                                            *)
(***************************************************************************)

\* start(): the socket is bound and lookups are sent.
Start ==
  /\ Quiet /\ socket = "new"
  /\ socket' = "open" /\ starting' = "lookup"
  /\ UNCHANGED <<attached, remote, beating, level2Key, lookup, crashed,
                 assembly, commands, peer, network, repeats>>

\* What the session asks for first: a direct camera is told to start its media.
FirstCommands == IF attached THEN {"gateway"} ELSE {"gateway", "start"}

\* The peer answers the check that followed a lookup, also after start() gave up.
CamId ==
  /\ Quiet /\ socket = "open" /\ ~remote
  /\ remote' = TRUE
  /\ commands' = commands \cup FirstCommands
  /\ IF starting = "lookup" THEN starting' = "resolved" /\ beating' = TRUE
     ELSE UNCHANGED <<starting, beating>>
  /\ UNCHANGED <<attached, socket, level2Key, lookup, crashed, assembly, peer, network, repeats>>

LookupTimeout_OnlyOpen ==
  /\ Quiet /\ starting = "lookup" /\ socket = "open"
  /\ starting' = "rejected"
  /\ UNCHANGED <<attached, socket, remote, beating, level2Key, lookup, crashed,
                 assembly, commands, peer, network, repeats>>

LookupTimeout ==
  /\ Quiet /\ starting = "lookup"
  /\ starting' = "rejected"
  /\ UNCHANGED <<attached, socket, remote, beating, level2Key, lookup, crashed,
                 assembly, commands, peer, network, repeats>>

\* close(), of the provider or by the lifetime timer.
Close ==
  /\ Quiet /\ socket = "open"
  /\ socket' = "closed"
  /\ beating' = FALSE
  /\ UNCHANGED <<attached, starting, remote, level2Key, lookup, crashed,
                 assembly, commands, peer, network, repeats>>

\* Every five seconds: a ping, and the media start of an attached camera once more.
Heartbeat_PingOnly ==
  /\ Quiet /\ beating
  /\ UNCHANGED vars

Heartbeat ==
  /\ Quiet /\ beating
  /\ commands' = IF attached /\ level2Key THEN commands \cup {"start"} ELSE commands
  /\ UNCHANGED <<session, assembly, peer, network, repeats>>

\* #deriveLevel2 goes on with what the cloud answered: a key, or none.  Sending on
\* a closed socket throws, and nobody handles the rejection.
KeyLookedUp ==
  /\ Quiet /\ lookup
  /\ lookup' = FALSE
  /\ \/ UNCHANGED <<level2Key, commands, crashed>>
     \/ /\ level2Key' = TRUE
        /\ IF socket = "closed" THEN crashed' = TRUE /\ UNCHANGED commands
           ELSE commands' = commands \cup {"start"} /\ UNCHANGED crashed
  /\ UNCHANGED <<attached, socket, starting, remote, beating, assembly, peer, network, repeats>>

-----------------------------------------------------------------------------
(***************************************************************************)
(* The peer and the network.                                               *)
(***************************************************************************)

PeerHears(c) ==
  /\ Quiet /\ c \in commands
  /\ commands' = commands \ {c}
  /\ informing' = (informing \/ c = "gateway")
  /\ streaming' = (streaming \/ c = "start")
  /\ UNCHANGED <<session, assembly, sent, network, repeats>>

CommandLost(c) ==
  /\ Quiet /\ c \in commands
  /\ commands' = commands \ {c}
  /\ UNCHANGED <<session, assembly, peer, network, repeats>>

PeerSends(t) ==
  /\ Quiet
  /\ IF t = "data" THEN informing ELSE streaming
  /\ sent[t] + 1 \in Datagrams(t)
  /\ sent' = [sent EXCEPT ![t] = @ + 1]
  /\ network' = network \cup {<<t, sent[t] + 1>>}
  /\ UNCHANGED <<session, assembly, commands, streaming, informing, repeats>>

\* Between two datagrams that arrive one after the other, the network has not lost,
\* delayed or overtaken so many that 16 bits do not tell how far they are apart.
InWindow(t, n) == last[t] # 0 => n - last[t] < 65536 /\ last[t] - n < 65535

Arrives(t, n) ==
  /\ Quiet /\ socket = "open" /\ remote
  /\ <<t, n>> \in network /\ InWindow(t, n)
  /\ Receive(t, n)
  /\ \/ network' = network \ {<<t, n>>} /\ UNCHANGED repeats
     \/ repeats < MaxRepeats /\ repeats' = repeats + 1 /\ UNCHANGED network

Lost(t, n) ==
  /\ Quiet /\ <<t, n>> \in network
  /\ network' = network \ {<<t, n>>}
  /\ UNCHANGED <<session, assembly, commands, peer, repeats>>

Consume == \E t \in Types : HandFrame(t) \/ DropOversize(t)

Next ==
  \/ Consume \/ Start \/ CamId \/ LookupTimeout \/ Close \/ Heartbeat \/ KeyLookedUp
  \/ \E c \in {"gateway", "start"} : PeerHears(c) \/ CommandLost(c)
  \/ \E t \in Types : PeerSends(t) \/ \E n \in Datagrams(t) : Arrives(t, n) \/ Lost(t, n)

Spec == Init /\ [][Next]_vars

\* #consumeData runs to its end, timers fire, requests to the cloud end, and of
\* start commands sent again and again one arrives.
FairSpec ==
  /\ Spec
  /\ WF_vars(Consume) /\ WF_vars(LookupTimeout) /\ WF_vars(Heartbeat) /\ WF_vars(KeyLookedUp)
  /\ SF_vars(PeerHears("start"))

-----------------------------------------------------------------------------
(***************************************************************************)
(* Properties.                                                             *)
(***************************************************************************)

\* All the parts of the frame that begins with its first one, each once and in order.
WholeFrame(t, parts) ==
  /\ parts[1] \in DOMAIN Size[t]
  /\ parts = [i \in 1 .. Size[t][parts[1]] |-> parts[1] + i - 1]

\* Whatever is lost, overtaken or repeated later, also where sequence numbers wrap, a
\* frame that is handed on is whole: the decoder and the key exchange never see the
\* head of one frame with the tail of another.  Left out, because there the code does
\* not keep it, are frames one of whose datagrams came again right after itself: its
\* distance is 0, and its parts are appended a second time.
NoPartMissing ==
  [][\A t \in Types : handed'[t] # handed[t] /\ seam[t] = 0
       => WholeFrame(t, Last(handed'[t]))]_vars

\* start() settles, also when the session is closed during the lookup.
StartSettles == starting = "lookup" ~> starting # "lookup" \/ crashed

\* Once the key of an attached camera is known its media starts unless the session
\* ends, although the command that starts it can be lost any number of times.
MediaStarts == level2Key /\ beating ~> streaming \/ ~beating

\* first-party-ppcs.ts:119: close() ends the session.  What was in progress does not
\* use it any more.
ClosedIsUnused == ~crashed

\* docs/DEVELOPERS_START_HERE.md:206: datagrams are reassembled by type and sequence.
\* A frame that begins a datagram has been handed on once its datagrams have arrived
\* one right after the other, whatever was lost before them.
HeldBy(t, p) == CHOOSE n \in Datagrams(t) : Ends[t][n - 1] < p /\ p <= Ends[t][n]

InOneRun(t, p) ==
  run[t] # 0 /\ run[t] <= HeldBy(t, p) /\ HeldBy(t, p + Size[t][p] - 1) <= last[t]

Complete(t) ==
  {p \in DOMAIN Size[t] : /\ Size[t][p] <= MaxFrameSize
                          /\ \E n \in Datagrams(t) : p = Ends[t][n - 1] + 1
                          /\ InOneRun(t, p)}

ArrivedIsHanded ==
  Quiet => \A t \in Types : \A p \in Complete(t) :
    \E i \in 1 .. Len(handed[t]) : handed[t][i][1] = p
=============================================================================
