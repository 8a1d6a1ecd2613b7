----------------------------- MODULE McsParser ------------------------------
(***************************************************************************)
(* The MCS wire parser of the push client (android-push/parser.ts): frames *)
(* of a tag, a varint length and a body, cut out of a byte stream that     *)
(* arrives in chunks of any size.  McsParser implements FrameStream.       *)
(*                                                                         *)
(* A byte is a number below 2 * Digits; the upper half has the             *)
(* continuation bit of a varint set (Digits is 128 in the code).  A call   *)
(* of handleData lasts from ChunkArrives, or the step of the parser that   *)
(* follows it, to Wait or Throw, and nothing happens meanwhile.            *)
(*                                                                         *)
(* Op_Defect is Op with a plausible slip, and no part of the specification. *)
(***************************************************************************)
EXTENDS Naturals, Sequences

CONSTANTS
  Digits,          \* values of the lower bits of a byte
  Frames,          \* frames the server may send: [tag, body]
  MinVersion,      \* 38
  Versions,        \* version bytes a server may begin with
  Malformed,       \* frames whose body does not decode
  MaxFrameBytes,
  MaxBufferBytes,
  MaxChunk,        \* bytes a data event may carry
  MaxFrames,       \* bound: frames on a connection
  MaxConnections   \* bound: connections

Bytes == 0 .. 2 * Digits - 1

ASSUME DigitsAssumption == Digits \in Nat /\ Digits > 1
ASSUME FramesAssumption == Frames \subseteq [tag : Bytes, body : Seq(Bytes)]
ASSUME InputsAssumption == Versions \subseteq Bytes /\ Malformed \subseteq Frames
ASSUME BoundsAssumption ==
  {MinVersion, MaxFrameBytes, MaxBufferBytes, MaxChunk, MaxFrames, MaxConnections} \subseteq Nat
\* A length takes at most four bytes, as the longest that is legal does.
ASSUME SizesAssumption == \A f \in Frames : Len(f.body) < Digits * Digits * Digits * Digits
\* Room for a chunk behind a legal body, or the bytes a header may wait with.
ASSUME RoomAssumption == \A n \in {3, MaxFrameBytes} : n + MaxChunk <= MaxBufferBytes

VARIABLES
  data,            \* bytes not parsed yet
  state,           \* of the parser
  messageTag,
  messageSize,
  sizePacketSoFar,
  running,         \* handleData is on the stack
  destroyed,       \* it threw: the client destroyed the socket
  version,         \* version byte of this connection
  wire,            \* bytes on their way
  sent,            \* frames sent on this connection
  delivered,       \* frames emitted
  connections      \* counter behind MaxConnections

parser == <<data, state, messageTag, messageSize, sizePacketSoFar>>
link == <<version, sent, connections>>
vars == <<parser, running, destroyed, wire, delivered, link>>

ParserTypeOK ==
  /\ data \in Seq(Bytes) /\ wire \in Seq(Bytes)
  /\ state \in {"VERSION_TAG_AND_SIZE", "TAG_AND_SIZE", "SIZE", "PROTO_BYTES"}
  /\ messageTag \in Bytes /\ messageSize \in 0 .. MaxFrameBytes
  /\ sizePacketSoFar \in Nat /\ Len(data) <= MaxBufferBytes
  /\ running \in BOOLEAN /\ destroyed \in BOOLEAN
  /\ version \in Versions
  /\ sent \in Seq(Frames) /\ delivered \in Seq(Frames)
  /\ connections \in Nat

-----------------------------------------------------------------------------
Low(n) == Digits + (n % Digits)
High(n) == n \div Digits

\* A length as a varint: lower digits first, of at most four.
Varint(n) ==
  CASE High(n) = 0 -> <<n>>
    [] High(n) # 0 /\ High(High(n)) = 0 -> <<Low(n), High(n)>>
    [] High(High(n)) # 0 /\ High(High(High(n))) = 0 -> <<Low(n), Low(High(n)), High(High(n))>>
    [] OTHER -> <<Low(n), Low(High(n)), Low(High(High(n))), High(High(High(n)))>>

Encoded(f) == <<f.tag>> \o Varint(Len(f.body)) \o f.body

\* Reader.int32: the varint ends at the first byte without a continuation bit.
VarintEnds(d) == {i \in 1 .. Len(d) : d[i] < Digits}
VarintLength(d) == CHOOSE i \in VarintEnds(d) : \A j \in VarintEnds(d) : i <= j
Value(low, high) == low - Digits + Digits * high
VarintValue(d) ==
  CASE VarintLength(d) = 1 -> d[1]
    [] VarintLength(d) = 2 -> Value(d[1], d[2])
    [] VarintLength(d) = 3 -> Value(d[1], Value(d[2], d[3]))
    [] OTHER -> Value(d[1], Value(d[2], Value(d[3], d[4])))

Rest(d, n) == SubSeq(d, n + 1, Len(d))

MinBytesNeeded ==
  CASE state = "VERSION_TAG_AND_SIZE" -> 3
    [] state = "TAG_AND_SIZE" -> 2
    [] state = "SIZE" -> sizePacketSoFar + 1
    [] state = "PROTO_BYTES" -> messageSize

Parsing == running /\ Len(data) >= MinBytesNeeded

Init ==
  /\ data = <<>> /\ state = "VERSION_TAG_AND_SIZE"
  /\ messageTag = 0 /\ messageSize = 0 /\ sizePacketSoFar = 0
  /\ running = FALSE /\ destroyed = FALSE
  /\ version \in Versions /\ wire = <<version>>
  /\ sent = <<>> /\ delivered = <<>>
  /\ connections = 1

-----------------------------------------------------------------------------
(***************************************************************************)
(* The parser.                                                             *)
(***************************************************************************)

\* What the client does when handleData throws.
Throw ==
  /\ running' = FALSE /\ destroyed' = TRUE
  /\ wire' = <<>>
  /\ UNCHANGED <<parser, delivered, link>>

\* onBytes: the body is complete; it is decoded, emitMessage, then next.
EmitMessage(tag, d, size) ==
  LET frame == [tag |-> tag, body |-> SubSeq(d, 1, size)] IN
  IF frame \in Malformed THEN Throw
  ELSE /\ delivered' = Append(delivered, frame)
       /\ data' = Rest(d, size)
       /\ state' = "TAG_AND_SIZE"
       /\ messageTag' = tag /\ messageSize' = size
       /\ sizePacketSoFar' = 0
       /\ UNCHANGED <<running, destroyed, wire, link>>

\* onSize, with the bytes that follow the tag.
Sized(tag, d, size) ==
  IF size = 0 THEN EmitMessage(tag, d, 0)
  ELSE /\ data' = d
       /\ state' = "PROTO_BYTES"
       /\ messageTag' = tag /\ messageSize' = size
       /\ sizePacketSoFar' = 0
       /\ UNCHANGED <<running, destroyed, wire, delivered, link>>

SizeIncomplete(tag, d) ==
  /\ data' = d
  /\ state' = "SIZE"
  /\ sizePacketSoFar' = Len(d)
  /\ messageTag' = tag
  /\ UNCHANGED <<messageSize, running, destroyed, wire, delivered, link>>

OnSize_OffByOne(tag, d) ==
  IF VarintEnds(d) = {} THEN SizeIncomplete(tag, d)
  ELSE IF VarintValue(d) >= MaxFrameBytes THEN Throw
  ELSE Sized(tag, Rest(d, VarintLength(d)), VarintValue(d))

OnSize(tag, d) ==
  IF VarintEnds(d) = {} THEN SizeIncomplete(tag, d)
  ELSE IF VarintValue(d) > MaxFrameBytes THEN Throw
  ELSE Sized(tag, Rest(d, VarintLength(d)), VarintValue(d))

\* onVersion, onTag and onSize as waitForData calls them.
ReadVersion ==
  /\ Parsing /\ state = "VERSION_TAG_AND_SIZE"
  /\ IF data[1] < MinVersion THEN Throw ELSE OnSize(data[2], Rest(data, 2))

ReadTag ==
  /\ Parsing /\ state = "TAG_AND_SIZE"
  /\ OnSize(data[1], Rest(data, 1))

ReadSize ==
  /\ Parsing /\ state = "SIZE"
  /\ OnSize(messageTag, data)

ReadBody ==
  /\ Parsing /\ state = "PROTO_BYTES"
  /\ EmitMessage(messageTag, data, messageSize)

\* waitForData returns.
Wait ==
  /\ running /\ ~Parsing
  /\ running' = FALSE
  /\ UNCHANGED <<parser, destroyed, wire, delivered, link>>

\* handleData: a chunk is added, unless the buffer grows past its limit.
ChunkArrives ==
  /\ ~running /\ ~destroyed
  /\ \E n \in 1 .. Len(wire) :
       /\ n <= MaxChunk
       /\ IF Len(data) + n > MaxBufferBytes THEN Throw
          ELSE /\ data' = data \o SubSeq(wire, 1, n)
               /\ wire' = Rest(wire, n)
               /\ running' = TRUE
               /\ UNCHANGED <<state, messageTag, messageSize, sizePacketSoFar,
                              destroyed, delivered, link>>

-----------------------------------------------------------------------------
\* Firebase sends a frame.
ServerSends ==
  /\ ~running /\ ~destroyed /\ Len(sent) < MaxFrames
  /\ \E f \in Frames : sent' = Append(sent, f) /\ wire' = wire \o Encoded(f)
  /\ UNCHANGED <<parser, running, destroyed, delivered, version, connections>>

\* The connection is lost, wherever the stream is, or was destroyed; connect()
\* opens another and resets the parser.
Connect_KeepsData ==
  /\ ~running /\ connections < MaxConnections
  /\ connections' = connections + 1
  /\ state' = "VERSION_TAG_AND_SIZE"
  /\ messageTag' = 0 /\ messageSize' = 0 /\ sizePacketSoFar' = 0
  /\ destroyed' = FALSE
  /\ version' \in Versions /\ wire' = <<version'>>
  /\ sent' = <<>> /\ delivered' = <<>>
  /\ UNCHANGED <<data, running>>

Connect ==
  /\ ~running /\ connections < MaxConnections
  /\ connections' = connections + 1
  /\ data' = <<>> /\ state' = "VERSION_TAG_AND_SIZE"
  /\ messageTag' = 0 /\ messageSize' = 0 /\ sizePacketSoFar' = 0
  /\ destroyed' = FALSE
  /\ version' \in Versions /\ wire' = <<version'>>
  /\ sent' = <<>> /\ delivered' = <<>>
  /\ UNCHANGED running

Parser == ReadVersion \/ ReadTag \/ ReadSize \/ ReadBody \/ Wait

Next == Parser \/ ChunkArrives \/ ServerSends \/ Connect

Spec == Init /\ [][Next]_vars

\* handleData runs to its end, and bytes on their way arrive.
FairSpec == Spec /\ WF_vars(Parser) /\ WF_vars(ChunkArrives)

-----------------------------------------------------------------------------
(***************************************************************************)
(* Properties.                                                             *)
(***************************************************************************)

\* What was sent on a connection that is given up counts as lost.
Stream == INSTANCE FrameStream WITH sent <- IF destroyed THEN delivered ELSE sent

\* However the stream is cut into chunks and wherever connections break, the
\* frames that were sent come out of the parser, whole, in order and once.
DeliversFrames == Stream!Spec

\* Only a wrong version, a frame over the limit or one that does not decode ends a
\* connection: the buffer has room for a chunk behind any part of a legal frame.
EndsForAReason ==
  destroyed /\ version >= MinVersion =>
    \E n \in {Len(delivered) + 1} :
      n <= Len(sent) /\ (sent[n] \in Malformed \/ Len(sent[n].body) > MaxFrameBytes)
=============================================================================
