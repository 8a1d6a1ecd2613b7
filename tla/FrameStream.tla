---------------------------- MODULE FrameStream -----------------------------
(***************************************************************************)
(* What the push client relies on of a connection to Firebase: the frames  *)
(* that were sent on it come out whole, in order and once, until the       *)
(* connection is given up and another one starts from nothing.             *)
(***************************************************************************)
EXTENDS Naturals, Sequences

CONSTANT Frames

VARIABLES
  sent,       \* frames sent on the current connection
  delivered   \* those handed on

stream == <<sent, delivered>>

Init == sent = <<>> /\ delivered = <<>>

Send ==
  /\ \E f \in Frames : sent' = Append(sent, f)
  /\ UNCHANGED delivered

Deliver ==
  /\ Len(delivered) < Len(sent)
  /\ delivered' = Append(delivered, sent[Len(delivered) + 1])
  /\ UNCHANGED sent

\* The connection is given up: what has not been delivered is lost.
GiveUp == sent' = delivered /\ UNCHANGED delivered

NewConnection == sent' = <<>> /\ delivered' = <<>>

Next == Send \/ Deliver \/ GiveUp \/ NewConnection

Safety == Init /\ [][Next]_stream

\* What has been sent is delivered, unless the connection is given up.
Spec == Safety /\ WF_stream(Deliver)
=============================================================================
