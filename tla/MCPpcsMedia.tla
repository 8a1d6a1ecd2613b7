---------------------------- MODULE MCPpcsMedia -----------------------------
(***************************************************************************)
(* TLC instances of PpcsMedia.                                             *)
(***************************************************************************)
EXTENDS PpcsMedia, TLC

MCFirst == 65534

\* Sequence numbers wrap within either type.  Gateway information of two parts, and
\* a repetition of one part that shares its second datagram.  Video frames of three,
\* one and two parts, the second beginning in the last datagram of the first.
MCEnds ==
  "data" :> (65533 :> 0 @@ 65534 :> 1 @@ 65535 :> 3)
  @@ "video" :> (65533 :> 0 @@ 65534 :> 2 @@ 65535 :> 4 @@ 65536 :> 5 @@ 65537 :> 6 @@ 65538 :> 7)

\* The last frame of "video" claims to be longer than the limit.
MCSize ==
  "data" :> (1 :> 2 @@ 3 :> 1)
  @@ "video" :> (1 :> 3 @@ 4 :> 1 @@ 5 :> 2 @@ 7 :> 9)
=============================================================================
