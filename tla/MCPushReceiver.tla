--------------------------- MODULE MCPushReceiver ---------------------------
(***************************************************************************)
(* TLC instance of PushReceiver.                                           *)
(***************************************************************************)
EXTENDS PushReceiver, TLC
=============================================================================
