--------------------------- MODULE MCStationQueue ---------------------------
(***************************************************************************)
(* TLC instances of StationQueue.                                          *)
(***************************************************************************)
EXTENDS StationQueue, TLC
=============================================================================
