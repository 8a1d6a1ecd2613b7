---------------------------- MODULE MCStateFeed -----------------------------
(***************************************************************************)
(* TLC instances of StateFeed.                                             *)
(***************************************************************************)
EXTENDS StateFeed

\* The camera changes through its detections, the HomeBase once.
MCRevisions == [o \in Objects |-> IF o \in Stations THEN 2 ELSE 1]
=============================================================================
