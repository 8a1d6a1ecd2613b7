---------------------------- MODULE MCLiveStream ----------------------------
(***************************************************************************)
(* TLC instances of LiveStream.                                            *)
(***************************************************************************)
EXTENDS LiveStream, TLC

\* Viewers are alike; so are sessions; each task has a kind of its own.
Symmetry == Permutations(Viewers) \cup Permutations(Sessions)
=============================================================================
