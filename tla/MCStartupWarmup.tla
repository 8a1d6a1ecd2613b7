--------------------------- MODULE MCStartupWarmup ---------------------------
(***************************************************************************)
(* TLC instances of StartupWarmup.                                         *)
(***************************************************************************)
EXTENDS StartupWarmup
=============================================================================
