----------------------------- MODULE MCStartup ------------------------------
(***************************************************************************)
(* TLC instance of Startup.                                                *)
(***************************************************************************)
EXTENDS Startup, TLC
=============================================================================
