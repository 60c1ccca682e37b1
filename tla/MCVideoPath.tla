----------------------------- MODULE MCVideoPath -----------------------------
(***************************************************************************)
(* An instance of VideoPath for TLC; the constants are given in the cfg.     *)
(***************************************************************************)
EXTENDS VideoPath
==============================================================================
