---------------------------- MODULE MCReliability ----------------------------
(***************************************************************************)
(* An instance of Reliability for TLC.                                       *)
(***************************************************************************)
EXTENDS Reliability

CONSTANTS x, y

\* Neighbouring payloads differ, distant ones repeat.
Messages == <<x, y, y>>
==============================================================================
