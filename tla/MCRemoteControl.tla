--------------------------- MODULE MCRemoteControl ---------------------------
(***************************************************************************)
(* An instance of ClipboardSync, and with it of RemoteInput, for TLC.        *)
(***************************************************************************)
EXTENDS ClipboardSync

Contents ==
  {[text |-> "t", image |-> None], [text |-> None, image |-> "i"], [text |-> "t", image |-> "big"]}
==============================================================================
