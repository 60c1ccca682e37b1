--------------------------- MODULE MCMessageFraming ---------------------------
(***************************************************************************)
(* An instance of MessageFraming for TLC: fragments of three units, a limit  *)
(* of seven, and messages of less than a frame, of one, of three at the     *)
(* exact limit, and over it. A frame of one unit takes one wire frame, a     *)
(* full one three.                                                           *)
(***************************************************************************)
EXTENDS MessageFraming

CONSTANTS short, full, longest, tooLong

Sizes == [m \in Msg |-> CASE m = short -> 1   [] m = full -> 3
                         [] m = longest -> 7 [] m = tooLong -> 8]
==============================================================================
