---------------------------- MODULE MCBufferPools ----------------------------
(***************************************************************************)
(* An instance of BufferPools for TLC.  Threads are interchangeable.         *)
(***************************************************************************)
EXTENDS BufferPools, TLC

Threads == Permutations(Thread)
==============================================================================
