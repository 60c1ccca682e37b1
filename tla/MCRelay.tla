------------------------------- MODULE MCRelay -------------------------------
(***************************************************************************)
(* Instances of Relay for TLC: a client that wants to reach a server, and    *)
(* another device that only registers.                                       *)
(***************************************************************************)
EXTENDS Relay, TLC

CONSTANTS client, server, other, i1, i2, t1, t2, a1

Pairs == [i \in Intent |-> [initiator |-> client, target |-> server]]

TokenSymmetry == Permutations(Token)
==============================================================================
