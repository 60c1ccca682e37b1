--------------------------- MODULE MCSecureChannel ---------------------------
(***************************************************************************)
(* Instances of SecureChannel for TLC: how many frames each end sends.      *)
(***************************************************************************)
EXTENDS SecureChannel

\* Datagrams: the server rotates after its third frame; the client sends past a rotation.
\* On a stream: five epochs of one direction.
OneWayStream ==
  [streams \in BOOLEAN |->
     IF streams THEN [client |-> 14, server |-> 0] ELSE [client |-> 4, server |-> 3]]

\* Each end may pass the limit while the other end's frames are in flight.
BothRotate == [streams \in BOOLEAN |-> [client |-> 3, server |-> 3]]
==============================================================================
