----------------------------- MODULE FifoDelivery -----------------------------
(***************************************************************************)
(* What the reliable delivery subsystem promises its user: the payloads      *)
(* handed to the receiving application are a prefix of those sent, in the    *)
(* order sent, none twice, none left out.                                    *)
(***************************************************************************)
EXTENDS Integers, Sequences

CONSTANT Payload

VARIABLES sent, delivered

vars == <<sent, delivered>>

Init == sent = <<>> /\ delivered = <<>>

Send == \E m \in Payload : sent' = Append(sent, m) /\ UNCHANGED delivered

\* One call may hand over several payloads.
Deliver ==
  /\ \E n \in Len(delivered) + 1 .. Len(sent) : delivered' = SubSeq(sent, 1, n)
  /\ UNCHANGED sent

Next == Send \/ Deliver

Spec == Init /\ [][Next]_vars
==============================================================================
