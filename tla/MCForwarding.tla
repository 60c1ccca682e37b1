---------------------------- MODULE MCForwarding ----------------------------
(***************************************************************************)
(* An instance of Forwarding for TLC: one intent, authorized twice at most. *)
(***************************************************************************)
EXTENDS Forwarding, TLC

CONSTANTS i1, d1, d2, t1, t2, a1, a2, p1

Pairs == [i \in Intent |-> [initiator |-> d1, target |-> d2]]
Ips == [a \in Addr |-> p1]

\* The window of the blocklist does not roll: recorded at these moments, the failures
\* of one IP are never blocked, and the last BlocklistWindow holds more of them than
\* the threshold, 2 * BlocklistThreshold - 1 (record_failed_lookup, is_blocklisted).
ASSUME DoesNotRoll ==
  LET W == BlocklistWindow
      T == BlocklistThreshold
      at == [k \in 1 .. 2 * T |-> IF k = 1 THEN 0 ELSE IF k <= T THEN W ELSE W + 1]
      entry[k \in 0 .. 2 * T] == IF k = 0 THEN NoEntry ELSE Recorded(entry[k - 1], at[k])
  IN  /\ \A k \in 1 .. 2 * T : ~Blocked(entry[k - 1], at[k])
      /\ Cardinality({k \in 1 .. 2 * T : at[2 * T] - at[k] <= W}) = 2 * T - 1

TokenSymmetry == Permutations({t1, t2})
==============================================================================
