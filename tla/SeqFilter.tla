------------------------------ MODULE SeqFilter ------------------------------
(***************************************************************************)
(* The sliding-window duplicate filter of bw-protocol.  The same algorithm *)
(* is written twice: ReplayProtection::protect_replay (encryption.rs), over *)
(* nonce counters, and DuplicateFilter::check_and_track (reliability.rs),   *)
(* over sequence numbers.                                                   *)
(*                                                                          *)
(* A filter remembers the highest value tracked and, for the FilterWidth    *)
(* values ending there, which were tracked.  The 64-bit mask of the code is *)
(* the set of its set bits: bit d stands for the value max - d.             *)
(***************************************************************************)
EXTENDS Integers

CONSTANT FilterWidth   \* bits of received_mask: 64 in the code

ASSUME FilterWidthAssumption == FilterWidth \in Nat \ {0}

Filter == [max : Nat, mask : SUBSET (0 .. FilterWidth - 1)]

\* A new filter has tracked nothing: value 0 is at bit 0, which is clear.
FreshFilter == [max |-> 0, mask |-> {}]

\* The value has fallen off the window, or its bit is set.
IsDuplicate(f, v) ==
  /\ v <= f.max
  /\ \/ f.max - v >= FilterWidth
     \/ f.max - v \in f.mask

\* Mutant: a shift that is not cut to the width.
ShiftMaskUncut(mask, diff) == {d + diff : d \in mask}

\* `mask << diff`: the bits shifted past the width are lost.
ShiftMask(mask, diff) == {d \in 0 .. FilterWidth - 1 : d - diff \in mask}

\* Track a value that is not a duplicate.
Track(f, v) ==
  IF v <= f.max
  THEN [f EXCEPT !.mask = @ \cup {f.max - v}]
  ELSE [max |-> v, mask |-> ShiftMask(f.mask, v - f.max) \cup {0}]
==============================================================================
