------------------------- MODULE SecureChannelProofs -------------------------
(***************************************************************************)
(* Proofs about SecureChannel, for every filter width, rotation limit and   *)
(* number of frames.                                                        *)
(***************************************************************************)
EXTENDS SecureChannel, SequenceTheorems, TLAPS

------------------------------------------------------------------------------
(* The duplicate filter *)

\* A new filter is a filter, and it holds no value to be a duplicate.
LEMMA FreshFilterFacts ==
  /\ FreshFilter \in Filter
  /\ \A v \in Nat : ~IsDuplicate(FreshFilter, v)
BY FilterWidthAssumption DEF FreshFilter, Filter, IsDuplicate

\* Tracking a value that is not a duplicate yields a filter again: no bit is
\* set outside the mask (the shifts of protect_replay and check_and_track).
LEMMA TrackType ==
  ASSUME NEW f \in Filter, NEW v \in Nat, ~IsDuplicate(f, v)
  PROVE  Track(f, v) \in Filter
<1>1. CASE v <= f.max
  <2>1. f.max - v \in 0 .. FilterWidth - 1
    BY <1>1, FilterWidthAssumption DEF Filter, IsDuplicate
  <2> QED
    BY <1>1, <2>1 DEF Track, Filter
<1>2. CASE ~(v <= f.max)
  BY <1>2, FilterWidthAssumption DEF Track, Filter, ShiftMask
<1> QED
  BY <1>1, <1>2

\* A filter never forgets: a tracked value is a duplicate from then on, and
\* what was a duplicate stays one, whether its bit moves or falls off.
LEMMA TrackRemembers ==
  ASSUME NEW f \in Filter, NEW v \in Nat, NEW u \in Nat,
         ~IsDuplicate(f, v), u = v \/ IsDuplicate(f, u)
  PROVE  IsDuplicate(Track(f, v), u)
<1> USE FilterWidthAssumption
<1>1. CASE v <= f.max
  <2>1. Track(f, v).max = f.max /\ Track(f, v).mask = f.mask \cup {f.max - v}
    BY <1>1 DEF Track, Filter
  <2> QED
    BY <1>1, <2>1 DEF IsDuplicate, Filter
<1>2. CASE ~(v <= f.max)
  <2>1. Track(f, v).max = v /\ Track(f, v).mask = ShiftMask(f.mask, v - f.max) \cup {0}
    BY <1>2 DEF Track
  <2>2. CASE u = v
    BY <1>2, <2>1, <2>2 DEF IsDuplicate, Filter
  <2>3. CASE IsDuplicate(f, u)
    <3>1. u <= f.max /\ u <= v
      BY <1>2, <2>3 DEF IsDuplicate, Filter
    <3>2. CASE v - u >= FilterWidth
      BY <2>1, <3>1, <3>2 DEF IsDuplicate
    <3>3. CASE v - u < FilterWidth
      <4>1. f.max - u \in f.mask
        BY <1>2, <2>3, <3>1, <3>3 DEF IsDuplicate, Filter
      <4>2. v - u \in 0 .. FilterWidth - 1 /\ (v - u) - (v - f.max) = f.max - u
        BY <1>2, <3>1, <3>3 DEF Filter
      <4>3. v - u \in ShiftMask(f.mask, v - f.max)
        BY <4>1, <4>2 DEF ShiftMask
      <4> QED
        BY <2>1, <3>1, <4>3 DEF IsDuplicate
    <3> QED
      BY <3>2, <3>3, <1>2, <3>1 DEF Filter
  <2> QED
    BY <2>2, <2>3
<1> QED
  BY <1>1, <1>2

------------------------------------------------------------------------------
(* Types *)

(* There are two ends, and each is the other's other (EncryptionContext holds one
   encryptor and one decryptor). *)
LEMMA OtherFacts ==
  \A p \in Peers : Other(p) \in Peers /\ Other(p) # p /\ Other(Other(p)) = p
BY DEF Peers, Other

Encryptor == [key : Key, epoch : Nat, counter : Nat]
Decryptor == [key : Key, epoch : Nat, replay : Filter]
IsHeader(f) == f.epoch \in Nat /\ f.counter \in Nat

\* Rotation keeps both halves of a context well formed (rotate_keys).
LEMMA RotationType ==
  /\ \A e \in Encryptor : RotateEncryptor(e) \in Encryptor
  /\ \A d \in Decryptor : RotateDecryptor(d) \in Decryptor
<1>1. ASSUME NEW k \in Key PROVE HkdfDerive(k) \in Key
  BY DEF HkdfDerive, Key
<1> QED
  BY <1>1, FreshFilterFacts
  DEF RotateEncryptor, RotateDecryptor, Encryptor, Decryptor

\* What decrypt_frame can do to a decryptor: leave it, track a counter that is
\* not a duplicate in the same epoch, or enter the next epoch having accepted
\* the frame under the candidate key.
LEMMA DecryptFrameCases ==
  ASSUME NEW d \in Decryptor, NEW f, IsHeader(f)
  PROVE  LET result == DecryptFrame(d, f)
         IN  \/ /\ ~result.accepted
                /\ result.decryptor = d
             \/ /\ f.epoch = d.epoch
                /\ ~IsDuplicate(d.replay, f.counter)
                /\ result.accepted = (f.key = d.key)
                /\ result.decryptor =
                     [key |-> d.key, epoch |-> d.epoch,
                      replay |-> Track(d.replay, f.counter)]
             \/ /\ f.epoch = d.epoch + 1
                /\ f.key = HkdfDerive(d.key)
                /\ result.accepted
                /\ result.decryptor =
                     [key |-> HkdfDerive(d.key), epoch |-> d.epoch + 1,
                      replay |-> Track(FreshFilter, f.counter)]
<1>1. CASE f.epoch = d.epoch
  <2>1. CASE IsDuplicate(d.replay, f.counter)
    BY <1>1, <2>1 DEF DecryptFrame, Refuse
  <2>2. CASE ~IsDuplicate(d.replay, f.counter)
    <3>1. [d EXCEPT !.replay = Track(@, f.counter)] =
            [key |-> d.key, epoch |-> d.epoch, replay |-> Track(d.replay, f.counter)]
      BY DEF Decryptor
    <3> QED
      BY <1>1, <2>2, <3>1 DEF DecryptFrame, Authentic
  <2> QED
    BY <2>1, <2>2
<1>2. CASE f.epoch # d.epoch /\ f.epoch = d.epoch + 1 /\ f.key = HkdfDerive(d.key)
  BY <1>2 DEF DecryptFrame, Authentic, Candidate
<1>3. CASE f.epoch # d.epoch /\ ~(f.epoch = d.epoch + 1 /\ f.key = HkdfDerive(d.key))
  BY <1>3 DEF DecryptFrame, Authentic, Candidate, Refuse
<1> QED
  BY <1>1, <1>2, <1>3

\* decrypt_frame changes the epoch only by one, and only by accepting a frame
\* of the epoch it enters.
LEMMA DecryptFrameEpoch ==
  ASSUME NEW d \in Decryptor, NEW f, IsHeader(f)
  PROVE  LET result == DecryptFrame(d, f)
         IN  \/ result.decryptor.epoch = d.epoch
             \/ /\ result.accepted
                /\ f.epoch = d.epoch + 1
                /\ result.decryptor.epoch = d.epoch + 1
<1> DEFINE result == DecryptFrame(d, f)
<1>1. CASE result.decryptor = d
  BY <1>1
<1>2. CASE result.decryptor = [key |-> d.key, epoch |-> d.epoch,
                               replay |-> Track(d.replay, f.counter)]
  BY <1>2
<1>3. CASE /\ f.epoch = d.epoch + 1
           /\ result.accepted
           /\ result.decryptor = [key |-> HkdfDerive(d.key), epoch |-> d.epoch + 1,
                                  replay |-> Track(FreshFilter, f.counter)]
  BY <1>3
<1> QED
  BY <1>1, <1>2, <1>3, DecryptFrameCases

\* decrypt_frame yields a well-formed decryptor.
LEMMA DecryptFrameType ==
  ASSUME NEW d \in Decryptor, NEW f, IsHeader(f)
  PROVE  DecryptFrame(d, f).decryptor \in Decryptor
<1>1. HkdfDerive(d.key) \in Key
  BY DEF HkdfDerive, Key, Decryptor
<1>2. Track(FreshFilter, f.counter) \in Filter
  BY FreshFilterFacts, TrackType DEF IsHeader
<1>3. ~IsDuplicate(d.replay, f.counter) => Track(d.replay, f.counter) \in Filter
  BY TrackType DEF IsHeader, Decryptor
<1>4. ~IsDuplicate(d.replay, f.counter) =>
        [key |-> d.key, epoch |-> d.epoch, replay |-> Track(d.replay, f.counter)]
          \in Decryptor
  BY <1>3 DEF Decryptor
<1>5. [key |-> HkdfDerive(d.key), epoch |-> d.epoch + 1,
       replay |-> Track(FreshFilter, f.counter)] \in Decryptor
  BY <1>1, <1>2 DEF Decryptor
<1> QED
  BY <1>4, <1>5, DecryptFrameCases

\* A damaged frame is accepted by no decryptor.
LEMMA DamagedRefused ==
  ASSUME NEW d \in Decryptor, NEW f \in Damaged
  PROVE  IsHeader(f) /\ ~DecryptFrame(d, f).accepted
<1>1. IsHeader(f) /\ f.key.label = "none"
  BY ChannelAssumption DEF Damaged, IsHeader
<1>2. d.key.label # "none" /\ HkdfDerive(d.key).label # "none"
  BY DEF Decryptor, Key, Peers, HkdfDerive
<1> QED
  BY <1>1, <1>2, DecryptFrameCases

\* The type invariant: counters and epochs stay natural numbers and every mask
\* within its width, through rotations, transitions and damaged frames.
THEOREM TypeCorrect == Spec => []TypeOK
<1> USE ChannelAssumption
<1>1. Init => TypeOK
  BY FreshFilterFacts, OtherFacts
  DEF Init, TypeOK, NewEncryptor, NewDecryptor, SessionKey, Key
<1>2. TypeOK /\ [Next]_vars => TypeOK'
  <2> SUFFICES ASSUME TypeOK, [Next]_vars PROVE TypeOK'
    OBVIOUS
  <2>1. ASSUME NEW p \in Peers, Encrypt(p) PROVE TypeOK'
    <3>1. Seal(enc[p]) \in Frame
      BY DEF TypeOK, Seal, Frame
    <3>2. wire' \in [Peers -> Seq(Frame)]
      BY <2>1, <3>1 DEF TypeOK, Encrypt
    <3>3. /\ enc \in [Peers -> Encryptor]
          /\ dec \in [Peers -> Decryptor]
      BY DEF TypeOK, Encryptor, Decryptor
    <3>4. AdvanceNonce(enc[p]) \in Encryptor
      <4>1. \A e \in Encryptor : AdvanceNonce(e) \in Encryptor
        BY DEF AdvanceNonce, Encryptor
      <4> QED
        BY <3>3, <4>1
    <3>5. enc' \in [Peers -> Encryptor] /\ dec' \in [Peers -> Decryptor]
      <4>1. /\ RotateEncryptor(AdvanceNonce(enc[p])) \in Encryptor
            /\ RotateDecryptor(dec[p]) \in Decryptor
        BY <3>3, <3>4, RotationType
      <4>2. \/ /\ enc' = [enc EXCEPT ![p] = RotateEncryptor(AdvanceNonce(enc[p]))]
               /\ dec' = [dec EXCEPT ![p] = RotateDecryptor(@)]
            \/ enc' = [enc EXCEPT ![p] = AdvanceNonce(enc[p])] /\ dec' = dec
        BY <2>1 DEF Encrypt
      <4> QED
        BY <3>3, <3>4, <4>1, <4>2
    <3>6. stream' = stream /\ cursor' = cursor /\ received' = received
      BY <2>1 DEF Encrypt
    <3> QED
      BY <3>2, <3>5, <3>6 DEF TypeOK, Encryptor, Decryptor
  <2>2. ASSUME NEW p \in Peers, Decrypt(p) PROVE TypeOK'
    <3>1. PICK i \in Arriving(p) :
            LET result == DecryptFrame(dec[p], wire[Other(p)][i])
            IN  /\ dec' = [dec EXCEPT ![p] = result.decryptor]
                /\ cursor' = [cursor EXCEPT ![p] = IF stream THEN i ELSE @]
                /\ received' = [received EXCEPT ![p] =
                                  IF result.accepted THEN Append(@, i) ELSE @]
                /\ UNCHANGED <<stream, enc, wire>>
      BY <2>2 DEF Decrypt
    <3>2. i \in Nat /\ wire[Other(p)][i] \in Frame
      BY OtherFacts DEF Arriving, TypeOK
    <3>3. IsHeader(wire[Other(p)][i])
      BY <3>2 DEF Frame, IsHeader
    <3>4. DecryptFrame(dec[p], wire[Other(p)][i]).decryptor \in Decryptor
      BY <3>3, DecryptFrameType DEF TypeOK, Decryptor
    <3>5. received' \in [Peers -> Seq(Nat)] /\ cursor' \in [Peers -> Nat]
      BY <3>1, <3>2 DEF TypeOK
    <3> QED
      BY <3>1, <3>4, <3>5 DEF TypeOK, Decryptor
  <2>3. ASSUME NEW p \in Peers, DecryptDamaged(p) PROVE TypeOK'
    <3>1. PICK f \in Damaged :
            dec' = [dec EXCEPT ![p] = DecryptFrame(@, f).decryptor]
      BY <2>3 DEF DecryptDamaged
    <3>2. dec[p] \in Decryptor
      BY DEF TypeOK, Decryptor
    <3>3. DecryptFrame(dec[p], f).decryptor \in Decryptor
      BY <3>2, DamagedRefused, DecryptFrameType
    <3> QED
      BY <2>3, <3>1, <3>3 DEF TypeOK, Decryptor, DecryptDamaged
  <2>4. CASE UNCHANGED vars
    BY <2>4 DEF TypeOK, vars
  <2> QED
    BY <2>1, <2>2, <2>3, <2>4 DEF Next
<1> QED
  BY <1>1, <1>2, PTL DEF Spec

------------------------------------------------------------------------------
(* Nonces *)

\* The strengthening that makes NonceUnique inductive: every frame sealed so far
\* lies before the encryptor's next nonce, in its epoch and counter, and carries
\* the label of its sender.
SealedBefore(p) ==
  \A i \in DOMAIN wire[p] :
    /\ wire[p][i].key.label = p
    /\ wire[p][i].epoch <= enc[p].epoch
    /\ wire[p][i].epoch = enc[p].epoch => wire[p][i].counter < enc[p].counter

NonceInv ==
  \A p \in Peers :
    /\ enc[p].key.label = p
    /\ SealedBefore(p)
    /\ \A i, j \in DOMAIN wire[p] : wire[p][i] = wire[p][j] => i = j

(* The inductive form of NonceUnique: every frame sealed lies below the encryptor's
   epoch and counter (FrameEncryptor::generate_nonce). *)
LEMMA NonceInvariant == Spec => []NonceInv
<1>1. Init => NonceInv
  BY DEF Init, NonceInv, SealedBefore, NewEncryptor, SessionKey
<1>2. TypeOK /\ NonceInv /\ [Next]_vars => NonceInv'
  <2> SUFFICES ASSUME TypeOK, NonceInv, [Next]_vars PROVE NonceInv'
    OBVIOUS
  <2>1. ASSUME NEW p \in Peers, Encrypt(p) PROVE NonceInv'
    <3> DEFINE f == Seal(enc[p])
               n == Len(wire[p])
    <3>1. /\ wire[p] \in Seq(Frame) /\ n \in Nat /\ DOMAIN wire[p] = 1 .. n
          /\ wire'[p] = Append(wire[p], f)
          /\ \A q \in Peers \ {p} : wire'[q] = wire[q] /\ enc'[q] = enc[q]
      BY <2>1 DEF TypeOK, Encrypt
    <3>2. /\ DOMAIN wire'[p] = 1 .. n + 1
          /\ wire'[p][n + 1] = f
          /\ \A i \in 1 .. n : wire'[p][i] = wire[p][i]
      BY <3>1
    <3>3. /\ f.key.label = p /\ f.epoch = enc[p].epoch /\ f.counter = enc[p].counter
          /\ enc[p].epoch \in Nat /\ enc[p].counter \in Nat
      BY DEF Seal, NonceInv, TypeOK
    <3>4. /\ enc'[p].key.label = p
          /\ \/ enc'[p].epoch = enc[p].epoch /\ enc'[p].counter = enc[p].counter + 1
             \/ enc'[p].epoch = enc[p].epoch + 1
      <4>1. /\ AdvanceNonce(enc[p]).key = enc[p].key
            /\ AdvanceNonce(enc[p]).epoch = enc[p].epoch
            /\ AdvanceNonce(enc[p]).counter = enc[p].counter + 1
        BY DEF AdvanceNonce, TypeOK
      <4>2. enc[p].key.label = p /\ enc[p].key \in Key
        BY DEF NonceInv, TypeOK
      <4>3. /\ RotateEncryptor(AdvanceNonce(enc[p])).key.label = p
            /\ RotateEncryptor(AdvanceNonce(enc[p])).epoch = enc[p].epoch + 1
        BY <4>1, <4>2 DEF RotateEncryptor, HkdfDerive, Key
      <4>4. \/ enc'[p] = RotateEncryptor(AdvanceNonce(enc[p]))
            \/ enc'[p] = AdvanceNonce(enc[p])
        BY <2>1 DEF Encrypt, TypeOK
      <4> QED
        BY <4>1, <4>2, <4>3, <4>4
    <3>5. \A i \in 1 .. n : /\ wire[p][i].key.label = p
                            /\ wire[p][i].epoch \in Nat /\ wire[p][i].counter \in Nat
                            /\ wire[p][i].epoch <= enc[p].epoch
                            /\ wire[p][i].epoch = enc[p].epoch
                                 => wire[p][i].counter < enc[p].counter
      <4>1. \A i \in 1 .. n : wire[p][i] \in Frame
        BY <3>1
      <4>2. \A i \in 1 .. n : wire[p][i].epoch \in Nat /\ wire[p][i].counter \in Nat
        BY <4>1 DEF Frame
      <4>3. SealedBefore(p)
        BY DEF NonceInv
      <4> QED
        BY <3>1, <4>2, <4>3 DEF SealedBefore
    <3>6. SealedBefore(p)'
      <4> SUFFICES ASSUME NEW i \in 1 .. n + 1
                   PROVE  /\ wire'[p][i].key.label = p
                          /\ wire'[p][i].epoch <= enc'[p].epoch
                          /\ wire'[p][i].epoch = enc'[p].epoch
                               => wire'[p][i].counter < enc'[p].counter
        BY <3>2 DEF SealedBefore
      <4> HIDE DEF f, n
      <4>1. CASE i = n + 1
        BY <3>2, <3>3, <3>4, <4>1
      <4>2. CASE i \in 1 .. n
        <5>1. wire'[p][i] = wire[p][i]
          BY <3>2, <4>2
        <5> QED
          BY <5>1, <3>3, <3>4, <3>5, <4>2
      <4> QED
        BY <4>1, <4>2, <3>1
    <3>7. \A i, j \in DOMAIN wire'[p] : wire'[p][i] = wire'[p][j] => i = j
      <4>1. \A i \in 1 .. n : wire[p][i] # f
        BY <3>3, <3>5
      <4>2. \A i, j \in 1 .. n : wire[p][i] = wire[p][j] => i = j
        BY <3>1 DEF NonceInv
      <4> QED
        BY <3>1, <3>2, <4>1, <4>2
    <3>8. ASSUME NEW q \in Peers \ {p}
          PROVE  /\ enc'[q].key.label = q
                 /\ SealedBefore(q)'
                 /\ \A i, j \in DOMAIN wire'[q] : wire'[q][i] = wire'[q][j] => i = j
      BY <3>1 DEF NonceInv, SealedBefore
    <3> QED
      BY <3>4, <3>6, <3>7, <3>8 DEF NonceInv
  <2>2. CASE UNCHANGED <<stream, enc, wire>>
    BY <2>2 DEF NonceInv, SealedBefore
  <2> QED
    BY <2>1, <2>2 DEF Next, Decrypt, DecryptDamaged, vars
<1> QED
  BY <1>1, <1>2, TypeCorrect, PTL DEF Spec

\* No key and nonce seal two frames, whatever the rotation limit.
THEOREM NonceNeverReused == Spec => []NonceUnique
<1>1. NonceInv => NonceUnique
  BY DEF NonceInv, SealedBefore, NonceUnique
<1> QED
  BY <1>1, NonceInvariant, PTL

------------------------------------------------------------------------------
(* Acceptance *)

\* The decryptor can no longer accept the frame: its epoch is past, or its
\* counter is a duplicate in the current epoch.
Consumed(d, f) ==
  \/ f.epoch < d.epoch
  \/ f.epoch = d.epoch /\ IsDuplicate(d.replay, f.counter)

\* What a decryptor has consumed stays consumed whatever it decrypts next, and
\* a frame it accepts was not consumed before and is consumed after.
LEMMA DecryptConsumes ==
  ASSUME NEW d \in Decryptor, NEW g, IsHeader(g)
  PROVE  LET result == DecryptFrame(d, g)
         IN  /\ \A f : IsHeader(f) /\ Consumed(d, f) => Consumed(result.decryptor, f)
             /\ result.accepted => ~Consumed(d, g) /\ Consumed(result.decryptor, g)
<1> DEFINE result == DecryptFrame(d, g)
<1> USE DEF IsHeader
<1>1. d.epoch \in Nat /\ d.replay \in Filter
  BY DEF Decryptor
<1>2. CASE /\ ~result.accepted
           /\ result.decryptor = d
  BY <1>2
<1>3. CASE /\ g.epoch = d.epoch
           /\ ~IsDuplicate(d.replay, g.counter)
           /\ result.decryptor = [key |-> d.key, epoch |-> d.epoch,
                                  replay |-> Track(d.replay, g.counter)]
  <2>1. ASSUME NEW u \in Nat, u = g.counter \/ IsDuplicate(d.replay, u)
        PROVE  IsDuplicate(Track(d.replay, g.counter), u)
    BY <1>1, <1>3, <2>1, TrackRemembers
  <2> QED
    BY <1>1, <1>3, <2>1 DEF Consumed
<1>4. CASE /\ g.epoch = d.epoch + 1
           /\ result.decryptor = [key |-> HkdfDerive(d.key), epoch |-> d.epoch + 1,
                                  replay |-> Track(FreshFilter, g.counter)]
  <2>1. IsDuplicate(Track(FreshFilter, g.counter), g.counter)
    BY FreshFilterFacts, TrackRemembers
  <2> QED
    BY <1>1, <1>4, <2>1 DEF Consumed
<1> QED
  BY <1>2, <1>3, <1>4, DecryptFrameCases

\* A rotation caused by sending keeps everything consumed: the window is
\* emptied, but the epoch it guarded is past.
LEMMA RotateConsumes ==
  ASSUME NEW d \in Decryptor, NEW f, IsHeader(f), Consumed(d, f)
  PROVE  Consumed(RotateDecryptor(d), f)
BY DEF Consumed, RotateDecryptor, Decryptor, IsHeader

\* The strengthening that makes AcceptedOnce inductive: whatever was accepted is
\* consumed.
AcceptInv ==
  /\ AcceptedOnce
  /\ \A p \in Peers : \A k \in DOMAIN received[p] :
       /\ received[p][k] \in DOMAIN wire[Other(p)]
       /\ Consumed(dec[p], wire[Other(p)][received[p][k]])

\* No frame is accepted twice, however the network repeats, reorders or damages
\* frames and whoever rotates when.
THEOREM NoFrameAcceptedTwice == Spec => []AcceptedOnce
<1>1. Init => AcceptInv
  BY DEF Init, AcceptInv, AcceptedOnce
<1>2. TypeOK /\ AcceptInv /\ [Next]_vars => AcceptInv'
  <2> SUFFICES ASSUME TypeOK, AcceptInv, [Next]_vars PROVE AcceptInv'
    OBVIOUS
  <2>1. /\ dec \in [Peers -> Decryptor]
        /\ received \in [Peers -> Seq(Nat)]
        /\ \A q \in Peers : wire[q] \in Seq(Frame)
    BY DEF TypeOK, Decryptor
  <2>2. \A q \in Peers : \A i \in DOMAIN wire[q] : IsHeader(wire[q][i])
    <3>1. \A q \in Peers : \A i \in DOMAIN wire[q] : wire[q][i] \in Frame
      BY <2>1
    <3> QED
      BY <3>1 DEF Frame, IsHeader
  <2>3. ASSUME NEW p \in Peers, Encrypt(p) PROVE AcceptInv'
    <3>1. /\ UNCHANGED received
          /\ \A q \in Peers : q # p => dec'[q] = dec[q] /\ wire'[q] = wire[q]
          /\ dec'[p] = dec[p] \/ dec'[p] = RotateDecryptor(dec[p])
          /\ wire'[p] = Append(wire[p], Seal(enc[p]))
      BY <2>1, <2>3 DEF Encrypt, TypeOK
    <3>2. \A q \in Peers : \A i \in DOMAIN wire[q] :
            i \in DOMAIN wire'[q] /\ wire'[q][i] = wire[q][i]
      <4>1. \A i \in DOMAIN wire[p] : i \in DOMAIN wire'[p] /\ wire'[p][i] = wire[p][i]
        <5>1. wire[p] \in Seq(Frame) /\ wire'[p] = Append(wire[p], Seal(enc[p]))
          BY <2>1, <3>1
        <5> QED
          BY <5>1
      <4> QED
        BY <3>1, <4>1
    <3>3. ASSUME NEW q \in Peers, NEW k \in DOMAIN received[q]
          PROVE  Consumed(dec'[q], wire[Other(q)][received[q][k]])
      <4>1. /\ Consumed(dec[q], wire[Other(q)][received[q][k]])
            /\ IsHeader(wire[Other(q)][received[q][k]])
        BY <2>2, OtherFacts DEF AcceptInv
      <4> QED
        BY <2>1, <3>1, <4>1, RotateConsumes
    <3> QED
      BY <3>1, <3>2, <3>3, OtherFacts DEF AcceptInv, AcceptedOnce
  <2>4. ASSUME NEW p \in Peers, Decrypt(p) PROVE AcceptInv'
    <3>1. PICK i \in Arriving(p) :
            LET result == DecryptFrame(dec[p], wire[Other(p)][i])
            IN  /\ dec' = [dec EXCEPT ![p] = result.decryptor]
                /\ received' = [received EXCEPT ![p] =
                                  IF result.accepted THEN Append(@, i) ELSE @]
                /\ UNCHANGED <<stream, enc, wire>>
      BY <2>4 DEF Decrypt
    <3> DEFINE w == wire[Other(p)]
               result == DecryptFrame(dec[p], w[i])
               r == received[p]
    <3>2. i \in DOMAIN w /\ IsHeader(w[i])
      BY <2>2, OtherFacts DEF Arriving
    <3>3. /\ dec'[p] = result.decryptor
          /\ received'[p] = IF result.accepted THEN Append(r, i) ELSE r
          /\ \A q \in Peers : q # p => dec'[q] = dec[q] /\ received'[q] = received[q]
          /\ UNCHANGED wire
      BY <2>1, <3>1
    <3>4. \A k \in DOMAIN r : r[k] \in DOMAIN w /\ Consumed(dec[p], w[r[k]])
      BY DEF AcceptInv
    <3>5. /\ \A f : IsHeader(f) /\ Consumed(dec[p], f) => Consumed(dec'[p], f)
          /\ result.accepted => ~Consumed(dec[p], w[i]) /\ Consumed(dec'[p], w[i])
      BY <2>1, <3>2, <3>3, DecryptConsumes
    <3>6. \A k \in DOMAIN r : Consumed(dec'[p], w[r[k]])
      BY <2>2, <3>4, <3>5, OtherFacts
    <3>7. result.accepted => \A k \in DOMAIN r : r[k] # i
      BY <3>4, <3>5
    <3> HIDE DEF w, result, r
    <3>8. CASE ~result.accepted
      BY <3>3, <3>4, <3>6, <3>8, OtherFacts DEF AcceptInv, AcceptedOnce, r, w
    <3>9. CASE result.accepted
      <4>1. r \in Seq(Nat) /\ received'[p] = Append(r, i)
        BY <2>1, <3>3, <3>9 DEF r
      <4>2. /\ DOMAIN received'[p] = 1 .. Len(r) + 1 /\ DOMAIN r = 1 .. Len(r)
            /\ Len(r) \in Nat
            /\ received'[p][Len(r) + 1] = i
            /\ \A k \in 1 .. Len(r) : received'[p][k] = r[k]
        BY <4>1
      <4>3. \A k, l \in DOMAIN r : r[k] = r[l] => k = l
        BY DEF AcceptInv, AcceptedOnce, r
      <4>4. \A k, l \in DOMAIN received'[p] : received'[p][k] = received'[p][l] => k = l
        BY <3>7, <3>9, <4>2, <4>3
      <4>5. \A k \in DOMAIN received'[p] :
              received'[p][k] \in DOMAIN w /\ Consumed(dec'[p], w[received'[p][k]])
        BY <3>2, <3>4, <3>5, <3>6, <3>9, <4>2
      <4>6. ASSUME NEW q \in Peers
            PROVE  /\ \A k, l \in DOMAIN received'[q] :
                        received'[q][k] = received'[q][l] => k = l
                   /\ \A k \in DOMAIN received'[q] :
                        /\ received'[q][k] \in DOMAIN wire'[Other(q)]
                        /\ Consumed(dec'[q], wire'[Other(q)][received'[q][k]])
        <5>1. CASE q = p
          BY <3>3, <4>4, <4>5, <5>1 DEF w
        <5>2. CASE q # p
          BY <3>3, <5>2 DEF AcceptInv, AcceptedOnce
        <5> QED
          BY <5>1, <5>2
      <4> QED
        BY <4>6 DEF AcceptInv, AcceptedOnce
    <3> QED
      BY <3>8, <3>9
  <2>5. ASSUME NEW p \in Peers, DecryptDamaged(p) PROVE AcceptInv'
    <3>1. PICK f \in Damaged :
            dec' = [dec EXCEPT ![p] = DecryptFrame(@, f).decryptor]
      BY <2>5 DEF DecryptDamaged
    <3>2. \A g : IsHeader(g) /\ Consumed(dec[p], g) => Consumed(dec'[p], g)
      BY <2>1, <3>1, DamagedRefused, DecryptConsumes
    <3>3. /\ UNCHANGED <<wire, received>>
          /\ \A q \in Peers : q # p => dec'[q] = dec[q]
      BY <2>1, <2>5, <3>1 DEF DecryptDamaged
    <3>4. ASSUME NEW q \in Peers, NEW k \in DOMAIN received[q]
          PROVE  Consumed(dec'[q], wire[Other(q)][received[q][k]])
      <4>1. /\ Consumed(dec[q], wire[Other(q)][received[q][k]])
            /\ IsHeader(wire[Other(q)][received[q][k]])
        BY <2>2, OtherFacts DEF AcceptInv
      <4> QED
        BY <3>2, <3>3, <4>1
    <3> QED
      BY <3>3, <3>4 DEF AcceptInv, AcceptedOnce
  <2>6. CASE UNCHANGED vars
    BY <2>6 DEF AcceptInv, AcceptedOnce, vars
  <2> QED
    BY <2>3, <2>4, <2>5, <2>6 DEF Next
<1>3. AcceptInv => AcceptedOnce
  BY DEF AcceptInv
<1> QED
  BY <1>1, <1>2, <1>3, TypeCorrect, PTL DEF Spec

\* Every receive epoch is accounted for by a rotation: a damaged or repeated
\* frame moves no decryptor ahead.
THEOREM ReceiverFollows == Spec => []ReceiverNeverAhead
<1>1. Init => ReceiverNeverAhead
  BY OtherFacts DEF Init, ReceiverNeverAhead, NewEncryptor, NewDecryptor
<1>2. TypeOK /\ NonceInv /\ ReceiverNeverAhead /\ [Next]_vars => ReceiverNeverAhead'
  <2> SUFFICES ASSUME TypeOK, NonceInv, ReceiverNeverAhead, [Next]_vars
               PROVE  ReceiverNeverAhead'
    OBVIOUS
  <2>1. /\ dec \in [Peers -> Decryptor]
        /\ enc \in [Peers -> Encryptor]
        /\ \A q \in Peers : dec[q].epoch \in Nat /\ enc[q].epoch \in Nat
        /\ \A q \in Peers : wire[q] \in Seq(Frame)
    BY DEF TypeOK, Decryptor, Encryptor
  <2>2. ASSUME NEW p \in Peers, Encrypt(p) PROVE ReceiverNeverAhead'
    <3>1. /\ AdvanceNonce(enc[p]).epoch = enc[p].epoch
          /\ RotateEncryptor(AdvanceNonce(enc[p])).epoch = enc[p].epoch + 1
          /\ RotateDecryptor(dec[p]).epoch = dec[p].epoch + 1
      BY <2>1 DEF AdvanceNonce, RotateEncryptor, RotateDecryptor, Encryptor
    <3>2. /\ \/ enc'[p].epoch = enc[p].epoch /\ dec'[p].epoch = dec[p].epoch
             \/ enc'[p].epoch = enc[p].epoch + 1 /\ dec'[p].epoch = dec[p].epoch + 1
          /\ \A q \in Peers : q # p => enc'[q] = enc[q] /\ dec'[q] = dec[q]
      BY <2>1, <2>2, <3>1 DEF Encrypt
    <3>3. ASSUME NEW q \in Peers
          PROVE  dec'[q].epoch <= enc'[Other(q)].epoch + enc'[q].epoch
      BY <2>1, <3>2, OtherFacts DEF ReceiverNeverAhead
    <3> QED
      BY <3>3 DEF ReceiverNeverAhead
  <2>3. ASSUME NEW p \in Peers, Decrypt(p) PROVE ReceiverNeverAhead'
    <3>1. PICK i \in Arriving(p) :
            /\ dec' = [dec EXCEPT ![p] =
                         DecryptFrame(dec[p], wire[Other(p)][i]).decryptor]
            /\ UNCHANGED enc
      BY <2>3 DEF Decrypt
    <3> DEFINE f == wire[Other(p)][i]
    <3>2. f \in Frame /\ i \in DOMAIN wire[Other(p)]
      BY <2>1, OtherFacts DEF Arriving
    <3>3. IsHeader(f) /\ f.epoch <= enc[Other(p)].epoch
      BY <3>2, OtherFacts DEF NonceInv, SealedBefore, IsHeader, Frame
    <3>4. /\ dec'[p] = DecryptFrame(dec[p], f).decryptor
          /\ \A q \in Peers : q # p => dec'[q] = dec[q]
      BY <2>1, <3>1
    <3> HIDE DEF f
    <3>5. \/ dec'[p].epoch = dec[p].epoch
          \/ dec'[p].epoch = dec[p].epoch + 1 /\ f.epoch = dec[p].epoch + 1
      BY <2>1, <3>3, <3>4, DecryptFrameEpoch
    <3>6. dec'[p].epoch <= enc'[Other(p)].epoch + enc'[p].epoch
      BY <2>1, <3>1, <3>3, <3>5, OtherFacts DEF ReceiverNeverAhead
    <3> QED
      BY <3>1, <3>4, <3>6 DEF ReceiverNeverAhead
  <2>4. ASSUME NEW p \in Peers, DecryptDamaged(p) PROVE ReceiverNeverAhead'
    <3>1. PICK f \in Damaged :
            dec' = [dec EXCEPT ![p] = DecryptFrame(@, f).decryptor]
      BY <2>4 DEF DecryptDamaged
    <3>2. /\ dec'[p] = DecryptFrame(dec[p], f).decryptor
          /\ \A q \in Peers : q # p => dec'[q] = dec[q]
          /\ UNCHANGED enc
      BY <2>1, <2>4, <3>1 DEF DecryptDamaged
    <3>3. IsHeader(f) /\ ~DecryptFrame(dec[p], f).accepted
      BY <2>1, DamagedRefused
    <3>4. dec'[p].epoch = dec[p].epoch
      BY <2>1, <3>2, <3>3, DecryptFrameEpoch
    <3> QED
      BY <3>2, <3>4 DEF ReceiverNeverAhead
  <2>5. CASE UNCHANGED vars
    BY <2>5 DEF ReceiverNeverAhead, vars
  <2> QED
    BY <2>2, <2>3, <2>4, <2>5 DEF Next
<1> QED
  BY <1>1, <1>2, TypeCorrect, NonceInvariant, PTL DEF Spec

------------------------------------------------------------------------------
(* One direction of a stream *)

\* The frame at position i of p's stream, or the one p will seal next.
Upcoming(p, i) == IF i <= Len(wire[p]) THEN wire[p][i] ELSE Seal(enc[p])

\* A sender's next frame: the next counter of the epoch, or the first frame of
\* the next epoch under the next key.
Follows(f, g) ==
  \/ g.key = f.key /\ g.epoch = f.epoch /\ g.counter = f.counter + 1
  \/ g.key = HkdfDerive(f.key) /\ g.epoch = f.epoch + 1 /\ g.counter = 0

\* The decryptor is ready for the frame: it is the first of its epoch, or its
\* counter is the one after the highest tracked, or it opens the next epoch.
Ready(d, f) ==
  \/ /\ f.epoch = d.epoch /\ f.key = d.key
     /\ \/ f.counter = 0 /\ d.replay = FreshFilter
        \/ f.counter = d.replay.max + 1
  \/ f.epoch = d.epoch + 1 /\ f.key = HkdfDerive(d.key) /\ f.counter = 0

\* A decryptor that is ready for a frame accepts it and is then ready for the
\* frame that follows.
LEMMA ReadyAccepts ==
  ASSUME NEW d \in Decryptor, NEW f \in Frame, NEW g \in Frame,
         Ready(d, f), Follows(f, g)
  PROVE  DecryptFrame(d, f).accepted /\ Ready(DecryptFrame(d, f).decryptor, g)
<1> DEFINE next == DecryptFrame(d, f).decryptor
<1>1. /\ d.epoch \in Nat /\ d.replay \in Filter /\ d.replay.max \in Nat
      /\ f.epoch \in Nat /\ f.counter \in Nat /\ g.counter \in Nat
  BY DEF Decryptor, Filter, Frame
<1>2. CASE f.epoch = d.epoch
  <2>1. f.key = d.key
    BY <1>1, <1>2 DEF Ready
  <2>2. ~IsDuplicate(d.replay, f.counter)
    <3>1. CASE d.replay = FreshFilter
      BY <1>1, <3>1, FreshFilterFacts
    <3>2. CASE f.counter = d.replay.max + 1
      BY <1>1, <3>2 DEF IsDuplicate
    <3> QED
      BY <1>1, <1>2, <3>1, <3>2 DEF Ready
  <2>3. /\ DecryptFrame(d, f).accepted
        /\ next = [d EXCEPT !.replay = Track(@, f.counter)]
    BY <1>2, <2>1, <2>2 DEF DecryptFrame, Authentic
  <2>4. next.epoch = d.epoch /\ next.key = d.key /\ next.replay = Track(d.replay, f.counter)
    BY <2>3 DEF Decryptor
  <2>5. Track(d.replay, f.counter).max = f.counter
    BY <1>1, <1>2 DEF Ready, Track, FreshFilter, Filter
  <2> HIDE DEF next
  <2>6. Ready(next, g)
    BY <1>1, <1>2, <2>1, <2>4, <2>5 DEF Ready, Follows
  <2> QED
    BY <2>3, <2>6 DEF next
<1>3. CASE f.epoch # d.epoch
  <2>1. f.epoch = d.epoch + 1 /\ f.key = HkdfDerive(d.key) /\ f.counter = 0
    BY <1>3 DEF Ready
  <2>2. DecryptFrame(d, f).accepted /\ next = Candidate(d, f)
    BY <1>3, <2>1 DEF DecryptFrame, Authentic, Candidate
  <2>3. /\ next.epoch = f.epoch /\ next.key = f.key
        /\ next.replay.max = f.counter
    BY <2>1, <2>2 DEF Candidate, Track, FreshFilter
  <2> HIDE DEF next
  <2>4. Ready(next, g)
    BY <1>1, <2>3 DEF Ready, Follows
  <2> QED
    BY <2>2, <2>4 DEF next
<1> QED
  BY <1>2, <1>3

\* The inductive invariant of the direction from p to an end that sends nothing:
\* every frame follows the one before it, the receiver has accepted exactly what
\* it has read, and it is ready for the next frame.
OneWayInv(p) ==
  LET q == Other(p)
  IN  /\ wire[q] = <<>> /\ cursor[p] = 0 /\ received[p] = <<>>
      /\ cursor[q] <= Len(wire[p])
      /\ received[q] = [i \in 1 .. cursor[q] |-> i]
      /\ \A i \in 1 .. Len(wire[p]) : Follows(wire[p][i], Upcoming(p, i + 1))
      /\ Ready(dec[q], Upcoming(p, cursor[q] + 1))

\* On a stream with one sending end the receiver stays in step with the sender
\* through every rotation, for every rotation limit and filter width.
THEOREM OneWayStreamInSync ==
  ASSUME NEW p \in Peers, MaxFrames[TRUE][Other(p)] = 0
  PROVE  Spec => []StreamInSync
<1> DEFINE q == Other(p)
<1>0. q \in Peers /\ q # p /\ Other(q) = p /\ Peers = {p, q}
  BY DEF Peers, Other
<1>1. Init => (stream => OneWayInv(p))
  <2> SUFFICES ASSUME Init PROVE OneWayInv(p)
    OBVIOUS
  <2>1. /\ wire[p] = <<>> /\ wire[q] = <<>> /\ cursor[p] = 0 /\ cursor[q] = 0
        /\ received[p] = <<>> /\ received[q] = <<>>
        /\ enc[p] = NewEncryptor(SessionKey(p)) /\ dec[q] = NewDecryptor(SessionKey(p))
    BY <1>0 DEF Init
  <2>2. Upcoming(p, 1) = Seal(NewEncryptor(SessionKey(p)))
    BY <2>1 DEF Upcoming
  <2>3. Ready(dec[q], Upcoming(p, 1))
    BY <2>1, <2>2 DEF Ready, NewEncryptor, NewDecryptor, Seal
  <2> QED
    BY <2>1, <2>3 DEF OneWayInv
<1>2. TypeOK /\ (stream => OneWayInv(p)) /\ [Next]_vars => (stream => OneWayInv(p))'
  <2>0. [Next]_vars => stream' = stream
    BY DEF Next, Encrypt, Decrypt, DecryptDamaged, vars
  <2> SUFFICES ASSUME TypeOK, stream = TRUE, OneWayInv(p), [Next]_vars PROVE OneWayInv(p)'
    BY <2>0 DEF TypeOK
  <2> DEFINE n == Len(wire[p])
             c == cursor[q]
  <2>1. /\ wire[p] \in Seq(Frame) /\ n \in Nat /\ c \in Nat /\ c <= n
        /\ dec[q] \in Decryptor /\ enc[p] \in Encryptor
        /\ dec \in [Peers -> Decryptor]
        /\ DOMAIN wire[p] = 1 .. n
    BY <1>0 DEF TypeOK, OneWayInv, Decryptor, Encryptor
  <2>2. Seal(enc[p]) \in Frame
    BY <2>1 DEF Seal, Encryptor, Frame
  <2>3. \A i \in 1 .. n + 1 : Upcoming(p, i) \in Frame
    BY <2>1, <2>2 DEF Upcoming
  <2>4. CASE Encrypt(p)
    <3>1. /\ wire'[p] = Append(wire[p], Seal(enc[p])) /\ wire'[q] = wire[q]
          /\ cursor' = cursor /\ received' = received
          /\ dec'[q] = dec[q]
          /\ \/ enc'[p] = AdvanceNonce(enc[p])
             \/ enc'[p] = RotateEncryptor(AdvanceNonce(enc[p]))
      BY <1>0, <2>4 DEF Encrypt, TypeOK
    <3>2. /\ Len(wire'[p]) = n + 1
          /\ wire'[p][n + 1] = Seal(enc[p])
          /\ \A i \in 1 .. n : wire'[p][i] = wire[p][i]
      BY <2>1, <3>1
    <3>3. \A i \in 1 .. n + 1 : /\ Upcoming(p, i)' = Upcoming(p, i)
                                /\ wire'[p][i] = Upcoming(p, i)
      BY <2>1, <3>2 DEF Upcoming
    <3>4. \A i \in Nat : i = n + 2 => Upcoming(p, i)' = Seal(enc'[p])
      BY <2>1, <3>2 DEF Upcoming
    <3>5. Follows(Seal(enc[p]), Seal(enc'[p]))
      BY <2>1, <3>1
      DEF Follows, Seal, AdvanceNonce, RotateEncryptor, Encryptor
    <3>6. \A i \in 1 .. n + 1 : Follows(wire'[p][i], Upcoming(p, i + 1)')
      <4> SUFFICES ASSUME NEW i \in 1 .. n + 1
                   PROVE  Follows(wire'[p][i], Upcoming(p, i + 1)')
        OBVIOUS
      <4>1. CASE i = n + 1
        <5>1. i + 1 \in Nat /\ i + 1 = n + 2
          BY <2>1, <4>1
        <5> QED
          BY <3>2, <3>4, <3>5, <4>1, <5>1
      <4>2. CASE i \in 1 .. n
        <5>1. Follows(wire[p][i], Upcoming(p, i + 1))
          BY <4>2 DEF OneWayInv
        <5>2. i + 1 \in 1 .. n + 1
          BY <2>1, <4>2
        <5> QED
          BY <3>2, <3>3, <4>2, <5>1, <5>2
      <4> QED
        BY <2>1, <4>1, <4>2
    <3>7. Ready(dec'[q], Upcoming(p, c + 1)')
      <4>1. c + 1 \in 1 .. n + 1
        BY <2>1
      <4> QED
        BY <3>1, <3>3, <4>1 DEF OneWayInv
    <3> QED
      BY <2>1, <3>1, <3>2, <3>6, <3>7 DEF OneWayInv
  <2>5. ~Encrypt(q)
    <3>1. wire[q] = <<>> /\ MaxFrames[stream][q] = 0
      BY <1>0 DEF OneWayInv
    <3>2. Encrypt(q) => Len(wire[q]) < MaxFrames[stream][q]
      BY DEF Encrypt
    <3> QED
      BY <3>1, <3>2
  <2>6. ~Decrypt(p)
    BY <1>0 DEF Decrypt, Arriving, OneWayInv
  <2>7. CASE Decrypt(q)
    <3>1. PICK i \in Arriving(q) :
            LET result == DecryptFrame(dec[q], wire[p][i])
            IN  /\ dec' = [dec EXCEPT ![q] = result.decryptor]
                /\ cursor' = [cursor EXCEPT ![q] = i]
                /\ received' = [received EXCEPT ![q] =
                                  IF result.accepted THEN Append(@, i) ELSE @]
                /\ UNCHANGED <<stream, enc, wire>>
      BY <1>0, <2>7 DEF Decrypt
    <3>2. i = c + 1 /\ i \in 1 .. n
      BY <1>0, <2>1, <3>1 DEF Arriving
    <3>3. Upcoming(p, c + 1) = wire[p][i] /\ wire[p][i] \in Frame
      BY <2>1, <3>2 DEF Upcoming
    <3>4. Ready(dec[q], wire[p][i]) /\ Follows(wire[p][i], Upcoming(p, i + 1))
      BY <3>2, <3>3 DEF OneWayInv
    <3>5. Upcoming(p, i + 1) \in Frame
      BY <2>1, <2>3, <3>2
    <3>6. /\ DecryptFrame(dec[q], wire[p][i]).accepted
          /\ Ready(DecryptFrame(dec[q], wire[p][i]).decryptor, Upcoming(p, i + 1))
      BY <2>1, <3>3, <3>4, <3>5, ReadyAccepts
    <3>7. /\ dec'[q] = DecryptFrame(dec[q], wire[p][i]).decryptor
          /\ cursor'[q] = i /\ cursor'[p] = cursor[p]
          /\ received'[q] = Append(received[q], i) /\ received'[p] = received[p]
          /\ wire' = wire /\ enc' = enc
      BY <1>0, <2>1, <3>1, <3>6 DEF TypeOK
    <3>8. received'[q] = [k \in 1 .. i |-> k]
      <4>1. received[q] = [k \in 1 .. c |-> k]
        BY DEF OneWayInv
      <4>2. Append([k \in 1 .. c |-> k], c + 1) = [k \in 1 .. c + 1 |-> k]
        BY <2>1
      <4> QED
        BY <3>2, <3>7, <4>1, <4>2
    <3>9. Upcoming(p, i + 1)' = Upcoming(p, i + 1)
      BY <3>7 DEF Upcoming
    <3>10. \A k \in 1 .. n : Follows(wire'[p][k], Upcoming(p, k + 1)')
      BY <3>7 DEF OneWayInv, Upcoming
    <3> QED
      BY <2>1, <3>2, <3>6, <3>7, <3>8, <3>9, <3>10 DEF OneWayInv
  <2>8. ~DecryptDamaged(p) /\ ~DecryptDamaged(q)
    BY DEF DecryptDamaged
  <2>9. CASE UNCHANGED vars
    BY <2>9 DEF OneWayInv, Upcoming, vars
  <2> QED
    BY <1>0, <2>4, <2>5, <2>6, <2>7, <2>8, <2>9 DEF Next
<1>3. (stream => OneWayInv(p)) => StreamInSync
  <2>1. [i \in 1 .. 0 |-> i] = <<>>
    OBVIOUS
  <2> QED
    BY <1>0, <2>1 DEF OneWayInv, StreamInSync
<1> QED
  BY <1>1, <1>2, <1>3, TypeCorrect, PTL DEF Spec
==============================================================================
