---------------------------- MODULE SecureChannel ----------------------------
(***************************************************************************)
(* The encrypted frame channel between the two ends of a session:           *)
(* FrameEncryptor, FrameDecryptor and EncryptionContext of                  *)
(* bw-protocol/src/encryption.rs, with the per-role keys of handshake.rs.   *)
(*                                                                          *)
(* Both ends reach their context through SessionManager::with_session_context *)
(* (session.rs), which holds the manager's mutex for the whole call: one    *)
(* encrypt or decrypt is one atomic step.                                   *)
(*                                                                          *)
(* A key is the role label it was derived with and the number of HKDF       *)
(* rotations applied since; sealing a frame under a key is recorded in the   *)
(* frame, and authentication succeeds exactly for the frame that was sealed  *)
(* under the decryptor's key and arrives intact.                             *)
(***************************************************************************)
EXTENDS SeqFilter, Sequences

CONSTANTS
  RotationLimit,  \* KeyRotationPolicy::Counter(limit); 10_000 in production
  MaxFrames,      \* bound: MaxFrames[stream][p] frames are sent by p
  MaxHeader       \* bound: the epoch and counter a damaged header reads as

Peers == {"client", "server"}
Other(p) == IF p = "client" THEN "server" ELSE "client"

ASSUME ChannelAssumption ==
  /\ RotationLimit \in Nat
  /\ MaxFrames \in [BOOLEAN -> [Peers -> Nat]]
  /\ MaxHeader \in Nat

VARIABLES
  stream,   \* TRUE: a QUIC stream, in order and intact.  FALSE: frames may be
            \* lost, delayed, repeated or damaged.  Chosen once
  enc,      \* enc[p]: FrameEncryptor of p
  dec,      \* dec[p]: FrameDecryptor of p
  wire,     \* wire[p]: every frame p has sent, in order
  cursor,   \* cursor[p]: how many frames of the other end's stream p has read
  received  \* received[p]: positions in wire[Other(p)] p accepted, in order

vars == <<stream, enc, dec, wire, cursor, received>>

Key == [label : Peers, rotations : Nat]
Frame == [key : Key, epoch : Nat, counter : Nat]

\* derive_session_keys: the client sends with "client-key" and receives with
\* "server-key"; server_handshake swaps the two.
SessionKey(p) == [label |-> p, rotations |-> 0]

\* hkdf_derive(None, key, "epoch-N")
HkdfDerive(key) == [key EXCEPT !.rotations = @ + 1]

NewEncryptor(key) == [key |-> key, epoch |-> 0, counter |-> 0]
NewDecryptor(key) == [key |-> key, epoch |-> 0, replay |-> FreshFilter]

TypeOK ==
  /\ stream \in BOOLEAN
  /\ enc \in [Peers -> [key : Key, epoch : Nat, counter : Nat]]
  /\ dec \in [Peers -> [key : Key, epoch : Nat, replay : Filter]]
  /\ wire \in [Peers -> Seq(Frame)]
  /\ cursor \in [Peers -> Nat]
  /\ received \in [Peers -> Seq(Nat)]

Init ==
  /\ stream \in BOOLEAN
  /\ enc = [p \in Peers |-> NewEncryptor(SessionKey(p))]
  /\ dec = [p \in Peers |-> NewDecryptor(SessionKey(Other(p)))]
  /\ wire = [p \in Peers |-> <<>>]
  /\ cursor = [p \in Peers |-> 0]
  /\ received = [p \in Peers |-> <<>>]

------------------------------------------------------------------------------
(* Sending *)

\* FrameEncryptor::encrypt_frame: seal under the current nonce, then advance it.
Seal(e) == [key |-> e.key, epoch |-> e.epoch, counter |-> e.counter]
AdvanceNonce(e) == [e EXCEPT !.counter = @ + 1]

\* Mutant: the counter restarts in the same epoch.
RotateEncryptorCounterOnly(e) == [e EXCEPT !.counter = 0]

\* FrameEncryptor::rotate_keys
RotateEncryptor(e) ==
  [key |-> HkdfDerive(e.key), epoch |-> e.epoch + 1, counter |-> 0]

\* Mutant: a fresh replay window in the same epoch.
RotateDecryptorWindowOnly(d) == [d EXCEPT !.replay = FreshFilter]

\* FrameDecryptor::rotate_keys
RotateDecryptor(d) ==
  [key |-> HkdfDerive(d.key), epoch |-> d.epoch + 1, replay |-> FreshFilter]

\* EncryptionContext::encrypt_frame: after sealing, a context at its limit
\* rotates, and EncryptionContext::rotate_keys rotates both directions.
Encrypt(p) ==
  /\ Len(wire[p]) < MaxFrames[stream][p]
  /\ wire' = [wire EXCEPT ![p] = Append(@, Seal(enc[p]))]
  /\ LET advanced == AdvanceNonce(enc[p])
     IN  IF advanced.counter >= RotationLimit
         THEN /\ enc' = [enc EXCEPT ![p] = RotateEncryptor(advanced)]
              /\ dec' = [dec EXCEPT ![p] = RotateDecryptor(@)]
         ELSE /\ enc' = [enc EXCEPT ![p] = advanced]
              /\ UNCHANGED dec
  /\ UNCHANGED <<stream, cursor, received>>

------------------------------------------------------------------------------
(* Receiving *)

\* decrypt_aead: the tag verifies under the key the frame was sealed with.
Authentic(f, key) == f.key = key

\* The candidate of decrypt_frame's next-epoch branch: the key, epoch and replay
\* window the decryptor will have if the frame authenticates.
Candidate(d, f) ==
  [key |-> HkdfDerive(d.key), epoch |-> d.epoch + 1,
   replay |-> Track(FreshFilter, f.counter)]

Refuse(d) == [accepted |-> FALSE, decryptor |-> d]

\* Mutant: the candidate is committed whether or not the frame authenticates.
DecryptFrameCommitFirst(d, f) ==
  IF f.epoch = d.epoch
  THEN IF IsDuplicate(d.replay, f.counter)
       THEN Refuse(d)
       ELSE [accepted  |-> Authentic(f, d.key),
             decryptor |-> [d EXCEPT !.replay = Track(@, f.counter)]]
  ELSE IF f.epoch = d.epoch + 1
       THEN [accepted  |-> Authentic(f, Candidate(d, f).key),
             decryptor |-> Candidate(d, f)]
       ELSE Refuse(d)

\* Mutant: the receiver follows no rotation.
DecryptFrameSameEpochOnly(d, f) ==
  IF f.epoch = d.epoch /\ ~IsDuplicate(d.replay, f.counter)
  THEN [accepted  |-> Authentic(f, d.key),
        decryptor |-> [d EXCEPT !.replay = Track(@, f.counter)]]
  ELSE Refuse(d)

\* FrameDecryptor::decrypt_frame.  On the same epoch the replay window is
\* consulted and updated before the frame is authenticated; one epoch ahead,
\* the frame is authenticated under the candidate before anything is committed;
\* any other epoch is refused.
DecryptFrame(d, f) ==
  IF f.epoch = d.epoch
  THEN IF IsDuplicate(d.replay, f.counter)
       THEN Refuse(d)
       ELSE [accepted  |-> Authentic(f, d.key),
             decryptor |-> [d EXCEPT !.replay = Track(@, f.counter)]]
  ELSE IF f.epoch = d.epoch + 1 /\ Authentic(f, Candidate(d, f).key)
       THEN [accepted |-> TRUE, decryptor |-> Candidate(d, f)]
       ELSE Refuse(d)

\* The position of the frame p reads next: a stream yields them in order, a
\* datagram network any frame sent so far, any number of times.
Arriving(p) ==
  IF stream
  THEN {i \in DOMAIN wire[Other(p)] : i = cursor[p] + 1}
  ELSE DOMAIN wire[Other(p)]

Decrypt(p) ==
  \E i \in Arriving(p) :
    LET result == DecryptFrame(dec[p], wire[Other(p)][i])
    IN  /\ dec' = [dec EXCEPT ![p] = result.decryptor]
        /\ cursor' = [cursor EXCEPT ![p] = IF stream THEN i ELSE @]
        /\ received' = [received EXCEPT ![p] =
                          IF result.accepted THEN Append(@, i) ELSE @]
        /\ UNCHANGED <<stream, enc, wire>>

\* A frame damaged in transit: its header may read as any epoch and counter,
\* and its tag verifies under no key.
Damaged ==
  [key : {[label |-> "none", rotations |-> 0]},
   epoch : 0 .. MaxHeader, counter : 0 .. MaxHeader]

DecryptDamaged(p) ==
  /\ ~stream
  /\ \E f \in Damaged :
       dec' = [dec EXCEPT ![p] = DecryptFrame(@, f).decryptor]
  /\ UNCHANGED <<stream, enc, wire, cursor, received>>

Next ==
  \E p \in Peers : Encrypt(p) \/ Decrypt(p) \/ DecryptDamaged(p)

\* Each end runs a receive task of its own that keeps reading the stream.
Fairness == \A p \in Peers : WF_vars(Decrypt(p))

Spec == Init /\ [][Next]_vars
FairSpec == Spec /\ Fairness

------------------------------------------------------------------------------
(* Properties *)

\* No two frames are ever sealed under the same key and nonce, across
\* rotations, which reset the counter, and across the two directions
\* (FrameEncryptor::generate_nonce, rotate_keys).
NonceUnique ==
  \A p, q \in Peers : \A i \in DOMAIN wire[p], j \in DOMAIN wire[q] :
    wire[p][i] = wire[q][j] => p = q /\ i = j

\* A frame is handed to the application at most once, however often the network
\* repeats it, whatever damaged frames arrive and although both the receiver's
\* epoch transition and the rotation caused by its own sending install an empty
\* replay window (protect_replay, decrypt_frame, rotate_keys).
AcceptedOnce ==
  \A p \in Peers : \A i, j \in DOMAIN received[p] :
    received[p][i] = received[p][j] => i = j

\* Every epoch the receiver has moved to is accounted for by a rotation of the
\* sender or by one its own sending caused: no damaged or stale frame advances
\* it (the candidate branch of decrypt_frame commits after authentication).
ReceiverNeverAhead ==
  \A p \in Peers : dec[p].epoch <= enc[Other(p)].epoch + enc[p].epoch

\* On a stream every frame is accepted: the receiver follows the sender through
\* every rotation (the comment on decrypt_frame: "This keeps the receiver
\* synchronized with a sender that rotates at the configured Counter threshold").
StreamInSync ==
  stream => \A p \in Peers : received[p] = [i \in 1 .. cursor[p] |-> i]

\* On a stream every frame that is sent is eventually accepted, in the order
\* sent, through any number of rotations.
StreamDelivers ==
  \A p \in Peers : \A n \in 1 .. MaxFrames[TRUE][p] :
    (stream /\ Len(wire[p]) >= n) ~> (/\ Len(received[Other(p)]) >= n
                          /\ received[Other(p)][n] = n)
==============================================================================
