---------------------------- MODULE MessageFraming ----------------------------
(***************************************************************************)
(* How one direction of an established session carries messages:             *)
(* bw-session/src/wire.rs cuts a serialized message into protocol frames,    *)
(* bw-session/src/secure_conn.rs encrypts each frame and cuts the result     *)
(* again into wire frames, bw-transport/src/adapter.rs writes those to a     *)
(* QUIC stream, and the receiving end undoes both cuts.                      *)
(*                                                                           *)
(* Bytes are abstract: a serialized value is known by the value and its      *)
(* length, and the bytes a receiver has put together decode exactly when     *)
(* they are all the pieces of one value. Encryption is modelled by           *)
(* SecureChannel; here it is what it does to a frame's length and that it    *)
(* needs the session's entry in the SessionManager.                          *)
(***************************************************************************)
EXTENDS Integers, Sequences

CONSTANTS
  Msg,                \* the messages that are sent
  Size,               \* Size[m]: length of the serialized message
  FragmentSize,       \* MESSAGE_FRAGMENT_SIZE and FRAGMENT_SIZE: 60_000
  MaxReassembledSize, \* 4 MiB
  LengthWidth,        \* payload_length holds values below this: 2^16
  Expansion, Overhead,\* CBOR of an encrypted frame of n bytes: Expansion * n + Overhead
  MaxSends            \* bound: messages sent

ASSUME FramingAssumption ==
  /\ Size \in [Msg -> Nat \ {0}]
  /\ FragmentSize \in Nat \ {0} /\ LengthWidth \in Nat /\ FragmentSize < LengthWidth
  /\ MaxReassembledSize \in Nat
  /\ Expansion \in Nat \ {0} /\ Overhead \in Nat
  /\ Expansion * FragmentSize + Overhead <= MaxReassembledSize
  /\ MaxSends \in Nat

Side == {"tx", "rx"}

VARIABLES
  handle,     \* handle[e]: the session object is "whole" or "split" in two halves
  lifecycle,  \* lifecycle[e]: Lifecycle::state of a whole session
  registered, \* registered[e]: the SessionManager holds the session's keys
  tx,         \* the sender: "open", or "failed" after an error
  frames,     \* protocol frames of the current message still to be encrypted
  fragments,  \* wire frames of the current protocol frame still to be written
  stream,     \* the QUIC stream: wire frames written and not yet read
  conn,       \* the connection is up
  finished,   \* the send stream was finished
  rx,         \* the receiver: "open", "failed" on a frame, "ended" otherwise
  inner,      \* what recv_fragments has collected: wire frames, and their bytes
  outer,      \* what recv_reassembled has collected: protocol frames, and their bytes
  sent, received  \* messages accepted for sending, messages handed to the receiver

txVars == <<tx, frames, fragments, sent>>
rxVars == <<rx, inner, outer, received>>
sessionVars == <<handle, lifecycle, registered>>
vars == <<sessionVars, txVars, stream, conn, finished, rxVars>>

(***************************************************************************)
(* Cutting and putting together                                              *)
(***************************************************************************)

\* Mutant: the last of several frames has the "more" flag too.
FragmentsAllMore(total) ==
  LET n == (total + FragmentSize - 1) \div FragmentSize
      Length(i) == IF i < n THEN FragmentSize ELSE total - (n - 1) * FragmentSize
  IN  [i \in 1 .. n |-> [index |-> i - 1, more |-> n > 1, length |-> Length(i)]]

\* The flags and lengths of the frames that carry total bytes. A single frame has
\* index 0 and no "more" flag.
Fragments(total) ==
  LET n == (total + FragmentSize - 1) \div FragmentSize
      Length(i) == IF i < n THEN FragmentSize ELSE total - (n - 1) * FragmentSize
  IN  [i \in 1 .. n |-> [index |-> i - 1, more |-> i < n, length |-> Length(i)]]

\* The pieces of a value of the given length: what the frames of send_fragmented and
\* of send_fragments carry.
Cut(value, total) ==
  [i \in DOMAIN Fragments(total) |-> [of |-> value, flags |-> Fragments(total)[i]]]

Encrypted(length) == Expansion * length + Overhead

\* payload_length is a 16-bit field; a frame is read back only if it is exact.
HeaderExact(piece) == piece.flags.length % LengthWidth = piece.flags.length

\* The buffer that a receiver fills: the pieces it holds and its length.
Empty == [pieces |-> <<>>, bytes |-> 0]
Collect(buffer, p) ==
  [pieces |-> Append(buffer.pieces, p), bytes |-> buffer.bytes + p.flags.length]

\* Mutant: the limit itself is refused.
ContinuesBelow(buffer, p) ==
  buffer # Empty =>
    /\ p.flags.index = buffer.pieces[1].flags.index + Len(buffer.pieces)
    /\ buffer.bytes + p.flags.length < MaxReassembledSize

\* recv_fragments and recv_reassembled: the first piece may have any index, each
\* further one must follow it and keep the total within the limit.
Continues(buffer, p) ==
  buffer # Empty =>
    /\ p.flags.index = buffer.pieces[1].flags.index + Len(buffer.pieces)
    /\ buffer.bytes + p.flags.length <= MaxReassembledSize

\* The bytes put together are a serialized value.
Decodes(buffer, total) == buffer.pieces = Cut(buffer.pieces[1].of, total)

(***************************************************************************)
(* Sending                                                                   *)
(***************************************************************************)
Init ==
  /\ handle = [e \in Side |-> "whole"]
  /\ lifecycle = [e \in Side |-> "Active"]
  /\ registered = [e \in Side |-> TRUE]
  /\ tx = "open" /\ frames = <<>> /\ fragments = <<>>
  /\ stream = <<>> /\ conn = TRUE /\ finished = FALSE
  /\ rx = "open" /\ inner = Empty /\ outer = Empty
  /\ sent = <<>> /\ received = <<>>

\* MessageSession checks the lifecycle, the halves of a split session do not.
Usable(e) == handle[e] = "whole" => lifecycle[e] = "Active"

Idle == frames = <<>> /\ fragments = <<>>

\* send_message: serialize and cut. The sender owns the session, so the next message
\* starts when the last one is written.
SendMessage(m) ==
  /\ tx = "open" /\ Usable("tx") /\ ~finished /\ Idle /\ Len(sent) < MaxSends
  /\ frames' = Cut(m, Size[m])
  /\ sent' = Append(sent, m)
  /\ UNCHANGED <<sessionVars, tx, fragments, stream, conn, finished, rxVars>>

\* send_secure_frame: encrypt the next frame under the session's entry and cut it.
\* A missing entry is SessionNotFound, which ends the sender.
SendSecureFrame ==
  /\ tx = "open" /\ fragments = <<>> /\ frames # <<>>
  /\ IF registered["tx"]
     THEN /\ fragments' = Cut(Head(frames), Encrypted(Head(frames).flags.length))
          /\ frames' = Tail(frames)
          /\ tx' = tx
     ELSE tx' = "failed" /\ UNCHANGED <<frames, fragments>>
  /\ UNCHANGED <<sessionVars, sent, stream, conn, finished, rxVars>>

\* send_one_fragment and QuicProtocolAdapter::send_frame.
SendOneFragment ==
  /\ tx = "open" /\ fragments # <<>> /\ conn
  /\ stream' = Append(stream, Head(fragments))
  /\ fragments' = Tail(fragments)
  /\ UNCHANGED <<sessionVars, tx, frames, sent, conn, finished, rxVars>>

\* A write fails once the connection is lost, or the peer's request to stop, sent when
\* it drops its receive stream, has arrived; the sender's task ends.
WriteFails ==
  /\ tx = "open" /\ fragments # <<>>
  /\ ~conn \/ rx # "open"
  /\ tx' = "failed"
  /\ UNCHANGED <<sessionVars, frames, fragments, sent, stream, conn, finished, rxVars>>

(***************************************************************************)
(* Receiving                                                                 *)
(***************************************************************************)

\* ProtocolMessage::deserialize refuses more than the limit.
Deserializes(m) == Size[m] <= MaxReassembledSize

\* The last frame of a message has come.
Complete(buffer, p) ==
  LET whole == Collect(buffer, p)
      m == p.of
  IN  IF Deserializes(m) /\ Decodes(whole, Size[m])
      THEN received' = Append(received, m) /\ rx' = rx /\ outer' = Empty
      ELSE rx' = "failed" /\ UNCHANGED <<received, outer>>

\* Mutant: an error in the middle of a message is skipped.
RecvReassembledKeepsGoing(frame) ==
  IF ~Continues(outer, frame)
  THEN outer' = Empty /\ UNCHANGED <<received, rx>>
  ELSE IF frame.flags.more
       THEN outer' = Collect(outer, frame) /\ UNCHANGED <<received, rx>>
       ELSE Complete(outer, frame)

\* A decrypted protocol frame joins the message that is being put together.
RecvReassembled(frame) ==
  IF ~Continues(outer, frame)
  THEN rx' = "failed" /\ UNCHANGED <<received, outer>>
  ELSE IF frame.flags.more
       THEN outer' = Collect(outer, frame) /\ UNCHANGED <<received, rx>>
       ELSE Complete(outer, frame)

\* recv_frame, recv_fragments, recv_secure_frame, recv_message: what the receiver does
\* with the next wire frame of the stream, up to its next read. Every error reaches the
\* caller, which gives the session up.
RecvFrame ==
  /\ rx = "open" /\ Usable("rx") /\ stream # <<>>
  /\ stream' = Tail(stream)
  /\ LET p == Head(stream)
         whole == Collect(inner, p)
     IN  IF ~HeaderExact(p) \/ ~Continues(inner, p)
         THEN rx' = "failed" /\ UNCHANGED <<inner, outer, received>>
         ELSE IF p.flags.more
         THEN inner' = whole /\ UNCHANGED <<rx, outer, received>>
         ELSE IF Decodes(whole, Encrypted(p.of.flags.length)) /\ registered["rx"]
         THEN inner' = Empty /\ RecvReassembled(p.of)
         ELSE rx' = "failed" /\ UNCHANGED <<inner, outer, received>>
  /\ UNCHANGED <<sessionVars, txVars, conn, finished>>

\* Nothing is left to read of a stream that was finished or lost.
RecvEnd ==
  /\ rx = "open" /\ stream = <<>> /\ (finished \/ ~conn)
  /\ rx' = "ended"
  /\ UNCHANGED <<sessionVars, txVars, stream, conn, finished, inner, outer, received>>

(***************************************************************************)
(* Splitting, closing, and the loss of the connection                        *)
(***************************************************************************)
IntoSplit(e) ==
  /\ handle[e] = "whole" /\ lifecycle[e] = "Active"
  /\ e = "tx" => Idle
  /\ e = "rx" => inner = Empty /\ outer = Empty
  /\ handle' = [handle EXCEPT ![e] = "split"]
  /\ UNCHANGED <<lifecycle, registered, txVars, stream, conn, finished, rxVars>>

\* SessionManager::close_session
Release(e) == registered' = [registered EXCEPT ![e] = FALSE]

\* SecureConnection::close: releases the entry and finishes the send stream, whatever
\* the state. The receiving end's own send stream is not part of this direction.
Close(e) ==
  /\ handle[e] = "whole" /\ lifecycle[e] # "Closed"
  /\ e = "tx" => Idle
  /\ lifecycle' = [lifecycle EXCEPT ![e] = "Closed"]
  /\ Release(e)
  /\ finished' = (finished \/ e = "tx")
  /\ UNCHANGED <<handle, txVars, stream, conn, rxVars>>

\* MessageSender::close finishes the stream and leaves the entry.
CloseSender ==
  /\ handle["tx"] = "split" /\ Idle /\ ~finished
  /\ finished' = TRUE
  /\ UNCHANGED <<sessionVars, txVars, stream, conn, rxVars>>

\* The receiving task is cancelled, at whatever read it waits: the server's timeout around
\* a session, the client's recv_task.abort.
CancelReceiver ==
  /\ rx = "open"
  /\ rx' = "ended"
  /\ UNCHANGED <<sessionVars, txVars, stream, conn, finished, inner, outer, received>>

\* The connection is lost, and with it any part of what the receiver had not got yet.
LoseConnection ==
  /\ conn
  /\ conn' = FALSE
  /\ \E n \in 0 .. Len(stream) : stream' = SubSeq(stream, 1, n)
  /\ UNCHANGED <<sessionVars, txVars, finished, rxVars>>

Next ==
  \/ \E m \in Msg : SendMessage(m)
  \/ SendSecureFrame \/ SendOneFragment \/ WriteFails
  \/ RecvFrame \/ RecvEnd
  \/ \E e \in Side : IntoSplit(e) \/ Close(e)
  \/ CloseSender \/ CancelReceiver \/ LoseConnection

Spec == Init /\ [][Next]_vars

\* Both tasks run whenever they can: neither waits for anything but its stream.
Fairness ==
  /\ WF_vars(SendSecureFrame) /\ WF_vars(SendOneFragment)
  /\ WF_vars(RecvFrame) /\ WF_vars(RecvEnd)

FairSpec == Spec /\ Fairness

(***************************************************************************)
(* Properties                                                                *)
(***************************************************************************)

Fifo == INSTANCE FifoDelivery WITH Payload <- Msg, sent <- sent, delivered <- received

\* Two layers of cutting and reassembly, with errors and losses in the middle of a
\* message, keep the messages whole, in order and without repetition: a session
\* implements FIFO delivery.
SessionIsFifo == Fifo!Spec

\* The receiver gives up on a frame only when a message is larger than the reassembly
\* limit: no message within the limit is refused, at either layer and at the exact limit.
FailsOnlyOnOversize ==
  rx = "failed" => \E i \in DOMAIN sent : Size[sent[i]] > MaxReassembledSize

\* A message that was sent is received, unless the connection is lost or either end
\* closes or an oversized message ends the session first. (A receiver left waiting for
\* a fragment that never comes would violate it.)
SentIsReceived ==
  \A n \in 1 .. MaxSends :
    (Len(sent) >= n) ~> (Len(received) >= n \/ ~conn \/ rx # "open" \/ ~Usable("rx"))
==============================================================================
