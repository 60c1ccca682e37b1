--------------------------- MODULE VideoPathProofs ---------------------------
(***************************************************************************)
(* Proofs about VideoPath, for every capacity of the channels, every         *)
(* keyframe interval and every number of screens, packets and faults.        *)
(***************************************************************************)
EXTENDS VideoPath, TLAPS

------------------------------------------------------------------------------
(* The inductive invariant *)

\* What the channels carry.
Screen == 1 .. MaxScreen
Picture == [v : Screen, refresh : BOOLEAN]
Packet == [v : Screen \cup {0}, kind : {"I", "P", "skip", "audio"}, linked : BOOLEAN]

EncoderState ==
  [on : BOOLEAN, started : BOOLEAN, forced : BOOLEAN, since : Nat, linked : BOOLEAN]
EncoderType == encoder \in EncoderState

CaptureType ==
  /\ screen \in Screen /\ cached \subseteq Screen
  /\ raw \in Seq(Picture) /\ composed \in Seq(Picture)

StreamType ==
  /\ EncoderType
  /\ encoded \in Seq(Packet) /\ out \in Seq(Packet)
  /\ wire \in Seq(Packet) /\ Len(wire) <= 1
  /\ forwarder \in {"run", "join", "off"} /\ sender \in {"run", "off"} /\ up \in BOOLEAN
  /\ picture \in {"none", "good"}

\* Nothing is on the way to the viewer without the session, and nothing waits to be sent
\* without the sender task.
SessionInv ==
  /\ ~up => wire = <<>>
  /\ sender = "off" => out = <<>>

\* A frame the viewer decodes is in the queue.
Carries(queue) == \E i \in 1 .. Len(queue) : Parses(queue[i])

\* Every predicted frame in the queue was predicted from the frame encoded before it.
Linked(queue) == \A i \in 1 .. Len(queue) : queue[i].kind = "P" => queue[i].linked

\* Every predicted frame in the queue comes after one that the viewer decodes.
KeyFirst(queue) ==
  \A i \in 1 .. Len(queue) : queue[i].kind = "P" => \E j \in 1 .. i - 1 : Parses(queue[j])

\* What a queue is decoded after: the viewer's picture, then the stream, then the outbound
\* queue, then the encoder's channel.
Ready == picture = "good"
AheadOfOut == Ready \/ Carries(wire)
AheadOfEncoded == AheadOfOut \/ Carries(out)
AheadOfEncoder == AheadOfEncoded \/ Carries(encoded)

\* As long as the session is up the viewer can decode all that is on its way; what waits
\* for the forwarding task is on its way as long as that task and the sender task run.
ViewerInv == up => /\ Linked(wire) /\ (Ready \/ KeyFirst(wire))
                   /\ Linked(out) /\ (AheadOfOut \/ KeyFirst(out))
PipelineInv == (up /\ sender = "run" /\ forwarder = "run") =>
                   /\ Linked(encoded) /\ (AheadOfEncoded \/ KeyFirst(encoded))
                   /\ encoder.linked => AheadOfEncoder

\* The encoder predicts a frame only from one that went into the stream: when it did not,
\* the next frame is forced to be a keyframe, or is the first.
EncoderInv == encoder.linked \/ encoder.forced \/ ~encoder.started

StreamInv == StreamType /\ SessionInv /\ ViewerInv /\ PipelineInv /\ EncoderInv

VideoInv == CaptureType /\ StreamInv

------------------------------------------------------------------------------
(* Queues of packets *)

\* What a frame appended to a queue, by try_send or send, changes.
LEMMA AppendFacts ==
  ASSUME NEW q \in Seq(Packet), NEW f \in Packet
  PROVE  /\ Append(q, f) \in Seq(Packet)
         /\ Carries(q) \/ Parses(f) => Carries(Append(q, f))
         /\ Linked(q) /\ (f.kind = "P" => f.linked) => Linked(Append(q, f))
         /\ KeyFirst(q) /\ (f.kind = "P" => Carries(q)) => KeyFirst(Append(q, f))
<1> DEFINE a == Append(q, f)
<1>1. /\ a \in Seq(Packet) /\ Len(a) = Len(q) + 1 /\ Len(q) \in Nat
      /\ \A i \in 1 .. Len(q) : a[i] = q[i]
      /\ a[Len(q) + 1] = f
  OBVIOUS
<1> HIDE DEF a
<1>2. Carries(q) \/ Parses(f) => Carries(a)
  BY <1>1 DEF Carries
<1>3. Linked(q) /\ (f.kind = "P" => f.linked) => Linked(a)
  BY <1>1 DEF Linked
<1>4. ASSUME KeyFirst(q), f.kind = "P" => Carries(q), NEW i \in 1 .. Len(a), a[i].kind = "P"
      PROVE  \E j \in 1 .. i - 1 : Parses(a[j])
  <2>1. CASE i = Len(a)
    <3>1. PICK j \in 1 .. Len(q) : Parses(q[j])
      BY <1>1, <1>4, <2>1 DEF Carries
    <3> QED
      BY <1>1, <2>1, <3>1
  <2>2. CASE i # Len(a)
    <3>1. i \in 1 .. Len(q) /\ q[i].kind = "P"
      BY <1>1, <1>4, <2>2
    <3>2. PICK j \in 1 .. i - 1 : Parses(q[j])
      BY <1>4, <3>1 DEF KeyFirst
    <3>3. j \in 1 .. Len(q)
      BY <1>1, <3>1
    <3> QED
      BY <1>1, <3>2, <3>3
  <2> QED
    BY <2>1, <2>2
<1>5. KeyFirst(q) /\ (f.kind = "P" => Carries(q)) => KeyFirst(a)
  BY <1>4 DEF KeyFirst
<1> QED
  BY <1>1, <1>2, <1>3, <1>5 DEF a

\* What the first frame of a queue says of it, and what is left when it is taken.
LEMMA TailFacts ==
  ASSUME NEW q \in Seq(Packet), q # <<>>
  PROVE  /\ Head(q) \in Packet /\ Tail(q) \in Seq(Packet)
         /\ Carries(q) => Parses(Head(q)) \/ Carries(Tail(q))
         /\ Linked(q) => (Head(q).kind = "P" => Head(q).linked) /\ Linked(Tail(q))
         /\ KeyFirst(q) => Head(q).kind # "P" /\ (Parses(Head(q)) \/ KeyFirst(Tail(q)))
<1> DEFINE t == Tail(q)
           h == Head(q)
<1>1. /\ h \in Packet /\ t \in Seq(Packet) /\ Len(q) \in Nat \ {0} /\ Len(t) = Len(q) - 1
      /\ h = q[1] /\ \A i \in 1 .. Len(t) : t[i] = q[i + 1]
  OBVIOUS
<1> HIDE DEF t, h
<1>2. Carries(q) => Parses(h) \/ Carries(t)
  <2> SUFFICES ASSUME NEW i \in 1 .. Len(q), Parses(q[i]), ~Parses(h)
               PROVE  Carries(t)
    BY DEF Carries
  <2>1. i - 1 \in 1 .. Len(t) /\ t[i - 1] = q[i]
    BY <1>1
  <2> QED
    BY <2>1 DEF Carries
<1>3. Linked(q) => (h.kind = "P" => h.linked) /\ Linked(t)
  BY <1>1 DEF Linked
<1>4. ASSUME KeyFirst(q) PROVE h.kind # "P"
  BY <1>1, <1>4 DEF KeyFirst
<1>5. ASSUME KeyFirst(q), ~Parses(h), NEW i \in 1 .. Len(t), t[i].kind = "P"
      PROVE  \E j \in 1 .. i - 1 : Parses(t[j])
  <2>1. i + 1 \in 1 .. Len(q) /\ q[i + 1].kind = "P"
    BY <1>1, <1>5
  <2>2. PICK j \in 1 .. (i + 1) - 1 : Parses(q[j])
    BY <1>5, <2>1 DEF KeyFirst
  <2>3. j # 1
    BY <1>1, <1>5, <2>2
  <2>4. j - 1 \in 1 .. i - 1 /\ j - 1 \in 1 .. Len(t) /\ t[j - 1] = q[j]
    BY <1>1, <2>2, <2>3
  <2> QED
    BY <2>2, <2>4
<1>6. KeyFirst(q) => h.kind # "P" /\ (Parses(h) \/ KeyFirst(t))
  BY <1>4, <1>5 DEF KeyFirst
<1> QED
  BY <1>1, <1>2, <1>3, <1>6 DEF t, h

\* A queue that was dropped, and a stream of one frame.
LEMMA ShortFacts ==
  /\ <<>> \in Seq(Packet) /\ Len(<<>>) = 0
  /\ ~Carries(<<>>) /\ Linked(<<>>) /\ KeyFirst(<<>>)
  /\ \A f \in Packet :
       /\ <<f>> \in Seq(Packet) /\ Len(<<f>>) = 1 /\ Head(<<f>>) = f /\ <<f>> # <<>>
       /\ Carries(<<f>>) <=> Parses(f)
       /\ Linked(<<f>>) <=> (f.kind = "P" => f.linked)
       /\ KeyFirst(<<f>>) <=> f.kind # "P"
<1>1. <<>> \in Seq(Packet) /\ Len(<<>>) = 0
  OBVIOUS
<1>2. ~Carries(<<>>) /\ Linked(<<>>) /\ KeyFirst(<<>>)
  BY DEF Carries, Linked, KeyFirst
<1>3. ASSUME NEW f \in Packet
      PROVE  /\ <<f>> \in Seq(Packet) /\ Len(<<f>>) = 1 /\ Head(<<f>>) = f /\ <<f>> # <<>>
             /\ Carries(<<f>>) <=> Parses(f)
             /\ Linked(<<f>>) <=> (f.kind = "P" => f.linked)
             /\ KeyFirst(<<f>>) <=> f.kind # "P"
  BY DEF Carries, Linked, KeyFirst
<1> QED
  BY <1>1, <1>2, <1>3

------------------------------------------------------------------------------
(* One lemma per action that changes the stream *)

streamVars == <<encoder, encoded, forwarder, out, sender, up, wire, picture>>

USE DEF AheadOfOut, AheadOfEncoded, AheadOfEncoder, Ready

\* The capture thread, the compositor and the window leave the stream alone.
LEMMA StreamKept ==
  ASSUME StreamInv, UNCHANGED streamVars
  PROVE  StreamInv'
BY DEF StreamInv, StreamType, EncoderType, SessionInv, ViewerInv, PipelineInv, EncoderInv,
       streamVars

\* What force_keyframe and an encoded frame change of the encoder.
LEMMA EncoderFacts ==
  ASSUME NEW e \in EncoderState, NEW kind, NEW b \in BOOLEAN
  PROVE  /\ Forced(e) \in EncoderState
         /\ Forced(e).forced = e.started /\ Forced(e).started = e.started
         /\ Forced(e).linked = e.linked
         /\ AfterEncode(e, kind) \in EncoderState
         /\ AfterEncode(e, kind).started = TRUE /\ AfterEncode(e, kind).linked = e.linked
         /\ [e EXCEPT !.linked = b] \in EncoderState
         /\ [e EXCEPT !.linked = b].linked = b
         /\ [e EXCEPT !.linked = b].started = e.started
<1>1. /\ Forced(e) \in EncoderState
      /\ Forced(e).forced = e.started /\ Forced(e).started = e.started
      /\ Forced(e).linked = e.linked
  BY DEF Forced, EncoderState
<1>2. PICK n \in Nat : n = IF kind = "I" THEN 0 ELSE e.since + 1
  BY DEF EncoderState
<1>3. /\ AfterEncode(e, kind) \in EncoderState
      /\ AfterEncode(e, kind).started = TRUE /\ AfterEncode(e, kind).linked = e.linked
  BY <1>2 DEF AfterEncode, EncoderState
<1>4. /\ [e EXCEPT !.linked = b] \in EncoderState
      /\ [e EXCEPT !.linked = b].linked = b
      /\ [e EXCEPT !.linked = b].started = e.started
  BY DEF EncoderState
<1> QED
  BY <1>1, <1>3, <1>4

\* An encoder that does not have to make a keyframe may predict from the last frame.
LEMMA PredictsFromSent ==
  ASSUME EncoderType, EncoderInv,
         NEW e, e \in {encoder, Forced(encoder)}
  PROVE  /\ e \in EncoderState
         /\ e.linked \/ e.forced \/ ~e.started
         /\ e.linked = encoder.linked
         /\ ~IsKey(e) => e.linked /\ encoder.linked
<1>1. encoder \in EncoderState
  BY DEF EncoderType
<1>2. CASE e = encoder
  BY <1>1, <1>2 DEF EncoderInv, IsKey
<1>3. CASE e = Forced(encoder)
  <2>1. e \in EncoderState /\ e.forced = encoder.started /\ e.started = encoder.started
        /\ e.linked = encoder.linked
    BY <1>1, <1>3, EncoderFacts
  <2> QED
    BY <2>1 DEF IsKey
<1> QED
  BY <1>2, <1>3

\* The encoder thread: a frame goes into the channel or forces the next keyframe.
LEMMA EncodeKeeps ==
  ASSUME VideoInv, Encode
  PROVE  StreamInv'
<1> DEFINE f == Last(composed)
           e == IF f.refresh THEN Forced(encoder) ELSE encoder
           room == Len(encoded) < FRAME_CAPACITY
<1>1. f \in Picture
  BY DEF VideoInv, CaptureType, Encode, Last
<1>2. EncoderType /\ EncoderInv
  BY DEF VideoInv, StreamInv, StreamType
<1>3. PICK g : g = e
  OBVIOUS
<1>4. /\ g \in EncoderState
      /\ g.linked \/ g.forced \/ ~g.started
      /\ g.linked = encoder.linked
      /\ ~IsKey(g) => g.linked /\ encoder.linked
  BY <1>2, <1>3, PredictsFromSent
<1>5. UNCHANGED <<forwarder, out, sender, up, wire, picture>>
  BY DEF Encode, viewerVars
<1>6. CASE Fault /\ encoder' = g /\ UNCHANGED encoded
  BY <1>4, <1>5, <1>6 DEF VideoInv, StreamInv, StreamType, EncoderType, SessionInv, ViewerInv,
                          PipelineInv, EncoderInv
<1>7. ASSUME NEW kind \in IF IsKey(g) THEN {"I"} ELSE {"P", "skip"},
             encoded' = IF room THEN Append(encoded, EncodedFrame(f.v, kind, g.linked))
                        ELSE encoded,
             encoder' = IF room
                        THEN [AfterEncode(g, kind) EXCEPT !.linked = IF kind = "skip" THEN g.linked ELSE room]
                        ELSE Dropped([AfterEncode(g, kind) EXCEPT !.linked = IF kind = "skip" THEN g.linked ELSE room])
      PROVE  StreamInv'
  <2> DEFINE frame == EncodedFrame(f.v, kind, g.linked)
  <2>1. /\ frame \in Packet /\ frame.kind = kind /\ frame.linked = g.linked
        /\ Parses(frame) <=> kind # "skip"
    BY <1>1, <1>4, <1>7 DEF EncodedFrame, Packet, Picture, Parses, EncoderState
  <2> HIDE DEF frame
  <2>2. kind # "I" => g.linked /\ encoder.linked
    BY <1>4, <1>7
  <2> DEFINE new == IF kind = "skip" THEN g.linked ELSE room
             next == [AfterEncode(g, kind) EXCEPT !.linked = new]
  <2>3. PICK b \in BOOLEAN : b = new /\ (room => b) /\ (b /\ ~room => kind = "skip")
    <3>1. CASE kind = "skip"
      <4>1. new = TRUE
        BY <1>4, <2>2, <3>1 DEF EncoderState
      <4> HIDE DEF new
      <4> QED
        BY <3>1, <4>1
    <3>2. CASE kind # "skip" /\ room
      <4>1. new = TRUE
        BY <3>2
      <4> HIDE DEF new
      <4> QED
        BY <3>2, <4>1
    <3>3. CASE kind # "skip" /\ ~room
      <4>1. room = FALSE
        BY <3>3
      <4>2. new = room
        BY <3>3
      <4> HIDE DEF new
      <4> QED
        BY <4>1, <4>2
    <3> QED
      BY <3>1, <3>2, <3>3
  <2> HIDE DEF new
  <2>4. next \in EncoderState /\ next.linked = b /\ next.started = TRUE
    <3>1. PICK a : a = AfterEncode(g, kind)
      OBVIOUS
    <3>2. a \in EncoderState /\ a.started = TRUE
      BY <1>4, <3>1, EncoderFacts
    <3>3. next = [a EXCEPT !.linked = b]
      BY <2>3, <3>1
    <3>4. b \in BOOLEAN
      BY <2>3
    <3> HIDE DEF next
    <3> QED
      BY <3>2, <3>3, <3>4 DEF EncoderState
  <2> HIDE DEF next
  <2>5. CASE room
    <3>1. encoded' = Append(encoded, frame)
      BY <1>7, <2>5 DEF frame
    <3>2. /\ encoder' \in EncoderState
          /\ encoder'.linked
          /\ kind # "skip" \/ encoder.linked
      <4>1. encoder' = next
        BY <1>7, <2>5 DEF next, new
      <4>2. b
        BY <2>3, <2>5
      <4> QED
        BY <2>2, <2>4, <4>1, <4>2
    <3>3. /\ encoded' \in Seq(Packet)
          /\ Carries(encoded) \/ kind # "skip" => Carries(encoded')
          /\ Linked(encoded) /\ (kind = "P" => g.linked) => Linked(encoded')
          /\ KeyFirst(encoded) /\ (kind = "P" => Carries(encoded)) => KeyFirst(encoded')
      BY <2>1, <3>1, AppendFacts DEF VideoInv, StreamInv, StreamType
    <3> QED
      BY <1>5, <2>2, <3>2, <3>3 DEF VideoInv, StreamInv, StreamType, EncoderType, SessionInv,
                                    ViewerInv, PipelineInv, EncoderInv
  <2>6. CASE ~room
    <3>1. encoded' = encoded
      BY <1>7, <2>6
    <3>2. /\ encoder' \in EncoderState
          /\ encoder'.forced
          /\ encoder'.linked => encoder.linked
      <4>1. encoder' = Forced(next)
        BY <1>7, <2>6 DEF next, Dropped, new
      <4>2. Forced(next) \in EncoderState /\ Forced(next).forced = TRUE /\ Forced(next).linked = b
        BY <2>4, EncoderFacts
      <4>3. b => encoder.linked
        BY <2>2, <2>3, <2>6
      <4> QED
        BY <4>1, <4>2, <4>3
    <3> QED
      BY <1>5, <3>1, <3>2 DEF VideoInv, StreamInv, StreamType, EncoderType, SessionInv,
                              ViewerInv, PipelineInv, EncoderInv
  <2> QED
    BY <2>5, <2>6
<1> QED
  BY <1>3, <1>6, <1>7 DEF Encode

\* The end of the encoder thread changes nothing that it has sent.
LEMMA EncoderEndsKeeps ==
  ASSUME VideoInv, EncoderEnds
  PROVE  StreamInv'
<1>1. /\ UNCHANGED <<encoded, forwarder, out, sender, up, wire, picture>>
      /\ encoder' = [encoder EXCEPT !.on = FALSE]
  BY DEF EncoderEnds, viewerVars
<1>2. EncoderType' /\ encoder'.linked = encoder.linked /\ encoder'.forced = encoder.forced
                   /\ encoder'.started = encoder.started
  BY <1>1 DEF VideoInv, StreamInv, StreamType, EncoderType, EncoderState
<1> QED
  BY <1>1, <1>2 DEF VideoInv, StreamInv, StreamType, SessionInv, ViewerInv, PipelineInv, EncoderInv

\* The forwarding task moves the oldest frame behind the outbound queue; without a
\* sender task it stops, and what it had does not reach the viewer.
LEMMA ForwardKeeps ==
  ASSUME VideoInv, Forward
  PROVE  StreamInv'
<1>1. UNCHANGED <<encoder, sender, up, wire, picture>> /\ encoded # <<>> /\ forwarder = "run"
      /\ encoded' = Tail(encoded)
  BY DEF Forward, viewerVars
<1>2. /\ encoded \in Seq(Packet) /\ out \in Seq(Packet)
  BY DEF VideoInv, StreamInv, StreamType
<1> DEFINE h == Head(encoded)
<1>3. /\ h \in Packet /\ encoded' \in Seq(Packet)
      /\ Carries(encoded) => Parses(h) \/ Carries(encoded')
      /\ Linked(encoded) => (h.kind = "P" => h.linked) /\ Linked(encoded')
      /\ KeyFirst(encoded) => h.kind # "P" /\ (Parses(h) \/ KeyFirst(encoded'))
  BY <1>1, <1>2, TailFacts
<1> HIDE DEF h
<1>4. CASE sender = "run" /\ out' = Append(out, h) /\ UNCHANGED forwarder
  <2>1. /\ out' \in Seq(Packet)
        /\ Carries(out) \/ Parses(h) => Carries(out')
        /\ Linked(out) /\ (h.kind = "P" => h.linked) => Linked(out')
        /\ KeyFirst(out) /\ (h.kind = "P" => Carries(out)) => KeyFirst(out')
    BY <1>2, <1>3, <1>4, AppendFacts
  <2> QED
    BY <1>1, <1>3, <1>4, <2>1 DEF VideoInv, StreamInv, StreamType, EncoderType, SessionInv,
                                  ViewerInv, PipelineInv, EncoderInv
<1>5. CASE forwarder' = "join" /\ UNCHANGED out
  BY <1>1, <1>3, <1>5 DEF VideoInv, StreamInv, StreamType, EncoderType, SessionInv,
                          ViewerInv, PipelineInv, EncoderInv
<1> QED
  BY <1>4, <1>5 DEF Forward, Stops, h

\* Once the forwarding task has stopped, what it did not forward is never sent.
LEMMA ForwarderStopsKeeps ==
  ASSUME VideoInv, ForwarderEnds \/ Join
  PROVE  StreamInv'
<1>1. /\ UNCHANGED <<encoder, out, sender, up, wire, picture>>
      /\ forwarder' \in {"join", "off"} /\ encoded' \in {encoded, <<>>}
  BY DEF ForwarderEnds, Join, Stops, viewerVars
<1>2. encoded' \in Seq(Packet)
  BY <1>1, ShortFacts DEF VideoInv, StreamInv, StreamType
<1> QED
  BY <1>1, <1>2 DEF VideoInv, StreamInv, StreamType, EncoderType, SessionInv,
                    ViewerInv, PipelineInv, EncoderInv

\* A packet of audio takes a place in the outbound queue and is nothing to decode.
LEMMA AudioForwardKeeps ==
  ASSUME VideoInv, AudioForward
  PROVE  StreamInv'
<1>1. UNCHANGED <<encoder, encoded, forwarder, sender, up, wire, picture>>
  BY DEF AudioForward, viewerVars
<1>2. CASE UNCHANGED out
  BY <1>1, <1>2, StreamKept DEF VideoInv, streamVars
<1>3. CASE sender = "run" /\ out' = Append(out, Sound)
  <2>1. Sound \in Packet /\ Sound.kind = "audio"
    BY DEF Sound, EncodedFrame, Packet
  <2>2. /\ out' \in Seq(Packet)
        /\ Carries(out) => Carries(out')
        /\ Linked(out) => Linked(out')
        /\ KeyFirst(out) => KeyFirst(out')
    BY <1>3, <2>1, AppendFacts DEF VideoInv, StreamInv, StreamType
  <2> QED
    BY <1>1, <1>3, <2>2 DEF VideoInv, StreamInv, StreamType, EncoderType, SessionInv,
                            ViewerInv, PipelineInv, EncoderInv
<1> QED
  BY <1>2, <1>3 DEF AudioForward

\* The sender task puts the oldest packet on the stream, or ends without the session.
LEMMA SendMessageKeeps ==
  ASSUME VideoInv, SendMessage
  PROVE  StreamInv'
<1>1. UNCHANGED <<encoder, encoded, forwarder, up, picture>> /\ out # <<>>
  BY DEF SendMessage, viewerVars
<1>2. CASE up
  <2> DEFINE h == Head(out)
  <2>1. wire = <<>> /\ wire' = <<h>> /\ out' = Tail(out) /\ UNCHANGED sender
    BY <1>2 DEF SendMessage
  <2>2. /\ h \in Packet /\ out' \in Seq(Packet)
        /\ Carries(out) => Parses(h) \/ Carries(out')
        /\ Linked(out) => (h.kind = "P" => h.linked) /\ Linked(out')
        /\ KeyFirst(out) => h.kind # "P" /\ (Parses(h) \/ KeyFirst(out'))
    BY <1>1, <2>1, TailFacts DEF VideoInv, StreamInv, StreamType
  <2> HIDE DEF h
  <2>3. /\ wire' \in Seq(Packet) /\ Len(wire') = 1
        /\ Carries(wire') <=> Parses(h)
        /\ Linked(wire') <=> (h.kind = "P" => h.linked)
        /\ KeyFirst(wire') <=> h.kind # "P"
        /\ ~Carries(wire)
    BY <2>1, <2>2, ShortFacts
  <2> QED
    BY <1>1, <1>2, <2>1, <2>2, <2>3 DEF VideoInv, StreamInv, StreamType, EncoderType, SessionInv,
                                        ViewerInv, PipelineInv, EncoderInv
<1>3. CASE ~up
  <2>1. sender' = "off" /\ out' = <<>> /\ UNCHANGED wire
    BY <1>3 DEF SendMessage, SenderEnds
  <2>2. out' \in Seq(Packet)
    BY <2>1
  <2> QED
    BY <1>1, <1>3, <2>1, <2>2 DEF VideoInv, StreamInv, StreamType, EncoderType, SessionInv,
                                  ViewerInv, PipelineInv, EncoderInv
<1> QED
  BY <1>2, <1>3

\* A refused message ends the sender task, and nothing more is put on the stream.
LEMMA RefuseMessageKeeps ==
  ASSUME VideoInv, RefuseMessage
  PROVE  StreamInv'
<1>1. /\ UNCHANGED <<encoder, encoded, forwarder, up, wire, picture>>
      /\ sender' = "off" /\ out' = <<>>
  BY DEF RefuseMessage, SenderEnds, viewerVars
<1>2. out' \in Seq(Packet) /\ Linked(out') /\ KeyFirst(out')
  BY <1>1, ShortFacts DEF Linked, KeyFirst
<1> QED
  BY <1>1, <1>2 DEF VideoInv, StreamInv, StreamType, EncoderType, SessionInv, ViewerInv, PipelineInv,
                    EncoderInv, Ready, Linked, KeyFirst

\* The receiver task decodes a frame that has its reference.
LEMMA ReceiveKeeps ==
  ASSUME VideoInv, Receive
  PROVE  StreamInv'
<1>1. UNCHANGED <<encoder, encoded, forwarder, out, sender, up>> /\ wire # <<>> /\ wire' = <<>>
  BY DEF Receive
<1>2. up
  BY <1>1 DEF VideoInv, StreamInv, SessionInv, StreamType
<1> DEFINE h == Head(wire)
<1>3. h \in Packet /\ h = wire[1] /\ Len(wire) = 1
  <2>1. wire \in Seq(Packet) /\ Len(wire) <= 1
    BY DEF VideoInv, StreamInv, StreamType
  <2> QED
    BY <1>1, <2>1
<1> HIDE DEF h
<1>4. /\ wire' \in Seq(Packet) /\ Len(wire') = 0 /\ Linked(wire') /\ KeyFirst(wire')
      /\ Carries(wire) <=> Parses(h)
      /\ h.kind = "P" => h.linked /\ Ready
  <2>1. /\ wire' \in Seq(Packet) /\ Len(wire') = 0 /\ Linked(wire') /\ KeyFirst(wire')
    BY <1>1, ShortFacts
  <2>2. /\ Carries(wire) <=> Parses(h)
        /\ Linked(wire) <=> (h.kind = "P" => h.linked)
        /\ KeyFirst(wire) <=> h.kind # "P"
    BY <1>3 DEF Carries, Linked, KeyFirst
  <2> QED
    BY <1>2, <2>1, <2>2 DEF VideoInv, StreamInv, ViewerInv
<1>5. CASE Parses(h)
  <2>1. picture' = "good"
    BY <1>4, <1>5 DEF Receive, h, Decoded, Parses
  <2> QED
    BY <1>1, <1>4, <2>1 DEF VideoInv, StreamInv, StreamType, EncoderType, SessionInv,
                            ViewerInv, PipelineInv, EncoderInv
<1>6. CASE ~Parses(h)
  <2>1. picture' = picture
    BY <1>6 DEF Receive, h
  <2> QED
    BY <1>1, <1>4, <1>6, <2>1 DEF VideoInv, StreamInv, StreamType, EncoderType, SessionInv,
                                  ViewerInv, PipelineInv, EncoderInv
<1> QED
  BY <1>5, <1>6

\* The end of the session takes with it what was on the stream.
LEMMA DisconnectKeeps ==
  ASSUME VideoInv, Disconnect
  PROVE  StreamInv'
<1>1. UNCHANGED <<encoder, encoded, forwarder, out, sender, picture>> /\ up' = FALSE /\ wire' = <<>>
  BY DEF Disconnect, viewerVars
<1>2. wire' \in Seq(Packet) /\ Len(wire') = 0
  BY <1>1, ShortFacts
<1>3. StreamType' /\ EncoderInv'
  <2>1. up' \in BOOLEAN
    BY <1>1, Zenon
  <2>2. Len(wire') <= 1
    BY <1>2
  <2> QED
    BY <1>1, <1>2, <2>1, <2>2 DEF VideoInv, StreamInv, StreamType, EncoderType, EncoderInv
<1>4. SessionInv' /\ ViewerInv' /\ PipelineInv'
  BY <1>1 DEF VideoInv, StreamInv, SessionInv, ViewerInv, PipelineInv
<1> QED
  BY <1>3, <1>4 DEF StreamInv

------------------------------------------------------------------------------
(* The result *)

\* The frames before the encoder are versions of the screen.
LEMMA CaptureTypeKept ==
  ASSUME CaptureType, [Next]_vars
  PROVE  CaptureType'
<1> USE VideoAssumption DEF CaptureType, Screen
<1>1. ASSUME NEW v \in Screen, NEW b \in BOOLEAN, Offer(Raw(v, b))
      PROVE  raw' \in Seq(Picture)
  <2>1. Raw(v, b) \in Picture
    BY DEF Raw, Picture
  <2> QED
    BY <1>1, <2>1 DEF Offer
<1>0. <<>> \in Seq(Picture)
  OBVIOUS
<1>2. CASE Acquire
  BY <1>1, <1>2 DEF Acquire, Caches, Image
<1>3. CASE Refresh
  BY <1>1, <1>3 DEF Refresh, captureVars
<1>4. CASE DesktopLost \/ Recover \/ CaptureStops
  BY <1>4 DEF DesktopLost, Recover, Start, CaptureStops
<1>5. CASE Compose
  <2>1. raw # <<>> => Last(raw) \in Picture
    BY DEF Last
  <2> QED
    <3>1. CASE raw # <<>> /\ encoder.on
      <4>1. PICK p \in Picture : p = Last(raw)
        BY <2>1, <3>1
      <4>2. Append(composed, p) \in Seq(Picture)
        OBVIOUS
      <4> QED
        BY <1>0, <1>5, <3>1, <4>1, <4>2 DEF Compose, captureVars
    <3>2. CASE raw = <<>> \/ ~encoder.on
      BY <1>0, <1>5, <3>2 DEF Compose, captureVars
    <3> QED
      BY <3>1, <3>2
<1>6. CASE Encode \/ EncoderEnds
  BY <1>0, <1>6 DEF Encode, EncoderEnds, captureVars
<1>7. CASE ScreenChanges
  BY <1>7 DEF ScreenChanges
<1>8. CASE Forward \/ ForwarderEnds \/ Join \/ AudioForward \/ SendMessage \/ RefuseMessage \/ Receive
           \/ Render \/ Disconnect
  BY <1>8 DEF Forward, ForwarderEnds, Join, AudioForward, SendMessage, RefuseMessage, Receive, Render, Disconnect,
              captureVars
<1>9. CASE UNCHANGED vars
  BY <1>9 DEF vars, captureVars
<1> QED
  BY <1>2, <1>3, <1>4, <1>5, <1>6, <1>7, <1>8, <1>9 DEF Next, CaptureStep

\* Every reachable state of the pipeline satisfies the invariant.
LEMMA VideoInvariant == Spec => []VideoInv
<1>1. Init => VideoInv
  <2> SUFFICES ASSUME Init PROVE VideoInv
    OBVIOUS
  <2>1. CaptureType
    BY VideoAssumption DEF Init, CaptureType, Screen
  <2>2. StreamType /\ EncoderInv
    BY ShortFacts DEF Init, StreamType, EncoderType, EncoderState, EncoderInv
  <2>3. SessionInv /\ ViewerInv /\ PipelineInv
    BY ShortFacts DEF Init, SessionInv, ViewerInv, PipelineInv
  <2> QED
    BY <2>1, <2>2, <2>3 DEF VideoInv, StreamInv
<1>2. VideoInv /\ [Next]_vars => VideoInv'
  <2> SUFFICES ASSUME VideoInv, [Next]_vars PROVE StreamInv'
    BY CaptureTypeKept DEF VideoInv
  <2>1. CASE CaptureStep \/ DesktopLost \/ Compose \/ Render \/ ScreenChanges \/ UNCHANGED vars
    <3>1. UNCHANGED streamVars
      BY <2>1 DEF CaptureStep, Acquire, Refresh, Recover, CaptureStops, DesktopLost, Compose,
                  Render, ScreenChanges, vars, viewerVars, streamVars
    <3> QED
      BY <3>1, StreamKept DEF VideoInv
  <2> QED
    BY <2>1, EncodeKeeps, EncoderEndsKeeps, ForwardKeeps, ForwarderStopsKeeps, AudioForwardKeeps,
       SendMessageKeeps, RefuseMessageKeeps, ReceiveKeeps, DisconnectKeeps DEF Next
<1> QED
  BY <1>1, <1>2, PTL DEF Spec

\* The decoder never meets a predicted frame without its reference, with queues of any
\* length and whichever frames are dropped on the way (force_keyframe of the encoder
\* pipeline after a try_send that fails).
THEOREM DecoderStaysInSync == Spec => []NeverGarbled
<1>1. VideoInv => NeverGarbled
  BY DEF VideoInv, StreamInv, StreamType, NeverGarbled
<1> QED
  BY <1>1, VideoInvariant, PTL
==============================================================================
