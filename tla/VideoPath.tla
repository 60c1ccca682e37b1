------------------------------ MODULE VideoPath ------------------------------
(***************************************************************************)
(* The picture's way from the host's screen to the viewer's window:          *)
(* CaptureThread over DxgiCaptureBackend (bw-capture), the cursor compositor *)
(* and the forwarding task of spawn_video_pipeline (bw-server/src/main.rs),  *)
(* EncoderPipeline over OpenH264Backend (bw-encoder), the session's sender   *)
(* task, and at the viewer the receiver task, DecoderPipeline (bw-decoder)   *)
(* and App::render (bw-client/src/main.rs).  Host audio (bw-audio) competes  *)
(* for the outbound queue.                                                   *)
(*                                                                           *)
(* Each thread or task takes its steps on its own; between two of them is a  *)
(* channel of FRAME_CAPACITY frames.  A frame is the version of the screen   *)
(* that it shows.  Of the codec, which is external: a frame is a keyframe    *)
(* ("I"), predicted from the frame encoded before it ("P"), or left out by   *)
(* the rate control ("skip", an empty bitstream); a forced frame is "I".     *)
(***************************************************************************)
EXTENDS Integers, Sequences, SequencesExt

CONSTANTS
  FRAME_CAPACITY,     \* capacity of each channel of frames
  keyframe_interval,  \* of EncoderConfig
  MaxScreen,          \* bound: versions of the screen
  MaxAudio,           \* bound: audio packets
  MaxFaults           \* bound: losses of the desktop, failures of the encoder, refused messages

ASSUME VideoAssumption ==
  /\ FRAME_CAPACITY \in Nat \ {0} /\ keyframe_interval \in Nat \ {0}
  /\ MaxScreen \in Nat \ {0} /\ MaxAudio \in Nat /\ MaxFaults \in Nat

VARIABLES
  screen,      \* the version of the desktop
  news,        \* the duplication has an image that was not acquired
  capture,     \* the capture thread: "run", "lost" between stop and start, "off"
  stop,        \* stop_tx has been signalled
  cached,      \* last_frame: {} or {version}
  raw,         \* from the capture thread to the compositor
  compositor,  \* "run" or "off"
  composed,    \* from the compositor to the encoder, with the frame it waits to send
  encoder,     \* the encoder thread: on, started, forced, frames_since_idr, and whether
               \* the frame it encoded last went into the stream
  encoded,     \* from the encoder to the forwarding task
  forwarder,   \* the forwarding task: "run", "join" or "off"
  out,         \* the outbound queue
  audio,       \* audio packets captured so far
  sender,      \* the sender task: "run" or "off"
  up,          \* the session is up
  wire,        \* the stream to the viewer
  picture,     \* the decoder's reference: "none", "good" or "garbled"
  ready,       \* the newest image in the viewer's channel
  shown,       \* the image in the window
  faults

captureVars == <<screen, news, capture, stop, cached>>
viewerVars == <<picture, ready, shown>>
vars == <<captureVars, raw, compositor, composed, encoder, encoded, forwarder, out, audio,
          sender, up, wire, viewerVars, faults>>

Init ==
  /\ screen = 1 /\ news = TRUE
  /\ capture = "run" /\ stop = FALSE /\ cached = {}
  /\ raw = <<>> /\ compositor = "run" /\ composed = <<>>
  /\ encoder = [on |-> TRUE, started |-> FALSE, forced |-> FALSE, since |-> 0, linked |-> FALSE]
  /\ encoded = <<>> /\ forwarder = "run" /\ out = <<>>
  /\ audio = 0
  /\ sender = "run" /\ up = TRUE /\ wire = <<>>
  /\ picture = "none" /\ ready = 0 /\ shown = 0
  /\ faults = 0

Fault == faults < MaxFaults /\ faults' = faults + 1

(***************************************************************************)
(* The capture thread                                                        *)
(***************************************************************************)

Raw(v, refresh) == [v |-> v, refresh |-> refresh]

\* try_send: a frame that does not fit, or has no receiver any more, is dropped.
Offer(f) ==
  raw' = IF Len(raw) < FRAME_CAPACITY /\ compositor = "run" THEN Append(raw, f) ELSE raw

\* Mutant: a frame is cached when it has been sent.
CachesWhenSent(v) ==
  cached' = IF Len(raw) < FRAME_CAPACITY THEN {v} ELSE cached

\* A real frame is cached whether or not it is sent.
Caches(v) == cached' = {v}

\* next_frame: the image that was acquired is the desktop as it is now; when nothing has
\* changed it times out, and returns an empty buffer.
Image == Raw(screen, FALSE)
Empty == ~news

\* The minimum interval between frames only delays an image.
Acquire ==
  /\ capture = "run" /\ ~stop /\ ~Empty
  /\ news' = FALSE
  /\ Caches(screen)
  /\ Offer(Image)
  /\ UNCHANGED <<screen, capture, stop, compositor, composed, encoder, encoded, forwarder, out,
                 audio, sender, up, wire, viewerVars, faults>>

\* The screen has been idle for the refresh interval: the cached frame is sent again, to be
\* encoded as a keyframe.
Refresh ==
  /\ capture = "run" /\ ~stop /\ Empty
  /\ \E v \in cached : Offer(Raw(v, TRUE))
  /\ UNCHANGED <<captureVars, compositor, composed, encoder, encoded, forwarder, out, audio,
                 sender, up, wire, viewerVars, faults>>

\* next_frame fails (DXGI_ERROR_ACCESS_LOST and others): the backend is stopped...
DesktopLost ==
  /\ capture = "run" /\ ~stop /\ Fault
  /\ capture' = "lost"
  /\ UNCHANGED <<screen, news, stop, cached, raw, compositor, composed, encoder, encoded,
                 forwarder, out, audio, sender, up, wire, viewerVars>>

\* ...and started again after a pause.  A new duplication begins with the whole desktop.
\* When it cannot be started the thread ends.
Start == capture' = "run" /\ news' = TRUE
Recover ==
  /\ capture = "lost"
  /\ \/ Start /\ cached' = {}
     \/ capture' = "off" /\ UNCHANGED <<cached, news>>
  /\ UNCHANGED <<screen, stop, raw, compositor, composed, encoder, encoded, forwarder, out,
                 audio, sender, up, wire, viewerVars, faults>>

CaptureStops ==
  /\ capture = "run" /\ stop
  /\ capture' = "off"
  /\ UNCHANGED <<screen, news, stop, cached, raw, compositor, composed, encoder, encoded,
                 forwarder, out, audio, sender, up, wire, viewerVars, faults>>

CaptureStep == Acquire \/ Refresh \/ Recover \/ CaptureStops

(***************************************************************************)
(* The compositor and the encoder                                            *)
(***************************************************************************)

\* The newest frame is drawn the cursor on and sent, waiting for room; `composed' holds
\* the frame that waits.  The thread ends with its input, or with the encoder.
Compose ==
  /\ compositor = "run"
  /\ \/ /\ raw # <<>> /\ Len(composed) <= FRAME_CAPACITY
        /\ raw' = <<>>
        /\ IF encoder.on
           THEN composed' = Append(composed, Last(raw)) /\ UNCHANGED compositor
           ELSE compositor' = "off" /\ UNCHANGED composed
     \/ /\ raw = <<>> /\ capture = "off"
        /\ compositor' = "off"
        /\ UNCHANGED <<raw, composed>>
  /\ UNCHANGED <<captureVars, encoder, encoded, forwarder, out, audio, sender, up, wire,
                 viewerVars, faults>>

\* force_keyframe
Forced(e) == [e EXCEPT !.forced = e.started, !.since = 0]

\* encode_frame: the encoder is started by the first frame, which is a keyframe.
IsKey(e) == ~e.started \/ e.forced \/ e.since >= keyframe_interval

AfterEncode(e, kind) ==
  [e EXCEPT !.started = TRUE, !.forced = FALSE, !.since = IF kind = "I" THEN 0 ELSE e.since + 1]

\* Mutant: a frame that is dropped does not force a keyframe.
DroppedUnnoticed(e) == e

\* The channel is full: the frame is dropped, and the next one is a keyframe.
Dropped(e) == Forced(e)

\* A frame as the viewer will get it; `linked': the frame it is predicted from went out.
EncodedFrame(v, kind, linked) == [v |-> v, kind |-> kind, linked |-> linked]

\* The encoder thread: the newest frame is encoded.
Encode ==
  LET f == Last(composed)
      e == IF f.refresh THEN Forced(encoder) ELSE encoder
      room == Len(encoded) < FRAME_CAPACITY
  IN  /\ encoder.on /\ composed # <<>> /\ forwarder # "off"
      /\ composed' = <<>>
      /\ \/ \E kind \in IF IsKey(e) THEN {"I"} ELSE {"P", "skip"} :
              LET frame == EncodedFrame(f.v, kind, e.linked)
                  next == [AfterEncode(e, kind) EXCEPT
                             !.linked = IF kind = "skip" THEN e.linked ELSE room]
              IN  /\ encoded' = IF room THEN Append(encoded, frame) ELSE encoded
                  /\ encoder' = IF room THEN next ELSE Dropped(next)
              /\ UNCHANGED faults
         \/ Fault /\ encoder' = e /\ UNCHANGED encoded
      /\ UNCHANGED <<captureVars, raw, compositor, forwarder, out, audio, sender, up, wire,
                     viewerVars>>

\* It ends with its input, or when the receiver of its output is gone.
EncoderEnds ==
  /\ encoder.on
  /\ \/ composed = <<>> /\ compositor = "off"
     \/ composed # <<>> /\ forwarder = "off"
  /\ encoder' = [encoder EXCEPT !.on = FALSE]
  /\ composed' = <<>>
  /\ UNCHANGED <<captureVars, raw, compositor, encoded, forwarder, out, audio, sender, up, wire,
                 viewerVars, faults>>

(***************************************************************************)
(* The outbound queue                                                        *)
(***************************************************************************)

\* Mutant: the forwarding task ends without a signal to the capture thread.
StopsSilently == forwarder' = "join" /\ UNCHANGED stop

\* The forwarding task ends and drops the CaptureThread, which signals its thread to stop.
Stops == forwarder' = "join" /\ stop' = TRUE

\* The forwarding task, which to_bytes and video_data make a message for (writing CBOR to a
\* vector does not fail): out_tx.send waits for room and fails when the sender task is gone.
Forward ==
  /\ forwarder = "run" /\ encoded # <<>>
  /\ \/ /\ sender = "run" /\ Len(out) < FRAME_CAPACITY
        /\ out' = Append(out, Head(encoded))
        /\ UNCHANGED <<forwarder, stop>>
     \/ /\ sender = "off"
        /\ Stops
        /\ UNCHANGED out
  /\ encoded' = Tail(encoded)
  /\ UNCHANGED <<screen, news, capture, cached, raw, compositor, composed, encoder, audio,
                 sender, up, wire, viewerVars, faults>>

\* The encoder is gone.
ForwarderEnds ==
  /\ forwarder = "run" /\ encoded = <<>> /\ ~encoder.on
  /\ Stops
  /\ UNCHANGED <<screen, news, capture, cached, raw, compositor, composed, encoder, encoded, out,
                 audio, sender, up, wire, viewerVars, faults>>

\* Dropping the CaptureThread stops it and waits for its end.
Join ==
  /\ forwarder = "join" /\ capture = "off"
  /\ forwarder' = "off" /\ encoded' = <<>>
  /\ UNCHANGED <<captureVars, raw, compositor, composed, encoder, out, audio, sender, up, wire,
                 viewerVars, faults>>

\* The audio callback completes a packet, which its thread sends, waiting for room;
\* without a receiver the thread ends, and with it the stream.
Sound == EncodedFrame(0, "audio", TRUE)
AudioForward ==
  /\ audio < MaxAudio
  /\ \/ /\ sender = "run" /\ Len(out) < FRAME_CAPACITY
        /\ out' = Append(out, Sound)
        /\ audio' = audio + 1
     \/ /\ sender = "off"
        /\ audio' = MaxAudio
        /\ UNCHANGED out
  /\ UNCHANGED <<captureVars, raw, compositor, composed, encoder, encoded, forwarder, sender, up,
                 wire, viewerVars, faults>>

\* The sender task ends with the first message that cannot be sent: the session is gone...
SenderEnds == sender' = "off" /\ out' = <<>>
SendMessage ==
  /\ sender = "run" /\ out # <<>>
  /\ IF up
     THEN /\ wire = <<>>
          /\ wire' = <<Head(out)>> /\ out' = Tail(out)
          /\ UNCHANGED sender
     ELSE SenderEnds /\ UNCHANGED wire
  /\ UNCHANGED <<captureVars, raw, compositor, composed, encoder, encoded, forwarder, audio, up,
                 viewerVars, faults>>

\* ...or the message is refused, as one that is too large is.
RefuseMessage ==
  /\ sender = "run" /\ out # <<>> /\ up /\ Fault
  /\ SenderEnds
  /\ UNCHANGED <<captureVars, raw, compositor, composed, encoder, encoded, forwarder, audio, up,
                 wire, viewerVars>>

(***************************************************************************)
(* The viewer                                                                *)
(***************************************************************************)

\* from_bytes: a skipped frame is too short, and dropped.
Parses(f) == f.kind \in {"I", "P"}

\* A predicted frame is decoded against the picture that was decoded before it.
Decoded(f) == IF f.kind = "I" \/ (f.linked /\ picture = "good") THEN "good" ELSE "garbled"

\* The receiver task: video is decoded and passed to the window, audio to the dispatcher.
Receive ==
  /\ wire # <<>>
  /\ LET f == Head(wire)
     IN  IF Parses(f)
         THEN picture' = Decoded(f) /\ ready' = f.v
         ELSE UNCHANGED <<picture, ready>>
  /\ wire' = <<>>
  /\ UNCHANGED <<captureVars, raw, compositor, composed, encoder, encoded, forwarder, out, audio,
                 sender, up, shown, faults>>

\* App::render drains its channel to the newest image.
Render ==
  /\ shown' = ready
  /\ UNCHANGED <<captureVars, raw, compositor, composed, encoder, encoded, forwarder, out, audio,
                 sender, up, wire, picture, ready, faults>>

(***************************************************************************)
(* The environment                                                           *)
(***************************************************************************)
ScreenChanges ==
  /\ screen < MaxScreen
  /\ screen' = screen + 1 /\ news' = TRUE
  /\ UNCHANGED <<capture, stop, cached, raw, compositor, composed, encoder, encoded, forwarder,
                 out, audio, sender, up, wire, viewerVars, faults>>

Disconnect ==
  /\ up
  /\ up' = FALSE /\ wire' = <<>>
  /\ UNCHANGED <<captureVars, raw, compositor, composed, encoder, encoded, forwarder, out, audio,
                 sender, viewerVars, faults>>

Next ==
  \/ CaptureStep \/ DesktopLost \/ Compose \/ Encode \/ EncoderEnds
  \/ Forward \/ ForwarderEnds \/ Join \/ AudioForward \/ SendMessage
  \/ RefuseMessage
  \/ Receive \/ Render \/ ScreenChanges \/ Disconnect

\* Every thread and task runs; the outbound queue serves those that wait for it in turn.
Fairness ==
  /\ WF_vars(CaptureStep) /\ WF_vars(Compose) /\ WF_vars(Encode \/ EncoderEnds)
  /\ SF_vars(Forward) /\ WF_vars(ForwarderEnds \/ Join)
  /\ WF_vars(SendMessage) /\ WF_vars(Receive) /\ WF_vars(Render)

Spec == Init /\ [][Next]_vars /\ Fairness

(***************************************************************************)
(* Properties                                                                *)
(***************************************************************************)

\* The viewer never decodes a predicted frame without the frame it was predicted from,
\* however the queues fill and whichever frames are dropped on the way: "Force keyframe so
\* client can resync".
NeverGarbled == picture # "garbled"

\* When the screen rests the window comes to show it as it is, also when the last change
\* was dropped before or after it was encoded, unless the session or the capture ends.
LatestShown == <>[](shown = screen) \/ <>(~up \/ capture = "off")

\* Without the session, its sender task or the desktop every thread of the pipeline ends:
\* the failure of one is passed on from channel to channel, also to threads that wait.
\* (A comment in handle_session has the pipelines "intentionally left running for the
\* process lifetime".)
PipelineEnds ==
  (~up \/ sender = "off" \/ capture = "off") ~>
    (capture = "off" /\ compositor = "off" /\ ~encoder.on /\ forwarder = "off")
==============================================================================
