---------------------------- MODULE ClipboardSync ----------------------------
(***************************************************************************)
(* The clipboards of the two ends: a poller at each (bw-clipboard/src/       *)
(* poller.rs) sends what changed, and the handlers of the two dispatchers    *)
(* write what arrives (apply_clipboard_event of bw-server/src/lib.rs and of  *)
(* bw-client/src/main.rs, bw-clipboard/src/manager.rs).  Composed with       *)
(* RemoteInput, whose stream and session it shares.                          *)
(*                                                                           *)
(* A clipboard offers text, an image, or both at once, as many programs do.  *)
(* The client's poller lives as long as run_session.  The host's is stopped  *)
(* when spawn_clipboard_poller returns, since its handle is a local there:   *)
(* it makes one round at most.                                               *)
(***************************************************************************)
EXTENDS RemoteInput

CONSTANTS
  Content,    \* what is copied: records of a text and an image
  Oversized,  \* texts and images as_clipboard_event refuses
  MaxClips    \* capacity of the clipboard channel

None == "none"
Format == {"text", "image"}
End == {"client", "host"}

ASSUME ClipboardAssumption ==
  /\ \A v \in Content : DOMAIN v = Format /\ \E f \in Format : v[f] # None
  /\ MaxClips \in Nat

VARIABLES
  clip,    \* clip[e]: what the clipboard of an end offers
  seen,    \* seen[e][f]: last_text_hash and last_image_hash of its poller
  polled,  \* what the host's poller has polled in its round
  clips,   \* the client's clipboard channel, with the message its poller waits to send
  toView,  \* clipboard messages from the host to the client
  last,    \* what the client's poller reported last
  copied   \* what the user copied at the viewer and the host has not got: {} or {content}

clipVars == <<clip, seen, polled, clips, toView, last, copied>>
cvars == <<inputVars, clipVars>>

Nothing == [f \in Format |-> None]

Clip(f, v) == [type |-> "clip", format |-> f, value |-> v]

ClipInit ==
  /\ InputInit
  /\ clip = [e \in End |-> Nothing]
  /\ seen = [e \in End |-> Nothing]
  /\ polled = {}
  /\ clips = <<>> /\ toView = <<>>
  /\ last = Clip("text", None)
  /\ copied = {}

(***************************************************************************)
(* The pollers                                                               *)
(***************************************************************************)

\* The host's poller polls text, then the image, and ends.
MayPoll(e, f) ==
  phase = "active" /\ (e = "host" => f \notin polled /\ (f = "image" => "text" \in polled))

\* Mutant: the other format is not forgotten.
ForgetsNothing(s, f, v) == [s EXCEPT ![f] = v]

\* Mutant: the hash of what is reported is not kept.
NoticedNotKept(s, f, v) == [g \in Format |-> None]

\* A change of one format invalidates the other: the clipboard may have switched.
Noticed(s, f, v) == [g \in Format |-> IF g = f THEN v ELSE None]

\* The callbacks of the two ends: clipboard_event and blocking_send.
Report(e, m) ==
  IF e = "client"
  THEN Len(clips) <= MaxClips /\ clips' = Append(clips, m) /\ last' = m /\ UNCHANGED toView
  ELSE toView' = Append(toView, m) /\ UNCHANGED <<clips, last>>

Round(e, f) == polled' = IF e = "host" THEN polled \cup {f} ELSE polled

\* One check of a format.
Poll(e, f) ==
  /\ MayPoll(e, f)
  /\ Round(e, f)
  /\ LET v == clip[e][f]
     IN  \/ /\ v # None /\ v # seen[e][f]
            /\ seen' = [seen EXCEPT ![e] = Noticed(@, f, v)]
            /\ Report(e, Clip(f, v))
         \/ /\ v = None \/ v = seen[e][f]
            /\ seen' = [seen EXCEPT ![e][f] = v]
            /\ UNCHANGED <<clips, toView, last>>
  /\ UNCHANGED <<inputVars, clip, copied>>

\* A clipboard that cannot be read, as when another program has it open, is taken for one
\* without that format.
ReadFails(e, f) ==
  /\ MayPoll(e, f) /\ clip[e][f] # None /\ Fault
  /\ Round(e, f)
  /\ seen' = [seen EXCEPT ![e][f] = None]
  /\ UNCHANGED <<viewer, host, wire, events, clip, clips, toView, last, copied>>

\* The host's poller finds its flag cleared before its first round.
HostPollerEnds ==
  /\ phase = "active" /\ polled = {}
  /\ polled' = Format
  /\ UNCHANGED <<inputVars, clip, seen, clips, toView, last, copied>>

\* The forward loop takes a clipboard message.
ForwardClip ==
  /\ phase = "active" /\ clips # <<>> /\ Len(wire) < MaxWire
  /\ clips' = Tail(clips)
  /\ wire' = Append(wire, Head(clips))
  /\ UNCHANGED <<viewer, host, events, faults, clip, seen, polled, toView, last, copied>>

(***************************************************************************)
(* The handlers                                                              *)
(***************************************************************************)

\* as_clipboard_event
Accepted(m) == m.value \notin Oversized

\* apply_clipboard_event, through ClipboardManager: the message's format replaces whatever
\* the clipboard offered.
Written(m) == [f \in Format |-> IF f = m.format THEN m.value ELSE None]
Delivers(m) == {v \in copied : v[m.format] = m.value}

HandleClip ==
  LET m == Head(wire)
  IN  /\ Arrives("clip")
      /\ wire' = Tail(wire)
      /\ copied' = copied \ Delivers(m)
      /\ \/ clip' = (IF Accepted(m) THEN [clip EXCEPT !["host"] = Written(m)] ELSE clip)
            /\ UNCHANGED faults
         \/ Fault /\ UNCHANGED clip
      /\ UNCHANGED <<viewer, host, events, seen, polled, clips, toView, last>>

ViewerHandlesClip ==
  LET m == Head(toView)
  IN  /\ phase = "active" /\ toView # <<>>
      /\ toView' = Tail(toView)
      /\ \/ /\ Accepted(m)
            /\ clip' = [clip EXCEPT !["client"] = Written(m)]
            /\ copied' = {}
            /\ UNCHANGED faults
         \/ ~Accepted(m) /\ UNCHANGED <<clip, copied, faults>>
         \/ Fault /\ UNCHANGED <<clip, copied>>
      /\ UNCHANGED <<viewer, host, wire, events, seen, polled, clips, last>>

(***************************************************************************)
(* The users                                                                 *)
(***************************************************************************)
Reported(v) == last.value # None /\ v[last.format] = last.value

Copy(e, v) ==
  /\ UserActs
  /\ clip' = [clip EXCEPT ![e] = v]
  /\ copied' = IF e = "host" THEN copied ELSE IF Reported(v) THEN {} ELSE {v}
  /\ UNCHANGED <<viewer, host, wire, faults, seen, polled, clips, toView, last>>

ClipNext ==
  \/ InputStep /\ UNCHANGED clipVars
  \/ \E e \in End, f \in Format : Poll(e, f) \/ ReadFails(e, f)
  \/ HostPollerEnds \/ ForwardClip \/ HandleClip \/ ViewerHandlesClip
  \/ \E e \in End, v \in Content : Copy(e, v)

\* The client's forward loop, its receiver task and its poller run, and the host's receiver
\* loop.  Nothing is assumed of the host's poller.
ClipFairness ==
  /\ WF_cvars(Establish /\ UNCHANGED clipVars)
  /\ WF_cvars(ForwardClip \/ (ForwardInput /\ UNCHANGED clipVars))
  /\ WF_cvars(HandleClip \/ ((HandleKey \/ HandleMouse) /\ UNCHANGED clipVars))
  /\ WF_cvars(ViewerHandlesClip)
  /\ \A f \in Format : WF_cvars(Poll("client", f))

ClipSpec == ClipInit /\ [][ClipNext]_cvars /\ ClipFairness

(***************************************************************************)
(* Properties                                                                *)
(***************************************************************************)

Quiet == clips = <<>> /\ toView = <<>> /\ \A i \in DOMAIN wire : wire[i].type # "clip"

TextAndImage == \A f \in Format : clip["client"][f] # None

\* When nobody copies any more clipboard messages stop: an end does not go on echoing what
\* it was sent.  But a clipboard that comes to rest with text and an image at once is
\* reported for ever: each check forgets the other format and takes its own for a change,
\* against the poller's description, by which "a callback [fires] whenever the content
\* changes" (ClipboardPoller::spawn, the handlers of the two ends).
ClipboardQuiesces ==
  /\ <>[]~TextAndImage => <>[]Quiet
  /\ <>[]TextAndImage => []<>~Quiet

\* What the user copies at the viewer reaches the host's handler, unless it is what the
\* poller reported last or is overwritten first.
CopyArrives == (copied # {}) ~> (copied = {})
==============================================================================
