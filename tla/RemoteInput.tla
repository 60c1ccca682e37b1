----------------------------- MODULE RemoteInput -----------------------------
(***************************************************************************)
(* Remote input: what the user does at the viewer (App of                    *)
(* bw-client/src/main.rs), the input channel, the session's stream, and the  *)
(* host's input handlers (bw-server/src/lib.rs, bw-protocol/src/dispatcher.rs *)
(* and bw-input/src/inject.rs) up to the operating system.                   *)
(*                                                                           *)
(* One session is followed.  Of the host's other sessions only the entries   *)
(* that they add to the shared table of button masks matter.  The stream is  *)
(* FIFO (MessageFraming).  Input is queued while the client still connects,  *)
(* since the channel outlives run_session.  How sessions end is HostSession's *)
(* subject.                                                                  *)
(*                                                                           *)
(* A mask is the set of buttons in it.  A position is the screen's origin or *)
(* somewhere else.                                                           *)
(***************************************************************************)
EXTENDS Integers, Sequences, FiniteSets, SequencesExt

CONSTANTS
  UserButton,   \* buttons the user has: "left", "right", "middle", or an "extra" one
  UserKey,      \* keys the user has, of DOMAIN winit_keycode_to_vk
  Spot,         \* positions other than the origin
  Delta,        \* movements, in half pixels
  MaxInput,     \* capacity of the input channel
  MaxSessions,  \* size at which the table of masks is cleared
  MaxWire,      \* bound: messages the stream holds before a send waits
  MaxEvents,    \* bound: things the users do
  MaxFaults     \* bound: operating system calls that fail

\* BUTTON_BITS, in the order in which the handler goes through them.
BUTTON_BITS == <<"left", "right", "middle">>
Button == Range(BUTTON_BITS)

\* button_bit: a button without a bit changes nothing in the mask.
button_bit(b) == {b} \cap Button

\* winit_keycode_to_vk, by what tells keys apart here: a letter has a code of its own, the
\* two Enter keys share VK_RETURN, and keys without a virtual-key code are skipped.
NoCode == "none"
winit_keycode_to_vk ==
  [KeyA |-> "VK_A", Enter |-> "VK_RETURN", NumpadEnter |-> "VK_RETURN", Fn |-> NoCode]
Code == {winit_keycode_to_vk[k] : k \in UserKey} \ {NoCode}

ASSUME InputAssumption ==
  /\ UserKey \subseteq DOMAIN winit_keycode_to_vk /\ Spot \cap {"origin", "none"} = {}
  /\ Delta \subseteq Nat
  /\ MaxInput \in Nat \ {0} /\ MaxSessions \in Nat \ {0} /\ MaxWire \in Nat \ {0}
  /\ MaxEvents \in Nat /\ MaxFaults \in Nat

VARIABLES
  phase,     \* run_session: "connecting" or "active"
  mask,      \* App.buttons_mask
  acc,       \* mouse_acc, in half pixels
  inputs,    \* the input channel
  wire,      \* the stream from the client to the host
  recorded,  \* the session's entry in button_states: {} or {mask}
  others,    \* entries of other sessions in button_states
  pressed,   \* buttons and key codes that the session's injected events leave down
  cursor,    \* where they leave the cursor
  want,      \* key codes whose last key event at the viewer was a press
  aim,       \* the last position the viewer flushed
  dropped,   \* controls whose last event did not fit in the channel
  failed,    \* controls whose last event the host could not inject
  stuck,     \* buttons that the last mask left wrong: the table of masks was wrong about them
  events, faults

viewer == <<phase, mask, acc, inputs, want, aim, dropped>>
host == <<recorded, others, pressed, cursor, failed, stuck>>
inputVars == <<viewer, host, wire, events, faults>>

InputInit ==
  /\ phase = "connecting"
  /\ mask = {} /\ acc = 0
  /\ inputs = <<>> /\ wire = <<>>
  /\ recorded = {} /\ others \in 0 .. MaxSessions - 1
  /\ pressed = {} /\ cursor = "origin"
  /\ want = {} /\ aim = "origin"
  /\ dropped = {} /\ failed = {} /\ stuck = {}
  /\ events = 0 /\ faults = 0

UserActs == events < MaxEvents /\ events' = events + 1
Fault == faults < MaxFaults /\ faults' = faults + 1

(***************************************************************************)
(* The viewer                                                                *)
(***************************************************************************)

Mouse(pos, buttons) == [type |-> "mouse", pos |-> pos, buttons |-> buttons]
Keyboard(code, down) == [type |-> "key", code |-> code, down |-> down]

\* The controls an event sets.
Controls(m) ==
  IF m.type = "key" THEN {m.code}
  ELSE {"buttons"} \cup (IF m.pos = "none" THEN {} ELSE {"cursor"})

\* send_input: try_send.
SendInput(m) ==
  IF Len(inputs) < MaxInput
  THEN inputs' = Append(inputs, m) /\ dropped' = dropped \ Controls(m)
  ELSE UNCHANGED inputs /\ dropped' = dropped \cup Controls(m)

\* Mutant: only the button that changed is reported.
MouseInputReportsChange(b, down) ==
  /\ mask' = IF down THEN mask \cup button_bit(b) ELSE mask \ button_bit(b)
  /\ SendInput(Mouse("none", IF down THEN button_bit(b) ELSE {}))

\* WindowEvent::MouseInput: the whole mask is sent, at displacement (0, 0).
MouseInput(b, down) ==
  /\ mask' = IF down THEN mask \cup button_bit(b) ELSE mask \ button_bit(b)
  /\ SendInput(Mouse("none", mask'))

Click(b, down) ==
  /\ UserActs
  /\ (b \in Button) => (down # (b \in mask))
  /\ MouseInput(b, down)
  /\ UNCHANGED <<phase, acc, want, aim, wire, host, faults>>

\* WindowEvent::KeyboardInput, without the repeats, which are skipped.
KeyboardInput(k, down) ==
  LET code == winit_keycode_to_vk[k]
  IN  /\ UserActs
      /\ IF code = NoCode
         THEN UNCHANGED <<inputs, dropped, want>>
         ELSE /\ SendInput(Keyboard(code, down))
              /\ want' = IF down THEN want \cup {code} ELSE want \ {code}
      /\ UNCHANGED <<phase, mask, acc, aim, wire, host, faults>>

\* device_event: movement adds up and is flushed, as an absolute position with the current
\* mask, at four pixels or when `elapsed'; less than a pixel is kept.
MouseMotion(delta, pos, elapsed) ==
  LET sum == acc + delta
      flush == sum >= 8 \/ elapsed
  IN  /\ UserActs
      /\ acc' = IF flush THEN sum % 2 ELSE sum
      /\ IF flush /\ sum \div 2 # 0
         THEN SendInput(Mouse(pos, mask)) /\ aim' = pos
         ELSE UNCHANGED <<inputs, dropped, aim>>
      /\ UNCHANGED <<phase, mask, want, wire, host, faults>>

\* client_establish has returned.
Establish ==
  /\ phase = "connecting"
  /\ phase' = "active"
  /\ UNCHANGED <<mask, acc, inputs, want, aim, dropped, wire, host, events, faults>>

\* The forward loop takes an input message.
ForwardInput ==
  /\ phase = "active" /\ inputs # <<>> /\ Len(wire) < MaxWire
  /\ inputs' = Tail(inputs)
  /\ wire' = Append(wire, Head(inputs))
  /\ UNCHANGED <<phase, mask, acc, want, aim, dropped, host, events, faults>>

(***************************************************************************)
(* The host                                                                  *)
(***************************************************************************)

Arrives(type) == phase = "active" /\ wire # <<>> /\ Head(wire).type = type

\* InputInjector::inject_keyboard: the key is pressed or released.
KeyInjected(e) == IF e.down THEN pressed \cup {e.code} ELSE pressed \ {e.code}

\* The keyboard handler.
HandleKey ==
  LET e == Head(wire)
  IN  /\ Arrives("key")
      /\ wire' = Tail(wire)
      /\ \/ /\ pressed' = KeyInjected(e)
            /\ failed' = failed \ {e.code}
            /\ UNCHANGED faults
         \/ /\ Fault
            /\ failed' = failed \cup {e.code}
            /\ UNCHANGED pressed
      /\ UNCHANGED <<viewer, recorded, others, cursor, stuck, events>>

\* An absolute move to (0, 0) is not told from no movement.
Moves(e) == e.pos \notin {"none", "origin"}

\* inject_mouse_move_absolute
Moved(e) == IF Moves(e) THEN e.pos ELSE cursor

\* The loop over BUTTON_BITS: the buttons among the first n whose state changes.
Transitions(prev, new, n) ==
  {b \in {BUTTON_BITS[i] : i \in 1 .. n} : (b \in prev) # (b \in new)}

\* They have been injected.
Injected(prev, new, n) ==
  LET done == Transitions(prev, new, n)
  IN  (pressed \ done) \cup (done \cap new)

\* The table is cleared when a session without an entry finds it full.
Full == others + Cardinality(recorded) >= MaxSessions
OthersAfter == IF recorded = {} /\ Full THEN 0 ELSE others

\* What the table is wrong about: a session without an entry is taken to hold no button.
Mistaken == IF recorded = {} THEN pressed \cap Button ELSE stuck

\* The mouse handler injects the move, then the transitions, then records the mask.  The
\* move is injected before the table is locked, which no other session can tell but by the
\* cursor.
MouseInjected(e, prev, n) ==
  /\ pressed' = Injected(prev, e.buttons, n)
  /\ recorded' = {e.buttons}
  /\ others' = OthersAfter
  /\ cursor' = Moved(e)
  /\ failed' = failed \ Controls(e)
  /\ stuck' = Mistaken \ Transitions(prev, e.buttons, n)
  /\ UNCHANGED faults

MoveFails(e) ==
  /\ Fault /\ Moves(e)
  /\ failed' = failed \cup Controls(e)
  /\ UNCHANGED <<pressed, recorded, others, cursor, stuck>>

\* The transition of the i-th button fails: the handler returns before it records the
\* mask, although the transitions before it have been injected.
ButtonFails(e, prev, i) ==
  /\ Fault
  /\ BUTTON_BITS[i] \in Transitions(prev, e.buttons, i)
  /\ pressed' = Injected(prev, e.buttons, i - 1)
  /\ stuck' = Mistaken \cup Transitions(prev, e.buttons, i - 1)
  /\ others' = OthersAfter
  /\ cursor' = Moved(e)
  /\ failed' = (failed \ Controls(e)) \cup {"buttons"}
  /\ UNCHANGED recorded

HandleMouse ==
  LET e == Head(wire)
      prev == UNION recorded
  IN  /\ Arrives("mouse")
      /\ wire' = Tail(wire)
      /\ \/ MouseInjected(e, prev, Len(BUTTON_BITS))
         \/ MoveFails(e)
         \/ \E i \in DOMAIN BUTTON_BITS : ButtonFails(e, prev, i)
      /\ UNCHANGED <<viewer, events>>

\* The first mouse event of another session.  At the limit it clears the table, with what
\* it knows of this session's buttons.
OtherSession ==
  /\ UserActs
  /\ \/ ~Full /\ others' = others + 1 /\ UNCHANGED recorded
     \/ Full /\ others' = 1 /\ recorded' = {}
  /\ UNCHANGED <<viewer, wire, pressed, cursor, failed, stuck, faults>>

InputStep ==
  \/ \E b \in UserButton, down \in BOOLEAN : Click(b, down)
  \/ \E k \in UserKey, down \in BOOLEAN : KeyboardInput(k, down)
  \/ \E delta \in Delta, pos \in Spot \cup {"origin"}, elapsed \in BOOLEAN :
       MouseMotion(delta, pos, elapsed)
  \/ Establish \/ ForwardInput \/ HandleKey \/ HandleMouse \/ OtherSession

(***************************************************************************)
(* Properties                                                                *)
(***************************************************************************)

Settled == phase = "active" /\ inputs = <<>> /\ \A i \in DOMAIN wire : wire[i].type = "clip"

\* Once what was sent has been handled, the host's buttons, keys and cursor are as the
\* viewer's, whatever was dropped from the full channel or refused by the system before:
\* every mouse event carries the whole mask, so one that gets through makes up for those
\* that did not (register_input_handlers).  A key needs an event of its own, and a move to
\* the origin is not made.  Of the buttons exactly those are wrong, down or up against the
\* viewer's, that were down when the table was cleared or that were injected in an event
\* whose mask was not recorded, until they change again in an event that is recorded.
\* (The comment on the handlers says that "releases are not lost".)
InputSettles ==
  Settled =>
    /\ \/ "buttons" \in dropped \cup failed
       \/ \A b \in Button : b \in stuck <=> ((b \in pressed) # (b \in mask))
    /\ "cursor" \in dropped \cup failed \/ aim \in {"origin", cursor}
    /\ \A code \in Code \ (dropped \cup failed) : code \in pressed <=> code \in want
==============================================================================
