# TLA+ models of BLACKWING

BLACKWING is a remote-desktop system in Rust. A *server* shares its screen, a *client*
displays it and sends input, and a *relay* introduces the two when they cannot reach each
other directly and forwards their packets. This directory holds TLA+ models of its
protocol core and of the host and client programs around it, TLC configurations that check
them on small instances, and proofs checked by TLAPS. Source paths below are relative to
`src/crates/`.

Run a model with `tlc -config X.cfg MCModule` and a proof with `tlapm
SecureChannelProofs.tla` (or another `*Proofs` module), from this directory.
`PROJECT.json` maps every definition to the lines it models, and lists runs, mutants,
hazards, findings and theorems.

## 1. The system

| component | state | operations | hard behaviour |
|---|---|---|---|
| Frame encryption (`bw-protocol/encryption.rs`, `handshake.rs`) | per end: send key, epoch, counter; receive key, epoch, replay window | encrypt (rotating at a counter limit), decrypt | both ends rotate on their own counts; repeated, late, damaged frames; counter restarts with every epoch |
| Reliable delivery (`bw-protocol/reliability.rs`) | window, retransmission queue; duplicate filter, reassembly buffer | send, ack, mark_timeout, retransmit, receive | loss, repetition, reordering of frames and selective acks; a finite retry budget; a filter 64 wide |
| Relay control plane (`bw-relay/server.rs`, `rendezvous.rs`) | registry of devices, connect intents | register, connect_intent, poll, accept_connect, get_candidates, relay_establish | signed requests handled late or twice, replies lost, restart without persistence, capacity limits |
| Relay data plane (`bw-relay/forwarding.rs`, `bin/relay.rs`) | contexts by intent, token index, failed lookups | authorize_pair, update_binding, get_destination, close, sweep | idle and absolute expiry, byte cap, token bucket, re-authorization, blocklist at its limit |
| Relay control client (`bw-relay/relay_client.rs`) | one UDP socket | one request and its reply at a time | no timeout, no correlation of replies |
| Host process (`bw-server/main.rs`, `rendezvous.rs`) | rate windows per IP, handshake permits, poll loop, one task per session | poll, accept, bind, admit, serve, time out | intents that expire under the driver, initiators that never come, a timeout around a whole session, an address still in use |
| Client process (`bw-client/main.rs`) | back-off, input channel, clipboard channel, button mask | connect, authenticate, forward, receive, render | retry after a failure only, a full channel, input queued before the session exists |
| Session (`bw-session/`, `bw-protocol/session.rs`, `message.rs`) | session entries, lifecycle, fragments collected so far | handshake, send, receive, split, close | two layers of fragments, an error or a loss inside a message |
| Input handlers (`bw-server/lib.rs`, `bw-input/`) | button mask per session | inject keys, moves, transitions | a table cleared at its limit, a failure between two transitions |
| Clipboard (`bw-clipboard/`, the handlers of both ends) | last hash per format, the clipboards | poll, report, apply | echo between two ends, two formats that invalidate each other, a poller that is stopped at once |
| Media pipeline (`bw-capture`, `bw-encoder`, `bw-decoder`, `bw-audio/capture.rs`) | bounded channels, cached frame, encoder state | capture, refresh, recover, compose, encode, forward, decode, render | dropped references, the last frame before an idle screen, threads that wait on each other at the end |
| Memory pools (`bw-core/pool.rs`, `memory.rs`) | tagged free stack; occupancy flags; slot mutexes | checkout, release | ABA, a release that becomes visible before the unlock |
| Scheduler, routing (`bw-protocol`), ICE, certificates, cryptography, audio devices | queues, third-party agents, devices | | not modelled (section 5) |

How they interact. The client and the server each register with the relay. The
client signs a ConnectIntent for the server; the server, which polls, is told of it
and signs an AcceptConnect; the relay then authorizes a session in the data plane
and gives both ends its token. Each end binds its address with RelayEstablish, and
from then on packets that start with the token are forwarded to the other end. Over
that path, or directly, runs QUIC; over a QUIC stream the two ends authenticate,
derive two keys and exchange encrypted frames. Both the send and the receive task
of an end use one `EncryptionContext`, under the mutex of the session manager.

What makes each part correct: a key and nonce seal one frame; a frame is accepted once; a
receiver stays in step with its peer; the reliable layer is a FIFO channel; the relay
joins two devices only while both want it, their tokens lead to one session, and a session
stays within its time, its bytes and its rate; an address gets a bounded number of
attempts, a handshake ends and gives its permit back; the host keeps polling; what the
user does at the viewer is what the host ends up with, and what the host shows is what the
viewer ends up seeing; no buffer slot is lost or shared.

## 2. Modules

| module | models |
|---|---|
| `SeqFilter` | the 64-wide duplicate filter both `ReplayProtection` and `DuplicateFilter` implement; the bit mask is the set of its bits |
| `SecureChannel` | `FrameEncryptor`, `FrameDecryptor`, `EncryptionContext` at both ends and the frames in between |
| `FifoDelivery` | the abstract specification of reliable delivery: what is sent is delivered once, in order |
| `Reliability` | `ReliableSender`, `ReliableReceiver` and a faulty network; refines `FifoDelivery` |
| `ForwardingContext` | one forwarding session, as a record with the pure operators that create and bind it; shared by the next two |
| `Forwarding` | `ForwardingTable`: the data plane |
| `Relay` | `RelayServer` with its registries, and the sessions it creates: the control plane |
| `MessageFraming` | one direction of a session: both layers of cutting and reassembly over a QUIC stream; refines `FifoDelivery` |
| `HostSession` | a session from admission through login and key handshake to its end, at the host and at the client |
| `Rendezvous` | the host process around `HostSession` (which it extends): direct mode, and relay mode with `RendezvousDriver` and the relay's control protocol over UDP |
| `RemoteInput` | mouse and keyboard from the viewer's window to the host's operating system |
| `ClipboardSync` | the two clipboards, on the stream of `RemoteInput`, which it extends |
| `VideoPath` | screen to window: capture, compositor, encoder, forwarding, sender, receiver, decoder, renderer |
| `BufferPools` | `StaticSlotPool` and `LockFreeMemoryPool`, one step per atomic access |
| `MC*` | values of the constants for TLC |
| `SecureChannelProofs`, `ReliabilityProofs`, `ForwardingProofs`, `RelayProofs`, `VideoPathProofs`, `BufferPoolsProofs` | theorems about the module of that name |
| `RendezvousProofs` | theorems about `HostSession` and `Rendezvous` |
| `SessionProofs` | theorems about `MessageFraming`, and about `RemoteInput` composed with `ClipboardSync` |

Conventions. A function of the code that holds a lock, or runs in the relay's single
receive loop, for its whole duration is one action. Early returns that change nothing are
stuttering steps, so an action's guard is the condition under which the code changes
something. A map of the code is a total function with a marker for "no entry" (`Absent`,
`Vacant`, `None`, count 0). Variables whose comment says what happened (`wire`,
`received`, `seen`, `carried`, `activity`, `issued`, `live`, `last`, `signed`, `holds`,
`recent`, `want`, `aim`, `dropped`, `stuck`, `copied`, ...) are history: no action's
effect on program state depends on them, except that signed requests can be handled only
when signed and a random token is one never generated before. Definitions commented
*Mutant* are plausible bugs; no specification uses them. They exist to show that each
property fails when the code is wrong (`mutants` in `PROJECT.json`).

### SecureChannel

`enc[p]` and `dec[p]` are the two halves of `p`'s context. A key is its role label and the
number of HKDF steps since the handshake. AEAD is perfect: a frame authenticates exactly
under the key that sealed it. `Encrypt(p)` seals, advances the counter and, at the limit,
rotates *both* directions, as `EncryptionContext::rotate_keys` does. `Decrypt(p)` reads
the next frame of a stream, or, when `stream` is FALSE (chosen once, in `Init`), any frame
sent so far. `DecryptDamaged(p)` reads a frame whose header may say anything and whose tag
verifies under nothing; the replay window is nevertheless updated on the same epoch,
before authentication, as in the code.

### Reliability

Queue and buffer are functions from sequence numbers; the two loops (popping
acknowledged entries, draining the buffer) are stated by where they stop. Which
pending entries have timed out is the clock's choice. The acknowledgments are those a
receiving application could send: the code leaves that to its caller, so `AcksFor`
is external. `WindowFitsFilter` (window at most the filter's width) is an assumption
the code does not enforce; `NoFreshFrameDropped` is the property that needs it.

### Relay and Forwarding

`Relay` follows each handler from its checks to its reply. Signatures are valid; a request
is represented by the time it was signed, so it can be handled late, again or never, as
long as the timestamp check lets it. `Poll` includes the target signing its answer, which
is what the server's driver does with a poll's result. `Reply` may be lost.
`AcceptConnect(i, d)` may come from any registered device, since an intent that timed out
is marked expired before the acceptor's identity is looked at. An intent id belongs to one
pair of devices (`Pair`): ids are 16 random bytes, and that another pair overwrites an
accepted or expired one by choosing the same id is left out. `Restart` forgets everything,
as nothing is persisted. Candidate lists, session identifiers and addresses seen by the
server are data no property depends on and are left out, as is `sweep_expired`, which
nothing calls.

Time. The relay reads the wall clock in milliseconds since 1970, so the saturating
subtractions of the code never saturate at zero, and the models subtract plainly. The
model's clock only advances; a wall clock that is set back is outside the models.

`Forwarding` has every operation of the table, `sweep` and `close` included although
no production code calls them at this commit. The token bucket counts whole bytes per
second of model time (the code uses floating point). Two things the model makes
visible: an intent authorized again keeps its earlier tokens in the index, and `sweep`
removes only the newest, so an old token stays for good but leads nowhere; and the
failure window of the blocklist opens with the first failure and does not roll, so
up to twice the threshold less one fits in an interval of its length (finding 4).

### MessageFraming

A serialized value is known by the value and its length; a run of pieces decodes exactly
when it is all the pieces of one value. `Fragments` gives flags and lengths, and both
layers use it: `SendMessage` cuts the message into protocol frames, `SendSecureFrame`
encrypts one (which makes it longer by `Expansion` and `Overhead`, CBOR writing a byte
array as numbers) and cuts it into wire frames, `SendOneFragment` writes one. `RecvFrame`
is what the receiver does between two reads of the stream: it collects a wire frame and,
when the frame is complete, decrypts it and collects it in turn; that `decrypt_frame` may
refuse the frame is the subject of `SecureChannel` and not repeated here. The 16-bit
`payload_length` is kept, and so is the length of what a receiver has collected
(`Collect`). `IntoSplit`, `Close`, `CloseSender`, `CancelReceiver` and `LoseConnection`
may fall between any two fragments.

### HostSession and Rendezvous

`server[c]` is where the host's task for connection `c` waits, `client[c]` where
`run_session` does; one action is what a task does between two awaits. In particular the
host's side of the key handshake is two: `SendNonce`, and `RegisterKeys` after the send
has completed, so that the client may have its keys first and the timeout may fall in
between. The session identifier is derived from the session key of the login, which is new for every login, so the error
`SessionDuplicate` of `create_session` is not met. OPAQUE is its outcome: a member's login
succeeds; a stranger names an identifier that is not enrolled, or one that is and then
fails by itself, or sends a finalization the host refuses. `Admit` is
`spawn_session_task`: the attempt counts before a permit is tried for. `EndTask` returns
the permit; the sender task and the pipelines of an established session outlive it, as in
the code, until a write fails. `Done` and `Failed` are the two ways `run_session` returns:
the first leaves the retry loop, also when the connection dropped.

`Rendezvous` extends it with the driver. Control requests and replies are single
datagrams, lost or repeated; `Receive` takes any datagram for the reply it waits for, which
is what `send_recv` does, and waits for it for ever. A late reply to an earlier request is
what makes that visible. The relay here is the part of `Relay` the host sees; that it
refuses a registration for lack of room, and that the control socket itself fails, are
faults.
`Bind` may fail while an earlier session still holds the address. In direct mode the same
sessions are admitted by the accept loop.

### RemoteInput and ClipboardSync

A button mask is a set, a position is the origin or another one. The handler's steps keep
their order: the move, the check of the table's size, each transition, the new mask; an
operating system call may fail at any of them. Of the host's other sessions only the
entries in the shared table matter. Of `winit_keycode_to_vk` the model keeps what tells
keys apart: a code of its own, a code shared by two keys, no code.

`stuck` is the set of buttons of which the table of masks says the wrong thing: those held
when the entry was cleared, and those that changed before a failing transition made the
handler return. `InputSettles` says that these and no others differ from the viewer's.

A clipboard offers a text, an image or both. `Noticed` forgets the other format, as the
poller does. The host's poller is stopped when `spawn_clipboard_poller` returns, since its
handle is a local variable: it makes no round or one. Therefore the host's clipboard
reaches the viewer at most once per session, and no property claims more.

### VideoPath

A frame is the version of the screen it shows. An encoded frame knows whether the frame
it was predicted from was put into the stream; the decoder's reference is good or garbled.
The codec is external and chooses between a predicted frame and a skipped one; a first, a
forced and a periodic frame are keyframes. Channels are as in the code: `try_send` where it
drops, a waiting send where it waits (the channel then holds the waiting frame too). The
sender task ends when the session is gone or, `RefuseMessage`, when a message is refused
while it is up. The arm of the forwarding task for a message that cannot be serialized
(`bw-server/main.rs:609`) is not reached: `video_data` writes CBOR into a vector.

### BufferPools

One action is one atomic access: load, link read, compare-and-exchange (which may fail
spuriously), lock, zeroize, link write, flag write, unlock. `kind` chooses the pool. The
guard's mutex is unlocked last, when the slot is already free: a checkout may find it
locked (`Wait`), and `WaitsBriefly` says what this costs. The generation wraps, as in the
code. What it cannot tell is a whole turn of the tag while one thread is between its load
of the head and its exchange: `lag` counts these updates and `NotOvertaken` keeps them
below 2^16. This is an assumption about the scheduler, not something the code ensures, and
the only bound on how often the head is updated. The model is sequentially consistent; the
accesses to the head are acquire/release in the code, and a link is read only to be
validated by the exchange of the head.

## 3. What TLC checks

| run | result | shows |
|---|---|---|
| `Channel` | passes | `NonceUnique`, `AcceptedOnce`, `ReceiverNeverAhead` with both ends sending past a rotation and a network that loses, repeats, reorders and damages; `StreamInSync` and, under fairness, `StreamDelivers` with one sender over five epochs of a stream |
| `ChannelTwoWay` | **violated** | `StreamInSync` when both ends send: see finding 1 |
| `Reliability` | passes | refinement of `FifoDelivery` (`DeliversInOrder`), `NoFreshFrameDropped`, `BufferBounded`, `AckedWasReceived`, and `EventuallyDelivered` under fairness |
| `Relay` | passes | `RegistryBounded`, `MutualConsent`, `EndsMeet`, `AuthorizedWhileFresh` |
| `RelayCapacity` | **violated** | `FullOnlyWhenBusy`: finding 2 |
| `Forwarding` | passes | `RateBounded`, `CapOvershoot`, `NeverResumes`, `TokensMeet`, `FailuresBounded` |
| `MessageFraming` | passes | `SessionIsFifo` (refinement of `FifoDelivery`), `FailsOnlyOnOversize`, and `SentIsReceived` under fairness |
| `Rendezvous` | passes | `AttemptsBounded`, `PermitsConserved`, `KeysFit`, `FailsOnlyOnFault`, and under fairness `PollingResumes` and `HandshakesEnd` |
| `SessionCut` | **violated** | `EstablishedNotCut`: finding 3 |
| `RemoteControl` | passes | `InputSettles`, and under fairness `ClipboardQuiesces` and `CopyArrives` |
| `VideoPath` | passes | `NeverGarbled`, and under fairness `LatestShown` and `PipelineEnds` |
| `BufferPools` | passes | `SlotsConserved`, `WaitsBriefly` |

Findings.

1. An end that rotates because of what it *sent* also moves its decryptor to the next
   epoch. Its peer has not rotated, so the peer's next frames carry an epoch the
   decryptor no longer accepts, and the direction is dead until the peer's own
   rotation. The comment on `decrypt_frame` promises synchronization; the test under
   "Both peers remain synchronized across rotation" sends in one direction only.
2. `register_intent` makes room by dropping stale *pending* intents; accepted ones
   are never removed. The limit documented as one on concurrent intents becomes one
   on the intents accepted in the life of the process.

3. `HANDSHAKE_TIMEOUT`, documented as the limit of the OPAQUE handshake, encloses all of
   `handle_session`. A session that both ends have established, over a connection that is
   up, is ended when it expires, although "the session closes when the client
   disconnects" (`bw-server/main.rs:526`). `HandshakesEnd` is the documented half, which
   holds; `EstablishedNotCut` is the other.
4. The window of the relay's blocklist is described as rolling (`forwarding.rs:32`). It
   opens with the first failure and is replaced as a whole. `FailuresBounded` states the
   bound that does hold, twice the threshold less one in any interval as long as the window,
   and `MCForwarding!DoesNotRoll` evaluates a sequence that reaches it.
5. The same of the per-IP limit of the host, described as a "sliding window" and as
   "MAX_AUTH_ATTEMPTS_PER_IP per IP_RATE_WINDOW" (`main.rs:68`, `:83`): `AttemptsBounded`
   holds at twice the limit less one, and `MCRendezvous!DoesNotSlide` evaluates 19 attempts
   let through within 60 seconds by the limiter with the constants of the code.
6. "Releases are not lost" (`bw-server/lib.rs:38`) but for a table of masks that was cleared
   and a transition that failed after another was injected. `InputSettles` says that exactly
   those buttons are wrong.
7. The poller's "callback whenever the content changes" (`poller.rs:3`) is called for ever,
   without a change, when the clipboard holds text and an image: the second conjunct of
   `ClipboardQuiesces`.
8. The host's "clipboard polling thread" (`bw-server/lib.rs:200`), half of the "bidirectional
   clipboard polling" of the repository's README, is stopped when the function that spawns
   it returns. That host and viewer do not echo each other rests on this.
9. The sender task and the pipelines are not "left running for the process lifetime"
   (`bw-server/main.rs:525`): they end with the first message after the disconnect
   (`PipelineEnds`).
10. "Lock acquisition is strictly uncontended" (`memory.rs:62`) is not so: the slot is free
    before its mutex is unlocked, and the run of `BufferPools` takes the step `Wait`.
    `WaitsBriefly` says that the wait is for a thread about to unlock.

Findings 1 to 3 are counterexamples of their runs. In 4 to 10 the property checked is what
the code does ensure, stated so that it is met exactly, and the finding quotes what the
repository says instead.

What else a reader of the code might not expect: one lost control datagram stops the driver
for ever, and one repeated, a refused registration, a failure of the control socket or a
relay restart ends the process; `FailsOnlyOnFault` says that nothing less does. A move to
the origin is not made, and a key event that was dropped is not made up for: these are the
exceptions in `InputSettles`.

Bounds and why they suffice. The filter is 2 wide instead of 64: values fall off it,
sit inside it and advance it by one, by its width and by more. The rotation limit is
3 (2 in the two-way run), so that epochs with room for reordering, the last frame of
an epoch and the first of the next all occur; the damaged headers range over the
current, the next and a later epoch. `Reliability` sends three payloads through a
window of two, so that the window closes, slides, and the filter overtakes; one loss
matches the retry budget of one, which is the most `EventuallyDelivered` can bear
(with more losses than retries the code gives up and the property is false by
design). `Relay` has one intent that may be registered, expire, be accepted, be
repeated after acceptance and be accepted again under a second token, three devices
for two places in the registry, one restart, and timeouts of one unit in a clock of
five: each deadline is met before, at and after. `Forwarding` has one intent, two
tokens, packets of one and two bytes against a cap of three and a rate of two, idle
timeout 1 and life 3; one IP, because entries of several IPs interact only
through eviction, which a table of one entry already triggers.
Tokens are interchangeable random values, hence the symmetry set (used with
invariants only).

`MessageFraming` has fragments of 3 and a limit of 7 units, and messages of 1, 3, 7 and 8:
one piece, an exact piece, the exact limit in three pieces, and one too many; a full frame
takes three wire frames, a short one takes one. Two messages are sent, so that a message
follows one that failed. `Rendezvous` has a member with two attempts and a stranger with
one behind one address, one permit, one attempt per window of two ticks, timeouts of one
and two ticks, and one fault; the window's edge, a full semaphore, a refused retry and
each timeout occur. `RemoteControl` has channels and tables of one entry, so that every
one of them is full at some time, three things the users do and one failing call; the
other buttons, keys and deltas behave as those chosen. `VideoPath` has channels of one
frame, two versions of the screen, one audio packet and one fault: each channel fills, and
a drop can precede or follow encoding. `BufferPools` has three threads, two slots and a
tag of five values that wraps any number of times, enough for a slot to be taken, and
returned under another head, between a thread's two accesses; threads are interchangeable,
hence the symmetry set. `BufferPools` has no bound and never stops, and its deadlocks are
checked. Every other run ends by itself when its bounds are reached, so there deadlock is
not checked.

Fairness. `Channel`: weak fairness of each end's `Decrypt`, since each end runs a receive
task that keeps reading the stream; sending is not assumed. `Reliability`: weak fairness
of receiving what the network has not lost, and of `mark_timeout` and `retransmit`, which
the owner of the sender is to call periodically; no fairness of sending, losing or
repeating. `MessageFraming`: weak fairness of the sender's and the receiver's tasks, which
wait for nothing but their stream. `Rendezvous`: of the driver, the session timeouts and
the clock (`SessionCut`, whose property is one of single steps, uses the same
specification); nothing is assumed of clients, relay or network, and `HandshakesEnd` needs
only the last two; `PollingResumes` starts where the driver has its token, since before
that it may wait for a lost reply for ever. `RemoteControl`: of the client's forward loop,
receiver task and poller and of the host's receiver loop. `VideoPath`: weak fairness of
every thread and task, and strong fairness of the forwarding task, because a tokio channel
serves the senders that wait for room in turn.

## 4. What is proved

`SecureChannelProofs`, for every filter width, rotation limit, number of frames and
range of damaged headers, from `FilterWidthAssumption` (a positive width) and
`ChannelAssumption` (the constants have their types):

* `TypeCorrect`: `Spec => []TypeOK`. The filter lemmas (`TrackType`,
  `TrackRemembers`) say that tracking keeps the mask within its width and that what
  is a duplicate stays one, whether its bit moves or falls off the end.
* `NonceNeverReused`: `Spec => []NonceUnique`. `NonceUnique` is not inductive: a
  reset counter could meet an old frame. `NonceInv` adds that every frame sealed lies
  strictly below the encryptor's (epoch, counter), and that the label of the key is
  the sender's.
* `NoFrameAcceptedTwice`: `Spec => []AcceptedOnce`. The strengthening says that every
  accepted frame is *consumed*: of an earlier epoch than the decryptor's, or of the
  same epoch and a duplicate for its window. Rotations and transitions empty the
  window but leave the epoch it guarded behind. Two positions that hold equal frames
  are one position by `NonceInv`.
* `ReceiverFollows`: `Spec => []ReceiverNeverAhead`. Because the code rotates the
  decryptor with the encryptor, a receive epoch is bounded by the rotations of both
  ends together.
* `OneWayStreamInSync`: on a stream on which one end is silent, `Spec =>
  []StreamInSync`. The invariant says each frame on the wire is followed by the next
  one in its epoch or by the first of the next epoch, and that the decryptor is ready
  for the frame it reads next. The hypothesis is what finding 1 needs.

`ForwardingProofs`, for any number of intents, tokens, devices and addresses and
every value of the limits, from `ContextAssumption` and `ForwardingAssumption` (types
of the constants; the blocklist threshold, 20 in the code, is positive). `StepCases`
reduces every operation to an authorization, a step of one session (it expires, is
refused for lack of tokens, is bound, or carries a packet), a sweep, a failed lookup
or the clock; each theorem then has one step per case.

* `TableTypeCorrect` needs `Clocked`, no time stamp is in the future: otherwise
  refilling could drain the bucket.
* `TokensAlwaysMeet`: with the fact that a context's token was generated for its
  intent, so that sweeping one session removes no token of another.
* `IdleNeverResumes`: with the fact that `last_active` is one of the session's moments,
  which is the witness for the moment before the new one.
* `CapHolds`: the history of the bytes is flat from now on and equals the session's
  own counter, which was below the cap before the last packet, whose length `last` keeps.
* `RateHolds`: `RateBounded` does not mention the bucket. `BucketInv` does: what an
  interval that ends now has carried, plus what the bucket holds, is within what the
  interval allows. A packet moves bytes from the bucket to the history, a second adds
  the same to both sides.
* `BlocklistHolds`: an entry accounts for the failures since its window opened, and the
  window's length before that held at most the threshold; for an IP without an entry
  the last window's length did. Eviction and a new window both need the old one to be
  over, and its first failure then lies too far back to count: hence twice the threshold
  less one.

`ReliabilityProofs`, for every window that fits the filter and every number of payloads,
losses, repetitions and retries, from `FilterWidthAssumption`, `ReliabilityAssumption` and
`WindowFitsFilter`:

* `ReliabilityTypeCorrect`: window, queue, filter and buffer keep their types.
* `ImplementsFifo`: `Spec => DeliversInOrder`, the refinement of `FifoDelivery`. A reception
  delivers a run of numbers, so the invariant `DeliveryInv` speaks of numbers: queue, frames
  in flight and buffer carry the payload of their number; acknowledgments name only numbers
  received; a number was received exactly when it was delivered or is buffered.
* `FreshFramesPass`, `SlidesOverReceived`, `BufferStaysBounded` follow from the same
  invariant. The first needs the window to fit the filter: a number too far
  back for the filter then lies below the window, and all that does was received.

`RelayProofs`, for any number of devices, intents, tokens and addresses and every limit,
from `RelayAssumption` and `ContextAssumption`:

* `RelayTypeCorrect`; `RegistryStaysBounded`, with the fact that the registry is finite;
  `PollsAreAcceptable`.
* `ConsentIsMutual`: `MutualConsent` speaks of what the ends hold. `ConsentInv` adds what the
  relay's records say of signatures, in each state of an intent.
* `TokensMeet`: with the fact that the token of an accepted intent, and any token an end
  holds, was generated for that intent and is still in the index.
* `SessionsAreFresh`: with the fact that a pending intent was created within the timestamp
  window of its one signature, so that repetitions do not add up.

`RendezvousProofs`, for any number of clients and connections and every limit and timeout,
from `HostAssumption` and `RendezvousAssumption`:

* `PermitsAlwaysConserved`: permits and served connections add up, with the facts that the
  served ones are finitely many and that a connection has no task before it is made
  (`MadeInv`).
* `KeysAlwaysFit`: what an end may conclude from what it has received. A genuine
  finalization, on its way or read, was made by a member, and only a member gets the host's
  nonce (`KeyInv`). That the host has registered when its nonce arrives is *not* part of it.
* `AttemptsStayBounded`: `AttemptsBounded` does not mention the limiter's entry. `RateInv`
  does: since the open window began no more was let through than it has counted, and the
  ticks before it that still matter belong to one other window, which had its own limit.
* `DriverFailsOnlyOnFault`: without a fault, driver and relay take turns: one request or one
  reply of the right kind is on its way where the driver waits for one, and nothing
  elsewhere. (This is what `send_recv` relies on without checking.)

`SessionProofs`, for messages, fragments, fields and limits of any size, from
`FramingAssumption` (a fragment's length fits its field, and an encrypted frame fits the
limit: 60,000 bytes below 2^16 and far below 4 MiB in the code):

* `SessionImplementsFifo`: `Spec => SessionIsFifo`. A wire frame has a *place*: the message,
  the frame in it, the fragment in that. The stream holds the wire frames of consecutive
  places, from the one the receiver waits for to the one the sender writes next, or the
  beginning of that when it was cut off; what the sender has left is the end of its last
  message. A place function is the witness, extended by a write, shifted by a read and
  restricted by a loss.
* `RefusesOnlyOversize`: `Spec => []FailsOnlyOnOversize`. In addition both buffers are the
  beginnings of a message and of a frame, of full pieces, and the keys are there as long as
  the session is usable. `CollectingFacts` is the one lemma about both layers: the next
  piece continues the buffer when the value is within the limit, and the last completes it.

and, from `InputAssumption` and `ClipboardAssumption`, for every capacity of the channels, any
number of events, faults and other sessions, and any contents of the clipboards:

* `InputAlwaysSettles`: `ClipSpec => []InputSettles`. `InputSettles` speaks of empty queues.
  `ControlInv` says, of each button mask, cursor and key by itself, that the last event on its
  way that sets it sets it as the viewer means it, first in the channel, then on the
  stream, and that the host has it so when none is on its way; of a button, that it has it so or
  else the button is one of `stuck`.

`VideoPathProofs`, for every capacity, keyframe interval and number of frames and faults,
from `VideoAssumption`:

* `DecoderStaysInSync`: `Spec => []NeverGarbled`. The invariant looks along the path: in
  each queue, every predicted frame was predicted from one that went into the stream, and
  comes after a frame the viewer has decoded or will decode before it; and the encoder
  predicts only when its last frame went into the stream. Nothing is claimed of what is left
  in the pipeline once the sender task has ended: it reaches nobody.

`BufferPoolsProofs`, for any number of threads and slots and executions of any length, from
`PoolAssumption` (constants have their types and the tag more than one value) and under
`NotOvertaken`, which is part of the specification: no thread is overtaken by a whole turn
of the tag between its load of the head and its exchange.

* `PoolConservesSlots`: `Spec => []SlotsConserved`. The free stack is a path without
  repetition from the head through exactly the slots nobody claims (`FreeInv`); a thread
  that has seen the head is `lag` generations behind, or has seen the head and link as they
  are (`SeenInv`); less than a whole turn behind, it has another tag, which is what makes the exchange safe.
* `CheckoutWaitsBriefly`: a mutex is locked by a thread that has the slot's guard or is about
  to unlock it, and a free slot has no guard.

`RelayProofs` also has `PollsAreAcceptable`, which no run checks. Every invariant that a
passing run checks, and both refinements of `FifoDelivery`, are theorems. Only
model-checked: the liveness properties `StreamDelivers`, `EventuallyDelivered`,
`SentIsReceived`, `PollingResumes`, `HandshakesEnd`, `ClipboardQuiesces`, `CopyArrives`,
`LatestShown` and `PipelineEnds`, since fairness and ENABLED are out of the prover's
reach.

## 5. Not modelled, and the plan

* The relay branch of the client's `run_session`. It builds a second runtime and calls
  `block_on` inside the first, which tokio refuses with a panic, so that none of its later
  steps is reached. `Rendezvous` has initiators that behave as the relay's protocol
  allows.
* The stream scheduler and the routing table of `bw-protocol`, `candidate.rs` and `checker.rs` of
  `bw-relay`, `bw-ice`, and the relay's `sweep_expired`: no program calls them.
* QUIC, UDP and certificates: the environment, an ordered stream that may be lost and
  datagrams that may be lost or repeated. The relay's development token.
* OPAQUE, Ed25519, AEAD, HKDF: perfect; only their outcome appears.
* The codecs, DXGI, the drawing of the cursor and the window, audio devices and playback:
  I/O and data no property tells apart.
* `ZeroizePolicy::Never`, with which a free slot keeps what was written: `SlotsConserved`
  says that a free slot is zero, which is so under `OnRelease` and in `LockFreeMemoryPool`.
  A thread that sleeps through a whole turn of the 16-bit generation.
* A wall clock that is set back (`bw-relay/clock.rs:14`): saturating subtraction then hides
  time that passed, and a bucket refilled at the earlier time is refilled again for the
  same interval. The bounds proved of the token bucket rest on a clock that only advances.

Known weak places of the code that no property covers, because the models have no
operation or no measure for them: session entries stay in the `SessionManager` when the
halves of a split session are gone (`bw-session/secure_conn.rs:465`); an identifier of more
than 32 bytes panics the task of its session (`bw-server/main.rs:510`); the client does not
reconnect when an established session drops, although the doc comment of `spawn_session`
says that it retries every two seconds (`bw-client/main.rs:805`, modelled by `Done`); buttons
and keys that are down when a session ends are not released (`bw-server/lib.rs:79`); after a
loss of the desktop the capture starts with the `DisplayInfo` of its first start
(`bw-capture/thread.rs:172`); the queue of decoded audio has no limit
(`bw-audio/playback.rs:93`).

Next, proofs: the safety facts the liveness properties rest on, which the prover can reach
although it cannot reach the properties themselves: that a frame not yet acknowledged is
always in flight, queued or given up (`Reliability`), that the poller of a clipboard reports
an echo at most once (`ClipboardSync`), and that no ring of waiting sends closes among the
threads of `VideoPath`.
