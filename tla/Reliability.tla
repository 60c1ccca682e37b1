----------------------------- MODULE Reliability -----------------------------
(***************************************************************************)
(* The reliable delivery subsystem, bw-protocol/src/reliability.rs:          *)
(* ReliableSender (sliding window, retransmission queue, retry budget) and   *)
(* ReliableReceiver (duplicate filter, ordered assembler), over a network    *)
(* that loses, repeats and reorders frames and acknowledgments.              *)
(*                                                                           *)
(* The retransmission queue is pushed in sequence order and popped from the  *)
(* front, so it is a function from the sequence numbers it holds to entries; *)
(* the reassembly buffer (a BTreeMap) is a function likewise.                *)
(***************************************************************************)
EXTENDS SeqFilter, Sequences, FiniteSets

CONSTANTS
  Payload,
  Message,             \* Message[n]: the n-th payload the application sends
  WindowSize,          \* ReliableSender::new(window_size, ..)
  AckWidth,            \* bits of AckFrame::ack_bits: 64 in the code
  MaxRetransmissions,  \* TimeoutPolicy::max_retransmissions
  MaxSent,             \* bound: payloads sent
  MaxLost,             \* bound: frames and acknowledgments the network loses
  MaxRepeated          \* bound: frames and acknowledgments it repeats

ASSUME ReliabilityAssumption ==
  /\ WindowSize \in Nat
  /\ AckWidth \in Nat
  /\ MaxRetransmissions \in Nat
  /\ MaxSent \in Nat
  /\ Message \in [1 .. MaxSent -> Payload]
  /\ MaxLost \in Nat
  /\ MaxRepeated \in Nat

\* The window must fit in the filter; nothing in the code enforces it.
ASSUME WindowFitsFilter == WindowSize <= FilterWidth

VARIABLES
  base, next_seq,   \* SlidingWindow
  queue,            \* ReliableSender::queue
  frames,           \* frames[f]: copies of f in flight
  acks,             \* acks[a]: copies of acknowledgment a in flight
  filter,           \* DuplicateFilter
  next_expected,    \* OrderedAssembler
  buffer,
  sent, delivered,  \* the application's view at the two ends
  seen,             \* sequence numbers the receiving application has been handed
  lost, repeated    \* faults so far

sender == <<base, next_seq, queue, sent>>
receiver == <<filter, next_expected, buffer, delivered, seen>>
vars == <<sender, frames, acks, receiver, lost, repeated>>

SeqNo == 0 .. MaxSent - 1
Frame == [seq : SeqNo, payload : Payload]
AckFrame == [acked_seq : SeqNo, ack_bits : SUBSET (0 .. AckWidth - 1)]
Entry == [payload : Payload, retransmissions : 0 .. MaxRetransmissions,
          state : {"Pending", "Acked", "TimedOut"}]

TypeOK ==
  /\ base \in Nat /\ next_seq \in Nat
  /\ base <= next_seq /\ next_seq <= MaxSent
  /\ queue \in [base .. next_seq - 1 -> Entry]
  /\ frames \in [Frame -> Nat]
  /\ acks \in [AckFrame -> Nat]
  /\ filter \in Filter
  /\ next_expected \in 0 .. MaxSent
  /\ DOMAIN buffer \subseteq next_expected .. MaxSent - 1
  /\ \A s \in DOMAIN buffer : buffer[s] \in Payload
  /\ sent \in Seq(Payload) /\ delivered \in Seq(Payload)
  /\ seen \subseteq SeqNo
  /\ lost \in Nat /\ repeated \in Nat

Init ==
  /\ base = 0 /\ next_seq = 0
  /\ queue = [s \in {} |-> 0]
  /\ frames = [f \in Frame |-> 0]
  /\ acks = [a \in AckFrame |-> 0]
  /\ filter = FreshFilter
  /\ next_expected = 0
  /\ buffer = [s \in {} |-> 0]
  /\ sent = <<>> /\ delivered = <<>>
  /\ seen = {}
  /\ lost = 0 /\ repeated = 0

------------------------------------------------------------------------------
(* Sender *)

\* Mutant: one slot too many.
WindowAvailableOffByOne == WindowSize - (next_seq - base) + 1

\* SlidingWindow::window_available
WindowAvailable == WindowSize - (next_seq - base)

Send ==
  /\ next_seq < MaxSent
  /\ WindowAvailable > 0
  /\ LET m == Message[next_seq + 1]
         f == [seq |-> next_seq, payload |-> m]
         e == [payload |-> m, retransmissions |-> 0, state |-> "Pending"]
     IN  /\ queue' = [s \in DOMAIN queue \cup {next_seq} |->
                        IF s = next_seq THEN e ELSE queue[s]]
         /\ frames' = [frames EXCEPT ![f] = @ + 1]
         /\ sent' = Append(sent, m)
  /\ next_seq' = next_seq + 1
  /\ UNCHANGED <<base, acks, receiver, lost, repeated>>

\* ReliableSender::ack: acked_seq, and acked_seq - (i + 1) for every bit i.
AckedBy(a) == {a.acked_seq} \cup {a.acked_seq - (i + 1) : i \in a.ack_bits}

\* mark_delivered, whatever the state of the entry.
MarkDelivered(q, S) ==
  [s \in DOMAIN q |-> IF s \in S THEN [q[s] EXCEPT !.state = "Acked"] ELSE q[s]]

\* Mutant: the base jumps past the last acknowledged entry.
SlidesToLastAcked(q, b) ==
  /\ \A s \in DOMAIN q : s >= b => q[s].state # "Acked"
  /\ b - 1 \in DOMAIN q => q[b - 1].state = "Acked"

\* The loop that pops acknowledged entries off the front of the queue stops at b.
SlidesTo(q, b) ==
  /\ \A s \in DOMAIN q : s < b => q[s].state = "Acked"
  /\ b \in DOMAIN q => q[b].state # "Acked"

Ack(a) ==
  /\ acks[a] > 0
  /\ acks' = [acks EXCEPT ![a] = @ - 1]
  /\ LET q == MarkDelivered(queue, AckedBy(a))
     IN  \E b \in base .. next_seq :
           /\ SlidesTo(q, b)
           /\ base' = b
           /\ queue' = [s \in {t \in DOMAIN q : t >= b} |-> q[s]]
  /\ UNCHANGED <<next_seq, sent, frames, receiver, lost, repeated>>

Pending == {s \in DOMAIN queue : queue[s].state = "Pending"}

\* mark_timeout: which entries have been waiting for rto is the clock's choice.
MarkTimeout(S) ==
  /\ queue' = [s \in DOMAIN queue |->
                 IF s \in S THEN [queue[s] EXCEPT !.state = "TimedOut"] ELSE queue[s]]
  /\ UNCHANGED <<base, next_seq, sent, frames, acks, receiver, lost, repeated>>

\* Mutant: the last retry of the budget is never used.
RetryableOffByOne ==
  {s \in DOMAIN queue : /\ queue[s].state = "TimedOut"
                        /\ queue[s].retransmissions + 1 < MaxRetransmissions}

\* Timed-out entries with retry budget left; the others stay as they are for good.
Retryable ==
  {s \in DOMAIN queue : /\ queue[s].state = "TimedOut"
                        /\ queue[s].retransmissions < MaxRetransmissions}

Retransmit ==
  /\ Retryable # {}
  /\ queue' = [s \in DOMAIN queue |->
                 IF s \in Retryable
                 THEN [queue[s] EXCEPT !.retransmissions = @ + 1, !.state = "Pending"]
                 ELSE queue[s]]
  /\ frames' = [f \in Frame |->
                  IF f.seq \in Retryable /\ queue[f.seq].payload = f.payload
                  THEN frames[f] + 1 ELSE frames[f]]
  /\ UNCHANGED <<base, next_seq, sent, acks, receiver, lost, repeated>>

------------------------------------------------------------------------------
(* Receiver *)

\* Mutant: payloads are taken in the order they arrive.
InsertAsArrived(f) ==
  [s \in DOMAIN buffer \cup {next_expected} |->
     IF s = next_expected THEN f.payload ELSE buffer[s]]

\* OrderedAssembler::insert
Insert(f) ==
  IF f.seq >= next_expected
  THEN [s \in DOMAIN buffer \cup {f.seq} |->
          IF s = f.seq THEN f.payload ELSE buffer[s]]
  ELSE buffer

\* OrderedAssembler::assemble drains next_expected .. n - 1 and stops at n.
Contiguous(buf, n) ==
  /\ \A s \in next_expected .. n - 1 : s \in DOMAIN buf
  /\ n \notin DOMAIN buf

\* The acknowledgments the receiving application may send on being handed s:
\* reliability.rs leaves that to its caller (as in tests/reliability_tests.rs).
AcksFor(s, got) ==
  {a \in AckFrame : /\ a.acked_seq = s
                    /\ \A i \in a.ack_bits : s - (i + 1) \in got}

\* ReliableReceiver::receive, and the acknowledgment.
Receive(f) ==
  /\ frames[f] > 0
  /\ frames' = [frames EXCEPT ![f] = @ - 1]
  /\ seen' = seen \cup {f.seq}
  /\ \E a \in AcksFor(f.seq, seen) : acks' = [acks EXCEPT ![a] = @ + 1]
  /\ IF IsDuplicate(filter, f.seq)
     THEN UNCHANGED <<filter, next_expected, buffer, delivered>>
     ELSE /\ filter' = Track(filter, f.seq)
          /\ LET buf == Insert(f)
             IN  \E n \in next_expected .. MaxSent :
                   /\ Contiguous(buf, n)
                   /\ next_expected' = n
                   /\ buffer' = [s \in {t \in DOMAIN buf : t >= n} |-> buf[s]]
                   /\ delivered' = delivered \o
                        [i \in 1 .. n - next_expected |-> buf[next_expected + i - 1]]
  /\ UNCHANGED <<sender, lost, repeated>>

------------------------------------------------------------------------------
(* Network *)

LoseFrame(f) ==
  /\ frames[f] > 0 /\ lost < MaxLost
  /\ frames' = [frames EXCEPT ![f] = @ - 1]
  /\ lost' = lost + 1
  /\ UNCHANGED <<sender, acks, receiver, repeated>>

LoseAck(a) ==
  /\ acks[a] > 0 /\ lost < MaxLost
  /\ acks' = [acks EXCEPT ![a] = @ - 1]
  /\ lost' = lost + 1
  /\ UNCHANGED <<sender, frames, receiver, repeated>>

RepeatFrame(f) ==
  /\ frames[f] > 0 /\ repeated < MaxRepeated
  /\ frames' = [frames EXCEPT ![f] = @ + 1]
  /\ repeated' = repeated + 1
  /\ UNCHANGED <<sender, acks, receiver, lost>>

RepeatAck(a) ==
  /\ acks[a] > 0 /\ repeated < MaxRepeated
  /\ acks' = [acks EXCEPT ![a] = @ + 1]
  /\ repeated' = repeated + 1
  /\ UNCHANGED <<sender, frames, receiver, lost>>

Next ==
  \/ Send
  \/ \E f \in Frame : Receive(f) \/ LoseFrame(f) \/ RepeatFrame(f)
  \/ \E a \in AckFrame : Ack(a) \/ LoseAck(a) \/ RepeatAck(a)
  \/ \E S \in SUBSET Pending \ {{}} : MarkTimeout(S)
  \/ Retransmit

Spec == Init /\ [][Next]_vars

\* The network delivers what it does not lose, and the sender's owner keeps
\* calling mark_timeout and retransmit.
Fairness ==
  /\ \A f \in Frame : WF_vars(Receive(f))
  /\ \A a \in AckFrame : WF_vars(Ack(a))
  /\ WF_vars(\E S \in SUBSET Pending \ {{}} : MarkTimeout(S))
  /\ WF_vars(Retransmit)

FairSpec == Spec /\ Fairness

------------------------------------------------------------------------------
(* Properties *)

\* The subsystem implements first-in first-out delivery.
Fifo == INSTANCE FifoDelivery WITH Payload <- Payload, sent <- sent, delivered <- delivered
DeliversInOrder == Fifo!Spec

\* The duplicate filter drops nothing that has not been received before, however
\* old: the send window never runs further ahead than the filter reaches back
\* (window_available against the 64-value window of check_and_track).
NoFreshFrameDropped ==
  \A f \in Frame : frames[f] > 0 /\ f.seq \notin seen => ~IsDuplicate(filter, f.seq)

\* The reassembly buffer, which the code does not limit, only holds frames less
\* than a send window ahead of the next one expected, so fewer than WindowSize
\* of them (OrderedAssembler::insert against ReliableSender::send).
BufferBounded ==
  \A s \in DOMAIN buffer : next_expected < s /\ s < next_expected + WindowSize

\* The window never slides past a frame the receiver has not been handed
\* (ReliableSender::ack with selective acknowledgments).
AckedWasReceived == \A s \in 0 .. base - 1 : s \in seen

\* With no more losses than retries, every payload sent is delivered and its
\* window slot is freed, although timeouts may burn the budget early.
EventuallyDelivered ==
  \A n \in 1 .. MaxSent :
    Len(sent) >= n ~> (Len(delivered) >= n /\ base >= n)
==============================================================================
