-------------------------- MODULE ReliabilityProofs --------------------------
(***************************************************************************)
(* Proofs about Reliability, for every window that fits the filter and every *)
(* number of payloads, losses, repetitions and retries.                      *)
(***************************************************************************)
EXTENDS Reliability, SequenceTheorems, TLAPS

------------------------------------------------------------------------------
(* Types *)

\* check_and_track sets no bit outside the mask.
LEMMA TrackIsFilter ==
  ASSUME NEW f \in Filter, NEW v \in Nat, ~IsDuplicate(f, v)
  PROVE  Track(f, v) \in Filter
<1>1. CASE v <= f.max
  <2>1. f.max - v \in 0 .. FilterWidth - 1
    BY <1>1, FilterWidthAssumption DEF Filter, IsDuplicate
  <2> QED
    BY <1>1, <2>1 DEF Track, Filter
<1>2. CASE ~(v <= f.max)
  BY <1>2, FilterWidthAssumption DEF Track, Filter, ShiftMask
<1> QED
  BY <1>1, <1>2

\* What assemble finds in the buffer after insert: the frame's payload under its
\* number unless it comes too late, and what was there before.
LEMMA InsertFacts ==
  ASSUME TypeOK, NEW f \in Frame
  PROVE  /\ DOMAIN Insert(f) = DOMAIN buffer \cup {s \in {f.seq} : s >= next_expected}
         /\ DOMAIN Insert(f) \subseteq next_expected .. MaxSent - 1
         /\ \A s \in DOMAIN Insert(f) :
              (s = f.seq /\ Insert(f)[s] = f.payload) \/ (s \in DOMAIN buffer /\ Insert(f)[s] = buffer[s])
<1> USE ReliabilityAssumption
<1>1. f.seq \in 0 .. MaxSent - 1 /\ next_expected \in 0 .. MaxSent
  BY DEF Frame, SeqNo, TypeOK
<1>2. CASE f.seq >= next_expected
  <2>1. Insert(f) = [s \in DOMAIN buffer \cup {f.seq} |-> IF s = f.seq THEN f.payload ELSE buffer[s]]
    BY <1>2 DEF Insert
  <2>2. DOMAIN Insert(f) = DOMAIN buffer \cup {f.seq}
    BY <2>1
  <2>3. \A s \in DOMAIN Insert(f) : Insert(f)[s] = IF s = f.seq THEN f.payload ELSE buffer[s]
    BY <2>1
  <2>4. DOMAIN buffer \subseteq next_expected .. MaxSent - 1
    BY DEF TypeOK
  <2>5. f.seq \in next_expected .. MaxSent - 1
    BY <1>1, <1>2
  <2>6. {s \in {f.seq} : s >= next_expected} = {f.seq}
    BY <1>2
  <2>7. DOMAIN Insert(f) \subseteq next_expected .. MaxSent - 1
    BY <2>2, <2>4, <2>5
  <2>8. \A s \in DOMAIN Insert(f) :
          (s = f.seq /\ Insert(f)[s] = f.payload) \/ (s \in DOMAIN buffer /\ Insert(f)[s] = buffer[s])
    BY <2>2, <2>3
  <2> QED
    BY <2>2, <2>6, <2>7, <2>8
<1>3. CASE ~(f.seq >= next_expected)
  BY <1>1, <1>3 DEF Insert, TypeOK
<1> QED
  BY <1>2, <1>3

\* Every step keeps the types.
LEMMA ReliabilityTypeStep == TypeOK /\ [Next]_vars => TypeOK'
<1> USE ReliabilityAssumption, FilterWidthAssumption
<1> SUFFICES ASSUME TypeOK, [Next]_vars PROVE TypeOK'
  OBVIOUS
<1>1. CASE Send
  <2> DEFINE m == Message[next_seq + 1]
             f == [seq |-> next_seq, payload |-> m]
             e == [payload |-> m, retransmissions |-> 0, state |-> "Pending"]
  <2>1. m \in Payload /\ next_seq \in Nat /\ base \in Nat /\ base <= next_seq /\ next_seq + 1 <= MaxSent
    BY <1>1 DEF Send, TypeOK
  <2>2. f \in Frame /\ e \in Entry
    BY <2>1 DEF Frame, Entry, SeqNo
  <2>3. queue' = [s \in DOMAIN queue \cup {next_seq} |-> IF s = next_seq THEN e ELSE queue[s]]
    BY <1>1 DEF Send
  <2>4. DOMAIN queue \cup {next_seq} = base .. (next_seq + 1) - 1
    BY <2>1 DEF TypeOK
  <2>5. queue' \in [base .. (next_seq + 1) - 1 -> Entry]
    BY <2>2, <2>3, <2>4 DEF TypeOK
  <2>6. frames' = [frames EXCEPT ![f] = @ + 1] /\ sent' = Append(sent, m)
    BY <1>1 DEF Send
  <2>7. frames' \in [Frame -> Nat] /\ sent' \in Seq(Payload)
    BY <2>1, <2>2, <2>6, AppendProperties DEF TypeOK
  <2> QED
    BY <1>1, <2>1, <2>5, <2>7 DEF Send, TypeOK, receiver
<1>2. ASSUME NEW f \in Frame, Receive(f) PROVE TypeOK'
  <2>1. frames' \in [Frame -> Nat]
    BY <1>2 DEF Receive, TypeOK
  <2>a. f.seq \in SeqNo /\ f.payload \in Payload
    BY DEF Frame
  <2>2. acks' \in [AckFrame -> Nat]
    BY <1>2 DEF Receive, AcksFor, TypeOK
  <2>3. seen' \subseteq SeqNo
    BY <1>2, <2>a DEF Receive, TypeOK
  <2>4. /\ filter' \in Filter
        /\ next_expected' \in 0 .. MaxSent
        /\ DOMAIN buffer' \subseteq next_expected' .. MaxSent - 1
        /\ \A s \in DOMAIN buffer' : buffer'[s] \in Payload
        /\ delivered' \in Seq(Payload)
    <3>1. CASE IsDuplicate(filter, f.seq)
      BY <1>2, <3>1 DEF Receive, TypeOK
    <3>2. CASE ~IsDuplicate(filter, f.seq)
      <4> DEFINE buf == Insert(f)
      <4>1. PICK n \in next_expected .. MaxSent :
              /\ Contiguous(buf, n)
              /\ next_expected' = n
              /\ buffer' = [s \in {t \in DOMAIN buf : t >= n} |-> buf[s]]
              /\ delivered' = delivered \o
                   [i \in 1 .. n - next_expected |-> buf[next_expected + i - 1]]
        BY <1>2, <3>2 DEF Receive
      <4>2. DOMAIN buf \subseteq next_expected .. MaxSent - 1 /\ \A s \in DOMAIN buf : buf[s] \in Payload
        BY <2>a, InsertFacts DEF TypeOK
      <4>3. filter' \in Filter
        BY <1>2, <2>a, <3>2, TrackIsFilter DEF Receive, TypeOK, SeqNo
      <4>4. next_expected \in 0 .. MaxSent
        BY DEF TypeOK
      <4> HIDE DEF buf
      <4>5. \A i \in 1 .. n - next_expected : next_expected + i - 1 \in DOMAIN buf
        BY <4>1, <4>4 DEF Contiguous
      <4>a. n - next_expected \in Nat
        BY <4>1, <4>4
      <4>b. \A i \in 1 .. n - next_expected : buf[next_expected + i - 1] \in Payload
        BY <4>2, <4>5
      <4>6. [i \in 1 .. n - next_expected |-> buf[next_expected + i - 1]] \in Seq(Payload)
        BY <4>a, <4>b
      <4>7. delivered' \in Seq(Payload)
        BY <4>1, <4>6, ConcatProperties DEF TypeOK
      <4> QED
        BY <4>1, <4>2, <4>3, <4>4, <4>7
    <3> QED
      BY <3>1, <3>2
  <2> QED
    BY <1>2, <2>1, <2>2, <2>3, <2>4 DEF Receive, TypeOK, sender
<1>3. ASSUME NEW f \in Frame, LoseFrame(f) PROVE TypeOK'
  BY <1>3 DEF LoseFrame, TypeOK, sender, receiver
<1>4. ASSUME NEW f \in Frame, RepeatFrame(f) PROVE TypeOK'
  BY <1>4 DEF RepeatFrame, TypeOK, sender, receiver
<1>5. ASSUME NEW a \in AckFrame, Ack(a) PROVE TypeOK'
  <2> DEFINE q == MarkDelivered(queue, AckedBy(a))
  <2>1. q \in [base .. next_seq - 1 -> Entry]
    BY DEF MarkDelivered, TypeOK, Entry
  <2>2. PICK b \in base .. next_seq :
          base' = b /\ queue' = [s \in {t \in DOMAIN q : t >= b} |-> q[s]]
    BY <1>5 DEF Ack
  <2>3. DOMAIN q = base .. next_seq - 1
    BY <2>1
  <2> HIDE DEF q
  <2>4. {t \in DOMAIN q : t >= b} = b .. next_seq - 1
    BY <2>3 DEF TypeOK
  <2>5. queue' \in [b .. next_seq - 1 -> Entry]
    BY <2>1, <2>2, <2>4 DEF TypeOK
  <2>6. acks' \in [AckFrame -> Nat]
    BY <1>5 DEF Ack, TypeOK
  <2> QED
    BY <1>5, <2>2, <2>5, <2>6 DEF Ack, TypeOK, receiver
<1>6. ASSUME NEW a \in AckFrame, LoseAck(a) PROVE TypeOK'
  BY <1>6 DEF LoseAck, TypeOK, sender, receiver
<1>7. ASSUME NEW a \in AckFrame, RepeatAck(a) PROVE TypeOK'
  BY <1>7 DEF RepeatAck, TypeOK, sender, receiver
<1>8. ASSUME NEW S \in SUBSET Pending, MarkTimeout(S) PROVE TypeOK'
  <2>1. queue' \in [base .. next_seq - 1 -> Entry]
    BY <1>8 DEF MarkTimeout, TypeOK, Entry
  <2> QED
    BY <1>8, <2>1 DEF MarkTimeout, TypeOK, receiver
<1>9. CASE Retransmit
  <2>1. ASSUME NEW s \in Retryable
        PROVE [queue[s] EXCEPT !.retransmissions = @ + 1, !.state = "Pending"] \in Entry
    <3>1. queue[s] \in Entry /\ queue[s].retransmissions + 1 \in 0 .. MaxRetransmissions
      BY DEF Retryable, TypeOK, Entry
    <3> QED
      BY <3>1 DEF Entry
  <2>2. queue' \in [base .. next_seq - 1 -> Entry]
    BY <1>9, <2>1 DEF Retransmit, TypeOK
  <2>3. frames' \in [Frame -> Nat]
    <3>1. frames' = [f \in Frame |->
                       IF f.seq \in Retryable /\ queue[f.seq].payload = f.payload
                       THEN frames[f] + 1 ELSE frames[f]]
      BY <1>9 DEF Retransmit
    <3> QED
      BY <3>1 DEF TypeOK
  <2> QED
    BY <1>9, <2>2, <2>3 DEF Retransmit, TypeOK, receiver
<1>10. CASE UNCHANGED vars
  BY <1>10 DEF vars, sender, receiver, TypeOK
<1> QED
  BY <1>1, <1>2, <1>3, <1>4, <1>5, <1>6, <1>7, <1>8, <1>9, <1>10 DEF Next

\* The types the subsystem keeps, the queue being as long as the window is in use.
THEOREM ReliabilityTypeCorrect == Spec => []TypeOK
<1> USE ReliabilityAssumption, FilterWidthAssumption
<1>1. Init => TypeOK
  <2> SUFFICES ASSUME Init PROVE TypeOK
    OBVIOUS
  <2>1. FreshFilter \in Filter
    BY DEF FreshFilter, Filter
  <2>2. queue \in [base .. next_seq - 1 -> Entry]
    BY DEF Init
  <2> QED
    BY <2>1, <2>2 DEF Init, TypeOK
<1> QED
  BY <1>1, ReliabilityTypeStep, PTL DEF Spec

------------------------------------------------------------------------------
(* The inductive invariant *)

\* The sender: what was sent is what the application gave, the window is respected, and
\* only what the receiver was handed is acknowledged or slid past.
SenderInv ==
  /\ next_seq - base <= WindowSize
  /\ Len(sent) = next_seq /\ \A i \in 1 .. next_seq : sent[i] = Message[i]
  /\ \A s \in DOMAIN queue :
       queue[s].payload = Message[s + 1] /\ (queue[s].state = "Acked" => s \in seen)
  /\ \A s \in 0 .. base - 1 : s \in seen

\* The network: frames carry what was sent under their number, acknowledgments name
\* what was received.
NetworkInv ==
  /\ \A f \in Frame : frames[f] > 0 => f.seq < next_seq /\ f.payload = Message[f.seq + 1]
  /\ \A a \in AckFrame : acks[a] > 0 => AckedBy(a) \subseteq seen

\* The receiver: what it was handed is delivered or buffered, and the next one expected
\* is neither.
ReceiverInv ==
  /\ seen = (0 .. next_expected - 1) \cup DOMAIN buffer
  /\ next_expected \notin DOMAIN buffer
  /\ \A s \in seen : s < next_seq
  /\ \A s \in DOMAIN buffer : buffer[s] = Message[s + 1]
  /\ Len(delivered) = next_expected
  /\ \A i \in 1 .. next_expected : delivered[i] = Message[i]

\* The filter: it is not ahead of the sender, and its bits stand for received numbers.
FilterInv ==
  /\ filter.max = 0 \/ filter.max < next_seq
  /\ \A d \in filter.mask : filter.max - d \in seen

DeliveryInv == SenderInv /\ NetworkInv /\ ReceiverInv /\ FilterInv

\* The send window never runs further ahead than the filter reaches back, so a frame
\* that was never received is not taken for a duplicate.
LEMMA FreshIsNoDuplicate == TypeOK /\ DeliveryInv => NoFreshFrameDropped
<1> USE ReliabilityAssumption, FilterWidthAssumption, WindowFitsFilter
<1> SUFFICES ASSUME TypeOK, DeliveryInv, NEW f \in Frame, frames[f] > 0,
                    f.seq \notin seen, IsDuplicate(filter, f.seq)
             PROVE  FALSE
  BY DEF NoFreshFrameDropped
<1>1. f.seq \in Nat /\ filter.max \in Nat /\ base \in Nat /\ next_seq \in Nat
  BY DEF Frame, SeqNo, TypeOK, Filter
<1>2. base <= f.seq
  BY <1>1 DEF DeliveryInv, SenderInv
<1>3. f.seq < next_seq /\ next_seq - base <= WindowSize
  BY DEF DeliveryInv, NetworkInv, SenderInv
<1>4. f.seq <= filter.max /\ (filter.max - f.seq >= FilterWidth \/ filter.max - f.seq \in filter.mask)
  BY DEF IsDuplicate
<1>5. CASE filter.max - f.seq >= FilterWidth
  BY <1>1, <1>2, <1>3, <1>4, <1>5 DEF DeliveryInv, FilterInv
<1>6. CASE filter.max - f.seq \in filter.mask
  <2>1. filter.max - (filter.max - f.seq) \in seen
    BY <1>6 DEF DeliveryInv, FilterInv
  <2> QED
    BY <1>1, <2>1
<1> QED
  BY <1>4, <1>5, <1>6

\* Tracking keeps the bits true to what has been received.
LEMMA TrackKeeps ==
  ASSUME NEW f \in Filter, NEW v \in Nat, NEW S, ~IsDuplicate(f, v),
         \A d \in f.mask : f.max - d \in S
  PROVE  /\ \A d \in Track(f, v).mask : Track(f, v).max - d \in S \cup {v}
         /\ Track(f, v).max = IF v <= f.max THEN f.max ELSE v
<1> USE FilterWidthAssumption
<1>0. f.max \in Nat /\ \A d \in f.mask : d \in Nat
  BY DEF Filter
<1>1. CASE v <= f.max
  <2>1. Track(f, v).max = f.max /\ Track(f, v).mask = f.mask \cup {f.max - v}
    BY <1>1 DEF Track, Filter
  <2>2. f.max - (f.max - v) = v
    BY <1>0
  <2> QED
    BY <1>1, <2>1, <2>2
<1>2. CASE ~(v <= f.max)
  <2>1. Track(f, v).max = v /\ Track(f, v).mask = ShiftMask(f.mask, v - f.max) \cup {0}
    BY <1>2 DEF Track
  <2>2. ASSUME NEW d \in ShiftMask(f.mask, v - f.max) PROVE v - d \in S
    <3>1. d \in Int /\ d - (v - f.max) \in f.mask
      BY DEF ShiftMask
    <3>2. f.max - (d - (v - f.max)) \in S
      BY <3>1
    <3>3. f.max - (d - (v - f.max)) = v - d
      BY <1>0, <3>1
    <3> QED
      BY <3>2, <3>3
  <2> QED
    BY <1>2, <2>1, <2>2
<1> QED
  BY <1>1, <1>2

\* What receive does with a frame that is not a duplicate: the run of payloads it can
\* complete is delivered, up to the first number it has not been handed.
LEMMA ReceiveFacts ==
  ASSUME TypeOK, DeliveryInv, NEW f \in Frame, Receive(f), ~IsDuplicate(filter, f.seq)
  PROVE  /\ next_expected <= next_expected' /\ next_expected' <= next_seq
         /\ ReceiverInv'
<1> USE ReliabilityAssumption
<1> DEFINE buf == Insert(f)
<1>1. PICK n \in next_expected .. MaxSent :
        /\ Contiguous(buf, n)
        /\ next_expected' = n
        /\ buffer' = [s \in {t \in DOMAIN buf : t >= n} |-> buf[s]]
        /\ delivered' = delivered \o
             [i \in 1 .. n - next_expected |-> buf[next_expected + i - 1]]
  BY DEF Receive
<1>2. seen' = seen \cup {f.seq} /\ next_seq' = next_seq
  BY DEF Receive, sender
<1>3. f.seq \in 0 .. MaxSent - 1 /\ f.seq < next_seq /\ f.payload = Message[f.seq + 1]
  BY DEF Receive, DeliveryInv, NetworkInv, Frame, SeqNo
<1>4. next_expected \in 0 .. MaxSent /\ next_seq \in Nat
  BY DEF TypeOK
<1>5. /\ DOMAIN buf = DOMAIN buffer \cup {s \in {f.seq} : s >= next_expected}
      /\ DOMAIN buf \subseteq next_expected .. MaxSent - 1
  BY InsertFacts
<1>6. \A s \in DOMAIN buf : buf[s] = Message[s + 1]
  BY <1>3, InsertFacts DEF DeliveryInv, ReceiverInv
<1> HIDE DEF buf
<1>7. \A s \in DOMAIN buf : s < next_seq
  BY <1>3, <1>5 DEF DeliveryInv, ReceiverInv
<1>8. seen' = (0 .. next_expected - 1) \cup DOMAIN buf
  <2>1. seen = (0 .. next_expected - 1) \cup DOMAIN buffer
    BY DEF DeliveryInv, ReceiverInv
  <2>2. f.seq \in 0 .. next_expected - 1 \/ f.seq >= next_expected
    BY <1>3, <1>4
  <2> QED
    BY <1>2, <1>5, <2>1, <2>2
<1>9. \A s \in next_expected .. n - 1 : s \in DOMAIN buf
  BY <1>1 DEF Contiguous
<1>10. DOMAIN buffer' = {t \in DOMAIN buf : t >= n} /\ n \notin DOMAIN buf
  BY <1>1 DEF Contiguous
<1>11. seen' = (0 .. n - 1) \cup DOMAIN buffer'
  <2>1. ASSUME NEW s \in seen' PROVE s \in (0 .. n - 1) \cup DOMAIN buffer'
    BY <1>1, <1>4, <1>5, <1>8, <1>10, <2>1
  <2>2. ASSUME NEW s \in 0 .. n - 1 PROVE s \in seen'
    BY <1>4, <1>8, <1>9, <2>2
  <2>3. ASSUME NEW s \in DOMAIN buffer' PROVE s \in seen'
    BY <1>8, <1>10, <2>3
  <2> QED
    BY <2>1, <2>2, <2>3
<1>12. n <= next_seq
  <2>1. CASE n = next_expected
    <3>1. next_expected <= next_seq
      <4>1. next_expected = 0 \/ next_expected - 1 \in seen
        BY <1>4 DEF DeliveryInv, ReceiverInv
      <4> QED
        BY <1>4, <4>1 DEF DeliveryInv, ReceiverInv
    <3> QED
      BY <2>1, <3>1
  <2>2. CASE n # next_expected
    <3>1. n - 1 \in next_expected .. n - 1
      BY <1>1, <1>4, <2>2
    <3>2. n - 1 < next_seq
      BY <1>7, <1>9, <3>1
    <3> QED
      BY <1>1, <1>4, <3>2
  <2> QED
    BY <2>1, <2>2
<1>13. Len(delivered') = n /\ \A i \in 1 .. n : delivered'[i] = Message[i]
  <2> DEFINE k == n - next_expected
             run == [i \in 1 .. k |-> buf[next_expected + i - 1]]
  <2>1. k \in Nat /\ \A i \in 1 .. k : next_expected + i - 1 \in DOMAIN buf
    BY <1>1, <1>4, <1>9
  <2>2. \A i \in 1 .. k : run[i] = Message[next_expected + i] /\ run[i] \in Payload
    <3> SUFFICES ASSUME NEW i \in 1 .. k
                 PROVE  run[i] = Message[next_expected + i] /\ run[i] \in Payload
      OBVIOUS
    <3>1. next_expected + i - 1 \in DOMAIN buf /\ run[i] = buf[next_expected + i - 1]
      BY <2>1
    <3>2. (next_expected + i - 1) + 1 = next_expected + i /\ next_expected + i \in 1 .. MaxSent
      BY <1>1, <1>4, <2>1
    <3> QED
      BY <1>6, <3>1, <3>2
  <2>3. run \in Seq(Payload) /\ Len(run) = k
    BY <2>1, <2>2
  <2>4. /\ delivered \in Seq(Payload) /\ Len(delivered) = next_expected
        /\ \A i \in 1 .. next_expected : delivered[i] = Message[i]
    BY DEF TypeOK, DeliveryInv, ReceiverInv
  <2>5. delivered' = delivered \o run
    BY <1>1
  <2> HIDE DEF run, k
  <2>6. /\ Len(delivered') = next_expected + k
        /\ \A i \in 1 .. next_expected + k :
             delivered'[i] = IF i <= next_expected THEN delivered[i] ELSE run[i - next_expected]
    BY <2>3, <2>4, <2>5, ConcatProperties
  <2>7. next_expected + k = n
    BY <1>1, <1>4 DEF k
  <2>8. ASSUME NEW i \in 1 .. n PROVE delivered'[i] = Message[i]
    <3>1. CASE i <= next_expected
      BY <1>4, <2>4, <2>6, <2>7, <3>1
    <3>2. CASE ~(i <= next_expected)
      <4>1. i - next_expected \in 1 .. k /\ next_expected + (i - next_expected) = i
        BY <1>1, <1>4, <2>1, <2>7, <3>2
      <4>2. delivered'[i] = run[i - next_expected]
        BY <1>4, <2>6, <2>7, <3>2
      <4> QED
        BY <2>2, <4>1, <4>2
    <3> QED
      BY <3>1, <3>2
  <2> QED
    BY <2>6, <2>7, <2>8
<1>14. n \notin DOMAIN buffer' /\ \A s \in DOMAIN buffer' : buffer'[s] = Message[s + 1]
  BY <1>1, <1>6, <1>10
<1>15. \A s \in seen' : s < next_seq
  BY <1>2, <1>3 DEF DeliveryInv, ReceiverInv
<1>16. next_expected' = n /\ next_expected <= n
  BY <1>1, <1>4
<1>17. ReceiverInv'
  <2>1. \A s \in seen' : s < next_seq'
    BY <1>2, <1>15
  <2> QED
    BY <1>11, <1>13, <1>14, <1>16, <2>1 DEF ReceiverInv
<1> QED
  BY <1>12, <1>16, <1>17
\* The network neither makes up nor alters frames and acknowledgments.
LEMMA NothingNew ==
  ASSUME TypeOK, DeliveryInv, UNCHANGED <<sender, receiver>>,
         \A f \in Frame : frames'[f] > 0 => frames[f] > 0,
         \A a \in AckFrame : acks'[a] > 0 => acks[a] > 0
  PROVE  DeliveryInv'
BY DEF DeliveryInv, SenderInv, NetworkInv, ReceiverInv, FilterInv, sender, receiver

\* send keeps the window and puts on the network what the application gave.
LEMMA SendKeeps ==
  ASSUME TypeOK, DeliveryInv, Send PROVE DeliveryInv'
<1> USE ReliabilityAssumption
<1> DEFINE m == Message[next_seq + 1]
           f == [seq |-> next_seq, payload |-> m]
           e == [payload |-> m, retransmissions |-> 0, state |-> "Pending"]
<1>1. /\ next_seq < MaxSent /\ WindowSize - (next_seq - base) > 0
      /\ next_seq' = next_seq + 1 /\ base' = base /\ acks' = acks
      /\ UNCHANGED receiver
  BY DEF Send, WindowAvailable
<1>2. /\ queue' = [s \in DOMAIN queue \cup {next_seq} |-> IF s = next_seq THEN e ELSE queue[s]]
      /\ frames' = [frames EXCEPT ![f] = @ + 1]
      /\ sent' = Append(sent, m)
  BY DEF Send
<1>3. next_seq \in Nat /\ base \in Nat /\ m \in Payload /\ f \in Frame
  BY <1>1 DEF TypeOK, Frame, SeqNo
<1>4. SenderInv'
  <2>1. (next_seq + 1) - base <= WindowSize
    BY <1>1, <1>3
  <2>2. Len(sent') = next_seq + 1 /\ \A i \in 1 .. next_seq + 1 : sent'[i] = Message[i]
    <3>1. sent \in Seq(Payload) /\ Len(sent) = next_seq /\ \A i \in 1 .. next_seq : sent[i] = Message[i]
      BY DEF TypeOK, DeliveryInv, SenderInv
    <3>2. /\ Len(sent') = next_seq + 1
          /\ \A i \in 1 .. next_seq : sent'[i] = sent[i]
          /\ sent'[next_seq + 1] = m
      BY <1>2, <1>3, <3>1, AppendProperties
    <3>3. \A i \in 1 .. next_seq + 1 : i \in 1 .. next_seq \/ i = next_seq + 1
      BY <1>3
    <3> QED
      BY <3>1, <3>2, <3>3
  <2>3. \A s \in DOMAIN queue' :
          queue'[s].payload = Message[s + 1] /\ (queue'[s].state = "Acked" => s \in seen')
    <3>1. \A s \in DOMAIN queue' : queue'[s] = IF s = next_seq THEN e ELSE queue[s]
      BY <1>2
    <3>2. \A s \in DOMAIN queue' : s = next_seq \/ s \in DOMAIN queue
      BY <1>2
    <3> QED
      BY <1>1, <3>1, <3>2 DEF DeliveryInv, SenderInv, receiver
  <2> QED
    BY <1>1, <2>1, <2>2, <2>3 DEF DeliveryInv, SenderInv, receiver
<1>5. NetworkInv'
  <2>1. ASSUME NEW g \in Frame, frames'[g] > 0
        PROVE  g.seq < next_seq' /\ g.payload = Message[g.seq + 1]
    <3>1. CASE g = f
      BY <1>1, <1>3, <3>1
    <3>2. CASE g # f
      <4>1. frames[g] > 0
        BY <1>2, <2>1, <3>2 DEF TypeOK
      <4>2. g.seq < next_seq /\ g.payload = Message[g.seq + 1] /\ g.seq \in Int
        BY <4>1 DEF DeliveryInv, NetworkInv, Frame, SeqNo
      <4> QED
        BY <1>1, <1>3, <4>2
    <3> QED
      BY <3>1, <3>2
  <2> QED
    BY <1>1, <2>1 DEF DeliveryInv, NetworkInv, receiver
<1>6. ReceiverInv'
  <2>1. \A s \in seen : s < next_seq + 1
    BY <1>3 DEF DeliveryInv, ReceiverInv, TypeOK, SeqNo
  <2> QED
    BY <1>1, <2>1 DEF DeliveryInv, ReceiverInv, receiver
<1>7. FilterInv'
  <2>1. filter.max = 0 \/ filter.max < next_seq + 1
    BY <1>3 DEF DeliveryInv, FilterInv, TypeOK, Filter
  <2> QED
    BY <1>1, <2>1 DEF DeliveryInv, FilterInv, receiver
<1> QED
  BY <1>4, <1>5, <1>6, <1>7 DEF DeliveryInv

\* receive, and the acknowledgment of what was handed over.
LEMMA ReceiveKeeps ==
  ASSUME TypeOK, DeliveryInv, NEW f \in Frame, Receive(f) PROVE DeliveryInv'
<1> USE ReliabilityAssumption
<1>1. /\ frames[f] > 0 /\ frames' = [frames EXCEPT ![f] = @ - 1]
      /\ seen' = seen \cup {f.seq} /\ UNCHANGED sender
  BY DEF Receive
<1>2. f.seq \in Nat /\ f.seq < next_seq
  BY <1>1 DEF DeliveryInv, NetworkInv, Frame, SeqNo
<1>3. SenderInv'
  BY <1>1 DEF DeliveryInv, SenderInv, sender
<1>4. NetworkInv'
  <2>1. \A g \in Frame : frames'[g] > 0 => frames[g] > 0
    BY <1>1 DEF TypeOK
  <2>2. PICK a \in AcksFor(f.seq, seen) : acks' = [acks EXCEPT ![a] = @ + 1]
    BY DEF Receive
  <2>3. AckedBy(a) \subseteq seen'
    BY <1>1, <2>2 DEF AcksFor, AckedBy
  <2>4. \A b \in AckFrame : b # a => acks'[b] = acks[b]
    BY <2>2 DEF TypeOK
  <2>5. \A b \in AckFrame : acks'[b] > 0 => AckedBy(b) \subseteq seen'
    BY <1>1, <2>3, <2>4 DEF DeliveryInv, NetworkInv
  <2> QED
    BY <1>1, <2>1, <2>5 DEF DeliveryInv, NetworkInv, sender
<1>5. CASE IsDuplicate(filter, f.seq)
  <2>1. f.seq \in seen
    BY <1>1, <1>5, FreshIsNoDuplicate DEF NoFreshFrameDropped
  <2>2. seen' = seen /\ UNCHANGED <<filter, next_expected, buffer, delivered, next_seq>>
    BY <1>1, <1>5, <2>1 DEF Receive, sender
  <2>3. ReceiverInv' /\ FilterInv'
    BY <2>2 DEF DeliveryInv, ReceiverInv, FilterInv
  <2> QED
    BY <1>3, <1>4, <2>3 DEF DeliveryInv
<1>6. CASE ~IsDuplicate(filter, f.seq)
  <2>1. ReceiverInv'
    BY <1>6, ReceiveFacts
  <2>2. filter' = Track(filter, f.seq) /\ filter \in Filter
    BY <1>6 DEF Receive, TypeOK
  <2>3. \A d \in filter.mask : filter.max - d \in seen
    BY DEF DeliveryInv, FilterInv
  <2>4. /\ \A d \in filter'.mask : filter'.max - d \in seen'
        /\ filter'.max = IF f.seq <= filter.max THEN filter.max ELSE f.seq
    BY <1>1, <1>2, <1>6, <2>2, <2>3, TrackKeeps
  <2>5. FilterInv'
    BY <1>1, <1>2, <2>4 DEF DeliveryInv, FilterInv, sender
  <2> QED
    BY <1>3, <1>4, <2>1, <2>5 DEF DeliveryInv
<1> QED
  BY <1>5, <1>6

\* ack, which slides the window over acknowledged entries only.
LEMMA AckKeeps ==
  ASSUME TypeOK, DeliveryInv, NEW a \in AckFrame, Ack(a) PROVE DeliveryInv'
<1> USE ReliabilityAssumption
<1> DEFINE q == MarkDelivered(queue, AckedBy(a))
<1>1. acks[a] > 0 /\ acks' = [acks EXCEPT ![a] = @ - 1] /\ UNCHANGED <<next_seq, sent, frames, receiver>>
  BY DEF Ack
<1>2. PICK b \in base .. next_seq :
        /\ SlidesTo(q, b)
        /\ base' = b
        /\ queue' = [s \in {t \in DOMAIN q : t >= b} |-> q[s]]
  BY DEF Ack
<1>3. AckedBy(a) \subseteq seen
  BY <1>1 DEF DeliveryInv, NetworkInv
<1>4. /\ DOMAIN q = base .. next_seq - 1
      /\ \A s \in DOMAIN q : q[s].payload = Message[s + 1] /\ (q[s].state = "Acked" => s \in seen)
  <2>1. DOMAIN q = DOMAIN queue /\ DOMAIN queue = base .. next_seq - 1
    BY DEF MarkDelivered, TypeOK
  <2>2. ASSUME NEW s \in DOMAIN queue
        PROVE  q[s].payload = Message[s + 1] /\ (q[s].state = "Acked" => s \in seen)
    <3>1. queue[s] \in Entry /\ queue[s].payload = Message[s + 1] /\ (queue[s].state = "Acked" => s \in seen)
      BY <2>1 DEF TypeOK, DeliveryInv, SenderInv
    <3>2. CASE s \in AckedBy(a)
      BY <1>3, <3>1, <3>2 DEF MarkDelivered, Entry
    <3>3. CASE s \notin AckedBy(a)
      BY <3>1, <3>3 DEF MarkDelivered
    <3> QED
      BY <3>2, <3>3
  <2> QED
    BY <2>1, <2>2
<1> HIDE DEF q
<1>5. base \in Nat /\ next_seq \in Nat /\ b \in Nat
  BY <1>2 DEF TypeOK
<1>6. SenderInv'
  <2>1. next_seq - b <= WindowSize
    BY <1>2, <1>5 DEF DeliveryInv, SenderInv
  <2>2. \A s \in 0 .. b - 1 : s \in seen
    <3> SUFFICES ASSUME NEW s \in 0 .. b - 1 PROVE s \in seen
      OBVIOUS
    <3>1. CASE s < base
      BY <1>5, <3>1 DEF DeliveryInv, SenderInv
    <3>2. CASE ~(s < base)
      <4>1. s \in DOMAIN q /\ s < b
        BY <1>2, <1>4, <1>5, <3>2
      <4> QED
        BY <1>2, <1>4, <4>1 DEF SlidesTo
    <3> QED
      BY <3>1, <3>2
  <2>3. \A s \in DOMAIN queue' :
          queue'[s].payload = Message[s + 1] /\ (queue'[s].state = "Acked" => s \in seen)
    BY <1>2, <1>4
  <2> QED
    BY <1>1, <1>2, <2>1, <2>2, <2>3 DEF DeliveryInv, SenderInv, receiver
<1>7. NetworkInv'
  <2>1. \A c \in AckFrame : acks'[c] > 0 => acks[c] > 0
    BY <1>1 DEF TypeOK
  <2> QED
    BY <1>1, <2>1 DEF DeliveryInv, NetworkInv, receiver
<1>8. ReceiverInv' /\ FilterInv'
  BY <1>1 DEF DeliveryInv, ReceiverInv, FilterInv, receiver
<1> QED
  BY <1>6, <1>7, <1>8 DEF DeliveryInv

\* retransmit sends the payload of the entry again.
LEMMA RetransmitKeeps ==
  ASSUME TypeOK, DeliveryInv, Retransmit PROVE DeliveryInv'
<1>1. UNCHANGED <<base, next_seq, sent, acks, receiver>>
  BY DEF Retransmit
<1>2. \A s \in DOMAIN queue' :
        queue'[s].payload = Message[s + 1] /\ (queue'[s].state = "Acked" => s \in seen)
  <2>1. queue' = [s \in DOMAIN queue |->
                 IF s \in Retryable
                 THEN [queue[s] EXCEPT !.retransmissions = @ + 1, !.state = "Pending"]
                 ELSE queue[s]]
    BY DEF Retransmit
  <2>2. DOMAIN queue' = DOMAIN queue
    BY <2>1
  <2>3. ASSUME NEW s \in DOMAIN queue
        PROVE  queue'[s].payload = Message[s + 1] /\ (queue'[s].state = "Acked" => s \in seen)
    <3>1. queue[s] \in Entry /\ queue[s].payload = Message[s + 1] /\ (queue[s].state = "Acked" => s \in seen)
      BY DEF TypeOK, DeliveryInv, SenderInv
    <3>2. CASE s \in Retryable
      BY <2>1, <3>1, <3>2 DEF Entry
    <3>3. CASE s \notin Retryable
      BY <2>1, <3>1, <3>3
    <3> QED
      BY <3>2, <3>3
  <2> QED
    BY <2>2, <2>3
<1>3. \A f \in Frame : frames'[f] > 0 => f.seq < next_seq /\ f.payload = Message[f.seq + 1]
  <2> SUFFICES ASSUME NEW f \in Frame, frames'[f] > 0
               PROVE  f.seq < next_seq /\ f.payload = Message[f.seq + 1]
    OBVIOUS
  <2>1. CASE f.seq \in Retryable /\ queue[f.seq].payload = f.payload
    BY <2>1 DEF Retryable, TypeOK, DeliveryInv, SenderInv
  <2>2. CASE ~(f.seq \in Retryable /\ queue[f.seq].payload = f.payload)
    <3>1. frames'[f] = frames[f]
      BY <2>2 DEF Retransmit
    <3> QED
      BY <3>1 DEF DeliveryInv, NetworkInv
  <2> QED
    BY <2>1, <2>2
<1>4. SenderInv' /\ NetworkInv'
  BY <1>1, <1>2, <1>3 DEF DeliveryInv, SenderInv, NetworkInv, receiver
<1>5. ReceiverInv' /\ FilterInv'
  BY <1>1 DEF DeliveryInv, ReceiverInv, FilterInv, receiver
<1> QED
  BY <1>4, <1>5 DEF DeliveryInv

\* mark_timeout changes neither payloads nor acknowledged entries.
LEMMA MarkTimeoutKeeps ==
  ASSUME TypeOK, DeliveryInv, NEW S \in SUBSET Pending, MarkTimeout(S) PROVE DeliveryInv'
<1>1. UNCHANGED <<base, next_seq, sent, frames, acks, receiver>>
  BY DEF MarkTimeout
<1>2. \A s \in DOMAIN queue' :
        queue'[s].payload = Message[s + 1] /\ (queue'[s].state = "Acked" => s \in seen)
  BY DEF MarkTimeout, TypeOK, Entry, DeliveryInv, SenderInv
<1>3. SenderInv' /\ NetworkInv'
  BY <1>1, <1>2 DEF DeliveryInv, SenderInv, NetworkInv, receiver
<1>4. ReceiverInv' /\ FilterInv'
  BY <1>1 DEF DeliveryInv, ReceiverInv, FilterInv, receiver
<1> QED
  BY <1>3, <1>4 DEF DeliveryInv

\* The invariant holds initially and every step keeps it.
LEMMA DeliveryInvariant == Spec => []DeliveryInv
<1> USE ReliabilityAssumption
<1>1. Init => DeliveryInv
  <2> SUFFICES ASSUME Init PROVE DeliveryInv
    OBVIOUS
  <2>1. SenderInv
    BY DEF Init, SenderInv
  <2>2. NetworkInv
    BY DEF Init, NetworkInv
  <2>3. ReceiverInv
    BY DEF Init, ReceiverInv
  <2>4. FilterInv
    BY DEF Init, FilterInv, FreshFilter
  <2> QED
    BY <2>1, <2>2, <2>3, <2>4 DEF DeliveryInv
<1>2. TypeOK /\ DeliveryInv /\ [Next]_vars => DeliveryInv'
  <2> SUFFICES ASSUME TypeOK, DeliveryInv, [Next]_vars PROVE DeliveryInv'
    OBVIOUS
  <2>1. ASSUME NEW f \in Frame, LoseFrame(f) \/ RepeatFrame(f) PROVE DeliveryInv'
    <3>1. \A g \in Frame : frames'[g] > 0 => frames[g] > 0
      BY <2>1 DEF LoseFrame, RepeatFrame, TypeOK
    <3> QED
      BY <2>1, <3>1, NothingNew DEF LoseFrame, RepeatFrame, sender, receiver
  <2>2. ASSUME NEW a \in AckFrame, LoseAck(a) \/ RepeatAck(a) PROVE DeliveryInv'
    <3>1. \A b \in AckFrame : acks'[b] > 0 => acks[b] > 0
      BY <2>2 DEF LoseAck, RepeatAck, TypeOK
    <3> QED
      BY <2>2, <3>1, NothingNew DEF LoseAck, RepeatAck, sender, receiver
  <2>3. CASE UNCHANGED vars
    BY <2>3, NothingNew DEF vars, sender, receiver
  <2> QED
    BY <2>1, <2>2, <2>3, SendKeeps, ReceiveKeeps, AckKeeps, RetransmitKeeps, MarkTimeoutKeeps
    DEF Next
<1> QED
  BY <1>1, <1>2, ReliabilityTypeCorrect, PTL DEF Spec

------------------------------------------------------------------------------
(* Results *)

\* No frame is dropped as a duplicate before it was received once, for every window that
\* fits the filter of check_and_track.
THEOREM FreshFramesPass == Spec => []NoFreshFrameDropped
BY FreshIsNoDuplicate, ReliabilityTypeCorrect, DeliveryInvariant, PTL

\* The window slides only over frames that the receiver was handed.
THEOREM SlidesOverReceived == Spec => []AckedWasReceived
<1>1. DeliveryInv => AckedWasReceived
  BY DEF DeliveryInv, SenderInv, AckedWasReceived
<1> QED
  BY <1>1, DeliveryInvariant, PTL

\* The reassembly buffer needs no limit of its own: the next number expected was not
\* received, so the window has not slid past it, and every buffered number is inside.
THEOREM BufferStaysBounded == Spec => []BufferBounded
<1>1. TypeOK /\ DeliveryInv => BufferBounded
  <2> SUFFICES ASSUME TypeOK, DeliveryInv, NEW s \in DOMAIN buffer
               PROVE  next_expected < s /\ s < next_expected + WindowSize
    BY DEF BufferBounded
  <2> USE ReliabilityAssumption
  <2>1. next_expected \in Nat /\ base \in Nat /\ next_seq \in Nat /\ s \in Nat /\ next_expected <= s
    BY DEF TypeOK
  <2>2. s # next_expected
    BY DEF DeliveryInv, ReceiverInv
  <2>3. next_expected \notin seen
    BY <2>1 DEF DeliveryInv, ReceiverInv
  <2>4. base <= next_expected
    BY <2>1, <2>3 DEF DeliveryInv, SenderInv
  <2>5. s < next_seq /\ next_seq - base <= WindowSize
    BY DEF DeliveryInv, ReceiverInv, SenderInv
  <2> QED
    BY <2>1, <2>2, <2>4, <2>5
<1> QED
  BY <1>1, ReliabilityTypeCorrect, DeliveryInvariant, PTL

\* The subsystem implements first-in first-out delivery: a send is a send, a reception
\* delivers a longer prefix of what was sent or nothing, and every other step stutters.
THEOREM ImplementsFifo == Spec => DeliversInOrder
<1> USE ReliabilityAssumption
<1>1. Init => Fifo!Init
  BY DEF Init, Fifo!Init
<1>2. TypeOK /\ DeliveryInv /\ [Next]_vars => [Fifo!Next]_(Fifo!vars)
  <2> SUFFICES ASSUME TypeOK, DeliveryInv, [Next]_vars PROVE [Fifo!Next]_(Fifo!vars)
    OBVIOUS
  <2>1. CASE Send
    <3>1. Message[next_seq + 1] \in Payload
      BY <2>1 DEF Send, TypeOK
    <3> QED
      BY <2>1, <3>1 DEF Send, receiver, Fifo!Next, Fifo!Send
  <2>2. ASSUME NEW f \in Frame, Receive(f) PROVE [Fifo!Next]_(Fifo!vars)
    <3>1. sent' = sent
      BY <2>2 DEF Receive, sender
    <3>2. CASE IsDuplicate(filter, f.seq)
      BY <2>2, <3>1, <3>2 DEF Receive, Fifo!vars
    <3>3. CASE ~IsDuplicate(filter, f.seq)
      <4> DEFINE n == next_expected'
      <4>1. next_expected <= n /\ n <= next_seq /\ ReceiverInv'
        BY <2>2, <3>3, ReceiveFacts
      <4>2. TypeOK' 
        BY <2>2, ReliabilityTypeStep DEF Next
      <4>3. /\ n \in Nat /\ next_expected \in Nat /\ next_seq \in Nat
            /\ delivered \in Seq(Payload) /\ delivered' \in Seq(Payload) /\ sent \in Seq(Payload)
        BY <4>2 DEF TypeOK
      <4>4. /\ Len(delivered) = next_expected /\ Len(delivered') = n /\ Len(sent) = next_seq
            /\ \A i \in 1 .. next_expected : delivered[i] = Message[i]
            /\ \A i \in 1 .. n : delivered'[i] = Message[i]
            /\ \A i \in 1 .. next_seq : sent[i] = Message[i]
        BY <4>1 DEF DeliveryInv, ReceiverInv, SenderInv
      <4> HIDE DEF n
      <4>5. /\ SubSeq(sent, 1, n) \in Seq(Payload)
            /\ Len(SubSeq(sent, 1, n)) = n
            /\ \A i \in 1 .. n : SubSeq(sent, 1, n)[i] = sent[i]
        <5>1. \A i \in 1 .. n : sent[i] \in Payload
          BY <4>1, <4>3, <4>4
        <5>2. /\ SubSeq(sent, 1, n) \in Seq(Payload)
              /\ Len(SubSeq(sent, 1, n)) = IF 1 <= n THEN n - 1 + 1 ELSE 0
              /\ \A i \in 1 .. n - 1 + 1 : SubSeq(sent, 1, n)[i] = sent[1 + i - 1]
          BY <4>3, <5>1, SubSeqProperties
        <5> QED
          BY <4>3, <5>2
      <4>6. delivered' = SubSeq(sent, 1, n)
        <5>1. \A i \in 1 .. n : delivered'[i] = SubSeq(sent, 1, n)[i]
          BY <4>1, <4>3, <4>4, <4>5
        <5> QED
          BY <4>3, <4>4, <4>5, <5>1, SeqEqual
      <4>7. CASE n = next_expected
        <5>1. \A i \in 1 .. n : delivered'[i] = delivered[i]
          BY <4>4, <4>7
        <5>2. delivered' = delivered
          BY <4>3, <4>4, <4>7, <5>1, SeqEqual
        <5> QED
          BY <3>1, <5>2 DEF Fifo!vars
      <4>8. CASE n # next_expected
        <5>1. n \in Len(delivered) + 1 .. Len(sent)
          BY <4>1, <4>3, <4>4, <4>8
        <5> QED
          BY <3>1, <4>6, <5>1 DEF Fifo!Next, Fifo!Deliver
      <4> QED
        BY <4>7, <4>8
    <3> QED
      BY <3>2, <3>3
  <2>3. ASSUME UNCHANGED <<sent, delivered>> PROVE [Fifo!Next]_(Fifo!vars)
    BY <2>3 DEF Fifo!vars
  <2> QED
    BY <2>1, <2>2, <2>3 DEF Next, vars, sender, receiver, LoseFrame, RepeatFrame, Ack, LoseAck,
       RepeatAck, MarkTimeout, Retransmit
<1> QED
  BY <1>1, <1>2, ReliabilityTypeCorrect, DeliveryInvariant, PTL
  DEF Spec, DeliversInOrder, Fifo!Spec
==============================================================================
