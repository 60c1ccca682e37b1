---------------------------- MODULE SessionProofs ----------------------------
(***************************************************************************)
(* Proofs about an established session.                                      *)
(*                                                                           *)
(* First its stream, MessageFraming: for messages, fragments and fields of   *)
(* any size the session is a first-in first-out channel, and it refuses only *)
(* what is larger than its limit.                                            *)
(*                                                                           *)
(* Then what it carries, RemoteInput composed with ClipboardSync: for every  *)
(* capacity of the channels, any number of events, faults and sessions, and  *)
(* any contents of the clipboards, the input that the viewer means reaches   *)
(* the host.                                                                 *)
(***************************************************************************)
EXTENDS ClipboardSync, MessageFraming, TLAPS

------------------------------------------------------------------------------
(* The stream: messages, frames and wire frames *)

\* The types of what is cut.
Flags == [index : Nat, more : BOOLEAN, length : Nat \ {0}]
ProtocolFrame == [of : Msg, flags : Flags]
WireFrame == [of : ProtocolFrame, flags : Flags]
Buffer(S) == [pieces : Seq(S), bytes : Nat]

\* Rounding up: the last fragment is not empty and none is longer than a fragment.
LEMMA CountFacts ==
  ASSUME NEW total \in Nat \ {0}, NEW n, n = (total + FragmentSize - 1) \div FragmentSize
  PROVE  /\ n \in Nat \ {0} /\ (n - 1) * FragmentSize \in Nat
         /\ (n - 1) * FragmentSize < total /\ total <= (n - 1) * FragmentSize + FragmentSize
         /\ \A k \in 0 .. n - 1 : /\ k * FragmentSize \in Nat /\ k * FragmentSize <= (n - 1) * FragmentSize
                                  /\ (k + 1) * FragmentSize = k * FragmentSize + FragmentSize
<1> DEFINE a == total + FragmentSize - 1
<1>1. FragmentSize \in Nat \ {0} /\ a \in Nat /\ a >= FragmentSize
  BY FramingAssumption
<1>2. n \in Int /\ FragmentSize * n <= a /\ a < FragmentSize * n + FragmentSize
  BY <1>1
<1> HIDE DEF a
<1>3. n > 0
  BY <1>1, <1>2
<1>4. (n - 1) * FragmentSize = FragmentSize * n - FragmentSize
  BY <1>1, <1>2
<1>5. FragmentSize * n \in Int
  BY <1>1, <1>2
<1>6. (n - 1) * FragmentSize \in Nat
  BY <1>1, <1>2, <1>3
<1>7. (n - 1) * FragmentSize < total /\ total <= (n - 1) * FragmentSize + FragmentSize
  BY <1>1, <1>2, <1>4, <1>5 DEF a
<1>8. ASSUME NEW k \in 0 .. n - 1
      PROVE  /\ k * FragmentSize \in Nat /\ k * FragmentSize <= (n - 1) * FragmentSize
             /\ (k + 1) * FragmentSize = k * FragmentSize + FragmentSize
  <2>1. k * FragmentSize \in Nat /\ (k + 1) * FragmentSize = k * FragmentSize + FragmentSize
    BY <1>1, <1>2, <1>8
  <2>2. (n - 1) * FragmentSize = k * FragmentSize + ((n - 1) - k) * FragmentSize
    BY <1>1, <1>2, <1>8
  <2>3. ((n - 1) - k) * FragmentSize \in Nat
    BY <1>1, <1>2, <1>8
  <2> QED
    BY <1>6, <2>1, <2>2, <2>3
<1> QED
  BY <1>2, <1>3, <1>6, <1>7, <1>8

\* A function on an initial segment of the numbers is a sequence.
LEMMA FunctionIsSeq ==
  ASSUME NEW T, NEW n \in Nat, NEW f \in [1 .. n -> T]
  PROVE  f \in Seq(T) /\ Len(f) = n
OBVIOUS

\* What send_fragments and send_fragmented cut: the flags number the pieces, all but the
\* last are full, and the lengths add up.
IsCut(cut, S, value, total) ==
  LET n == Len(cut)
  IN  /\ cut \in Seq([of : S, flags : Flags]) /\ n \in Nat \ {0}
      /\ \A i \in 1 .. n : /\ cut[i].of = value /\ cut[i] \in [of : S, flags : Flags]
                           /\ cut[i].flags.index = i - 1 /\ (cut[i].flags.more <=> i < n)
                           /\ cut[i].flags.length \in 1 .. FragmentSize
                           /\ i < n => cut[i].flags.length = FragmentSize
      /\ (n - 1) * FragmentSize + cut[n].flags.length = total
      /\ \A k \in 0 .. n - 1 : /\ k * FragmentSize \in Nat /\ k * FragmentSize < total
                               /\ (k + 1) * FragmentSize = k * FragmentSize + FragmentSize

\* Whatever the length, Cut cuts in this way.
LEMMA CutFacts ==
  ASSUME NEW S, NEW value \in S, NEW total \in Nat \ {0}
  PROVE  IsCut(Cut(value, total), S, value, total)
<1> DEFINE n == (total + FragmentSize - 1) \div FragmentSize
           length(i) == IF i < n THEN FragmentSize ELSE total - (n - 1) * FragmentSize
           flags(i) == [index |-> i - 1, more |-> i < n, length |-> length(i)]
           cut == Cut(value, total)
<1>1. /\ n \in Nat \ {0} /\ (n - 1) * FragmentSize \in Nat /\ FragmentSize \in Nat \ {0}
      /\ (n - 1) * FragmentSize < total /\ total <= (n - 1) * FragmentSize + FragmentSize
      /\ \A k \in 0 .. n - 1 : /\ k * FragmentSize \in Nat /\ k * FragmentSize <= (n - 1) * FragmentSize
                               /\ (k + 1) * FragmentSize = k * FragmentSize + FragmentSize
  BY CountFacts, FramingAssumption
<1>2. Fragments(total) = [i \in 1 .. n |-> flags(i)]
  BY DEF Fragments
<1>3. cut = [i \in 1 .. n |-> [of |-> value, flags |-> flags(i)]]
  BY <1>2 DEF Cut
<1> HIDE DEF n, cut
<1>4. ASSUME NEW i \in 1 .. n
      PROVE  /\ length(i) \in 1 .. FragmentSize /\ (i < n => length(i) = FragmentSize)
             /\ (n - 1) * FragmentSize + length(n) = total
  BY <1>1
<1>5. ASSUME NEW i \in 1 .. n PROVE flags(i) \in Flags
  <2>1. i - 1 \in Nat /\ (i < n) \in BOOLEAN /\ length(i) \in Nat \ {0}
    BY <1>1, <1>4
  <2> HIDE DEF length
  <2> QED
    BY <2>1 DEF Flags
<1> HIDE DEF length
<1>6. ASSUME NEW i \in 1 .. n
      PROVE  /\ cut[i].of = value /\ cut[i] \in [of : S, flags : Flags]
             /\ cut[i].flags.index = i - 1 /\ (cut[i].flags.more <=> i < n)
             /\ cut[i].flags.length = length(i)
  <2>1. cut[i] = [of |-> value, flags |-> flags(i)]
    BY <1>3
  <2>2. cut[i].of = value /\ cut[i].flags = flags(i)
    BY <2>1
  <2>3. /\ flags(i).index = i - 1 /\ flags(i).more = (i < n)
        /\ flags(i).length = length(i)
    BY Zenon
  <2>4. flags(i) \in Flags
    BY <1>5
  <2> HIDE DEF flags
  <2>5. cut[i] \in [of : S, flags : Flags]
    BY <2>1, <2>4
  <2> QED
    BY <2>2, <2>3, <2>5
<1>7. cut \in Seq([of : S, flags : Flags]) /\ Len(cut) = n
  <2>1. cut \in [1 .. n -> [of : S, flags : Flags]]
    BY <1>3, <1>5
  <2> QED
    BY <1>1, <2>1, FunctionIsSeq
<1>8. n \in 1 .. n
  BY <1>1
<1>9. (n - 1) * FragmentSize + cut[n].flags.length = total
  BY <1>4, <1>6, <1>8
<1>10. \A k \in 0 .. n - 1 : k * FragmentSize < total
  BY <1>1
<1>11. \A i \in 1 .. n : cut[i].flags.length \in 1 .. FragmentSize /\ (i < n => cut[i].flags.length = FragmentSize)
  BY <1>4, <1>6
<1> QED
  BY <1>1, <1>6, <1>7, <1>9, <1>10, <1>11 DEF cut, IsCut

------------------------------------------------------------------------------
(* The inductive invariant *)

\* The frames of the n-th message sent, and the wire frames of the j-th of them.
FramesOf(s, n) == Cut(s[n], Size[s[n]])
WireFramesOf(s, n, j) ==
  LET frame == FramesOf(s, n)[j] IN Cut(frame, Encrypted(frame.flags.length))

\* A place in everything that is ever written: a message, a frame of it, a part of that.
Place(n, j, k) == [msg |-> n, frame |-> j, part |-> k]
Places == [msg : Nat \ {0}, frame : Nat \ {0}, part : Nat \ {0}]
Exists(s, a) ==
  /\ a.msg \in 1 .. Len(s) /\ a.frame \in 1 .. Len(FramesOf(s, a.msg))
  /\ a.part \in 1 .. Len(WireFramesOf(s, a.msg, a.frame))
At(s, a) == WireFramesOf(s, a.msg, a.frame)[a.part]
After(s, a) ==
  IF a.part < Len(WireFramesOf(s, a.msg, a.frame)) THEN Place(a.msg, a.frame, a.part + 1)
  ELSE IF a.frame < Len(FramesOf(s, a.msg)) THEN Place(a.msg, a.frame + 1, 1)
  ELSE Place(a.msg + 1, 1, 1)

\* The place the receiver waits for, and the one the sender writes next.
RxPlace == Place(Len(received) + 1, Len(outer.pieces) + 1, Len(inner.pieces) + 1)
TxPlace ==
  LET n == Len(sent)
      j == Len(FramesOf(sent, n)) - Len(frames)
  IN  IF fragments # <<>> THEN Place(n, j, Len(WireFramesOf(sent, n, j)) - Len(fragments) + 1)
      ELSE IF frames # <<>> THEN Place(n, j + 1, 1)
      ELSE Place(n + 1, 1, 1)

\* The types of the queues and buffers.
FramingType ==
  /\ sent \in Seq(Msg) /\ received \in Seq(Msg)
  /\ frames \in Seq(ProtocolFrame) /\ fragments \in Seq(WireFrame) /\ stream \in Seq(WireFrame)
  /\ inner \in Buffer(WireFrame) /\ outer \in Buffer(ProtocolFrame)

\* What the sender has left to write is the end of its last message.
SenderInv ==
  LET n == Len(sent)
      all == FramesOf(sent, n)
      j == Len(all) - Len(frames)
      parts == WireFramesOf(sent, n, j)
  IN  /\ frames # <<>> =>
           /\ n > 0 /\ Len(frames) <= Len(all)
           /\ \A i \in 1 .. Len(frames) : frames[i] = all[j + i]
      /\ fragments # <<>> =>
           /\ n > 0 /\ Len(frames) < Len(all) /\ Len(fragments) <= Len(parts)
           /\ \A i \in 1 .. Len(fragments) : fragments[i] = parts[Len(parts) - Len(fragments) + i]

\* The stream holds what lies between the receiver's place and the sender's, or, when it
\* was cut off, the beginning of that.
Between(s, q, from, pos) ==
  /\ pos[1] = from
  /\ \A i \in 1 .. Len(q) :
       Exists(s, pos[i]) /\ q[i] = At(s, pos[i]) /\ pos[i + 1] = After(s, pos[i])
StreamInv ==
  rx = "open" =>
    \E pos \in [1 .. Len(stream) + 1 -> Places] :
      /\ Between(sent, stream, RxPlace, pos)
      /\ tx = "open" /\ conn => pos[Len(stream) + 1] = TxPlace

\* The messages received are the first of those sent.
ReceivedInv ==
  Len(received) <= Len(sent) /\ \A i \in 1 .. Len(received) : received[i] = sent[i]

FifoInv == FramingType /\ SenderInv /\ StreamInv /\ ReceivedInv

\* The receiver's two buffers are the beginnings of a message and of a frame.
BufferInv ==
  rx = "open" =>
    LET n == Len(received) + 1
        j == Len(outer.pieces) + 1
    IN  /\ outer.bytes = Len(outer.pieces) * FragmentSize
        /\ outer.pieces # <<>> =>
             /\ n <= Len(sent) /\ j <= Len(FramesOf(sent, n))
             /\ \A i \in 1 .. Len(outer.pieces) : outer.pieces[i] = FramesOf(sent, n)[i]
        /\ inner.bytes = Len(inner.pieces) * FragmentSize
        /\ inner.pieces # <<>> =>
             /\ n <= Len(sent) /\ j <= Len(FramesOf(sent, n))
             /\ Len(inner.pieces) < Len(WireFramesOf(sent, n, j))
             /\ \A i \in 1 .. Len(inner.pieces) : inner.pieces[i] = WireFramesOf(sent, n, j)[i]

\* Only a session that was closed as a whole has lost its keys.
RegisteredInv ==
  /\ handle \in [Side -> {"whole", "split"}] /\ lifecycle \in [Side -> {"Active", "Closed"}]
  /\ registered \in [Side -> BOOLEAN]
  /\ \A e \in Side : ~registered[e] => handle[e] = "whole" /\ lifecycle[e] = "Closed"

SizeInv == BufferInv /\ RegisteredInv /\ FailsOnlyOnOversize

------------------------------------------------------------------------------
(* Places *)

\* The frames of a message and the wire frames of a frame.
LEMMA FramesFacts ==
  ASSUME NEW s \in Seq(Msg), NEW n \in 1 .. Len(s)
  PROVE  /\ FramesOf(s, n) \in Seq(ProtocolFrame) /\ Len(FramesOf(s, n)) \in Nat \ {0}
         /\ s[n] \in Msg /\ Size[s[n]] \in Nat \ {0}
         /\ \A j \in 1 .. Len(FramesOf(s, n)) :
              /\ FramesOf(s, n)[j] \in ProtocolFrame /\ FramesOf(s, n)[j].of = s[n]
              /\ FramesOf(s, n)[j].flags.more <=> j < Len(FramesOf(s, n))
              /\ Encrypted(FramesOf(s, n)[j].flags.length) \in Nat \ {0}
              /\ WireFramesOf(s, n, j) \in Seq(WireFrame) /\ Len(WireFramesOf(s, n, j)) \in Nat \ {0}
              /\ \A k \in 1 .. Len(WireFramesOf(s, n, j)) :
                   /\ WireFramesOf(s, n, j)[k] \in WireFrame
                   /\ WireFramesOf(s, n, j)[k].of = FramesOf(s, n)[j]
                   /\ WireFramesOf(s, n, j)[k].flags.more <=> k < Len(WireFramesOf(s, n, j))
<1>1. s[n] \in Msg /\ Size[s[n]] \in Nat \ {0}
  BY FramingAssumption
<1> DEFINE all == FramesOf(s, n)
<1>2. /\ all \in Seq(ProtocolFrame) /\ Len(all) \in Nat \ {0}
      /\ \A j \in 1 .. Len(all) : /\ all[j] \in ProtocolFrame /\ all[j].of = s[n]
                                  /\ all[j].flags.more <=> j < Len(all)
                                  /\ all[j].flags.length \in 1 .. FragmentSize
  <2>1. IsCut(all, Msg, s[n], Size[s[n]])
    BY <1>1, CutFacts DEF FramesOf
  <2> HIDE DEF all
  <2> QED
    BY <2>1 DEF IsCut, ProtocolFrame
<1>3. ASSUME NEW j \in 1 .. Len(all)
      PROVE  /\ Encrypted(all[j].flags.length) \in Nat \ {0}
             /\ WireFramesOf(s, n, j) \in Seq(WireFrame) /\ Len(WireFramesOf(s, n, j)) \in Nat \ {0}
             /\ \A k \in 1 .. Len(WireFramesOf(s, n, j)) :
                  /\ WireFramesOf(s, n, j)[k] \in WireFrame /\ WireFramesOf(s, n, j)[k].of = all[j]
                  /\ WireFramesOf(s, n, j)[k].flags.more <=> k < Len(WireFramesOf(s, n, j))
  <2> DEFINE f == all[j]
             total == Encrypted(f.flags.length)
  <2>1. f \in ProtocolFrame /\ f.flags.length \in Nat \ {0}
    BY <1>2, FramingAssumption
  <2>2. WireFramesOf(s, n, j) = Cut(f, total)
    BY DEF WireFramesOf
  <2> HIDE DEF f
  <2>3. total \in Nat \ {0}
    <3>1. Expansion * f.flags.length \in Nat \ {0}
      BY <2>1, FramingAssumption
    <3> QED
      BY <3>1, FramingAssumption DEF Encrypted
  <2> HIDE DEF total
  <2> DEFINE parts == WireFramesOf(s, n, j)
  <2>4. IsCut(parts, ProtocolFrame, f, total)
    BY <2>1, <2>2, <2>3, CutFacts
  <2> HIDE DEF parts
  <2>5. /\ parts \in Seq(WireFrame) /\ Len(parts) \in Nat \ {0}
        /\ \A k \in 1 .. Len(parts) : /\ parts[k] \in WireFrame /\ parts[k].of = f
                                      /\ parts[k].flags.more <=> k < Len(parts)
    BY <2>4 DEF IsCut, WireFrame
  <2> QED
    BY <2>3, <2>5 DEF f, total, parts
<1> QED
  BY <1>1, <1>2, <1>3

\* The wire frame at a place, and the next place.
LEMMA PlaceFacts ==
  ASSUME NEW s \in Seq(Msg), NEW a \in Places, Exists(s, a)
  PROVE  /\ At(s, a) \in WireFrame /\ At(s, a).of = FramesOf(s, a.msg)[a.frame]
         /\ At(s, a).of.of = s[a.msg]
         /\ At(s, a).flags.more <=> a.part < Len(WireFramesOf(s, a.msg, a.frame))
         /\ At(s, a).of.flags.more <=> a.frame < Len(FramesOf(s, a.msg))
         /\ After(s, a) \in Places
<1>1. /\ a.msg \in 1 .. Len(s) /\ a.frame \in 1 .. Len(FramesOf(s, a.msg))
      /\ a.part \in 1 .. Len(WireFramesOf(s, a.msg, a.frame))
      /\ a.msg \in Nat \ {0} /\ a.frame \in Nat \ {0} /\ a.part \in Nat \ {0}
  BY DEF Exists, Places
<1>2. \A n, j, k \in Nat \ {0} : Place(n, j, k) \in Places
  BY DEF Place, Places
<1>3. After(s, a) \in Places
  BY <1>1, <1>2 DEF After
<1> DEFINE all == FramesOf(s, a.msg)
           parts == WireFramesOf(s, a.msg, a.frame)
<1>4. /\ all[a.frame].of = s[a.msg] /\ (all[a.frame].flags.more <=> a.frame < Len(all))
      /\ \A k \in 1 .. Len(parts) :
           /\ parts[k] \in WireFrame /\ parts[k].of = all[a.frame]
           /\ parts[k].flags.more <=> k < Len(parts)
  BY <1>1, FramesFacts
<1>5. At(s, a) = parts[a.part]
  BY DEF At
<1> HIDE DEF all, parts
<1>6. /\ parts[a.part] \in WireFrame /\ parts[a.part].of = all[a.frame]
      /\ parts[a.part].flags.more <=> a.part < Len(parts)
  BY <1>1, <1>4 DEF parts
<1> QED
  BY <1>3, <1>4, <1>5, <1>6 DEF all, parts

\* A further message changes nothing about the places there are.
LEMMA PlacesStay ==
  ASSUME NEW s \in Seq(Msg), NEW m \in Msg
  PROVE  /\ \A n \in 1 .. Len(s) : /\ FramesOf(Append(s, m), n) = FramesOf(s, n)
                                   /\ \A j : WireFramesOf(Append(s, m), n, j) = WireFramesOf(s, n, j)
         /\ \A a \in Places : Exists(s, a) =>
              /\ Exists(Append(s, m), a) /\ At(Append(s, m), a) = At(s, a)
              /\ After(Append(s, m), a) = After(s, a)
<1> DEFINE t == Append(s, m)
<1>1. Len(t) = Len(s) + 1 /\ Len(s) \in Nat /\ \A n \in 1 .. Len(s) : t[n] = s[n]
  OBVIOUS
<1> HIDE DEF t
<1>2. \A n \in 1 .. Len(s) : /\ FramesOf(t, n) = FramesOf(s, n)
                             /\ \A j : WireFramesOf(t, n, j) = WireFramesOf(s, n, j)
  BY <1>1 DEF FramesOf, WireFramesOf
<1>3. ASSUME NEW a \in Places, Exists(s, a)
      PROVE  Exists(t, a) /\ At(t, a) = At(s, a) /\ After(t, a) = After(s, a)
  <2>1. a.msg \in 1 .. Len(s) /\ a.msg \in 1 .. Len(t)
    BY <1>1, <1>3 DEF Exists
  <2> QED
    BY <1>2, <1>3, <2>1 DEF Exists, At, After
<1> QED
  BY <1>2, <1>3 DEF t

------------------------------------------------------------------------------
(* Every step keeps the order *)

orderVars == <<sent, received, frames, fragments, inner, outer>>

\* Steps that write, read and collect nothing.
LEMMA OrderKept ==
  ASSUME FifoInv, UNCHANGED <<orderVars, stream>>, rx' = "open" => rx = "open",
         tx' = "open" /\ conn' => tx = "open" /\ conn
  PROVE  FifoInv'
<1>1. FramingType' /\ SenderInv' /\ ReceivedInv'
  BY DEF FifoInv, FramingType, SenderInv, ReceivedInv, orderVars
<1>2. TxPlace' = TxPlace /\ RxPlace' = RxPlace
  BY DEF TxPlace, RxPlace, orderVars
<1>3. StreamInv'
  <2> SUFFICES ASSUME rx' = "open"
               PROVE  \E pos \in [1 .. Len(stream) + 1 -> Places] :
                        /\ Between(sent, stream, RxPlace, pos)
                        /\ tx' = "open" /\ conn' => pos[Len(stream) + 1] = TxPlace
    BY <1>2 DEF StreamInv, orderVars
  <2>1. PICK pos \in [1 .. Len(stream) + 1 -> Places] :
          /\ Between(sent, stream, RxPlace, pos)
          /\ tx = "open" /\ conn => pos[Len(stream) + 1] = TxPlace
    BY DEF FifoInv, StreamInv
  <2> QED
    BY <2>1
<1> QED
  BY <1>1, <1>3 DEF FifoInv

\* A loss cuts the stream off and keeps its beginning.
LEMMA LoseConnectionKeepsOrder ==
  ASSUME FifoInv, LoseConnection
  PROVE  FifoInv'
<1>1. conn' = FALSE /\ UNCHANGED <<orderVars, rx>>
  BY DEF LoseConnection, txVars, rxVars, orderVars
<1>2. PICK n \in 0 .. Len(stream) : stream' = SubSeq(stream, 1, n)
  BY DEF LoseConnection
<1>3. stream \in Seq(WireFrame)
  BY DEF FifoInv, FramingType
<1>4. /\ stream' \in Seq(WireFrame) /\ Len(stream') = n
      /\ \A i \in 1 .. n : stream'[i] = stream[i]
  BY <1>2, <1>3
<1>5. FramingType' /\ SenderInv' /\ ReceivedInv'
  BY <1>1, <1>4 DEF FifoInv, FramingType, SenderInv, ReceivedInv, orderVars
<1>6. StreamInv'
  <2>1. RxPlace' = RxPlace
    BY <1>1 DEF RxPlace, orderVars
  <2> SUFFICES ASSUME rx = "open"
               PROVE  \E pos \in [1 .. n + 1 -> Places] : Between(sent, stream', RxPlace, pos)
    BY <1>1, <1>4, <2>1 DEF StreamInv, orderVars
  <2>2. PICK pos \in [1 .. Len(stream) + 1 -> Places] : Between(sent, stream, RxPlace, pos)
    BY DEF FifoInv, StreamInv
  <2> DEFINE cut == [i \in 1 .. n + 1 |-> pos[i]]
  <2>3. cut \in [1 .. n + 1 -> Places] /\ \A i \in 1 .. n + 1 : cut[i] = pos[i]
    BY <1>2, <1>3, <2>2
  <2> HIDE DEF cut
  <2>4. Between(sent, stream', RxPlace, cut)
    <3>1. 1 \in 1 .. n + 1 /\ \A i \in 1 .. n : i \in 1 .. Len(stream) /\ i + 1 \in 1 .. n + 1 /\ i \in 1 .. n + 1
      BY <1>2, <1>3
    <3> QED
      BY <1>4, <2>2, <2>3, <3>1 DEF Between
  <2> QED
    BY <2>3, <2>4
<1> QED
  BY <1>5, <1>6 DEF FifoInv

\* A new message starts where the sender had ended.
LEMMA SendMessageKeepsOrder ==
  ASSUME FifoInv, NEW m \in Msg, SendMessage(m)
  PROVE  FifoInv'
<1>1. /\ frames = <<>> /\ fragments = <<>> /\ frames' = Cut(m, Size[m]) /\ sent' = Append(sent, m)
      /\ UNCHANGED <<tx, fragments, stream, conn, rx, inner, outer, received>>
  BY DEF SendMessage, Idle, rxVars
<1>2. sent \in Seq(Msg) /\ FramingType
  BY DEF FifoInv, FramingType
<1> DEFINE N == Len(sent) + 1
<1>3. /\ sent' \in Seq(Msg) /\ Len(sent') = N /\ N \in 1 .. Len(sent') /\ sent'[N] = m
      /\ \A i \in 1 .. Len(sent) : sent'[i] = sent[i]
  BY <1>1, <1>2
<1>4. frames' = FramesOf(sent', N)
  BY <1>1, <1>3 DEF FramesOf
<1>5. frames' \in Seq(ProtocolFrame) /\ Len(frames') \in Nat \ {0} /\ frames' # <<>>
  BY <1>3, <1>4, FramesFacts
<1>6. FramingType' /\ ReceivedInv'
  <2>1. FramingType'
    BY <1>1, <1>2, <1>3, <1>5 DEF FramingType
  <2>2. ReceivedInv /\ received \in Seq(Msg) /\ Len(received) \in Nat /\ Len(sent) \in Nat
    BY <1>2 DEF FifoInv, FramingType
  <2> QED
    BY <1>1, <1>3, <2>1, <2>2 DEF ReceivedInv
<1>7. SenderInv'
  BY <1>1, <1>3, <1>4, <1>5 DEF SenderInv
<1>8. TxPlace = Place(N, 1, 1) /\ TxPlace' = Place(N, 1, 1)
  <2>1. TxPlace = Place(N, 1, 1)
    BY <1>1 DEF TxPlace
  <2>2. TxPlace' = Place(N, Len(frames') - Len(frames') + 1, 1)
    BY <1>1, <1>3, <1>4, <1>5 DEF TxPlace
  <2> QED
    BY <1>5, <2>1, <2>2
<1>9. StreamInv'
  <2>1. RxPlace' = RxPlace
    BY <1>1 DEF RxPlace
  <2> SUFFICES ASSUME rx = "open"
               PROVE  \E pos \in [1 .. Len(stream) + 1 -> Places] :
                        /\ Between(sent', stream, RxPlace, pos)
                        /\ tx = "open" /\ conn => pos[Len(stream) + 1] = TxPlace
    BY <1>1, <1>8, <2>1 DEF StreamInv
  <2>2. PICK pos \in [1 .. Len(stream) + 1 -> Places] :
          /\ Between(sent, stream, RxPlace, pos)
          /\ tx = "open" /\ conn => pos[Len(stream) + 1] = TxPlace
    BY DEF FifoInv, StreamInv
  <2>3. \A i \in 1 .. Len(stream) : i \in 1 .. Len(stream) + 1
    BY <1>2 DEF FramingType
  <2>4. Between(sent', stream, RxPlace, pos)
    BY <1>1, <1>2, <2>2, <2>3, PlacesStay DEF Between
  <2> QED
    BY <2>2, <2>4
<1> QED
  BY <1>6, <1>7, <1>9 DEF FifoInv

\* The next frame is cut, and its first wire frame is the one to be written.
LEMMA SendSecureFrameKeepsOrder ==
  ASSUME FifoInv, SendSecureFrame
  PROVE  FifoInv'
<1>1. /\ tx = "open" /\ fragments = <<>> /\ frames # <<>>
      /\ UNCHANGED <<sent, stream, conn, rx, inner, outer, received>>
  BY DEF SendSecureFrame, rxVars
<1>2. CASE ~registered["tx"]
  BY <1>1, <1>2, OrderKept DEF SendSecureFrame, orderVars
<1>3. CASE registered["tx"]
  <2> DEFINE N == Len(sent)
             all == FramesOf(sent, N)
             j == Len(all) - Len(frames)
             parts == WireFramesOf(sent, N, j + 1)
  <2>1. /\ fragments' = Cut(Head(frames), Encrypted(Head(frames).flags.length))
        /\ frames' = Tail(frames) /\ tx' = tx
    BY <1>3 DEF SendSecureFrame
  <2>2. sent \in Seq(Msg) /\ frames \in Seq(ProtocolFrame) /\ FramingType
    BY DEF FifoInv, FramingType
  <2>3. /\ N > 0 /\ Len(frames) <= Len(all)
        /\ \A i \in 1 .. Len(frames) : frames[i] = all[j + i]
    BY <1>1 DEF FifoInv, SenderInv
  <2>4. N \in 1 .. Len(sent) /\ Len(all) \in Nat \ {0} /\ Len(frames) \in Nat \ {0} /\ j + 1 \in 1 .. Len(all)
    BY <1>1, <2>2, <2>3, FramesFacts
  <2>5. /\ Head(frames) = frames[1] /\ frames' \in Seq(ProtocolFrame) /\ Len(frames') = Len(frames) - 1
        /\ \A i \in 1 .. Len(frames') : frames'[i] = frames[i + 1]
    BY <1>1, <2>1, <2>2
  <2>6. Head(frames) = all[j + 1]
    BY <2>3, <2>4, <2>5
  <2>7. fragments' = parts
    BY <2>1, <2>6 DEF WireFramesOf
  <2>8. parts \in Seq(WireFrame) /\ Len(parts) \in Nat \ {0}
    BY <2>2, <2>4, FramesFacts
  <2>9. FramesOf(sent', Len(sent')) = all /\ Len(all) - Len(frames') = j + 1
    BY <1>1, <2>4, <2>5
  <2> HIDE DEF all, parts, j
  <2>10. fragments' # <<>>
    BY <2>7, <2>8
  <2>11. WireFramesOf(sent', Len(sent'), j + 1) = parts /\ Len(sent') = N
    BY <1>1 DEF parts
  <2>12. SenderInv'
    <3>1. \A i \in 1 .. Len(frames') : frames'[i] = all[(j + 1) + i]
      <4>1. ASSUME NEW i \in 1 .. Len(frames') PROVE frames'[i] = all[(j + 1) + i]
        <5>1. i + 1 \in 1 .. Len(frames) /\ j + (i + 1) = (j + 1) + i
          BY <2>4, <2>5 DEF j
        <5> QED
          BY <2>3, <2>5, <5>1
      <4> QED
        BY <4>1
    <3>2. Len(frames') <= Len(all) /\ Len(frames') < Len(all)
      BY <2>3, <2>4, <2>5
    <3>3. \A i \in 1 .. Len(fragments') : fragments'[i] = parts[Len(parts) - Len(fragments') + i]
      BY <2>7, <2>8
    <3> QED
      BY <2>3, <2>7, <2>8, <2>9, <2>11, <3>1, <3>2, <3>3 DEF SenderInv
  <2>13. TxPlace = Place(N, j + 1, 1)
    BY <1>1 DEF TxPlace, j, all
  <2>14. TxPlace' = Place(N, j + 1, Len(parts) - Len(parts) + 1)
    BY <2>7, <2>9, <2>10, <2>11 DEF TxPlace
  <2>15. TxPlace' = TxPlace
    BY <2>8, <2>13, <2>14
  <2>16. StreamInv'
    <3>1. RxPlace' = RxPlace
      BY <1>1 DEF RxPlace
    <3> QED
      BY <1>1, <2>1, <2>15, <3>1 DEF FifoInv, StreamInv
  <2>17. FramingType' /\ ReceivedInv'
    BY <1>1, <2>2, <2>5, <2>7, <2>8 DEF FifoInv, FramingType, ReceivedInv
  <2> QED
    BY <2>12, <2>16, <2>17 DEF FifoInv
<1> QED
  BY <1>2, <1>3

\* The wire frame written is the one at the sender's place, which moves on by one.
LEMMA SendOneFragmentKeepsOrder ==
  ASSUME FifoInv, SendOneFragment
  PROVE  FifoInv'
<1>1. /\ tx = "open" /\ conn /\ fragments # <<>>
      /\ stream' = Append(stream, Head(fragments)) /\ fragments' = Tail(fragments)
      /\ UNCHANGED <<sent, tx, frames, conn, rx, inner, outer, received>>
  BY DEF SendOneFragment, rxVars
<1> DEFINE N == Len(sent)
           all == FramesOf(sent, N)
           j == Len(all) - Len(frames)
           parts == WireFramesOf(sent, N, j)
           k == Len(parts) - Len(fragments)
           here == Place(N, j, k + 1)
<1>2. /\ sent \in Seq(Msg) /\ frames \in Seq(ProtocolFrame) /\ fragments \in Seq(WireFrame)
      /\ stream \in Seq(WireFrame) /\ FramingType
  BY DEF FifoInv, FramingType
<1>3. /\ N > 0 /\ Len(frames) < Len(all) /\ Len(fragments) <= Len(parts)
      /\ \A i \in 1 .. Len(fragments) : fragments[i] = parts[k + i]
  BY <1>1 DEF FifoInv, SenderInv
<1>4. /\ N \in 1 .. Len(sent) /\ N \in Nat \ {0} /\ Len(all) \in Nat \ {0} /\ Len(frames) \in Nat
      /\ j \in 1 .. Len(all) /\ j \in Nat \ {0}
  BY <1>2, <1>3, FramesFacts
<1>5. parts \in Seq(WireFrame) /\ Len(parts) \in Nat \ {0}
  BY <1>2, <1>4, FramesFacts
<1>6. Len(fragments) \in Nat \ {0} /\ k + 1 \in 1 .. Len(parts) /\ k \in Nat /\ k + 1 \in Nat \ {0}
  BY <1>1, <1>2, <1>3, <1>5
<1>7. /\ Head(fragments) = fragments[1] /\ Head(fragments) \in WireFrame
      /\ fragments' \in Seq(WireFrame) /\ Len(fragments') = Len(fragments) - 1
      /\ \A i \in 1 .. Len(fragments') : fragments'[i] = fragments[i + 1]
  BY <1>1, <1>2
<1>8. Head(fragments) = parts[k + 1]
  BY <1>3, <1>6, <1>7
<1>9. here \in Places /\ here.msg = N /\ here.frame = j /\ here.part = k + 1
  BY <1>4, <1>6 DEF Place, Places
<1> HIDE DEF here
<1>10. Exists(sent, here) /\ At(sent, here) = Head(fragments)
  BY <1>4, <1>6, <1>8, <1>9 DEF Exists, At
<1>11. TxPlace = here
  BY <1>1, <1>4, <1>6 DEF TxPlace, here
<1>12. FramesOf(sent', Len(sent')) = all /\ Len(sent') = N /\ WireFramesOf(sent', N, j) = parts /\ frames' = frames
  BY <1>1
<1> HIDE DEF all, parts
<1>13. TxPlace' = After(sent, here)
  <2>1. After(sent, here) = IF k + 1 < Len(parts) THEN Place(N, j, (k + 1) + 1)
                            ELSE IF j < Len(all) THEN Place(N, j + 1, 1)
                            ELSE Place(N + 1, 1, 1)
    BY <1>9 DEF After, all, parts
  <2>2. TxPlace' = IF fragments' # <<>> THEN Place(N, j, Len(parts) - Len(fragments') + 1)
                   ELSE IF frames # <<>> THEN Place(N, j + 1, 1)
                   ELSE Place(N + 1, 1, 1)
    BY <1>12 DEF TxPlace
  <2>3. (fragments' # <<>> <=> k + 1 < Len(parts)) /\ Len(parts) - Len(fragments') + 1 = (k + 1) + 1
    BY <1>5, <1>6, <1>7
  <2>4. frames # <<>> <=> j < Len(all)
    BY <1>2, <1>4
  <2> QED
    BY <2>1, <2>2, <2>3, <2>4
<1>14. SenderInv'
  <2>1. \A i \in 1 .. Len(fragments') : fragments'[i] = parts[(Len(parts) - Len(fragments')) + i]
    <3>1. ASSUME NEW i \in 1 .. Len(fragments')
          PROVE  fragments'[i] = parts[(Len(parts) - Len(fragments')) + i]
      <4>1. i + 1 \in 1 .. Len(fragments) /\ k + (i + 1) = (Len(parts) - Len(fragments')) + i
        BY <1>5, <1>6, <1>7
      <4> QED
        BY <1>3, <1>7, <4>1
    <3> QED
      BY <3>1
  <2>2. Len(fragments') <= Len(parts)
    BY <1>3, <1>5, <1>6, <1>7
  <2>3. frames # <<>> => N > 0 /\ Len(frames) <= Len(all) /\ \A i \in 1 .. Len(frames) : frames[i] = all[j + i]
    BY DEF FifoInv, SenderInv, all
  <2> QED
    BY <1>3, <1>12, <2>1, <2>2, <2>3 DEF SenderInv
<1>15. stream' \in Seq(WireFrame) /\ Len(stream') = Len(stream) + 1
       /\ (\A i \in 1 .. Len(stream) : stream'[i] = stream[i])
       /\ stream'[Len(stream) + 1] = Head(fragments) /\ Len(stream) \in Nat
  BY <1>1, <1>2, <1>7
<1>16. FramingType' /\ ReceivedInv'
  BY <1>1, <1>2, <1>7, <1>15 DEF FifoInv, FramingType, ReceivedInv
<1>17. StreamInv'
  <2> DEFINE len == Len(stream)
  <2>1. RxPlace' = RxPlace
    BY <1>1 DEF RxPlace
  <2> SUFFICES ASSUME rx = "open"
               PROVE  \E pos \in [1 .. (len + 1) + 1 -> Places] :
                        /\ Between(sent, stream', RxPlace, pos)
                        /\ pos[(len + 1) + 1] = After(sent, here)
    BY <1>1, <1>13, <1>15, <2>1 DEF StreamInv
  <2>2. PICK pos \in [1 .. len + 1 -> Places] :
          Between(sent, stream, RxPlace, pos) /\ pos[len + 1] = here
    BY <1>1, <1>11 DEF FifoInv, StreamInv
  <2>3. After(sent, here) \in Places
    BY <1>2, <1>9, <1>10, PlaceFacts
  <2> DEFINE next == [i \in 1 .. (len + 1) + 1 |-> IF i = (len + 1) + 1 THEN After(sent, here) ELSE pos[i]]
  <2>4. /\ next \in [1 .. (len + 1) + 1 -> Places] /\ next[(len + 1) + 1] = After(sent, here)
        /\ \A i \in 1 .. len + 1 : next[i] = pos[i]
    BY <1>15, <2>2, <2>3
  <2> HIDE DEF next
  <2>5. next[1] = RxPlace
    BY <1>15, <2>2, <2>4 DEF Between
  <2>6. ASSUME NEW i \in 1 .. Len(stream')
        PROVE  Exists(sent, next[i]) /\ stream'[i] = At(sent, next[i]) /\ next[i + 1] = After(sent, next[i])
    <3>1. CASE i \in 1 .. len
      <4>1. i \in 1 .. len + 1 /\ i + 1 \in 1 .. len + 1
        BY <1>15, <3>1
      <4> QED
        BY <1>15, <2>2, <2>4, <3>1, <4>1 DEF Between
    <3>2. CASE i = len + 1
      <4>1. len + 1 \in 1 .. len + 1
        BY <1>15
      <4> QED
        BY <1>10, <1>15, <2>2, <2>4, <3>2, <4>1
    <3> QED
      BY <1>15, <3>1, <3>2
  <2> QED
    BY <2>4, <2>5, <2>6 DEF Between
<1> QED
  BY <1>14, <1>16, <1>17 DEF FifoInv

\* What reading a wire frame comes to: a failure, or the frame is collected, completes a
\* protocol frame, or completes a message.
LEMMA RecvFrameCases ==
  ASSUME RecvFrame
  PROVE  LET p == Head(stream)
         IN  \/ rx' = "failed" /\ received' = received /\ outer' = outer /\ inner' \in {inner, Empty}
             \/ p.flags.more /\ inner' = Collect(inner, p) /\ UNCHANGED <<rx, outer, received>>
             \/ /\ ~p.flags.more /\ p.of.flags.more
                /\ inner' = Empty /\ outer' = Collect(outer, p.of) /\ UNCHANGED <<rx, received>>
             \/ /\ ~p.flags.more /\ ~p.of.flags.more
                /\ inner' = Empty /\ outer' = Empty /\ received' = Append(received, p.of.of)
                /\ UNCHANGED rx
BY DEF RecvFrame, RecvReassembled, Complete

\* A buffer that has taken one more piece.
LEMMA CollectFacts ==
  ASSUME NEW T, NEW b \in Buffer(T), NEW p \in T, p.flags.length \in Nat
  PROVE  /\ Empty \in Buffer(T) /\ Empty.pieces = <<>> /\ Empty.bytes = 0
         /\ b.pieces \in Seq(T) /\ b.bytes \in Nat
         /\ Collect(b, p) \in Buffer(T) /\ Collect(b, p).pieces = Append(b.pieces, p)
         /\ Collect(b, p).bytes = b.bytes + p.flags.length
<1>1. b.pieces \in Seq(T) /\ b.bytes \in Nat
  BY DEF Buffer
<1>2. <<>> \in Seq(T) /\ Append(b.pieces, p) \in Seq(T) /\ b.bytes + p.flags.length \in Nat
  BY <1>1
<1> QED
  BY <1>1, <1>2 DEF Buffer, Collect, Empty

\* The wire frame at the head of the stream is the one the receiver waits for, and the
\* receiver's place moves on as the stream does.
LEMMA HeadFacts ==
  ASSUME FifoInv, RecvFrame
  PROVE  /\ RxPlace \in Places /\ Exists(sent, RxPlace) /\ Head(stream) = At(sent, RxPlace)
         /\ RxPlace.msg = Len(received) + 1 /\ RxPlace.frame = Len(outer.pieces) + 1
         /\ RxPlace.part = Len(inner.pieces) + 1
         /\ Head(stream) \in WireFrame /\ Head(stream).of \in ProtocolFrame /\ Head(stream).of.of \in Msg
         /\ Head(stream).of = FramesOf(sent, RxPlace.msg)[RxPlace.frame]
         /\ Head(stream).of.of = sent[RxPlace.msg]
<1>1. rx = "open" /\ stream # <<>> /\ stream \in Seq(WireFrame) /\ sent \in Seq(Msg)
  BY DEF RecvFrame, FifoInv, FramingType
<1>2. PICK pos \in [1 .. Len(stream) + 1 -> Places] : Between(sent, stream, RxPlace, pos)
  BY <1>1 DEF FifoInv, StreamInv
<1>3. 1 \in 1 .. Len(stream) /\ 1 \in 1 .. Len(stream) + 1 /\ Head(stream) = stream[1] /\ Head(stream) \in WireFrame
  BY <1>1
<1>4. RxPlace \in Places /\ Exists(sent, RxPlace) /\ Head(stream) = At(sent, RxPlace)
  BY <1>2, <1>3 DEF Between
<1>5. Head(stream).of \in ProtocolFrame /\ Head(stream).of.of \in Msg
  BY <1>3 DEF WireFrame, ProtocolFrame
<1>6. /\ RxPlace.msg = Len(received) + 1 /\ RxPlace.frame = Len(outer.pieces) + 1
      /\ RxPlace.part = Len(inner.pieces) + 1
  BY DEF RxPlace, Place
<1> QED
  BY <1>1, <1>3, <1>4, <1>5, <1>6, PlaceFacts

\* Reading a wire frame keeps the order, and hands the receiver the next message or none.
LEMMA RecvFrameKeepsOrder ==
  ASSUME FifoInv, RecvFrame
  PROVE  FifoInv' /\ (received' = received \/
                        \E n \in Len(received) + 1 .. Len(sent) : received' = SubSeq(sent, 1, n))
<1> DEFINE p == Head(stream)
           here == RxPlace
<1>1. /\ rx = "open" /\ stream # <<>> /\ stream' = Tail(stream)
      /\ UNCHANGED <<sent, frames, fragments, tx, conn>>
  BY DEF RecvFrame, txVars
<1>2. FramingType /\ SenderInv /\ ReceivedInv
  BY DEF FifoInv
<1>3. /\ here \in Places /\ Exists(sent, here) /\ p = At(sent, here)
      /\ here.msg = Len(received) + 1 /\ here.frame = Len(outer.pieces) + 1
      /\ here.part = Len(inner.pieces) + 1
      /\ p \in WireFrame /\ p.of \in ProtocolFrame /\ p.of.of \in Msg /\ p.of.of = sent[here.msg]
  BY HeadFacts
<1>4. /\ p.flags.more <=> here.part < Len(WireFramesOf(sent, here.msg, here.frame))
      /\ p.of.flags.more <=> here.frame < Len(FramesOf(sent, here.msg))
  BY <1>2, <1>3, PlaceFacts DEF FramingType
<1>5. \/ rx' = "failed" /\ received' = received /\ outer' = outer /\ inner' \in {inner, Empty}
      \/ p.flags.more /\ inner' = Collect(inner, p) /\ UNCHANGED <<rx, outer, received>>
      \/ /\ ~p.flags.more /\ p.of.flags.more
         /\ inner' = Empty /\ outer' = Collect(outer, p.of) /\ UNCHANGED <<rx, received>>
      \/ /\ ~p.flags.more /\ ~p.of.flags.more
         /\ inner' = Empty /\ outer' = Empty /\ received' = Append(received, p.of.of)
         /\ UNCHANGED rx
  BY RecvFrameCases
<1> HIDE DEF p, here
<1>6. /\ inner.pieces \in Seq(WireFrame) /\ Collect(inner, p) \in Buffer(WireFrame)
      /\ Collect(inner, p).pieces = Append(inner.pieces, p)
      /\ Empty \in Buffer(WireFrame) /\ Empty.pieces = <<>>
  <2>1. p \in WireFrame /\ p.flags.length \in Nat /\ inner \in Buffer(WireFrame)
    BY <1>2, <1>3 DEF FramingType, WireFrame, Flags
  <2> QED
    BY <2>1, CollectFacts
<1>7. /\ outer.pieces \in Seq(ProtocolFrame) /\ Collect(outer, p.of) \in Buffer(ProtocolFrame)
      /\ Collect(outer, p.of).pieces = Append(outer.pieces, p.of) /\ Empty \in Buffer(ProtocolFrame)
  <2>1. p.of \in ProtocolFrame /\ p.of.flags.length \in Nat /\ outer \in Buffer(ProtocolFrame)
    BY <1>2, <1>3 DEF FramingType, ProtocolFrame, Flags
  <2> QED
    BY <2>1, CollectFacts
<1>8. /\ stream \in Seq(WireFrame) /\ sent \in Seq(Msg) /\ received \in Seq(Msg)
      /\ frames \in Seq(ProtocolFrame) /\ fragments \in Seq(WireFrame)
      /\ inner \in Buffer(WireFrame) /\ outer \in Buffer(ProtocolFrame)
  BY <1>2 DEF FramingType
<1>9. /\ stream' \in Seq(WireFrame) /\ Len(stream) \in Nat \ {0} /\ Len(stream') = Len(stream) - 1
      /\ \A i \in 1 .. Len(stream') : stream'[i] = stream[i + 1]
  BY <1>1, <1>8
<1>10. inner' \in Buffer(WireFrame) /\ outer' \in Buffer(ProtocolFrame) /\ received' \in Seq(Msg)
  <2>1. Append(received, p.of.of) \in Seq(Msg)
    BY <1>3, <1>8
  <2>2. inner' \in {inner, Empty, Collect(inner, p)} /\ outer' \in {outer, Empty, Collect(outer, p.of)}
        /\ received' \in {received, Append(received, p.of.of)}
    BY <1>5, Zenon
  <2> QED
    BY <1>6, <1>7, <1>8, <2>1, <2>2
<1>11. FramingType'
  BY <1>1, <1>8, <1>9, <1>10 DEF FramingType
<1>12. SenderInv'
  BY <1>1, <1>2 DEF SenderInv
<1>13. /\ Len(received) + 1 \in 1 .. Len(sent) /\ Len(received) \in Nat /\ Len(sent) \in Nat
       /\ Len(outer.pieces) \in Nat /\ Len(inner.pieces) \in Nat
  BY <1>3, <1>6, <1>7, <1>8 DEF Exists
<1>14. rx' = "open" => RxPlace' = After(sent, here)
  <2>1. CASE p.flags.more /\ inner' = Collect(inner, p) /\ UNCHANGED <<rx, outer, received>>
    <3>1. RxPlace' = Place(Len(received) + 1, Len(outer.pieces) + 1, (Len(inner.pieces) + 1) + 1)
      BY <1>3, <1>6, <2>1 DEF RxPlace
    <3> QED
      BY <1>3, <1>4, <2>1, <3>1 DEF After
  <2>2. CASE /\ ~p.flags.more /\ p.of.flags.more
             /\ inner' = Empty /\ outer' = Collect(outer, p.of) /\ UNCHANGED <<rx, received>>
    <3>1. RxPlace' = Place(Len(received) + 1, (Len(outer.pieces) + 1) + 1, 0 + 1)
      BY <1>3, <1>6, <1>7, <2>2 DEF RxPlace
    <3> QED
      BY <1>3, <1>4, <2>2, <3>1 DEF After
  <2>3. CASE /\ ~p.flags.more /\ ~p.of.flags.more
             /\ inner' = Empty /\ outer' = Empty /\ received' = Append(received, p.of.of)
    <3>1. RxPlace' = Place((Len(received) + 1) + 1, 0 + 1, 0 + 1)
      BY <1>3, <1>6, <1>8, <2>3 DEF RxPlace
    <3> QED
      BY <1>3, <1>4, <2>3, <3>1 DEF After
  <2> QED
    BY <1>1, <1>5, <2>1, <2>2, <2>3
<1>15. ReceivedInv' /\ (received' = received \/
                          \E n \in Len(received) + 1 .. Len(sent) : received' = SubSeq(sent, 1, n))
  <2>1. CASE received' = received
    BY <1>1, <1>2, <2>1 DEF ReceivedInv
  <2>2. CASE received' = Append(received, p.of.of)
    <3> DEFINE n == Len(received) + 1
    <3>1. /\ Len(received') = n /\ received'[n] = sent[n] /\ n \in Len(received) + 1 .. Len(sent)
          /\ \A i \in 1 .. Len(received) : received'[i] = received[i]
      BY <1>3, <1>8, <1>13, <2>2
    <3>2. \A i \in 1 .. n : received'[i] = sent[i]
      BY <1>2, <1>13, <3>1 DEF ReceivedInv
    <3>3. received' = SubSeq(sent, 1, n)
      BY <1>8, <1>10, <1>13, <3>1, <3>2
    <3> QED
      BY <1>1, <1>13, <3>1, <3>2, <3>3 DEF ReceivedInv
  <2> QED
    BY <1>5, <2>1, <2>2
<1>16. StreamInv'
  <2> SUFFICES ASSUME rx' = "open"
               PROVE  \E pos \in [1 .. Len(stream') + 1 -> Places] :
                        /\ Between(sent, stream', After(sent, here), pos)
                        /\ tx = "open" /\ conn => pos[Len(stream') + 1] = TxPlace
    <3>1. TxPlace' = TxPlace
      BY <1>1 DEF TxPlace
    <3> QED
      BY <1>1, <1>14, <3>1 DEF StreamInv
  <2>1. PICK pos \in [1 .. Len(stream) + 1 -> Places] :
          /\ Between(sent, stream, here, pos)
          /\ tx = "open" /\ conn => pos[Len(stream) + 1] = TxPlace
    BY <1>1 DEF FifoInv, StreamInv, here
  <2> DEFINE next == [i \in 1 .. Len(stream') + 1 |-> pos[i + 1]]
  <2>2. /\ next \in [1 .. Len(stream') + 1 -> Places]
        /\ \A i \in 1 .. Len(stream') + 1 : next[i] = pos[i + 1]
    BY <1>9, <2>1
  <2> HIDE DEF next
  <2>3. next[1] = After(sent, here)
    <3>1. 1 \in 1 .. Len(stream') + 1 /\ 1 \in 1 .. Len(stream)
      BY <1>9
    <3> QED
      BY <2>1, <2>2, <3>1 DEF Between
  <2>4. ASSUME NEW i \in 1 .. Len(stream')
        PROVE  Exists(sent, next[i]) /\ stream'[i] = At(sent, next[i]) /\ next[i + 1] = After(sent, next[i])
    <3>1. i + 1 \in 1 .. Len(stream) /\ i \in 1 .. Len(stream') + 1 /\ i + 1 \in 1 .. Len(stream') + 1
      BY <1>9
    <3> QED
      BY <1>9, <2>1, <2>2, <3>1 DEF Between
  <2>5. next[Len(stream') + 1] = pos[Len(stream) + 1]
    BY <1>9, <2>2
  <2> QED
    BY <2>1, <2>2, <2>3, <2>4, <2>5 DEF Between
<1> QED
  BY <1>11, <1>12, <1>15, <1>16 DEF FifoInv

\* Every step keeps the order.
LEMMA NextKeepsOrder ==
  ASSUME FifoInv, [Next]_vars
  PROVE  FifoInv'
<1>1. CASE \E m \in Msg : SendMessage(m)
  BY <1>1, SendMessageKeepsOrder
<1>2. CASE SendSecureFrame
  BY <1>2, SendSecureFrameKeepsOrder
<1>3. CASE SendOneFragment
  BY <1>3, SendOneFragmentKeepsOrder
<1>4. CASE RecvFrame
  BY <1>4, RecvFrameKeepsOrder
<1>5. CASE LoseConnection
  BY <1>5, LoseConnectionKeepsOrder
<1>6. CASE WriteFails
  BY <1>6, OrderKept DEF WriteFails, rxVars, orderVars
<1>7. CASE RecvEnd \/ CancelReceiver
  BY <1>7, OrderKept DEF RecvEnd, CancelReceiver, txVars, orderVars
<1>8. CASE CloseSender \/ \E e \in Side : IntoSplit(e) \/ Close(e)
  BY <1>8, OrderKept DEF CloseSender, IntoSplit, Close, txVars, rxVars, orderVars
<1>9. CASE UNCHANGED vars
  BY <1>9, OrderKept DEF vars, txVars, rxVars, orderVars
<1> QED
  BY <1>1, <1>2, <1>3, <1>4, <1>5, <1>6, <1>7, <1>8, <1>9 DEF Next

\* A new session is in order.
LEMMA InitOrder ==
  ASSUME Init
  PROVE  FifoInv
<1>1. /\ frames = <<>> /\ fragments = <<>> /\ stream = <<>> /\ sent = <<>> /\ received = <<>>
      /\ inner = Empty /\ outer = Empty
  BY DEF Init
<1>2. /\ <<>> \in Seq(Msg) /\ <<>> \in Seq(ProtocolFrame) /\ <<>> \in Seq(WireFrame)
      /\ Len(<<>>) = 0
  OBVIOUS
<1>3. Empty \in Buffer(WireFrame) /\ Empty \in Buffer(ProtocolFrame) /\ Empty.pieces = <<>>
  BY <1>2 DEF Empty, Buffer
<1>4. FramingType
  BY <1>1, <1>2, <1>3 DEF FramingType
<1>5. SenderInv
  BY <1>1 DEF SenderInv
<1>6. ReceivedInv
  BY <1>1, <1>2 DEF ReceivedInv
<1>7. RxPlace = Place(0 + 1, 0 + 1, 0 + 1) /\ TxPlace = Place(0 + 1, 1, 1)
  BY <1>1, <1>2, <1>3 DEF RxPlace, TxPlace
<1> DEFINE first == Place(1, 1, 1)
           pos == [i \in 1 .. 0 + 1 |-> first]
<1>8. first \in Places /\ RxPlace = first /\ TxPlace = first
  BY <1>7 DEF Place, Places
<1> HIDE DEF first
<1>9. pos \in [1 .. 0 + 1 -> Places] /\ pos[1] = first /\ pos[0 + 1] = first
  BY <1>8
<1> HIDE DEF pos
<1>10. Between(sent, stream, RxPlace, pos)
  BY <1>1, <1>2, <1>8, <1>9 DEF Between
<1>11. StreamInv
  BY <1>1, <1>2, <1>8, <1>9, <1>10 DEF StreamInv
<1> QED
  BY <1>4, <1>5, <1>6, <1>11 DEF FifoInv

\* The stream is always in order.
LEMMA OrderInvariant == Spec => []FifoInv
BY InitOrder, NextKeepsOrder, PTL DEF Spec

\* A session implements first-in first-out delivery: sending a message is a send, completing
\* one is the delivery of the next, and every other step stutters, whatever is lost or fails
\* between two fragments and however long the messages are.
THEOREM SessionImplementsFifo == Spec => SessionIsFifo
<1>1. ASSUME Init PROVE Fifo!Init
  BY <1>1 DEF Init, Fifo!Init
<1>2. ASSUME FifoInv, [Next]_vars PROVE [Fifo!Next]_(Fifo!vars)
  <2>1. CASE \E m \in Msg : SendMessage(m)
    <3>1. PICK m \in Msg : sent' = Append(sent, m) /\ received' = received
      BY <2>1 DEF SendMessage, rxVars
    <3> QED
      BY <3>1 DEF Fifo!Next, Fifo!Send
  <2>2. CASE RecvFrame
    <3>1. sent' = sent
      BY <2>2 DEF RecvFrame, txVars
    <3> QED
      BY <1>2, <2>2, <3>1, RecvFrameKeepsOrder DEF Fifo!Next, Fifo!Deliver, Fifo!vars
  <2>3. CASE SendSecureFrame \/ SendOneFragment \/ WriteFails \/ RecvEnd \/ CancelReceiver
    BY <2>3 DEF SendSecureFrame, SendOneFragment, WriteFails, RecvEnd, CancelReceiver, rxVars, txVars, Fifo!vars
  <2>4. CASE LoseConnection \/ CloseSender \/ \E e \in Side : IntoSplit(e) \/ Close(e)
    BY <2>4 DEF LoseConnection, CloseSender, IntoSplit, Close, rxVars, txVars, Fifo!vars
  <2>5. CASE UNCHANGED vars
    BY <2>5 DEF vars, rxVars, txVars, Fifo!vars
  <2> QED
    BY <1>2, <2>1, <2>2, <2>3, <2>4, <2>5 DEF Next
<1> QED
  BY <1>1, <1>2, OrderInvariant, PTL DEF Spec, SessionIsFifo, Fifo!Spec

------------------------------------------------------------------------------
(* What the receiver refuses *)

\* A sequence without length is empty.
LEMMA NoLength ==
  ASSUME NEW T, NEW q \in Seq(T), Len(q) = 0
  PROVE  q = <<>>
OBVIOUS

\* A buffer b holds the first pieces of a value, and p is the next.
Filling(b, p, S, T, v, total, cut) ==
  /\ b \in Buffer(T) /\ v \in S /\ total \in Nat \ {0} /\ cut = Cut(v, total) /\ cut \in Seq(T)
  /\ Len(b.pieces) \in Nat /\ Len(b.pieces) < Len(cut)
  /\ \A i \in 1 .. Len(b.pieces) : b.pieces[i] = cut[i]
  /\ b.bytes = Len(b.pieces) * FragmentSize
  /\ p \in T /\ p = cut[Len(b.pieces) + 1]

\* The buffer takes the piece.
Takes(b, p, total, cut) ==
  /\ total <= MaxReassembledSize => Continues(b, p)
  /\ p.flags.more <=> Len(b.pieces) + 1 < Len(cut)
  /\ Len(Collect(b, p).pieces) = Len(b.pieces) + 1
  /\ \A i \in 1 .. Len(b.pieces) + 1 : Collect(b, p).pieces[i] = cut[i]
  /\ p.flags.more => Collect(b, p).bytes = (Len(b.pieces) + 1) * FragmentSize
  /\ ~p.flags.more => Decodes(Collect(b, p), total)
  /\ p.flags.length \in 1 .. FragmentSize

\* Collecting the pieces of one value, at either layer: the next piece continues the buffer
\* when the value is within the limit, and the last one completes the value.
LEMMA CollectingFacts ==
  ASSUME NEW S, NEW T, NEW b, NEW p, NEW v, NEW total, NEW cut, Filling(b, p, S, T, v, total, cut)
  PROVE  Takes(b, p, total, cut)
<1> DEFINE k == Len(b.pieces)
<1> SUFFICES ASSUME b \in Buffer(T), v \in S, total \in Nat \ {0}, cut = Cut(v, total),
                    cut \in Seq(T), k \in Nat, k < Len(cut),
                    \A i \in 1 .. k : b.pieces[i] = cut[i], b.bytes = k * FragmentSize,
                    p \in T, p = cut[k + 1], k = Len(b.pieces)
             PROVE  Takes(b, p, total, cut)
  BY DEF Filling
<1> HIDE DEF k
<1>1. FragmentSize \in Nat \ {0} /\ MaxReassembledSize \in Nat
  BY FramingAssumption
<1>2. IsCut(cut, S, v, total) /\ Len(cut) \in Nat \ {0}
  <2>1. IsCut(cut, S, v, total)
    BY CutFacts
  <2> QED
    BY <2>1 DEF IsCut
<1>3. k + 1 \in 1 .. Len(cut) /\ k \in 0 .. Len(cut) - 1
  BY <1>2
<1>4. /\ p.of = v /\ p.flags.index = k /\ (p.flags.more <=> k + 1 < Len(cut))
      /\ p.flags.length \in 1 .. FragmentSize /\ (k + 1 < Len(cut) => p.flags.length = FragmentSize)
      /\ k * FragmentSize \in Nat /\ (k + 1) * FragmentSize = k * FragmentSize + FragmentSize
      /\ k + 1 = Len(cut) => k * FragmentSize + p.flags.length = total
      /\ k + 1 < Len(cut) => (k + 1) * FragmentSize < total
  <2>1. /\ p.of = v /\ p.flags.index = (k + 1) - 1 /\ (p.flags.more <=> k + 1 < Len(cut))
        /\ p.flags.length \in 1 .. FragmentSize /\ (k + 1 < Len(cut) => p.flags.length = FragmentSize)
    BY <1>2, <1>3 DEF IsCut
  <2>2. k * FragmentSize \in Nat /\ (k + 1) * FragmentSize = k * FragmentSize + FragmentSize
    BY <1>2, <1>3 DEF IsCut
  <2>3. ASSUME k + 1 = Len(cut) PROVE k * FragmentSize + p.flags.length = total
    <3>1. (Len(cut) - 1) * FragmentSize + cut[Len(cut)].flags.length = total /\ Len(cut) - 1 = k
      BY <1>2, <2>3 DEF IsCut
    <3> QED
      BY <2>3, <3>1
  <2>4. ASSUME k + 1 < Len(cut) PROVE (k + 1) * FragmentSize < total
    <3>1. k + 1 \in 0 .. Len(cut) - 1
      BY <1>2, <2>4
    <3> QED
      BY <1>2, <3>1 DEF IsCut
  <2> QED
    BY <2>1, <2>2, <2>3, <2>4
<1>5. p.flags.length \in Nat
  <2>1. \A x \in 1 .. FragmentSize : x \in Nat
    BY <1>1
  <2> QED
    BY <1>4, <2>1
<1>6. /\ b.pieces \in Seq(T) /\ b.bytes \in Nat
      /\ Collect(b, p) \in Buffer(T) /\ Collect(b, p).pieces = Append(b.pieces, p)
      /\ Collect(b, p).bytes = b.bytes + p.flags.length /\ b.bytes + p.flags.length \in Nat
  <2>1. b.pieces \in Seq(T) /\ b.bytes \in Nat
    BY DEF Buffer
  <2>2. Append(b.pieces, p) \in Seq(T) /\ b.bytes + p.flags.length \in Nat
    BY <1>5, <2>1
  <2> QED
    BY <2>1, <2>2 DEF Buffer, Collect
<1>7. ASSUME total <= MaxReassembledSize PROVE Continues(b, p)
  <2> SUFFICES ASSUME b # Empty
               PROVE  /\ p.flags.index = b.pieces[1].flags.index + Len(b.pieces)
                      /\ b.bytes + p.flags.length <= MaxReassembledSize
    BY DEF Continues
  <2>1. k # 0
    <3> SUFFICES ASSUME k = 0 PROVE FALSE
      OBVIOUS
    <3>1. b.pieces = <<>>
      BY <1>6, NoLength
    <3>2. 0 * FragmentSize = 0
      BY <1>1
    <3>3. b.bytes = 0
      BY <3>2
    <3> QED
      BY <3>1, <3>3 DEF Buffer, Empty
  <2>2. b.pieces[1].flags.index = 0
    <3>1. 1 \in 1 .. k /\ 1 \in 1 .. Len(cut)
      BY <1>2, <2>1
    <3>2. cut[1].flags.index = 1 - 1
      BY <1>2, <3>1 DEF IsCut
    <3> QED
      BY <3>1, <3>2
  <2>3. b.bytes + p.flags.length <= total
    <3>1. CASE k + 1 = Len(cut)
      BY <1>4, <3>1
    <3>2. CASE k + 1 < Len(cut)
      BY <1>1, <1>4, <3>2
    <3> QED
      BY <1>2, <3>1, <3>2
  <2>4. b.bytes + p.flags.length \in Nat /\ MaxReassembledSize \in Nat
    BY <1>1, <1>6, Zenon
  <2>5. b.bytes + p.flags.length <= MaxReassembledSize
    BY <1>7, <2>3, <2>4
  <2>6. p.flags.index = b.pieces[1].flags.index + Len(b.pieces)
    BY <1>4, <2>2
  <2> QED
    BY <2>5, <2>6
<1>8. Len(Append(b.pieces, p)) = k + 1 /\ Append(b.pieces, p) \in Seq(T)
      /\ \A i \in 1 .. k + 1 : Append(b.pieces, p)[i] = cut[i]
  BY <1>6
<1>9. ASSUME ~p.flags.more PROVE Decodes(Collect(b, p), total)
  <2> DEFINE a == Append(b.pieces, p)
  <2>1. Len(a) = Len(cut) /\ a \in Seq(T) /\ cut \in Seq(T) /\ \A i \in 1 .. Len(cut) : a[i] = cut[i]
    BY <1>2, <1>4, <1>8, <1>9
  <2> HIDE DEF a
  <2>2. a = cut
    BY <2>1
  <2>3. cut[1].of = v
    <3>1. 1 \in 1 .. Len(cut)
      BY <1>2
    <3> QED
      BY <1>2, <3>1 DEF IsCut
  <2> QED
    BY <1>6, <2>2, <2>3 DEF Decodes, a
<1>10. ASSUME p.flags.more PROVE Collect(b, p).bytes = (k + 1) * FragmentSize
  BY <1>4, <1>6, <1>10
<1> QED
  BY <1>4, <1>6, <1>7, <1>8, <1>9, <1>10 DEF Takes

\* An encrypted frame fits the limit, so only the outer layer can meet it.
LEMMA EncryptedFits ==
  ASSUME NEW length \in 1 .. FragmentSize
  PROVE  Encrypted(length) <= MaxReassembledSize /\ length % LengthWidth = length
<1>1. /\ FragmentSize \in Nat \ {0} /\ Expansion \in Nat \ {0} /\ Overhead \in Nat
      /\ Expansion * FragmentSize + Overhead <= MaxReassembledSize /\ MaxReassembledSize \in Nat
      /\ LengthWidth \in Nat /\ FragmentSize < LengthWidth
  BY FramingAssumption
<1>2. /\ Expansion * FragmentSize = Expansion * length + Expansion * (FragmentSize - length)
      /\ Expansion * (FragmentSize - length) \in Nat /\ Expansion * length \in Nat
      /\ Expansion * FragmentSize \in Nat
  BY <1>1
<1>3. length \in Nat /\ length < LengthWidth /\ LengthWidth \in Nat \ {0}
  BY <1>1
<1>4. length % LengthWidth = length
  BY <1>3
<1> QED
  BY <1>1, <1>2, <1>4 DEF Encrypted

\* What both layers of the receiver do with the head of the stream.
LEMMA LayerFacts ==
  ASSUME FifoInv, BufferInv, RecvFrame, NEW n, n = Len(received) + 1, NEW j, j = Len(outer.pieces) + 1
  PROVE  LET p == Head(stream)
             f == p.of
             parts == WireFramesOf(sent, n, j)
             all == FramesOf(sent, n)
             k == Len(inner.pieces) + 1
         IN  /\ n \in 1 .. Len(sent) /\ f.of = sent[n] /\ j \in 1 .. Len(all)
             /\ HeaderExact(p) /\ Continues(inner, p)
             /\ p.flags.more <=> k < Len(parts)
             /\ p.flags.more => /\ Collect(inner, p).bytes = k * FragmentSize
                                /\ Len(Collect(inner, p).pieces) = k
                                /\ \A i \in 1 .. k : Collect(inner, p).pieces[i] = parts[i]
             /\ ~p.flags.more => Decodes(Collect(inner, p), Encrypted(f.flags.length))
             /\ Size[sent[n]] <= MaxReassembledSize => Continues(outer, f)
             /\ f.flags.more <=> j < Len(all)
             /\ f.flags.more => /\ Collect(outer, f).bytes = j * FragmentSize
                                /\ Len(Collect(outer, f).pieces) = j
                                /\ \A i \in 1 .. j : Collect(outer, f).pieces[i] = all[i]
             /\ ~f.flags.more => Decodes(Collect(outer, f), Size[sent[n]])
<1> DEFINE p == Head(stream)
           f == p.of
           all == FramesOf(sent, n)
           parts == WireFramesOf(sent, n, j)
           kf == Len(outer.pieces)
           kp == Len(inner.pieces)
<1>1. /\ sent \in Seq(Msg) /\ received \in Seq(Msg) /\ inner \in Buffer(WireFrame) /\ outer \in Buffer(ProtocolFrame)
      /\ rx = "open"
  BY DEF FifoInv, FramingType, RecvFrame
<1>2. /\ RxPlace.msg = n /\ RxPlace.frame = j /\ RxPlace.part = kp + 1
      /\ Exists(sent, RxPlace) /\ p = At(sent, RxPlace)
      /\ p \in WireFrame /\ f \in ProtocolFrame /\ f = all[j] /\ f.of = sent[n]
  BY HeadFacts
<1>3. n \in 1 .. Len(sent) /\ j \in 1 .. Len(all) /\ kp + 1 \in 1 .. Len(parts) /\ p = parts[kp + 1]
  BY <1>2 DEF Exists, At
<1>4. inner.pieces \in Seq(WireFrame) /\ outer.pieces \in Seq(ProtocolFrame) /\ kp \in Nat /\ kf \in Nat
  <2>1. inner.pieces \in Seq(WireFrame) /\ outer.pieces \in Seq(ProtocolFrame)
    BY <1>1 DEF Buffer
  <2> QED
    BY <2>1
<1>5. /\ all \in Seq(ProtocolFrame) /\ parts \in Seq(WireFrame) /\ sent[n] \in Msg
      /\ Size[sent[n]] \in Nat \ {0} /\ Encrypted(f.flags.length) \in Nat \ {0}
  <2>1. /\ all \in Seq(ProtocolFrame) /\ sent[n] \in Msg /\ Size[sent[n]] \in Nat \ {0}
        /\ \A i \in 1 .. Len(all) : /\ Encrypted(all[i].flags.length) \in Nat \ {0}
                                    /\ WireFramesOf(sent, n, i) \in Seq(WireFrame)
    BY <1>1, <1>3, FramesFacts
  <2> HIDE DEF all
  <2> QED
    BY <1>2, <1>3, <2>1
<1>6. all = Cut(sent[n], Size[sent[n]]) /\ parts = Cut(f, Encrypted(f.flags.length))
  BY <1>2 DEF FramesOf, WireFramesOf
<1>7. /\ outer.bytes = kf * FragmentSize /\ \A i \in 1 .. kf : outer.pieces[i] = all[i]
      /\ inner.bytes = kp * FragmentSize /\ \A i \in 1 .. kp : inner.pieces[i] = parts[i]
  <2>1. outer.pieces = <<>> => kf = 0
    BY <1>4
  <2>2. inner.pieces = <<>> => kp = 0
    BY <1>4
  <2> QED
    BY <1>1, <2>1, <2>2 DEF BufferInv
<1>8. kf + 1 = j /\ kf < Len(all) /\ kp < Len(parts) /\ f = all[kf + 1]
  BY <1>2, <1>3, <1>4, <1>5
<1> HIDE DEF p, f, all, parts, kf, kp
<1>9. /\ Size[sent[n]] <= MaxReassembledSize => Continues(outer, f)
      /\ f.flags.more <=> j < Len(all)
      /\ Len(Collect(outer, f).pieces) = j
      /\ \A i \in 1 .. j : Collect(outer, f).pieces[i] = all[i]
      /\ f.flags.more => Collect(outer, f).bytes = j * FragmentSize
      /\ ~f.flags.more => Decodes(Collect(outer, f), Size[sent[n]])
      /\ f.flags.length \in 1 .. FragmentSize
  <2>1. Filling(outer, f, Msg, ProtocolFrame, sent[n], Size[sent[n]], all)
    BY <1>1, <1>2, <1>4, <1>5, <1>6, <1>7, <1>8 DEF Filling, kf
  <2>2. Takes(outer, f, Size[sent[n]], all)
    BY <2>1, CollectingFacts
  <2> QED
    BY <1>8, <2>2 DEF Takes, kf
<1>10. Encrypted(f.flags.length) <= MaxReassembledSize
  BY <1>9, EncryptedFits
<1>11. /\ Continues(inner, p)
       /\ p.flags.more <=> kp + 1 < Len(parts)
       /\ Len(Collect(inner, p).pieces) = kp + 1
       /\ \A i \in 1 .. kp + 1 : Collect(inner, p).pieces[i] = parts[i]
       /\ p.flags.more => Collect(inner, p).bytes = (kp + 1) * FragmentSize
       /\ ~p.flags.more => Decodes(Collect(inner, p), Encrypted(f.flags.length))
       /\ p.flags.length \in 1 .. FragmentSize
  <2> DEFINE total == Encrypted(f.flags.length)
  <2>1. Filling(inner, p, ProtocolFrame, WireFrame, f, total, parts)
    BY <1>1, <1>2, <1>3, <1>4, <1>5, <1>6, <1>7, <1>8 DEF Filling, kp
  <2>2. Takes(inner, p, total, parts)
    BY <2>1, CollectingFacts
  <2> QED
    BY <1>10, <2>2 DEF Takes, kp
<1>12. HeaderExact(p)
  BY <1>11, EncryptedFits DEF HeaderExact
<1> QED
  BY <1>2, <1>3, <1>9, <1>11, <1>12 DEF p, f, all, parts, kp, kf

\* What reading a wire frame comes to when the receiver's buffers are what they should be:
\* the frame is collected, completes a protocol frame, completes a message, or is refused,
\* and then the message it belongs to is too long.
LEMMA RecvFrameOutcomes ==
  ASSUME FifoInv, BufferInv, RegisteredInv, RecvFrame, NEW n, n = Len(received) + 1
  PROVE  LET p == Head(stream)
             f == p.of
         IN  \/ rx' = "failed" /\ Size[sent[n]] > MaxReassembledSize
             \/ p.flags.more /\ inner' = Collect(inner, p) /\ UNCHANGED <<rx, outer, received>>
             \/ f.flags.more /\ inner' = Empty /\ outer' = Collect(outer, f) /\ UNCHANGED <<rx, received>>
             \/ inner' = Empty /\ outer' = Empty /\ received' = Append(received, f.of) /\ UNCHANGED rx
<1> DEFINE p == Head(stream)
           f == p.of
           j == Len(outer.pieces) + 1
<1>1. /\ n \in 1 .. Len(sent) /\ f.of = sent[n]
      /\ HeaderExact(p) /\ Continues(inner, p)
      /\ ~p.flags.more => Decodes(Collect(inner, p), Encrypted(f.flags.length))
      /\ Size[sent[n]] <= MaxReassembledSize => Continues(outer, f)
      /\ ~f.flags.more => Decodes(Collect(outer, f), Size[sent[n]])
  BY LayerFacts
<1>2. registered["rx"]
  BY DEF RecvFrame, Usable, RegisteredInv, Side
<1>3. Size[sent[n]] \in Nat /\ MaxReassembledSize \in Nat
  <2>1. sent[n] \in Msg
    BY <1>1 DEF FifoInv, FramingType
  <2> QED
    BY <2>1, FramingAssumption
<1>4. ~(Size[sent[n]] <= MaxReassembledSize) => Size[sent[n]] > MaxReassembledSize
  BY <1>3
<1>5. IF p.flags.more THEN inner' = Collect(inner, p) /\ UNCHANGED <<rx, outer, received>>
      ELSE inner' = Empty /\ RecvReassembled(f)
  BY <1>1, <1>2, Zenon DEF RecvFrame
<1>6. CASE p.flags.more
  BY <1>5, <1>6
<1>7. CASE ~p.flags.more /\ ~Continues(outer, f)
  BY <1>1, <1>4, <1>5, <1>7 DEF RecvReassembled
<1>8. CASE ~p.flags.more /\ Continues(outer, f) /\ f.flags.more
  BY <1>5, <1>8 DEF RecvReassembled
<1>9. CASE ~p.flags.more /\ Continues(outer, f) /\ ~f.flags.more
  <2>1. inner' = Empty /\ Complete(outer, f)
    BY <1>5, <1>9 DEF RecvReassembled
  <2> QED
    BY <1>1, <1>4, <1>9, <2>1 DEF Complete, Deserializes
<1> QED
  BY <1>6, <1>7, <1>8, <1>9

\* A receiver that holds nothing, or nothing in its inner buffer.
LEMMA EmptyBuffer == Empty.pieces = <<>> /\ Empty.bytes = 0 /\ Len(<<>>) = 0 /\ 0 * FragmentSize = 0
<1>1. FragmentSize \in Nat
  BY FramingAssumption
<1> QED
  BY <1>1 DEF Empty

\* Reading a frame keeps the buffers the beginnings of a message and of a frame.
LEMMA RecvFrameKeepsBuffers ==
  ASSUME FifoInv, BufferInv, RegisteredInv, RecvFrame
  PROVE  BufferInv' /\ (rx' = "failed" => FailsOnlyOnOversize')
<1> DEFINE p == Head(stream)
           f == p.of
           n == Len(received) + 1
           j == Len(outer.pieces) + 1
           k == Len(inner.pieces) + 1
           all == FramesOf(sent, n)
           parts == WireFramesOf(sent, n, j)
<1>1. /\ n \in 1 .. Len(sent) /\ j \in 1 .. Len(all)
      /\ p.flags.more <=> k < Len(parts)
      /\ p.flags.more => /\ Collect(inner, p).bytes = k * FragmentSize
                         /\ Len(Collect(inner, p).pieces) = k
                         /\ \A i \in 1 .. k : Collect(inner, p).pieces[i] = parts[i]
      /\ f.flags.more <=> j < Len(all)
      /\ f.flags.more => /\ Collect(outer, f).bytes = j * FragmentSize
                         /\ Len(Collect(outer, f).pieces) = j
                         /\ \A i \in 1 .. j : Collect(outer, f).pieces[i] = all[i]
  BY LayerFacts
<1>2. rx = "open" /\ sent' = sent
  BY DEF RecvFrame, txVars
<1>3. \/ rx' = "failed" /\ Size[sent[n]] > MaxReassembledSize
      \/ p.flags.more /\ inner' = Collect(inner, p) /\ UNCHANGED <<rx, outer, received>>
      \/ f.flags.more /\ inner' = Empty /\ outer' = Collect(outer, f) /\ UNCHANGED <<rx, received>>
      \/ inner' = Empty /\ outer' = Empty /\ received' = Append(received, f.of) /\ UNCHANGED rx
  BY RecvFrameOutcomes
<1>4. n \in Nat /\ j \in Nat /\ k \in Nat /\ Len(all) \in Nat /\ sent \in Seq(Msg) /\ Len(sent) \in Nat
  <2>1. /\ inner.pieces \in Seq(WireFrame) /\ outer.pieces \in Seq(ProtocolFrame) /\ received \in Seq(Msg)
        /\ sent \in Seq(Msg)
    BY DEF FifoInv, FramingType, Buffer
  <2>2. Len(FramesOf(sent, n)) \in Nat
    BY <1>1, <2>1, FramesFacts
  <2> QED
    BY <2>1, <2>2
<1> HIDE DEF p, f
<1>5. CASE rx' = "failed" /\ Size[sent[n]] > MaxReassembledSize
  <2>1. n \in DOMAIN sent'
    BY <1>1, <1>2, <1>4
  <2> QED
    BY <1>2, <1>5, <2>1 DEF BufferInv, FailsOnlyOnOversize
<1>6. CASE p.flags.more /\ inner' = Collect(inner, p) /\ UNCHANGED <<rx, outer, received>>
  <2>1. outer.bytes = Len(outer.pieces) * FragmentSize
        /\ (outer.pieces # <<>> => \A i \in 1 .. Len(outer.pieces) : outer.pieces[i] = all[i])
    BY <1>2 DEF BufferInv
  <2>2. n <= Len(sent) /\ j <= Len(all)
    BY <1>1, <1>4
  <2>3. Len(inner'.pieces) = k /\ k < Len(parts) /\ inner'.bytes = k * FragmentSize
        /\ \A i \in 1 .. k : inner'.pieces[i] = parts[i]
    BY <1>1, <1>6
  <2> QED
    BY <1>2, <1>6, <2>1, <2>2, <2>3 DEF BufferInv
<1>7. CASE f.flags.more /\ inner' = Empty /\ outer' = Collect(outer, f) /\ UNCHANGED <<rx, received>>
  <2>1. n <= Len(sent) /\ j + 1 <= Len(all)
    BY <1>1, <1>4, <1>7
  <2>2. Len(outer'.pieces) = j /\ outer'.bytes = j * FragmentSize
        /\ \A i \in 1 .. j : outer'.pieces[i] = all[i]
    BY <1>1, <1>7
  <2>3. inner'.pieces = <<>> /\ inner'.bytes = Len(inner'.pieces) * FragmentSize
    BY <1>7, EmptyBuffer
  <2> QED
    BY <1>2, <1>7, <2>1, <2>2, <2>3 DEF BufferInv
<1>8. CASE inner' = Empty /\ outer' = Empty /\ received' = Append(received, f.of) /\ UNCHANGED rx
  BY <1>2, <1>8, EmptyBuffer DEF BufferInv
<1> QED
  BY <1>3, <1>5, <1>6, <1>7, <1>8

\* Steps that neither read nor end a read keep the buffers: more may have been sent, but
\* the frames of what was sent before stay what they are.
LEMMA BuffersKept ==
  ASSUME FifoInv, BufferInv, UNCHANGED <<inner, outer, received>>, rx' = "open" => rx = "open",
         \/ sent' = sent
         \/ \E m \in Msg : sent' = Append(sent, m)
  PROVE  BufferInv'
<1>1. \A i \in 1 .. Len(sent) : /\ FramesOf(sent', i) = FramesOf(sent, i)
                                /\ \A k \in 1 .. Len(FramesOf(sent, i)) :
                                     WireFramesOf(sent', i, k) = WireFramesOf(sent, i, k)
  <2>1. sent \in Seq(Msg)
    BY DEF FifoInv, FramingType
  <2> QED
    BY <2>1 DEF FramesOf, WireFramesOf
<1>2. Len(sent) <= Len(sent') /\ Len(sent) \in Nat /\ Len(sent') \in Nat
  BY DEF FifoInv, FramingType
<1> DEFINE n == Len(received) + 1
           j == Len(outer.pieces) + 1
<1>3. n \in Nat \ {0} /\ j \in Nat \ {0}
  BY DEF FifoInv, FramingType, Buffer
<1>4. n <= Len(sent) => n <= Len(sent') /\ n \in 1 .. Len(sent)
  BY <1>2, <1>3
<1>5. n <= Len(sent) /\ j <= Len(FramesOf(sent, n)) => j \in 1 .. Len(FramesOf(sent, n))
  <2>1. sent \in Seq(Msg)
    BY DEF FifoInv, FramingType
  <2>2. n <= Len(sent) => Len(FramesOf(sent, n)) \in Nat
    BY <1>4, <2>1, FramesFacts
  <2> QED
    BY <1>3, <2>2
<1> QED
  BY <1>1, <1>4, <1>5 DEF BufferInv

\* Every step keeps the strengthening.
LEMMA NextKeepsSizes ==
  ASSUME FifoInv, SizeInv, [Next]_vars
  PROVE  SizeInv'
<1> USE DEF SizeInv
<1>1. RegisteredInv'
  <2>1. CASE \E e \in Side : Close(e)
    BY <2>1 DEF RegisteredInv, Close, Release
  <2>2. CASE \E e \in Side : IntoSplit(e)
    BY <2>2 DEF RegisteredInv, IntoSplit
  <2>3. CASE UNCHANGED sessionVars
    BY <2>3 DEF RegisteredInv, sessionVars
  <2>4. \/ \E e \in Side : IntoSplit(e) \/ Close(e)
        \/ UNCHANGED sessionVars
    BY DEF Next, vars, SendMessage, SendSecureFrame, SendOneFragment, WriteFails, RecvFrame, RecvEnd,
           CloseSender, CancelReceiver, LoseConnection
  <2> QED
    BY <2>1, <2>2, <2>3, <2>4
<1>2. CASE RecvFrame
  <2>1. FailsOnlyOnOversize'
    <3>1. BufferInv' /\ (rx' = "failed" => FailsOnlyOnOversize')
      BY <1>2, RecvFrameKeepsBuffers
    <3> QED
      BY <3>1 DEF FailsOnlyOnOversize
  <2> QED
    BY <1>1, <1>2, <2>1, RecvFrameKeepsBuffers
<1>3. CASE \E m \in Msg : SendMessage(m)
  <2>1. PICK m \in Msg : sent' = Append(sent, m) /\ UNCHANGED rxVars
    BY <1>3 DEF SendMessage
  <2>2. BufferInv'
    BY <2>1, BuffersKept DEF rxVars
  <2>3. sent \in Seq(Msg) /\ \A i \in DOMAIN sent : i \in DOMAIN sent' /\ sent'[i] = sent[i]
    BY <2>1 DEF FifoInv, FramingType
  <2>4. FailsOnlyOnOversize'
    BY <2>1, <2>3 DEF FailsOnlyOnOversize, rxVars
  <2> QED
    BY <1>1, <2>2, <2>4
<1>4. CASE sent' = sent /\ UNCHANGED <<inner, outer, received>> /\ rx' \in {rx, "ended"}
  <2>1. BufferInv'
    BY <1>4, BuffersKept
  <2>2. FailsOnlyOnOversize'
    BY <1>4 DEF FailsOnlyOnOversize
  <2> QED
    BY <1>1, <2>1, <2>2
<1>5. \/ RecvFrame
      \/ \E m \in Msg : SendMessage(m)
      \/ sent' = sent /\ UNCHANGED <<inner, outer, received>> /\ rx' \in {rx, "ended"}
  BY DEF Next, vars, SendSecureFrame, SendOneFragment, WriteFails, RecvEnd, CloseSender, CancelReceiver,
         LoseConnection, IntoSplit, Close, rxVars, txVars
<1> QED
  BY <1>2, <1>3, <1>4, <1>5

\* The receiver refuses a frame only when a message is larger than the reassembly limit,
\* whatever the sizes of messages, fragments and fields.
THEOREM RefusesOnlyOversize == Spec => []FailsOnlyOnOversize
<1>1. ASSUME Init PROVE SizeInv
  <2>1. /\ rx = "open" /\ inner = Empty /\ outer = Empty
        /\ handle = [e \in Side |-> "whole"] /\ lifecycle = [e \in Side |-> "Active"]
        /\ registered = [e \in Side |-> TRUE]
    BY <1>1 DEF Init
  <2> QED
    BY <2>1, EmptyBuffer DEF SizeInv, BufferInv, RegisteredInv, FailsOnlyOnOversize
<1>2. SizeInv => FailsOnlyOnOversize
  BY DEF SizeInv
<1> QED
  BY <1>1, <1>2, OrderInvariant, NextKeepsSizes, PTL DEF Spec

------------------------------------------------------------------------------
(* Input: the inductive invariant *)

\* What the channels and the stream carry.
MouseEvent == [type : {"mouse"}, pos : Spot \cup {"origin", "none"}, buttons : SUBSET Button]
KeyEvent == [type : {"key"}, code : Code, down : BOOLEAN]
InputEvent == MouseEvent \cup KeyEvent
Value == {v[f] : v \in Content, f \in Format} \cup {None}
ClipEvent == [type : {"clip"}, format : Format, value : Value]
Event == InputEvent \cup ClipEvent
Board == Content \cup [Format -> Value]

ChannelType ==
  /\ inputs \in Seq(InputEvent) /\ wire \in Seq(Event)
  /\ clips \in Seq(ClipEvent) /\ toView \in Seq(ClipEvent) /\ clip \in [End -> Board]

MaskType ==
  /\ mask \in SUBSET Button /\ recorded \in SUBSET SUBSET Button
  /\ aim \in Spot \cup {"origin"}

\* A button that is not as a mask says.
Differs(b, m) == ~(b \in pressed <=> b \in m)

\* An entry of the table is what the handler has pressed, but for the buttons that are stuck.
MaskInv == recorded # {} => \A b \in Button : b \in stuck <=> Differs(b, UNION recorded)

\* A control is the mask of buttons, the cursor, or a key.  An event sets some of them.
Control == {"buttons", "cursor"} \cup Code
Touches(m, c) == m.type # "clip" /\ c \in Controls(m)
Sets(m, c) ==
  IF c = "buttons" THEN m.buttons
  ELSE IF c = "cursor" THEN {m.pos}
  ELSE IF m.down THEN {c} ELSE {}

\* What the viewer means a control to be, and that the host has it so.
Goal(c) ==
  IF c = "buttons" THEN mask
  ELSE IF c = "cursor" THEN {aim}
  ELSE want \cap {c}
Reached(c) ==
  IF c = "buttons" THEN \A b \in Button : b \in stuck <=> Differs(b, mask)
  ELSE IF c = "cursor" THEN aim \in {"origin", cursor}
  ELSE c \in pressed <=> c \in want

\* No event in the queue sets the control; the last one that does sets it to v.
Untouched(queue, c) == \A i \in 1 .. Len(queue) : ~Touches(queue[i], c)
LastSets(queue, c, v) ==
  \A i \in 1 .. Len(queue) :
    Touches(queue[i], c) =>
      Sets(queue[i], c) = v \/ \E j \in i + 1 .. Len(queue) : Touches(queue[j], c)

\* Of a control whose last event was not dropped: the last event on its way sets it as the
\* viewer means it, and when none is on its way the host has it so, or failed to.
ControlInv(c) ==
  c \notin dropped =>
    /\ LastSets(inputs, c, Goal(c))
    /\ Untouched(inputs, c) => LastSets(wire, c, Goal(c))
    /\ Untouched(inputs, c) /\ Untouched(wire, c) => c \in failed \/ Reached(c)

InputInv == ChannelType /\ MaskType /\ MaskInv /\ \A c \in Control : ControlInv(c)

------------------------------------------------------------------------------
(* Controls and events *)

\* Buttons, keys and the other controls have different names.
LEMMA NameFacts ==
  /\ Button = {"left", "right", "middle"} /\ Code \subseteq {"VK_A", "VK_RETURN"}
  /\ Code \cap Button = {} /\ "buttons" \notin Code /\ "cursor" \notin Code
  /\ \A k \in UserKey : winit_keycode_to_vk[k] # NoCode => winit_keycode_to_vk[k] \in Code
<1>1. Button = {"left", "right", "middle"}
  <2>1. DOMAIN BUTTON_BITS = 1 .. 3
    BY DEF BUTTON_BITS
  <2>2. BUTTON_BITS[1] = "left" /\ BUTTON_BITS[2] = "right" /\ BUTTON_BITS[3] = "middle"
    BY DEF BUTTON_BITS
  <2> QED
    BY <2>1, <2>2 DEF Button, Range
<1>2. Code \subseteq {"VK_A", "VK_RETURN"}
  <2>1. \A k \in UserKey : winit_keycode_to_vk[k] \in {"VK_A", "VK_RETURN", NoCode}
    BY InputAssumption DEF winit_keycode_to_vk
  <2> QED
    BY <2>1 DEF Code
<1>3. \A k \in UserKey : winit_keycode_to_vk[k] # NoCode => winit_keycode_to_vk[k] \in Code
  BY DEF Code
<1> QED
  BY <1>1, <1>2, <1>3

\* Which controls an event touches.
LEMMA EventFacts ==
  /\ \A m \in MouseEvent : /\ m.type = "mouse" /\ m.buttons \in SUBSET Button
                           /\ Touches(m, "buttons") /\ (Touches(m, "cursor") <=> m.pos # "none")
                           /\ \A c \in Code : ~Touches(m, c)
                           /\ \A c \in Control : Touches(m, c) <=> c \in Controls(m)
  /\ \A m \in KeyEvent : /\ m.type = "key" /\ m.code \in Code /\ m.down \in BOOLEAN
                         /\ \A c \in Control : Touches(m, c) <=> c = m.code
                         /\ Controls(m) = {m.code}
  /\ \A m \in ClipEvent : m.type = "clip" /\ m.format \in Format /\ m.value \in Value
                          /\ \A c \in Control : ~Touches(m, c)
<1>1. ASSUME NEW m \in MouseEvent
      PROVE  /\ m.type = "mouse" /\ m.buttons \in SUBSET Button
             /\ Touches(m, "buttons") /\ (Touches(m, "cursor") <=> m.pos # "none")
             /\ \A c \in Code : ~Touches(m, c)
             /\ \A c \in Control : Touches(m, c) <=> c \in Controls(m)
  BY NameFacts DEF MouseEvent, Touches, Controls
<1>2. ASSUME NEW m \in KeyEvent
      PROVE  /\ m.type = "key" /\ m.code \in Code /\ m.down \in BOOLEAN
             /\ \A c \in Control : Touches(m, c) <=> c = m.code
             /\ Controls(m) = {m.code}
  BY DEF KeyEvent, Touches, Controls
<1>3. ASSUME NEW m \in ClipEvent
      PROVE  /\ m.type = "clip" /\ m.format \in Format /\ m.value \in Value
             /\ \A c \in Control : ~Touches(m, c)
  BY DEF ClipEvent, Touches
<1> QED
  BY <1>1, <1>2, <1>3

------------------------------------------------------------------------------
(* Queues of events *)

\* What an event appended to a queue changes.
LEMMA AppendFacts ==
  ASSUME NEW S, NEW q \in Seq(S), NEW m \in S, NEW c, NEW v
  PROVE  /\ Append(q, m) \in Seq(S)
         /\ Untouched(Append(q, m), c) <=> Untouched(q, c) /\ ~Touches(m, c)
         /\ Touches(m, c) /\ Sets(m, c) = v => LastSets(Append(q, m), c, v)
         /\ ~Touches(m, c) /\ LastSets(q, c, v) => LastSets(Append(q, m), c, v)
<1> DEFINE a == Append(q, m)
<1>1. /\ a \in Seq(S) /\ Len(a) = Len(q) + 1 /\ Len(q) \in Nat
      /\ \A i \in 1 .. Len(q) : a[i] = q[i]
      /\ a[Len(q) + 1] = m
  OBVIOUS
<1> HIDE DEF a
<1>2. Untouched(a, c) <=> Untouched(q, c) /\ ~Touches(m, c)
  BY <1>1 DEF Untouched
<1>3. ASSUME Touches(m, c), Sets(m, c) = v PROVE LastSets(a, c, v)
  <2> SUFFICES ASSUME NEW i \in 1 .. Len(a), Touches(a[i], c)
               PROVE  Sets(a[i], c) = v \/ \E j \in i + 1 .. Len(a) : Touches(a[j], c)
    BY DEF LastSets
  <2>1. CASE i = Len(a)
    BY <1>1, <1>3, <2>1
  <2>2. CASE i # Len(a)
    <3>1. Len(a) \in i + 1 .. Len(a) /\ Touches(a[Len(a)], c)
      BY <1>1, <1>3, <2>2
    <3> QED
      BY <3>1
  <2> QED
    BY <2>1, <2>2
<1>4. ASSUME ~Touches(m, c), LastSets(q, c, v) PROVE LastSets(a, c, v)
  <2> SUFFICES ASSUME NEW i \in 1 .. Len(a), Touches(a[i], c)
               PROVE  Sets(a[i], c) = v \/ \E j \in i + 1 .. Len(a) : Touches(a[j], c)
    BY DEF LastSets
  <2>1. i \in 1 .. Len(q) /\ a[i] = q[i]
    BY <1>1, <1>4
  <2>2. Sets(q[i], c) = v \/ \E j \in i + 1 .. Len(q) : Touches(q[j], c)
    BY <1>4, <2>1 DEF LastSets
  <2>3. \A j \in i + 1 .. Len(q) : j \in i + 1 .. Len(a) /\ a[j] = q[j]
    BY <1>1, <2>1
  <2> QED
    BY <2>1, <2>2, <2>3
<1> QED
  BY <1>1, <1>2, <1>3, <1>4 DEF a

\* What is left of a queue when its first event is taken.
LEMMA TailFacts ==
  ASSUME NEW S, NEW q \in Seq(S), q # <<>>, NEW c, NEW v
  PROVE  /\ Head(q) \in S /\ Tail(q) \in Seq(S)
         /\ Untouched(q, c) <=> ~Touches(Head(q), c) /\ Untouched(Tail(q), c)
         /\ LastSets(q, c, v) => LastSets(Tail(q), c, v)
         /\ LastSets(q, c, v) /\ Touches(Head(q), c) /\ Untouched(Tail(q), c) => Sets(Head(q), c) = v
<1> DEFINE t == Tail(q)
           h == Head(q)
<1>1. /\ h \in S /\ t \in Seq(S) /\ Len(q) \in Nat \ {0} /\ Len(t) = Len(q) - 1
      /\ h = q[1] /\ \A i \in 1 .. Len(t) : t[i] = q[i + 1]
  OBVIOUS
<1> HIDE DEF t, h
<1>2. \A i \in 2 .. Len(q) : i - 1 \in 1 .. Len(t) /\ t[i - 1] = q[i]
  BY <1>1
<1>3. Untouched(q, c) <=> ~Touches(h, c) /\ Untouched(t, c)
  <2>1. Untouched(q, c) => ~Touches(h, c) /\ Untouched(t, c)
    BY <1>1 DEF Untouched
  <2>2. ASSUME ~Touches(h, c), Untouched(t, c), NEW i \in 1 .. Len(q) PROVE ~Touches(q[i], c)
    <3>1. CASE i = 1
      BY <1>1, <2>2, <3>1
    <3>2. CASE i # 1
      <4>1. i \in 2 .. Len(q)
        BY <1>1, <3>2
      <4> QED
        BY <1>2, <2>2, <4>1 DEF Untouched
    <3> QED
      BY <3>1, <3>2
  <2> QED
    BY <2>1, <2>2 DEF Untouched
<1>4. ASSUME LastSets(q, c, v), NEW i \in 1 .. Len(t), Touches(t[i], c)
      PROVE  Sets(t[i], c) = v \/ \E j \in i + 1 .. Len(t) : Touches(t[j], c)
  <2>1. i + 1 \in 1 .. Len(q) /\ t[i] = q[i + 1]
    BY <1>1
  <2>2. CASE Sets(q[i + 1], c) = v
    BY <2>1, <2>2
  <2>3. CASE \E j \in (i + 1) + 1 .. Len(q) : Touches(q[j], c)
    <3>1. PICK j \in (i + 1) + 1 .. Len(q) : Touches(q[j], c)
      BY <2>3
    <3>2. j \in 2 .. Len(q) /\ j - 1 \in i + 1 .. Len(t)
      BY <1>1, <3>1
    <3> QED
      BY <1>2, <3>1, <3>2
  <2> QED
    BY <1>4, <2>1, <2>2, <2>3 DEF LastSets
<1>5. ASSUME LastSets(q, c, v), Touches(h, c), Untouched(t, c) PROVE Sets(h, c) = v
  <2>1. 1 \in 1 .. Len(q)
    BY <1>1
  <2>2. \A j \in 1 + 1 .. Len(q) : ~Touches(q[j], c)
    BY <1>1, <1>2, <1>5 DEF Untouched
  <2> QED
    BY <1>1, <1>5, <2>1, <2>2 DEF LastSets
<1> QED
  BY <1>1, <1>3, <1>4, <1>5 DEF t, h, LastSets

\* An empty queue touches nothing.
LEMMA EmptyFacts ==
  ASSUME NEW c, NEW v
  PROVE  Untouched(<<>>, c) /\ LastSets(<<>>, c, v)
BY DEF Untouched, LastSets

------------------------------------------------------------------------------
(* Steps of the viewer *)

controlVars == <<mask, want, aim, dropped, recorded, pressed, cursor, failed, stuck>>
boardVars == <<clips, toView, clip>>

\* Steps that leave the controls and the queues alone.
LEMMA InputKept ==
  ASSUME InputInv, UNCHANGED <<controlVars, inputs, wire>>, ChannelType'
  PROVE  InputInv'
<1>1. MaskType' /\ MaskInv'
  BY DEF InputInv, MaskType, MaskInv, controlVars, Differs
<1>2. ASSUME NEW c \in Control PROVE ControlInv(c)'
  <2>1. ControlInv(c)
    BY DEF InputInv
  <2> QED
    BY <2>1 DEF ControlInv, Goal, Reached, controlVars, Differs
<1> QED
  BY <1>1, <1>2 DEF InputInv

\* send_input with an event that says of every control it sets what the viewer means now.
LEMMA SendKeeps ==
  ASSUME InputInv, NEW m \in InputEvent, SendInput(m), MaskType',
         UNCHANGED <<wire, recorded, pressed, cursor, failed, stuck, boardVars>>,
         \A c \in Control : Touches(m, c) => Sets(m, c) = Goal(c)',
         \A c \in Control : ~Touches(m, c) => Goal(c)' = Goal(c) /\ (Reached(c) => Reached(c)')
  PROVE  InputInv'
<1>1. MaskInv' /\ (ChannelType /\ \A c \in Control : ControlInv(c))
  BY DEF InputInv, MaskInv, Differs
<1>2. \A c \in Control : Touches(m, c) <=> c \in Controls(m)
  BY EventFacts DEF InputEvent
<1>3. CASE Len(inputs) < MaxInput
  <2>1. inputs' = Append(inputs, m) /\ dropped' = dropped \ Controls(m)
    BY <1>3 DEF SendInput
  <2>2. ChannelType'
    BY <1>1, <2>1 DEF ChannelType, boardVars
  <2>3. ASSUME NEW c \in Control PROVE ControlInv(c)'
    <3> DEFINE g == Goal(c)'
    <3>1. inputs \in Seq(InputEvent)
      BY <1>1 DEF ChannelType
    <3>2. /\ Untouched(inputs', c) <=> Untouched(inputs, c) /\ ~Touches(m, c)
          /\ Touches(m, c) /\ Sets(m, c) = g => LastSets(inputs', c, g)
          /\ ~Touches(m, c) /\ LastSets(inputs, c, g) => LastSets(inputs', c, g)
      BY <2>1, <3>1, AppendFacts
    <3>3. CASE Touches(m, c)
      BY <3>2, <3>3 DEF ControlInv
    <3>4. CASE ~Touches(m, c)
      <4>1. g = Goal(c) /\ (Reached(c) => Reached(c)') /\ ControlInv(c)
        BY <1>1, <3>4
      <4>2. c \in dropped' <=> c \in dropped
        BY <1>2, <2>1, <3>4
      <4> HIDE DEF g
      <4> SUFFICES ASSUME c \notin dropped
                   PROVE  /\ LastSets(inputs', c, g)
                          /\ Untouched(inputs', c) => LastSets(wire', c, g)
                          /\ Untouched(inputs', c) /\ Untouched(wire', c) => c \in failed' \/ Reached(c)'
        BY <4>2 DEF ControlInv, g
      <4> QED
        BY <3>2, <3>4, <4>1 DEF ControlInv
    <3> QED
      BY <3>3, <3>4
  <2> QED
    BY <1>1, <2>2, <2>3 DEF InputInv
<1>4. CASE ~(Len(inputs) < MaxInput)
  <2>1. inputs' = inputs /\ dropped' = dropped \cup Controls(m)
    BY <1>4 DEF SendInput
  <2>2. ChannelType'
    BY <1>1, <2>1 DEF ChannelType, boardVars
  <2>3. ASSUME NEW c \in Control PROVE ControlInv(c)'
    <3> DEFINE g == Goal(c)'
    <3>1. CASE Touches(m, c)
      BY <1>2, <2>1, <3>1 DEF ControlInv
    <3>2. CASE ~Touches(m, c)
      <4>1. g = Goal(c) /\ (Reached(c) => Reached(c)') /\ ControlInv(c)
        BY <1>1, <3>2
      <4>2. c \in dropped' <=> c \in dropped
        BY <1>2, <2>1, <3>2
      <4> HIDE DEF g
      <4> SUFFICES ASSUME c \notin dropped
                   PROVE  /\ LastSets(inputs', c, g)
                          /\ Untouched(inputs', c) => LastSets(wire', c, g)
                          /\ Untouched(inputs', c) /\ Untouched(wire', c) => c \in failed' \/ Reached(c)'
        BY <4>2 DEF ControlInv, g
      <4> QED
        BY <2>1, <4>1 DEF ControlInv
    <3> QED
      BY <3>1, <3>2
  <2> QED
    BY <1>1, <2>2, <2>3 DEF InputInv
<1> QED
  BY <1>3, <1>4

\* A click sends the whole mask as it is after it.
LEMMA ClickKeeps ==
  ASSUME InputInv, NEW b, NEW down \in BOOLEAN, Click(b, down), UNCHANGED boardVars
  PROVE  InputInv'
<1>1. /\ mask' = IF down THEN mask \cup button_bit(b) ELSE mask \ button_bit(b)
      /\ SendInput(Mouse("none", mask'))
      /\ UNCHANGED <<want, aim, wire, recorded, pressed, cursor, failed, stuck>>
  BY DEF Click, MouseInput, host
<1>2. mask' \in SUBSET Button /\ MaskType'
  BY <1>1 DEF InputInv, MaskType, button_bit
<1> DEFINE m == Mouse("none", mask')
<1>3. m \in MouseEvent /\ m.buttons = mask' /\ m.pos = "none"
  BY <1>2 DEF Mouse, MouseEvent
<1> HIDE DEF m
<1>4. ASSUME NEW c \in Control, Touches(m, c) PROVE Sets(m, c) = Goal(c)'
  <2>1. c = "buttons"
    BY <1>3, <1>4, EventFacts DEF Control
  <2> QED
    BY <1>3, <2>1 DEF Sets, Goal
<1>5. ASSUME NEW c \in Control, ~Touches(m, c)
      PROVE  Goal(c)' = Goal(c) /\ (Reached(c) => Reached(c)')
  <2>1. c # "buttons"
    BY <1>3, <1>5, EventFacts
  <2> QED
    BY <1>1, <2>1 DEF Goal, Reached, Differs
<1>6. SendInput(m) /\ m \in InputEvent
  BY <1>1, <1>3 DEF m, InputEvent
<1> QED
  BY <1>1, <1>2, <1>4, <1>5, <1>6, SendKeeps

\* A key event sets its own code.
LEMMA KeyboardInputKeeps ==
  ASSUME InputInv, NEW k \in UserKey, NEW down \in BOOLEAN, KeyboardInput(k, down),
         UNCHANGED boardVars
  PROVE  InputInv'
<1> DEFINE code == winit_keycode_to_vk[k]
           m == Keyboard(code, down)
<1>1. UNCHANGED <<mask, aim, wire, recorded, pressed, cursor, failed, stuck>>
  BY DEF KeyboardInput, host
<1>2. CASE code = NoCode
  <2>1. UNCHANGED <<inputs, dropped, want>>
    BY <1>2 DEF KeyboardInput
  <2>2. ChannelType'
    BY <1>1, <2>1 DEF InputInv, ChannelType, boardVars
  <2> QED
    BY <1>1, <2>1, <2>2, InputKept DEF controlVars
<1>3. CASE code # NoCode
  <2>1. SendInput(m) /\ want' = IF down THEN want \cup {code} ELSE want \ {code}
    BY <1>3 DEF KeyboardInput
  <2>2. code \in Code /\ code \notin {"buttons", "cursor"}
    BY <1>3, NameFacts
  <2> HIDE DEF code
  <2>3. m \in KeyEvent /\ m.code = code /\ m.down = down
    BY <2>2 DEF Keyboard, KeyEvent
  <2> HIDE DEF m
  <2>4. MaskType'
    BY <1>1 DEF InputInv, MaskType
  <2>5. ASSUME NEW c \in Control, Touches(m, c) PROVE Sets(m, c) = Goal(c)'
    <3>1. c = code
      BY <2>3, <2>5, EventFacts
    <3>2. Sets(m, c) = (IF down THEN {c} ELSE {}) /\ Goal(c)' = want' \cap {c}
      BY <2>2, <2>3, <3>1 DEF Sets, Goal
    <3> QED
      BY <2>1, <3>1, <3>2
  <2>6. ASSUME NEW c \in Control, ~Touches(m, c)
        PROVE  Goal(c)' = Goal(c) /\ (Reached(c) => Reached(c)')
    <3>1. c # code
      BY <2>3, <2>6, EventFacts
    <3>2. want' \cap {c} = want \cap {c} /\ (c \in want' <=> c \in want)
      BY <2>1, <3>1
    <3> QED
      BY <1>1, <3>2 DEF Goal, Reached, Differs
  <2>7. m \in InputEvent
    BY <2>3 DEF InputEvent
  <2> QED
    BY <1>1, <2>1, <2>4, <2>5, <2>6, <2>7, SendKeeps
<1> QED
  BY <1>2, <1>3

\* A movement that is flushed sends the position and the mask as they are.
LEMMA MouseMotionKeeps ==
  ASSUME InputInv, NEW delta, NEW pos \in Spot \cup {"origin"}, NEW elapsed \in BOOLEAN,
         MouseMotion(delta, pos, elapsed), UNCHANGED boardVars
  PROVE  InputInv'
<1> DEFINE m == Mouse(pos, mask)
<1>1. UNCHANGED <<mask, want, wire, recorded, pressed, cursor, failed, stuck>>
  BY DEF MouseMotion, host
<1>2. CASE UNCHANGED <<inputs, dropped, aim>>
  <2>1. ChannelType'
    BY <1>1, <1>2 DEF InputInv, ChannelType, boardVars
  <2> QED
    BY <1>1, <1>2, <2>1, InputKept DEF controlVars
<1>3. CASE SendInput(m) /\ aim' = pos
  <2>1. MaskType' /\ mask \in SUBSET Button
    BY <1>1, <1>3 DEF InputInv, MaskType
  <2>2. m \in MouseEvent /\ m.buttons = mask /\ m.pos = pos /\ pos # "none"
    BY <2>1, InputAssumption DEF Mouse, MouseEvent
  <2> HIDE DEF m
  <2>3. ASSUME NEW c \in Control, Touches(m, c) PROVE Sets(m, c) = Goal(c)'
    <3>1. c \in {"buttons", "cursor"}
      BY <2>2, <2>3, EventFacts DEF Control
    <3> QED
      BY <1>1, <1>3, <2>2, <3>1 DEF Sets, Goal
  <2>4. ASSUME NEW c \in Control, ~Touches(m, c)
        PROVE  Goal(c)' = Goal(c) /\ (Reached(c) => Reached(c)')
    <3>1. c # "buttons" /\ c # "cursor"
      BY <2>2, <2>4, EventFacts
    <3> QED
      BY <1>1, <3>1 DEF Goal, Reached, Differs
  <2>5. m \in InputEvent
    BY <2>2 DEF InputEvent
  <2> QED
    BY <1>1, <1>3, <2>1, <2>3, <2>4, <2>5, SendKeeps
<1> QED
  BY <1>2, <1>3 DEF MouseMotion

\* The forward loop moves the oldest input behind what is on the stream.
LEMMA ForwardInputKeeps ==
  ASSUME InputInv, ForwardInput, UNCHANGED boardVars
  PROVE  InputInv'
<1>1. /\ inputs # <<>> /\ inputs' = Tail(inputs) /\ wire' = Append(wire, Head(inputs))
      /\ UNCHANGED controlVars
  BY DEF ForwardInput, host, controlVars
<1>2. inputs \in Seq(InputEvent) /\ wire \in Seq(Event)
  BY DEF InputInv, ChannelType
<1> DEFINE h == Head(inputs)
<1>3. h \in InputEvent /\ h \in Event /\ inputs' \in Seq(InputEvent)
  BY <1>1, <1>2, TailFacts DEF Event
<1>4. wire' \in Seq(Event)
  BY <1>1, <1>2, <1>3, AppendFacts
<1>5. ChannelType' /\ MaskType' /\ MaskInv'
  BY <1>1, <1>3, <1>4 DEF InputInv, ChannelType, MaskType, MaskInv, controlVars, boardVars, Differs
<1>6. ASSUME NEW c \in Control PROVE ControlInv(c)'
  <2> DEFINE g == Goal(c)
  <2>1. ControlInv(c) /\ Goal(c)' = g /\ (Reached(c) => Reached(c)')
    BY <1>1 DEF InputInv, Goal, Reached, controlVars, Differs
  <2> HIDE DEF g
  <2>2. /\ Untouched(inputs, c) <=> ~Touches(h, c) /\ Untouched(inputs', c)
        /\ LastSets(inputs, c, g) => LastSets(inputs', c, g)
        /\ LastSets(inputs, c, g) /\ Touches(h, c) /\ Untouched(inputs', c) => Sets(h, c) = g
    BY <1>1, <1>2, TailFacts
  <2>3. /\ Untouched(wire', c) <=> Untouched(wire, c) /\ ~Touches(h, c)
        /\ Touches(h, c) /\ Sets(h, c) = g => LastSets(wire', c, g)
        /\ ~Touches(h, c) /\ LastSets(wire, c, g) => LastSets(wire', c, g)
    BY <1>1, <1>2, <1>3, AppendFacts
  <2> HIDE DEF h
  <2>4. c \notin dropped => /\ LastSets(inputs, c, g)
                            /\ Untouched(inputs, c) => LastSets(wire, c, g)
                            /\ Untouched(inputs, c) /\ Untouched(wire, c) => c \in failed \/ Reached(c)
    BY <2>1 DEF ControlInv, g
  <2>5. c \notin dropped =>
          /\ LastSets(inputs', c, g)
          /\ Untouched(inputs', c) => LastSets(wire', c, g)
          /\ Untouched(inputs', c) /\ Untouched(wire', c) => c \in failed' \/ Reached(c)'
    BY <1>1, <2>1, <2>2, <2>3, <2>4 DEF controlVars
  <2> QED
    BY <1>1, <2>1, <2>5 DEF ControlInv, controlVars
<1> QED
  BY <1>5, <1>6 DEF InputInv

\* The forward loop puts a clipboard message on the stream, which sets no control.
LEMMA ForwardClipKeeps ==
  ASSUME InputInv, ForwardClip
  PROVE  InputInv'
<1>1. /\ clips # <<>> /\ clips' = Tail(clips) /\ wire' = Append(wire, Head(clips))
      /\ UNCHANGED <<controlVars, inputs, toView, clip>>
  BY DEF ForwardClip, viewer, host, controlVars
<1>2. clips \in Seq(ClipEvent) /\ wire \in Seq(Event)
  BY DEF InputInv, ChannelType
<1> DEFINE h == Head(clips)
<1>3. h \in ClipEvent /\ h \in Event /\ clips' \in Seq(ClipEvent)
  BY <1>1, <1>2, TailFacts DEF Event
<1>4. wire' \in Seq(Event)
  BY <1>1, <1>2, <1>3, AppendFacts
<1>5. ChannelType' /\ MaskType' /\ MaskInv'
  BY <1>1, <1>3, <1>4 DEF InputInv, ChannelType, MaskType, MaskInv, controlVars, Differs
<1>6. ASSUME NEW c \in Control PROVE ControlInv(c)'
  <2> DEFINE g == Goal(c)
  <2>1. ControlInv(c) /\ Goal(c)' = g /\ (Reached(c) => Reached(c)')
    BY <1>1 DEF InputInv, Goal, Reached, controlVars, Differs
  <2>2. ~Touches(h, c)
    BY <1>3, EventFacts
  <2> HIDE DEF g
  <2>3. /\ Untouched(wire', c) <=> Untouched(wire, c)
        /\ LastSets(wire, c, g) => LastSets(wire', c, g)
    BY <1>1, <1>2, <1>3, <2>2, AppendFacts
  <2> QED
    BY <1>1, <2>1, <2>3 DEF ControlInv, controlVars, g
<1> QED
  BY <1>5, <1>6 DEF InputInv

------------------------------------------------------------------------------
(* Steps of the host *)

\* A handler takes the oldest event: controls that it sets are set as the event says or
\* noted as failed, the others are left as they were.
LEMMA HandleKeeps ==
  ASSUME InputInv, wire # <<>>, wire' = Tail(wire),
         UNCHANGED <<mask, want, aim, dropped, inputs, clips, toView>>,
         clip' \in [End -> Board], recorded' \in SUBSET SUBSET Button, MaskInv',
         \A c \in Control : ~Touches(Head(wire), c) =>
           (c \in failed => c \in failed') /\ (Reached(c) => Reached(c)'),
         \A c \in Control : Touches(Head(wire), c) /\ Sets(Head(wire), c) = Goal(c) =>
           c \in failed' \/ Reached(c)'
  PROVE  InputInv'
<1> DEFINE h == Head(wire)
<1>1. wire \in Seq(Event) /\ wire' \in Seq(Event)
  BY TailFacts DEF InputInv, ChannelType
<1>2. ChannelType' /\ MaskType'
  BY <1>1 DEF InputInv, ChannelType, MaskType
<1>3. ASSUME NEW c \in Control PROVE ControlInv(c)'
  <2> DEFINE g == Goal(c)
  <2>1. ControlInv(c) /\ Goal(c)' = g
    BY DEF InputInv, Goal
  <2>2. /\ ~Touches(h, c) => (c \in failed => c \in failed') /\ (Reached(c) => Reached(c)')
        /\ Touches(h, c) /\ Sets(h, c) = g => c \in failed' \/ Reached(c)'
    OBVIOUS
  <2> HIDE DEF g
  <2>3. /\ Untouched(wire, c) <=> ~Touches(h, c) /\ Untouched(wire', c)
        /\ LastSets(wire, c, g) => LastSets(wire', c, g)
        /\ LastSets(wire, c, g) /\ Touches(h, c) /\ Untouched(wire', c) => Sets(h, c) = g
    BY <1>1, TailFacts
  <2> HIDE DEF h
  <2>4. c \notin dropped => /\ LastSets(inputs, c, g)
                            /\ Untouched(inputs, c) => LastSets(wire, c, g)
                            /\ Untouched(inputs, c) /\ Untouched(wire, c) => c \in failed \/ Reached(c)
    BY <2>1 DEF ControlInv, g
  <2>5. c \notin dropped =>
          /\ LastSets(inputs, c, g)
          /\ Untouched(inputs, c) => LastSets(wire', c, g)
          /\ Untouched(inputs, c) /\ Untouched(wire', c) => c \in failed' \/ Reached(c)'
    BY <2>2, <2>3, <2>4
  <2> QED
    BY <2>1, <2>5 DEF ControlInv
<1> QED
  BY <1>2, <1>3 DEF InputInv

\* The keyboard handler changes one code, which is no button.
LEMMA HandleKeyKeeps ==
  ASSUME InputInv, HandleKey, UNCHANGED boardVars
  PROVE  InputInv'
<1> DEFINE e == Head(wire)
<1>1. /\ wire # <<>> /\ e.type = "key" /\ wire' = Tail(wire)
      /\ UNCHANGED <<mask, want, aim, dropped, inputs, recorded, cursor, stuck>>
      /\ \/ pressed' = KeyInjected(e) /\ failed' = failed \ {e.code}
         \/ UNCHANGED pressed /\ failed' = failed \cup {e.code}
  BY DEF HandleKey, Arrives, viewer
<1>2. e \in KeyEvent
  <2>1. e \in Event
    BY <1>1, TailFacts DEF InputInv, ChannelType
  <2> QED
    BY <1>1, <2>1, EventFacts DEF Event, InputEvent
<1> HIDE DEF e
<1>3. /\ e.code \in Code /\ e.code \notin {"buttons", "cursor"} /\ e.code \notin Button
      /\ \A c \in Control : Touches(e, c) <=> c = e.code
  BY <1>2, EventFacts, NameFacts
<1>4. \A x : x # e.code => (x \in pressed' <=> x \in pressed) /\ (x \in failed' <=> x \in failed)
  BY <1>1 DEF KeyInjected
<1>5. pressed' \cap Button = pressed \cap Button
  BY <1>3, <1>4
<1>6. MaskInv'
  BY <1>1, <1>5 DEF InputInv, MaskInv, Differs
<1>7. ASSUME NEW c \in Control, ~Touches(e, c)
      PROVE  (c \in failed => c \in failed') /\ (Reached(c) => Reached(c)')
  BY <1>1, <1>3, <1>4, <1>5, <1>7 DEF Reached, Differs
<1>8. ASSUME NEW c \in Control, Touches(e, c), Sets(e, c) = Goal(c)
      PROVE  c \in failed' \/ Reached(c)'
  <2>1. c = e.code /\ (IF e.down THEN {c} ELSE {}) = want \cap {c}
    BY <1>3, <1>8 DEF Sets, Goal
  <2>2. e.down <=> c \in want
    BY <2>1
  <2>3. Reached(c)' <=> (c \in pressed' <=> c \in want)
    BY <1>1, <1>3, <2>1 DEF Reached
  <2> QED
    BY <1>1, <2>1, <2>2, <2>3 DEF KeyInjected
<1>9. clip' \in [End -> Board] /\ recorded' \in SUBSET SUBSET Button
  BY <1>1 DEF InputInv, ChannelType, MaskType, boardVars
<1> QED
  BY <1>1, <1>6, <1>7, <1>8, <1>9, HandleKeeps DEF e, boardVars

\* Injecting transitions sets the buttons among them to the new mask and leaves the others;
\* the whole loop goes through every button whose state changes.
InjectedSo(prev, new, n) ==
  /\ \A c \in Code : c \in Injected(prev, new, n) <=> c \in pressed
  /\ \A b \in Button :
       /\ b \in Transitions(prev, new, n) => (b \in Injected(prev, new, n) <=> b \in new)
       /\ b \notin Transitions(prev, new, n) => (b \in Injected(prev, new, n) <=> b \in pressed)
       /\ b \in Transitions(prev, new, n) => ~(b \in prev <=> b \in new)
       /\ n = 3 /\ b \notin Transitions(prev, new, n) => (b \in prev <=> b \in new)

\* That is what the loop over BUTTON_BITS does.
LEMMA InjectedFacts ==
  ASSUME NEW prev \in SUBSET Button, NEW new \in SUBSET Button, NEW n \in 0 .. 3
  PROVE  InjectedSo(prev, new, n)
<1>1. /\ Len(BUTTON_BITS) = 3
      /\ BUTTON_BITS[1] = "left" /\ BUTTON_BITS[2] = "right" /\ BUTTON_BITS[3] = "middle"
  BY DEF BUTTON_BITS
<1>2. /\ {BUTTON_BITS[i] : i \in 1 .. 3} = Button
      /\ {BUTTON_BITS[i] : i \in 1 .. n} \subseteq Button
  BY <1>1, NameFacts
<1>3. Transitions(prev, new, n) \subseteq Button
  BY <1>2 DEF Transitions
<1>4. \A c \in Code : c \in Injected(prev, new, n) <=> c \in pressed
  BY <1>3, NameFacts DEF Injected
<1>5. \A b \in Button :
         /\ b \in Transitions(prev, new, n) => (b \in Injected(prev, new, n) <=> b \in new)
         /\ b \notin Transitions(prev, new, n) => (b \in Injected(prev, new, n) <=> b \in pressed)
  BY DEF Injected
<1>6. \A b \in Button :
         /\ b \in Transitions(prev, new, n) => ~(b \in prev <=> b \in new)
         /\ n = 3 /\ b \notin Transitions(prev, new, n) => (b \in prev <=> b \in new)
  BY <1>2 DEF Transitions
<1> QED
  BY <1>4, <1>5, <1>6 DEF InjectedSo

\* The mouse handler: when every injection succeeds the mask and the cursor are as the event
\* says, but for stuck buttons; a failure is noted, and the transitions made before it stick.
LEMMA HandleMouseKeeps ==
  ASSUME InputInv, HandleMouse, UNCHANGED boardVars
  PROVE  InputInv'
<1> DEFINE e == Head(wire)
           prev == UNION recorded
           n == Len(BUTTON_BITS)
<1>1. /\ wire # <<>> /\ e.type = "mouse" /\ wire' = Tail(wire)
      /\ UNCHANGED <<mask, want, aim, dropped, inputs>>
  BY DEF HandleMouse, Arrives, viewer
<1>2. \/ /\ pressed' = Injected(prev, e.buttons, n) /\ recorded' = {e.buttons}
         /\ cursor' = Moved(e) /\ failed' = failed \ Controls(e)
         /\ stuck' = Mistaken \ Transitions(prev, e.buttons, n)
      \/ /\ failed' = failed \cup Controls(e)
         /\ UNCHANGED <<pressed, recorded, cursor, stuck>>
      \/ /\ \E i \in 1 .. n :
              /\ pressed' = Injected(prev, e.buttons, i - 1)
              /\ stuck' = Mistaken \cup Transitions(prev, e.buttons, i - 1)
         /\ cursor' = Moved(e) /\ failed' = (failed \ Controls(e)) \cup {"buttons"}
         /\ UNCHANGED recorded
  <2>1. DOMAIN BUTTON_BITS = 1 .. n
    BY DEF BUTTON_BITS
  <2> QED
    BY <2>1 DEF HandleMouse, MouseInjected, MoveFails, ButtonFails
<1>3. e \in MouseEvent
  <2>1. e \in Event
    BY <1>1, TailFacts DEF InputInv, ChannelType
  <2> QED
    BY <1>1, <2>1, EventFacts DEF Event, InputEvent
<1> HIDE DEF e
<1>4. prev \in SUBSET Button /\ e.buttons \in SUBSET Button /\ n = 3
  BY <1>3, EventFacts DEF InputInv, MaskType, BUTTON_BITS
<1>5. \A b \in Button : b \in Mistaken <=> Differs(b, prev)
  <2>1. CASE recorded = {}
    <3>1. prev = {} /\ Mistaken = pressed \cap Button
      BY <2>1 DEF Mistaken
    <3> QED
      BY <3>1 DEF Differs
  <2>2. CASE recorded # {}
    BY <2>2 DEF InputInv, MaskInv, Mistaken
  <2> QED
    BY <2>1, <2>2
<1>6. /\ Touches(e, "buttons") /\ (Touches(e, "cursor") <=> e.pos # "none")
      /\ \A c \in Code : ~Touches(e, c)
      /\ \A c \in Control : Touches(e, c) <=> c \in Controls(e)
  BY <1>3, EventFacts
<1> HIDE DEF prev, n
<1>7. \A c \in Code : c \in pressed' <=> c \in pressed
  <2>1. \A i \in 0 .. 3 : \A c \in Code : c \in Injected(prev, e.buttons, i) <=> c \in pressed
    <3>1. \A i \in 0 .. 3 : InjectedSo(prev, e.buttons, i)
      BY <1>4, InjectedFacts
    <3> QED
      BY <3>1 DEF InjectedSo
  <2>2. \E i \in 0 .. 3 : pressed' = Injected(prev, e.buttons, i) \/ pressed' = pressed
    <3>1. \A i \in 1 .. n : i - 1 \in 0 .. 3
      BY <1>4
    <3>2. n \in 0 .. 3
      BY <1>4
    <3> QED
      BY <1>2, <3>1, <3>2, Zenon
  <2> QED
    BY <2>1, <2>2
<1>8. /\ recorded' \in SUBSET SUBSET Button
      /\ MaskInv'
      /\ "buttons" \in failed' \/ \A b \in Button : b \in stuck' <=> ~(b \in pressed' <=> b \in e.buttons)
  <2>1. CASE /\ pressed' = Injected(prev, e.buttons, n) /\ recorded' = {e.buttons}
             /\ stuck' = Mistaken \ Transitions(prev, e.buttons, n)
    <3>1. n \in 0 .. 3 /\ n = 3
      BY <1>4
    <3>2. ASSUME NEW b \in Button
          PROVE  b \in stuck' <=> ~(b \in pressed' <=> b \in e.buttons)
      <4> DEFINE done == Transitions(prev, e.buttons, n)
      <4>1. /\ b \in done => (b \in pressed' <=> b \in e.buttons)
            /\ b \notin done => (b \in pressed' <=> b \in pressed)
            /\ b \notin done => (b \in prev <=> b \in e.buttons)
        <5>1. InjectedSo(prev, e.buttons, n)
          BY <1>4, <3>1, InjectedFacts
        <5> QED
          BY <2>1, <3>1, <5>1 DEF InjectedSo
      <4>2. b \in stuck' <=> b \in Mistaken /\ b \notin done
        BY <2>1
      <4>3. b \in Mistaken <=> ~(b \in pressed <=> b \in prev)
        BY <1>5 DEF Differs
      <4> QED
        BY <4>1, <4>2, <4>3, Zenon
    <3>3. UNION recorded' = e.buttons /\ recorded' \in SUBSET SUBSET Button
      BY <1>4, <2>1
    <3>4. MaskInv'
      BY <3>2, <3>3 DEF MaskInv, Differs
    <3> QED
      BY <3>2, <3>3, <3>4
  <2>2. CASE /\ failed' = failed \cup Controls(e)
             /\ UNCHANGED <<pressed, recorded, stuck>>
    BY <1>6, <2>2 DEF InputInv, MaskInv, MaskType, Control, Differs
  <2>3. CASE /\ \E i \in 1 .. n :
                  /\ pressed' = Injected(prev, e.buttons, i - 1)
                  /\ stuck' = Mistaken \cup Transitions(prev, e.buttons, i - 1)
             /\ failed' = (failed \ Controls(e)) \cup {"buttons"} /\ UNCHANGED recorded
    <3>1. PICK i \in 1 .. n :
            /\ pressed' = Injected(prev, e.buttons, i - 1)
            /\ stuck' = Mistaken \cup Transitions(prev, e.buttons, i - 1)
      BY <2>3
    <3>2. i - 1 \in 0 .. 3
      BY <1>4
    <3>3. ASSUME NEW b \in Button
          PROVE  b \in stuck' <=> ~(b \in pressed' <=> b \in prev)
      <4> DEFINE done == Transitions(prev, e.buttons, i - 1)
      <4>1. /\ b \in done => (b \in pressed' <=> b \in e.buttons)
            /\ b \notin done => (b \in pressed' <=> b \in pressed)
            /\ b \in done => ~(b \in prev <=> b \in e.buttons)
        <5>1. InjectedSo(prev, e.buttons, i - 1)
          BY <1>4, <3>2, InjectedFacts
        <5> QED
          BY <3>1, <5>1 DEF InjectedSo
      <4>2. b \in stuck' <=> b \in Mistaken \/ b \in done
        BY <3>1
      <4>3. b \in Mistaken <=> ~(b \in pressed <=> b \in prev)
        BY <1>5 DEF Differs
      <4> QED
        BY <4>1, <4>2, <4>3, Zenon
    <3>4. MaskInv'
      BY <2>3, <3>3 DEF MaskInv, Differs, prev
    <3> QED
      BY <2>3, <3>4 DEF InputInv, MaskType
  <2> QED
    BY <1>2, <2>1, <2>2, <2>3
<1>9. ASSUME NEW c \in Control, ~Touches(e, c)
      PROVE  (c \in failed => c \in failed') /\ (Reached(c) => Reached(c)')
  <2>1. c # "buttons" /\ (c = "cursor" => e.pos = "none")
    BY <1>6, <1>9
  <2>2. c \in failed => c \in failed'
    BY <1>2, <1>6, <1>9
  <2>3. CASE c = "cursor"
    <3>1. cursor' = cursor
      BY <1>2, <2>1, <2>3 DEF Moved, Moves
    <3> QED
      BY <1>1, <2>2, <2>3, <3>1 DEF Reached
  <2>4. CASE c \in Code
    BY <1>1, <1>7, <2>2, <2>4, NameFacts DEF Reached
  <2> QED
    BY <2>1, <2>3, <2>4 DEF Control
<1>10. ASSUME NEW c \in Control, Touches(e, c), Sets(e, c) = Goal(c)
       PROVE  c \in failed' \/ Reached(c)'
  <2>1. CASE c = "buttons"
    <3>1. e.buttons = mask
      BY <1>10, <2>1 DEF Sets, Goal
    <3> QED
      BY <1>1, <1>8, <2>1, <3>1 DEF Reached, Differs
  <2>2. CASE c = "cursor"
    <3>1. e.pos = aim /\ e.pos # "none"
      BY <1>6, <1>10, <2>2 DEF Sets, Goal
    <3>2. "cursor" \in failed' \/ cursor' = Moved(e)
      BY <1>2, <1>6, <1>10, <2>2
    <3>3. cursor' = Moved(e) => aim \in {"origin", cursor'}
      BY <3>1 DEF Moved, Moves
    <3> QED
      BY <1>1, <2>2, <3>2, <3>3 DEF Reached
  <2> QED
    BY <1>6, <1>10, <2>1, <2>2 DEF Control
<1>11. clip' \in [End -> Board]
  BY DEF InputInv, ChannelType, boardVars
<1> QED
  BY <1>1, <1>8, <1>9, <1>10, <1>11, HandleKeeps DEF e, boardVars

\* Another session may clear the table, which presses and releases nothing.
LEMMA OtherSessionKeeps ==
  ASSUME InputInv, OtherSession, UNCHANGED boardVars
  PROVE  InputInv'
<1>1. /\ recorded' \in {{}, recorded}
      /\ UNCHANGED <<mask, want, aim, dropped, inputs, wire, pressed, cursor, failed, stuck>>
  BY DEF OtherSession, viewer
<1>2. ChannelType' /\ MaskType'
  BY <1>1 DEF InputInv, ChannelType, MaskType, boardVars
<1>3. MaskInv'
  BY <1>1 DEF InputInv, MaskInv, Differs
<1>4. ASSUME NEW c \in Control PROVE ControlInv(c)'
  <2>1. ControlInv(c) /\ (Reached(c) => Reached(c)') /\ Goal(c)' = Goal(c)
    BY <1>1 DEF InputInv, Reached, Goal, Differs
  <2> QED
    BY <1>1, <2>1 DEF ControlInv
<1> QED
  BY <1>2, <1>3, <1>4 DEF InputInv

------------------------------------------------------------------------------
(* Steps of the clipboards *)

\* A clipboard offers values, and so does what a handler makes of a message.
LEMMA BoardFacts ==
  /\ \A b \in Board, f \in Format : b[f] \in Value
  /\ \A m \in ClipEvent : Written(m) \in Board
  /\ \A f \in Format, v \in Value : Clip(f, v) \in ClipEvent
<1>1. ASSUME NEW b \in Board, NEW f \in Format PROVE b[f] \in Value
  <2>1. CASE b \in Content
    BY <2>1 DEF Value
  <2>2. CASE b \in [Format -> Value]
    BY <2>2
  <2> QED
    BY <2>1, <2>2 DEF Board
<1>2. ASSUME NEW m \in ClipEvent PROVE Written(m) \in Board
  <2>1. m.value \in Value /\ None \in Value
    BY EventFacts DEF Value
  <2>2. Written(m) \in [Format -> Value]
    BY <2>1 DEF Written
  <2> QED
    BY <2>2 DEF Board
<1>3. \A f \in Format, v \in Value : Clip(f, v) \in ClipEvent
  BY DEF Clip, ClipEvent
<1> QED
  BY <1>1, <1>2, <1>3

\* A poller reports a format that its clipboard offers.
LEMMA PollKeeps ==
  ASSUME InputInv, NEW e \in End, NEW f \in Format, Poll(e, f)
  PROVE  InputInv'
<1> DEFINE m == Clip(f, clip[e][f])
<1>1. UNCHANGED <<controlVars, inputs, wire, clip>>
  BY DEF Poll, inputVars, viewer, host, controlVars
<1>2. /\ clips' = Append(clips, m) \/ clips' = clips
      /\ toView' = Append(toView, m) \/ toView' = toView
  BY DEF Poll, Report
<1>3. ChannelType
  BY DEF InputInv
<1>4. m \in ClipEvent
  <2>1. clip[e] \in Board
    BY <1>3 DEF ChannelType
  <2> QED
    BY <2>1, BoardFacts
<1> HIDE DEF m
<1>5. clips' \in Seq(ClipEvent) /\ toView' \in Seq(ClipEvent)
  BY <1>2, <1>3, <1>4, AppendFacts DEF ChannelType
<1>6. ChannelType'
  BY <1>1, <1>3, <1>5 DEF ChannelType
<1> QED
  BY <1>1, <1>6, InputKept

\* The client writes what the host sent.
LEMMA ViewerHandlesClipKeeps ==
  ASSUME InputInv, ViewerHandlesClip
  PROVE  InputInv'
<1> DEFINE m == Head(toView)
<1>1. /\ toView # <<>> /\ toView' = Tail(toView)
      /\ UNCHANGED <<controlVars, inputs, wire, clips>>
      /\ clip' = [clip EXCEPT !["client"] = Written(m)] \/ clip' = clip
  BY DEF ViewerHandlesClip, viewer, host, controlVars
<1>2. ChannelType
  BY DEF InputInv
<1>3. m \in ClipEvent /\ toView' \in Seq(ClipEvent)
  BY <1>1, <1>2, TailFacts DEF ChannelType
<1>4. Written(m) \in Board
  BY <1>3, BoardFacts
<1> HIDE DEF m
<1>5. clip' \in [End -> Board]
  BY <1>1, <1>2, <1>4 DEF ChannelType
<1>6. ChannelType'
  BY <1>1, <1>2, <1>3, <1>5 DEF ChannelType
<1> QED
  BY <1>1, <1>6, InputKept

\* The host writes what the client sent, and no control changes.
LEMMA HandleClipKeeps ==
  ASSUME InputInv, HandleClip
  PROVE  InputInv'
<1> DEFINE m == Head(wire)
<1>1. /\ wire # <<>> /\ wire' = Tail(wire) /\ m.type = "clip"
      /\ UNCHANGED <<controlVars, inputs, clips, toView>>
      /\ clip' = [clip EXCEPT !["host"] = Written(m)] \/ clip' = clip
  BY DEF HandleClip, Arrives, viewer, host, controlVars
<1>2. m \in ClipEvent
  <2>1. m \in Event
    BY <1>1, TailFacts DEF InputInv, ChannelType
  <2> QED
    BY <1>1, <2>1, EventFacts DEF Event, InputEvent
<1> HIDE DEF m
<1>3. Written(m) \in Board
  BY <1>2, BoardFacts
<1>4. clip' \in [End -> Board]
  BY <1>1, <1>3 DEF InputInv, ChannelType
<1>5. MaskInv' /\ recorded' \in SUBSET SUBSET Button
  BY <1>1 DEF InputInv, MaskType, MaskInv, controlVars, Differs
<1>6. ASSUME NEW c \in Control
      PROVE  ~Touches(m, c) /\ (c \in failed => c \in failed') /\ (Reached(c) => Reached(c)')
  BY <1>1, <1>2, EventFacts DEF Reached, controlVars, Differs
<1> QED
  BY <1>1, <1>4, <1>5, <1>6, HandleKeeps DEF m, controlVars

\* The steps that leave the controls and the queues alone.
LEMMA QuietKeeps ==
  ASSUME InputInv,
         \/ Establish /\ UNCHANGED boardVars
         \/ HostPollerEnds
         \/ \E e \in End, f \in Format : ReadFails(e, f)
         \/ \E e \in End, v \in Content : Copy(e, v)
  PROVE  InputInv'
<1>1. UNCHANGED <<controlVars, inputs, wire, clips, toView>>
  <2>1. CASE Establish /\ UNCHANGED boardVars
    BY <2>1 DEF Establish, host, controlVars, boardVars
  <2>2. CASE HostPollerEnds
    BY <2>2 DEF HostPollerEnds, inputVars, viewer, host, controlVars
  <2>3. CASE \E e \in End, f \in Format : ReadFails(e, f)
    BY <2>3 DEF ReadFails, viewer, host, controlVars
  <2>4. CASE \E e \in End, v \in Content : Copy(e, v)
    BY <2>4 DEF Copy, viewer, host, controlVars
  <2> QED
    BY <2>1, <2>2, <2>3, <2>4
<1>2. clip' = clip \/ \E e \in End, v \in Content : clip' = [clip EXCEPT ![e] = v]
  BY DEF Establish, HostPollerEnds, ReadFails, Copy, boardVars
<1>3. clip' \in [End -> Board]
  BY <1>2 DEF InputInv, ChannelType, Board
<1>4. ChannelType'
  BY <1>1, <1>3 DEF InputInv, ChannelType
<1> QED
  BY <1>1, <1>4, InputKept

------------------------------------------------------------------------------
(* The theorem *)

\* Every behaviour of the composition keeps the invariant.
LEMMA InputInvariant == ClipSpec => []InputInv
<1>1. ASSUME ClipInit PROVE InputInv
  <2>1. /\ mask = {} /\ inputs = <<>> /\ wire = <<>> /\ recorded = {} /\ pressed = {}
        /\ want = {} /\ aim = "origin" /\ clips = <<>> /\ toView = <<>>
        /\ clip = [e \in End |-> Nothing] /\ stuck = {}
    BY <1>1 DEF ClipInit, InputInit
  <2>2. Nothing \in Board
    BY DEF Nothing, Board, Value
  <2>3. ChannelType
    <3>1. <<>> \in Seq(InputEvent) /\ <<>> \in Seq(Event) /\ <<>> \in Seq(ClipEvent)
      OBVIOUS
    <3>2. clip \in [End -> Board]
      BY <2>1, <2>2
    <3> QED
      BY <2>1, <3>1, <3>2 DEF ChannelType
  <2>4. MaskType /\ MaskInv
    BY <2>1 DEF MaskType, MaskInv
  <2>5. ASSUME NEW c \in Control PROVE ControlInv(c)
    <3>1. Reached(c)
      BY <2>1 DEF Reached, Differs
    <3> QED
      BY <2>1, <3>1, EmptyFacts DEF ControlInv
  <2> QED
    BY <2>3, <2>4, <2>5 DEF InputInv
<1>2. ASSUME InputInv, [ClipNext]_cvars PROVE InputInv'
  <2>1. CASE InputStep /\ UNCHANGED clipVars
    <3>1. UNCHANGED boardVars
      BY <2>1 DEF clipVars, boardVars
    <3>2. CASE \E b \in UserButton, down \in BOOLEAN : Click(b, down)
      BY <1>2, <3>1, <3>2, ClickKeeps
    <3>3. CASE \E k \in UserKey, down \in BOOLEAN : KeyboardInput(k, down)
      BY <1>2, <3>1, <3>3, KeyboardInputKeeps
    <3>4. CASE \E delta \in Delta, pos \in Spot \cup {"origin"}, elapsed \in BOOLEAN :
                 MouseMotion(delta, pos, elapsed)
      BY <1>2, <3>1, <3>4, MouseMotionKeeps
    <3>5. CASE Establish
      BY <1>2, <3>1, <3>5, QuietKeeps
    <3>6. CASE ForwardInput
      BY <1>2, <3>1, <3>6, ForwardInputKeeps
    <3>7. CASE HandleKey
      BY <1>2, <3>1, <3>7, HandleKeyKeeps
    <3>8. CASE HandleMouse
      BY <1>2, <3>1, <3>8, HandleMouseKeeps
    <3>9. CASE OtherSession
      BY <1>2, <3>1, <3>9, OtherSessionKeeps
    <3> QED
      BY <2>1, <3>2, <3>3, <3>4, <3>5, <3>6, <3>7, <3>8, <3>9 DEF InputStep
  <2>2. CASE \E e \in End, f \in Format : Poll(e, f)
    BY <1>2, <2>2, PollKeeps
  <2>3. CASE \/ HostPollerEnds
             \/ \E e \in End, f \in Format : ReadFails(e, f)
             \/ \E e \in End, v \in Content : Copy(e, v)
    BY <1>2, <2>3, QuietKeeps
  <2>4. CASE ForwardClip
    BY <1>2, <2>4, ForwardClipKeeps
  <2>5. CASE HandleClip
    BY <1>2, <2>5, HandleClipKeeps
  <2>6. CASE ViewerHandlesClip
    BY <1>2, <2>6, ViewerHandlesClipKeeps
  <2>7. CASE UNCHANGED cvars
    <3>1. UNCHANGED <<controlVars, inputs, wire, boardVars>>
      BY <2>7 DEF cvars, inputVars, viewer, host, clipVars, controlVars, boardVars
    <3>2. ChannelType'
      BY <1>2, <3>1 DEF InputInv, ChannelType, boardVars
    <3> QED
      BY <1>2, <3>1, <3>2, InputKept
  <2> QED
    BY <1>2, <2>1, <2>2, <2>3, <2>4, <2>5, <2>6, <2>7 DEF ClipNext
<1> QED
  BY <1>1, <1>2, PTL DEF ClipSpec

\* Once what the viewer sent has been handled, the buttons, the cursor and the keys at the
\* host are as the viewer means them, but for the controls whose last event was dropped or
\* could not be injected, and for exactly the buttons that are stuck: those the table of
\* masks was wrong about and that have not changed since.
THEOREM InputAlwaysSettles == ClipSpec => []InputSettles
<1>1. ASSUME InputInv PROVE InputSettles
  <2> SUFFICES ASSUME Settled
               PROVE  /\ \/ "buttons" \in dropped \cup failed
                         \/ \A b \in Button : b \in stuck <=> ((b \in pressed) # (b \in mask))
                      /\ "cursor" \in dropped \cup failed \/ aim \in {"origin", cursor}
                      /\ \A code \in Code \ (dropped \cup failed) : code \in pressed <=> code \in want
    BY DEF InputSettles
  <2>1. ASSUME NEW c \in Control, c \notin dropped \cup failed PROVE Reached(c)
    <3>1. Untouched(inputs, c)
      BY EmptyFacts DEF Settled
    <3>2. Untouched(wire, c)
      <4>1. wire \in Seq(Event)
        BY <1>1 DEF InputInv, ChannelType
      <4>2. \A i \in 1 .. Len(wire) : wire[i].type = "clip"
        BY <4>1 DEF Settled
      <4> QED
        BY <4>2 DEF Untouched, Touches
    <3> QED
      BY <1>1, <2>1, <3>1, <3>2 DEF InputInv, ControlInv
  <2>2. "buttons" \notin dropped \cup failed =>
          \A b \in Button : b \in stuck <=> ((b \in pressed) # (b \in mask))
    BY <2>1 DEF Reached, Control, Differs
  <2>3. "cursor" \notin dropped \cup failed => aim \in {"origin", cursor}
    BY <2>1 DEF Reached, Control
  <2>4. ASSUME NEW code \in Code \ (dropped \cup failed) PROVE code \in pressed <=> code \in want
    BY <2>1, NameFacts DEF Reached, Control
  <2> QED
    BY <2>2, <2>3, <2>4
<1> QED
  BY <1>1, InputInvariant, PTL
==============================================================================
