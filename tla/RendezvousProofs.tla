--------------------------- MODULE RendezvousProofs ---------------------------
(***************************************************************************)
(* Proofs about Rendezvous and the HostSession it composes, for any number   *)
(* of clients and connections and every value of the limits and timeouts.    *)
(***************************************************************************)
EXTENDS Rendezvous, FiniteSetTheorems, TLAPS

------------------------------------------------------------------------------
(* The inductive invariant of the sessions *)

ServerAt == {"none", "arriving", "request", "finalization", "nonce", "keys", "active", "ended"}

\* What the streams of a connection carry, and what an end registers.
Key == {<<>>} \cup ({"client-key", "server-key"} \X Conn)
Message ==
  {<<"response">>, <<"finalization">>, <<"forged">>, <<"nonce">>}
    \cup ({"request"} \X BOOLEAN) \cup Key
KeyPair == [send : Key, recv : Key]
End == {"client", "server"}

SessionType ==
  /\ server \in [Conn -> ServerAt]
  /\ keys \in [Conn -> [End -> KeyPair]]
  /\ c2s \in [Conn -> Seq(Message)] /\ s2c \in [Conn -> Seq(Message)]

Member(c) == Kind[c[1]] = "member"
Holds(queue, m) == \E i \in 1 .. Len(queue) : queue[i] = m

\* What each side may conclude from what it has received: a genuine finalization was made
\* by a client that knows the password, and only such a client gets the host's nonce.
KeyInv(c) ==
  /\ Holds(c2s[c], <<"finalization">>) \/ server[c] \in {"nonce", "keys"} => Member(c)
  /\ Holds(s2c[c], <<"nonce">>) => Member(c)
  /\ keys[c]["server"] = NoKeys \/ (keys[c]["server"] = ServerKeys(c) /\ Member(c))
  /\ keys[c]["client"] = NoKeys \/ (keys[c]["client"] = ClientKeys(c) /\ Member(c))

\* The host has no task for a connection that was not made yet.
MadeInv ==
  /\ tries \in [Device -> Nat]
  /\ \A c \in Conn : tries[c[1]] < c[2] => server[c] = "none"

SessionInv == SessionType /\ \A c \in Conn : KeyInv(c)

------------------------------------------------------------------------------
(* The inductive invariant of the driver *)

DriverAt ==
  {"off", "start", "registering", "poll", "polling", "accepting", "sleep", "bind", "listen",
   "serve", "failed"}
ControlRequest ==
  [type : {"none", "register", "poll"}] \cup [type : {"accept"}, intents : SUBSET Conn]
ControlReply ==
  [type : {"ack", "error"}] \cup [type : {"pending", "exchange"}, intents : SUBSET Conn]

ControlType ==
  /\ driver \in [at : DriverAt, intents : SUBSET Conn, wait : Nat]
  /\ request \in ControlRequest /\ inbox \in Seq(ControlReply)
  /\ known \in BOOLEAN /\ faults \in Nat

\* A request is on its way, or one reply of the right kind.
Awaits(req, replies) ==
  \/ request.type = req /\ inbox = <<>>
  \/ request.type = "none" /\ Len(inbox) = 1 /\ inbox[1].type \in replies

Idle == request.type = "none" /\ inbox = <<>>

\* Without a fault the driver and the relay take turns, and the relay knows the host from
\* its registration on.
TurnInv ==
  /\ driver.at # "failed"
  /\ driver.at = "registering" => Awaits("register", {"ack"}) /\ (request.type = "none" => known)
  /\ driver.at = "polling" => Awaits("poll", {"pending"})
  /\ driver.at = "accepting" => Awaits("accept", {"exchange", "error"})
  /\ driver.at \notin {"registering", "polling", "accepting"} => Idle
  /\ driver.at \notin {"off", "start", "registering"} => known

ControlInv == ControlType /\ (faults = 0 => TurnInv)

------------------------------------------------------------------------------
(* Connections, messages and streams *)

\* A connection belongs to a client.
LEMMA ConnFacts ==
  ASSUME NEW c \in Conn
  PROVE  c[1] \in Device /\ Kind[c[1]] \in {"member", "stranger"}
<1>1. PICK d \in Device : c \in {d} \X (1 .. MaxTries[d])
  BY DEF Conn
<1>2. c[1] = d
  BY <1>1
<1> QED
  BY <1>2, HostAssumption

\* The messages of the handshake are told from each other and from every key.
LEMMA MessageFacts ==
  /\ \A b \in BOOLEAN : Request(b) \in Message /\ Request(b) # <<"finalization">>
                        /\ Request(b)[1] = "request"
  /\ \A k \in Key : k \in Message /\ k # <<"finalization">> /\ k # <<"nonce">>
  /\ {<<"response">>, <<"finalization">>, <<"forged">>, <<"nonce">>} \subseteq Message
  /\ <<"response">> # <<"nonce">> /\ <<"nonce">> # <<"finalization">>
  /\ <<"forged">> # <<"finalization">>
<1>1. \A b \in BOOLEAN : Request(b) \in Message /\ Request(b) # <<"finalization">>
                         /\ Request(b)[1] = "request"
  BY DEF Request, Message
<1>2. ASSUME NEW k \in Key
      PROVE  k \in Message /\ k # <<"finalization">> /\ k # <<"nonce">>
  BY DEF Key, Message
<1>3. /\ {<<"response">>, <<"finalization">>, <<"forged">>, <<"nonce">>} \subseteq Message
      /\ <<"response">> # <<"nonce">> /\ <<"nonce">> # <<"finalization">>
      /\ <<"forged">> # <<"finalization">>
  BY DEF Message
<1> QED
  BY <1>1, <1>2, <1>3

\* The keys the two ends register.
LEMMA KeyFacts ==
  ASSUME NEW c \in Conn
  PROVE  /\ NoKeys \in KeyPair /\ ClientKeys(c) \in KeyPair /\ ServerKeys(c) \in KeyPair
         /\ ClientKeys(c).send = ServerKeys(c).recv /\ ClientKeys(c).recv = ServerKeys(c).send
BY DEF NoKeys, ClientKeys, ServerKeys, KeyPair, Key

\* What a stream holds after a message has been written or read, or when it is dropped.
LEMMA QueueFacts ==
  ASSUME NEW q \in Seq(Message), NEW m \in Message
  PROVE  /\ Append(q, m) \in Seq(Message)
         /\ \A x : Holds(Append(q, m), x) => Holds(q, x) \/ m = x
         /\ <<>> \in Seq(Message) /\ \A x : ~Holds(<<>>, x)
         /\ q # <<>> => /\ Head(q) \in Message /\ Tail(q) \in Seq(Message)
                        /\ Holds(q, Head(q)) /\ \A x : Holds(Tail(q), x) => Holds(q, x)
<1>1. <<>> \in Seq(Message) /\ \A x : ~Holds(<<>>, x)
  BY DEF Holds
<1>2. /\ Append(q, m) \in Seq(Message)
      /\ \A x : Holds(Append(q, m), x) => Holds(q, x) \/ m = x
  <2> DEFINE a == Append(q, m)
  <2>1. /\ a \in Seq(Message) /\ Len(a) = Len(q) + 1 /\ Len(q) \in Nat
        /\ \A i \in 1 .. Len(q) : a[i] = q[i]
        /\ a[Len(q) + 1] = m
    OBVIOUS
  <2> HIDE DEF a
  <2>2. \A x : Holds(a, x) => Holds(q, x) \/ m = x
    BY <2>1 DEF Holds
  <2> QED
    BY <2>1, <2>2 DEF a
<1>3. ASSUME q # <<>>
      PROVE  /\ Head(q) \in Message /\ Tail(q) \in Seq(Message)
             /\ Holds(q, Head(q)) /\ \A x : Holds(Tail(q), x) => Holds(q, x)
  <2> DEFINE t == Tail(q)
             h == Head(q)
  <2>1. /\ h \in Message /\ t \in Seq(Message) /\ Len(q) \in Nat \ {0} /\ Len(t) = Len(q) - 1
        /\ h = q[1] /\ \A i \in 1 .. Len(t) : t[i] = q[i + 1]
    BY <1>3
  <2> HIDE DEF t, h
  <2>2. Holds(q, h)
    BY <2>1 DEF Holds
  <2>3. ASSUME NEW x, NEW i \in 1 .. Len(t), t[i] = x PROVE Holds(q, x)
    <3>1. i + 1 \in 1 .. Len(q) /\ q[i + 1] = x
      BY <2>1, <2>3
    <3> QED
      BY <3>1 DEF Holds
  <2>4. \A x : Holds(t, x) => Holds(q, x)
    BY <2>3 DEF Holds
  <2> QED
    BY <2>1, <2>2, <2>4 DEF t, h
<1> QED
  BY <1>1, <1>2, <1>3

\* Two messages written at once, as the client's finalization and nonce are.
LEMMA TwoWritten ==
  ASSUME NEW q \in Seq(Message), NEW m \in Message, NEW n \in Message
  PROVE  /\ q \o <<m, n>> \in Seq(Message)
         /\ \A x : Holds(q \o <<m, n>>, x) => Holds(q, x) \/ m = x \/ n = x
<1> DEFINE a == q \o <<m, n>>
<1>1. <<m, n>> \in Seq(Message) /\ Len(<<m, n>>) = 2
  OBVIOUS
<1>2. /\ a \in Seq(Message) /\ Len(a) = Len(q) + 2 /\ Len(q) \in Nat
      /\ \A i \in 1 .. Len(q) : a[i] = q[i]
      /\ a[Len(q) + 1] = m /\ a[Len(q) + 2] = n
  BY <1>1
<1> HIDE DEF a
<1>3. \A x : Holds(a, x) => Holds(q, x) \/ m = x \/ n = x
  BY <1>2 DEF Holds
<1> QED
  BY <1>2, <1>3 DEF a

------------------------------------------------------------------------------
(* Steps of one connection *)

\* What a step of connection c leaves alone.
OthersKept(c) ==
  \A d \in Conn \ {c} : /\ server'[d] = server[d] /\ keys'[d] = keys[d]
                        /\ c2s'[d] = c2s[d] /\ s2c'[d] = s2c[d]

\* Whatever a stream still holds, it held before.
Shrinks(old, new) == new \in Seq(Message) /\ \A x : Holds(new, x) => Holds(old, x)

\* A step of one connection has to keep the invariant of that connection.
LEMMA OneConnection ==
  ASSUME SessionInv, NEW c \in Conn, SessionType', OthersKept(c), KeyInv(c)'
  PROVE  SessionInv'
<1> SUFFICES ASSUME NEW d \in Conn, d # c PROVE KeyInv(d)'
  BY DEF SessionInv
<1>1. KeyInv(d)
  BY DEF SessionInv
<1>2. server'[d] = server[d] /\ keys'[d] = keys[d]
      /\ c2s'[d] = c2s[d] /\ s2c'[d] = s2c[d]
  BY DEF OthersKept
<1> QED
  BY <1>1, <1>2 DEF KeyInv

\* A step that registers no keys and writes nothing.
LEMMA OnlyReads ==
  ASSUME SessionInv, NEW c \in Conn, SessionType', OthersKept(c), keys'[c] = keys[c],
         server'[c] \in {"nonce", "keys"} => Member(c),
         Shrinks(c2s[c], c2s'[c]), Shrinks(s2c[c], s2c'[c])
  PROVE  SessionInv'
<1>1. KeyInv(c)
  BY DEF SessionInv
<1>2. KeyInv(c)'
  BY <1>1 DEF KeyInv, Shrinks
<1> QED
  BY <1>2, OneConnection

\* A stream that is left alone, read from or dropped.
LEMMA ShrinkFacts ==
  ASSUME NEW q \in Seq(Message)
  PROVE  /\ Shrinks(q, q) /\ Shrinks(q, <<>>)
         /\ q # <<>> => Shrinks(q, Tail(q)) /\ Tail(q) \in Seq(Message)
<1>1. <<"nonce">> \in Message
  BY MessageFacts
<1> QED
  BY <1>1, QueueFacts DEF Shrinks

\* The end of a task, however it comes: its stream is dropped.
LEMMA EndTaskKeeps ==
  ASSUME SessionInv, NEW c \in Conn, EndTask(c), UNCHANGED <<keys, s2c>>
  PROVE  SessionInv'
<1>1. /\ server' = [server EXCEPT ![c] = "ended"]
      /\ c2s' = [c2s EXCEPT ![c] = <<>>] /\ keys' = keys /\ s2c' = s2c
  BY DEF EndTask
<1>2. SessionType /\ <<>> \in Seq(Message)
  BY DEF SessionInv
<1>3. SessionType' /\ OthersKept(c)
  BY <1>1, <1>2 DEF SessionType, OthersKept, ServerAt
<1>4. server'[c] = "ended" /\ c2s'[c] = <<>> /\ s2c'[c] = s2c[c]
  BY <1>1, <1>2 DEF SessionType
<1>5. Shrinks(c2s[c], c2s'[c]) /\ Shrinks(s2c[c], s2c'[c])
  BY <1>2, <1>4, ShrinkFacts DEF SessionType
<1> QED
  BY <1>1, <1>3, <1>4, <1>5, OnlyReads

\* Admission, in direct mode and behind the relay.
LEMMA AdmitKeeps ==
  ASSUME SessionInv, NEW c \in Conn, NEW ip, Admit(c, ip)
  PROVE  SessionInv'
<1>1. PICK at \in {"request", "ended"}, q \in {c2s[c], <<>>} :
        /\ server' = [server EXCEPT ![c] = at] /\ c2s' = [c2s EXCEPT ![c] = q]
  <2>1. SessionType
    BY DEF SessionInv
  <2>2. c2s = [c2s EXCEPT ![c] = c2s[c]]
    BY <2>1 DEF SessionType
  <2> QED
    BY <2>2 DEF Admit
<1>2. UNCHANGED <<keys, s2c>>
  BY DEF Admit
<1>3. SessionType /\ <<>> \in Seq(Message) /\ c2s[c] \in Seq(Message) /\ s2c[c] \in Seq(Message)
  BY DEF SessionInv, SessionType
<1>4. SessionType' /\ OthersKept(c)
  BY <1>1, <1>2, <1>3 DEF SessionType, OthersKept, ServerAt
<1>5. server'[c] = at /\ c2s'[c] = q
  BY <1>1, <1>3 DEF SessionType
<1>6. Shrinks(c2s[c], c2s'[c]) /\ Shrinks(s2c[c], s2c'[c])
  BY <1>1, <1>2, <1>3, <1>5, ShrinkFacts
<1> QED
  BY <1>1, <1>2, <1>4, <1>5, <1>6, OnlyReads

\* The first message of the host's task: the request of a client that is enrolled is
\* answered, any other ends the task.
LEMMA RecvRequestKeeps ==
  ASSUME SessionInv, NEW c \in Conn, RecvRequest(c)
  PROVE  SessionInv'
<1>1. CASE ~Enrolled(Head(c2s[c]))
  BY <1>1, EndTaskKeeps DEF RecvRequest
<1>2. CASE Enrolled(Head(c2s[c]))
  <2>1. /\ server' = [server EXCEPT ![c] = "finalization"] /\ server[c] = "request"
        /\ c2s' = [c2s EXCEPT ![c] = Tail(c2s[c])] /\ c2s[c] # <<>>
        /\ s2c' = [s2c EXCEPT ![c] = Append(s2c[c], <<"response">>)]
        /\ UNCHANGED keys
    BY <1>2 DEF RecvRequest, Take, Put
  <2>2. SessionType /\ KeyInv(c)
    BY DEF SessionInv
  <2>3. c2s[c] \in Seq(Message) /\ s2c[c] \in Seq(Message)
    BY <2>2 DEF SessionType
  <2>4. /\ Shrinks(c2s[c], Tail(c2s[c])) /\ Tail(c2s[c]) \in Seq(Message)
        /\ Append(s2c[c], <<"response">>) \in Seq(Message)
        /\ Holds(Append(s2c[c], <<"response">>), <<"nonce">>) => Holds(s2c[c], <<"nonce">>)
    <3>1. <<"response">> \in Message /\ <<"response">> # <<"nonce">>
      BY MessageFacts
    <3> QED
      BY <2>1, <2>3, <3>1, QueueFacts, ShrinkFacts
  <2>5. SessionType' /\ OthersKept(c)
    BY <2>1, <2>2, <2>4 DEF SessionType, OthersKept, ServerAt
  <2>6. /\ server'[c] = "finalization" /\ c2s'[c] = Tail(c2s[c])
        /\ s2c'[c] = Append(s2c[c], <<"response">>)
    BY <2>1, <2>2 DEF SessionType
  <2>7. KeyInv(c)'
    BY <2>1, <2>2, <2>4, <2>6 DEF KeyInv, Shrinks
  <2> QED
    BY <2>5, <2>7, OneConnection
<1> QED
  BY <1>1, <1>2

\* The second: the finalization that is taken for genuine is a member's.
LEMMA RecvFinalizationKeeps ==
  ASSUME SessionInv, NEW c \in Conn, RecvFinalization(c)
  PROVE  SessionInv'
<1>1. CASE ~Genuine(Head(c2s[c]))
  BY <1>1, EndTaskKeeps DEF RecvFinalization
<1>2. CASE Genuine(Head(c2s[c]))
  <2>1. /\ server' = [server EXCEPT ![c] = "nonce"] /\ server[c] = "finalization"
        /\ c2s' = [c2s EXCEPT ![c] = Tail(c2s[c])] /\ c2s[c] # <<>>
        /\ Head(c2s[c]) = <<"finalization">>
        /\ UNCHANGED <<keys, s2c>>
    BY <1>2 DEF RecvFinalization, Take, Genuine
  <2>2. SessionType /\ KeyInv(c)
    BY DEF SessionInv
  <2>3. c2s[c] \in Seq(Message) /\ s2c[c] \in Seq(Message)
    BY <2>2 DEF SessionType
  <2>4. /\ Shrinks(c2s[c], Tail(c2s[c])) /\ Tail(c2s[c]) \in Seq(Message)
        /\ Shrinks(s2c[c], s2c[c])
        /\ Holds(c2s[c], <<"finalization">>)
    <3>1. <<"response">> \in Message
      BY MessageFacts
    <3>2. Holds(c2s[c], Head(c2s[c]))
      BY <2>1, <2>3, <3>1, QueueFacts
    <3> QED
      BY <2>1, <2>3, <3>2, ShrinkFacts
  <2>5. SessionType' /\ OthersKept(c)
    BY <2>1, <2>2, <2>4 DEF SessionType, OthersKept, ServerAt
  <2>6. server'[c] = "nonce" /\ c2s'[c] = Tail(c2s[c]) /\ s2c'[c] = s2c[c]
    BY <2>1, <2>2 DEF SessionType
  <2>7. Member(c)
    BY <2>2, <2>4 DEF KeyInv
  <2> QED
    BY <2>1, <2>4, <2>5, <2>6, <2>7, OnlyReads
<1> QED
  BY <1>1, <1>2

\* The last: the host's nonce goes to a member...
LEMMA SendNonceKeeps ==
  ASSUME SessionInv, NEW c \in Conn, SendNonce(c)
  PROVE  SessionInv'
<1>1. /\ server' = [server EXCEPT ![c] = "keys"] /\ server[c] = "nonce"
      /\ c2s' = [c2s EXCEPT ![c] = Tail(c2s[c])] /\ c2s[c] # <<>>
      /\ s2c' = [s2c EXCEPT ![c] = Append(s2c[c], <<"nonce">>)]
      /\ UNCHANGED keys
  BY DEF SendNonce, Take, Put, Arrived
<1>2. SessionType /\ KeyInv(c)
  BY DEF SessionInv
<1>3. /\ Shrinks(c2s[c], Tail(c2s[c])) /\ Tail(c2s[c]) \in Seq(Message)
      /\ Append(s2c[c], <<"nonce">>) \in Seq(Message)
  <2>1. <<"nonce">> \in Message /\ c2s[c] \in Seq(Message) /\ s2c[c] \in Seq(Message)
    BY <1>2, MessageFacts DEF SessionType
  <2> QED
    BY <1>1, <2>1, QueueFacts, ShrinkFacts
<1>4. SessionType' /\ OthersKept(c)
  BY <1>1, <1>2, <1>3 DEF SessionType, OthersKept, ServerAt
<1>5. server'[c] = "keys" /\ c2s'[c] = Tail(c2s[c]) /\ Member(c)
  BY <1>1, <1>2 DEF SessionType, KeyInv
<1>6. KeyInv(c)'
  BY <1>1, <1>2, <1>3, <1>5 DEF KeyInv, Shrinks
<1> QED
  BY <1>4, <1>6, OneConnection

\* ...for whom the host then registers its keys; the client may have done so before.
LEMMA RegisterKeysKeeps ==
  ASSUME SessionInv, NEW c \in Conn, RegisterKeys(c)
  PROVE  SessionInv'
<1>1. /\ server' = [server EXCEPT ![c] = "active"] /\ server[c] = "keys"
      /\ keys' = [keys EXCEPT ![c]["server"] = ServerKeys(c)]
      /\ UNCHANGED <<c2s, s2c>>
  BY DEF RegisterKeys, CreateSession
<1>2. SessionType /\ KeyInv(c) /\ ServerKeys(c) \in KeyPair
  BY KeyFacts DEF SessionInv
<1>3. SessionType' /\ OthersKept(c)
  BY <1>1, <1>2 DEF SessionType, OthersKept, ServerAt, End
<1>4. /\ server'[c] = "active" /\ keys'[c]["server"] = ServerKeys(c)
      /\ keys'[c]["client"] = keys[c]["client"]
  BY <1>1, <1>2 DEF SessionType, End
<1>5. KeyInv(c)'
  BY <1>1, <1>2, <1>4 DEF KeyInv
<1> QED
  BY <1>3, <1>5, OneConnection

\* A message of the established session is read, or ends the task.
LEMMA RecvMessageKeeps ==
  ASSUME SessionInv, NEW c \in Conn, RecvMessage(c)
  PROVE  SessionInv'
<1>1. CASE EndTask(c)
  BY <1>1, EndTaskKeeps DEF RecvMessage
<1>2. CASE c2s' = Take(c2s, c) /\ UNCHANGED server
  <2>1. c2s' = [c2s EXCEPT ![c] = Tail(c2s[c])] /\ c2s[c] # <<>> /\ server[c] = "active"
        /\ UNCHANGED <<keys, s2c, server>>
    BY <1>2 DEF RecvMessage, Take
  <2>2. SessionType
    BY DEF SessionInv
  <2>3. Shrinks(c2s[c], Tail(c2s[c])) /\ Tail(c2s[c]) \in Seq(Message) /\ Shrinks(s2c[c], s2c[c])
    BY <2>1, <2>2, ShrinkFacts DEF SessionType
  <2>4. SessionType' /\ OthersKept(c)
    BY <2>1, <2>2, <2>3 DEF SessionType, OthersKept
  <2>5. c2s'[c] = Tail(c2s[c])
    BY <2>1, <2>2 DEF SessionType
  <2> QED
    BY <2>1, <2>3, <2>4, <2>5, OnlyReads
<1> QED
  BY <1>1, <1>2 DEF RecvMessage

\* Steps that leave tasks, streams and keys alone.
LEMMA SessionKept ==
  ASSUME SessionInv, UNCHANGED <<server, keys, c2s, s2c>>
  PROVE  SessionInv'
BY DEF SessionInv, SessionType, KeyInv

\* Steps in which the host's stream to the client is read or dropped.
LEMMA ClientReads ==
  ASSUME SessionInv, NEW c \in Conn, UNCHANGED <<server, keys, c2s>>,
         \/ s2c' = [s2c EXCEPT ![c] = <<>>]
         \/ s2c[c] # <<>> /\ s2c' = [s2c EXCEPT ![c] = Tail(s2c[c])]
  PROVE  SessionInv'
<1>1. SessionType /\ KeyInv(c)
  BY DEF SessionInv
<1>2. PICK q \in Seq(Message) : s2c' = [s2c EXCEPT ![c] = q] /\ Shrinks(s2c[c], q)
  <2>1. s2c[c] \in Seq(Message) /\ <<>> \in Seq(Message)
    BY <1>1 DEF SessionType
  <2> QED
    BY <2>1, ShrinkFacts
<1>3. SessionType' /\ OthersKept(c) /\ s2c'[c] = q
  BY <1>1, <1>2 DEF SessionType, OthersKept
<1>4. Shrinks(c2s[c], c2s[c])
  BY <1>1, ShrinkFacts DEF SessionType
<1>5. server'[c] \in {"nonce", "keys"} => Member(c)
  BY <1>1 DEF KeyInv
<1> QED
  BY <1>2, <1>3, <1>4, <1>5, OnlyReads

\* Steps in which a client writes: what it writes is genuine only if it is a member.
LEMMA ClientWrites ==
  ASSUME SessionInv, NEW c \in Conn, UNCHANGED keys,
         server' = server \/ server' = [server EXCEPT ![c] = "arriving"],
         NEW q \in Seq(Message), c2s' = [c2s EXCEPT ![c] = q],
         Holds(q, <<"finalization">>) => Holds(c2s[c], <<"finalization">>) \/ Member(c),
         NEW r \in Seq(Message), s2c' = [s2c EXCEPT ![c] = r], Shrinks(s2c[c], r)
  PROVE  SessionInv'
<1>1. SessionType /\ KeyInv(c)
  BY DEF SessionInv
<1>2. SessionType' /\ OthersKept(c) /\ c2s'[c] = q /\ s2c'[c] = r
  BY <1>1 DEF SessionType, OthersKept, ServerAt
<1>3. server'[c] = server[c] \/ server'[c] = "arriving"
  BY <1>1 DEF SessionType
<1>4. KeyInv(c)'
  BY <1>1, <1>2, <1>3 DEF KeyInv, Shrinks
<1> QED
  BY <1>2, <1>4, OneConnection

\* The sender task writes what is encrypted with the host's key: never a nonce.
LEMMA StreamMessageKeeps ==
  ASSUME SessionInv, NEW c \in Conn, StreamMessage(c)
  PROVE  SessionInv'
<1> DEFINE k == keys[c]["server"].send
<1>1. s2c' = [s2c EXCEPT ![c] = Append(s2c[c], k)] /\ UNCHANGED <<server, keys, c2s>>
  BY DEF StreamMessage, Put, host
<1>2. SessionType /\ KeyInv(c)
  BY DEF SessionInv
<1>3. k \in Key /\ s2c[c] \in Seq(Message)
  BY <1>2 DEF SessionType, End, KeyPair
<1> HIDE DEF k
<1>4. /\ Append(s2c[c], k) \in Seq(Message)
      /\ Holds(Append(s2c[c], k), <<"nonce">>) => Holds(s2c[c], <<"nonce">>)
  <2>1. k \in Message /\ k # <<"nonce">>
    BY <1>3, MessageFacts
  <2> QED
    BY <1>3, <2>1, QueueFacts
<1>5. SessionType' /\ OthersKept(c) /\ s2c'[c] = Append(s2c[c], k)
  BY <1>1, <1>2, <1>4 DEF SessionType, OthersKept
<1>6. KeyInv(c)'
  BY <1>1, <1>2, <1>4, <1>5 DEF KeyInv
<1> QED
  BY <1>5, <1>6, OneConnection

\* The client answers the response with a finalization of its kind and its nonce.
LEMMA ClientRecvResponseKeeps ==
  ASSUME SessionInv, NEW c \in Conn, ClientRecvResponse(c)
  PROVE  SessionInv'
<1>1. UNCHANGED <<server, keys>> /\ s2c[c] # <<>>
  BY DEF ClientRecvResponse, host, Arrived
<1>2. CASE Failed(c) /\ UNCHANGED c2s
  BY <1>1, <1>2, ClientReads DEF Failed
<1>3. CASE /\ s2c' = Take(s2c, c)
           /\ c2s' = [c2s EXCEPT ![c] = @ \o << Finalization(c[1]), <<"nonce">> >>]
  <2>1. SessionType
    BY DEF SessionInv
  <2>2. c2s[c] \in Seq(Message) /\ s2c[c] \in Seq(Message)
    BY <2>1 DEF SessionType
  <2>3. /\ Finalization(c[1]) \in Message /\ <<"nonce">> \in Message
        /\ <<"nonce">> # <<"finalization">>
        /\ Finalization(c[1]) = <<"finalization">> => Member(c)
    BY MessageFacts DEF Finalization, Member
  <2> DEFINE q == c2s[c] \o << Finalization(c[1]), <<"nonce">> >>
  <2>4. /\ q \in Seq(Message)
        /\ Holds(q, <<"finalization">>) => Holds(c2s[c], <<"finalization">>) \/ Member(c)
    BY <2>2, <2>3, TwoWritten
  <2>5. c2s' = [c2s EXCEPT ![c] = q] /\ s2c' = [s2c EXCEPT ![c] = Tail(s2c[c])]
    BY <1>3 DEF Take
  <2>6. Tail(s2c[c]) \in Seq(Message) /\ Shrinks(s2c[c], Tail(s2c[c]))
    BY <1>1, <2>2, ShrinkFacts
  <2> HIDE DEF q
  <2> QED
    BY <1>1, <2>4, <2>5, <2>6, ClientWrites
<1> QED
  BY <1>2, <1>3 DEF ClientRecvResponse

\* The client registers its keys when it has the host's nonce, whether or not the host has.
LEMMA ClientRecvNonceKeeps ==
  ASSUME SessionInv, NEW c \in Conn, ClientRecvNonce(c)
  PROVE  SessionInv'
<1>1. /\ s2c' = [s2c EXCEPT ![c] = Tail(s2c[c])] /\ s2c[c] # <<>> /\ Head(s2c[c]) = <<"nonce">>
      /\ keys' = [keys EXCEPT ![c]["client"] = ClientKeys(c)]
      /\ UNCHANGED <<server, c2s>>
  BY DEF ClientRecvNonce, host, Take, Arrived, CreateSession
<1>2. SessionType /\ KeyInv(c)
  BY DEF SessionInv
<1>3. /\ Shrinks(s2c[c], Tail(s2c[c])) /\ Tail(s2c[c]) \in Seq(Message)
      /\ Holds(s2c[c], <<"nonce">>)
  <2>1. <<"nonce">> \in Message /\ s2c[c] \in Seq(Message)
    BY <1>2, MessageFacts DEF SessionType
  <2>2. Holds(s2c[c], Head(s2c[c]))
    BY <1>1, <2>1, QueueFacts
  <2> QED
    BY <1>1, <2>1, <2>2, ShrinkFacts
<1>4. ClientKeys(c) \in KeyPair
  BY KeyFacts
<1>5. SessionType' /\ OthersKept(c) /\ s2c'[c] = Tail(s2c[c])
  BY <1>1, <1>2, <1>3, <1>4 DEF SessionType, OthersKept, End
<1>6. /\ keys'[c]["client"] = ClientKeys(c) /\ keys'[c]["server"] = keys[c]["server"]
  BY <1>1, <1>2 DEF SessionType, End
<1>7. KeyInv(c)'
  BY <1>1, <1>2, <1>3, <1>5, <1>6 DEF KeyInv, Shrinks
<1> QED
  BY <1>5, <1>7, OneConnection

\* The forward loop writes what is encrypted with the client's key: never a finalization.
LEMMA ForwardKeeps ==
  ASSUME SessionInv, NEW c \in Conn, Forward(c)
  PROVE  SessionInv'
<1> DEFINE k == keys[c]["client"].send
           q == Append(c2s[c], k)
<1>1. c2s' = [c2s EXCEPT ![c] = q] /\ UNCHANGED <<server, keys, s2c>>
  BY DEF Forward, Put, host
<1>2. SessionType
  BY DEF SessionInv
<1>3. k \in Key /\ c2s[c] \in Seq(Message) /\ s2c[c] \in Seq(Message)
  BY <1>2 DEF SessionType, End, KeyPair
<1> HIDE DEF k
<1>4. q \in Seq(Message) /\ (Holds(q, <<"finalization">>) => Holds(c2s[c], <<"finalization">>))
  <2>1. k \in Message /\ k # <<"finalization">>
    BY <1>3, MessageFacts
  <2> QED
    BY <1>3, <2>1, QueueFacts
<1>5. s2c' = [s2c EXCEPT ![c] = s2c[c]] /\ Shrinks(s2c[c], s2c[c])
  BY <1>1, <1>2, <1>3, ShrinkFacts DEF SessionType
<1> HIDE DEF q
<1> QED
  BY <1>1, <1>3, <1>4, <1>5, ClientWrites

\* A new connection starts with a credential request; the host has no task for it yet.
LEMMA ConnectKeeps ==
  ASSUME SessionInv, NEW c \in Conn, Connect(c), server[c] = "none"
  PROVE  SessionInv'
<1>1. UNCHANGED <<keys, s2c>> /\ server' = [server EXCEPT ![c] = "arriving"]
  BY DEF Connect
<1>2. PICK b \in BOOLEAN : c2s' = [c2s EXCEPT ![c] = Append(c2s[c], Request(b))]
  BY DEF Connect, Identifiers, Put
<1> DEFINE q == Append(c2s[c], Request(b))
<1>3. SessionType
  BY DEF SessionInv
<1>4. c2s[c] \in Seq(Message) /\ s2c[c] \in Seq(Message)
  BY <1>3 DEF SessionType
<1>5. q \in Seq(Message) /\ (Holds(q, <<"finalization">>) => Holds(c2s[c], <<"finalization">>))
  <2>1. Request(b) \in Message /\ Request(b) # <<"finalization">>
    BY MessageFacts
  <2> QED
    BY <1>4, <2>1, QueueFacts
<1>6. s2c' = [s2c EXCEPT ![c] = s2c[c]] /\ Shrinks(s2c[c], s2c[c])
  BY <1>1, <1>3, <1>4, ShrinkFacts DEF SessionType
<1>7. c2s' = [c2s EXCEPT ![c] = q]
  BY <1>2
<1> HIDE DEF q
<1> QED
  BY <1>1, <1>4, <1>5, <1>6, <1>7, ClientWrites

\* An endpoint that is given up closes only what no task serves yet.
LEMMA AbandonKeeps ==
  ASSUME SessionInv, Abandon
  PROVE  SessionInv'
<1>1. /\ server' = [c \in Conn |-> IF server[c] = "arriving" THEN "ended" ELSE server[c]]
      /\ UNCHANGED <<keys, c2s, s2c>>
  BY DEF Abandon, host
<1>2. SessionType
  BY DEF SessionInv
<1>3. SessionType'
  BY <1>1, <1>2 DEF SessionType, ServerAt
<1>4. ASSUME NEW c \in Conn
      PROVE  KeyInv(c)'
  <2>1. KeyInv(c)
    BY DEF SessionInv
  <2>2. server'[c] = IF server[c] = "arriving" THEN "ended" ELSE server[c]
    BY <1>1
  <2> QED
    BY <1>1, <2>1, <2>2 DEF KeyInv
<1> QED
  BY <1>3, <1>4 DEF SessionInv

------------------------------------------------------------------------------
(* Every step of the composition *)

\* A connection is not made before its turn, and no other step starts a task for it.
LEMMA MadeKept ==
  ASSUME SessionType, MadeInv, [RNext]_allVars
  PROVE  MadeInv'
<1>1. ASSUME UNCHANGED tries,
             \A d \in Conn : server[d] = "none" => server'[d] = "none"
      PROVE  MadeInv'
  BY <1>1 DEF MadeInv
<1>2. ASSUME NEW c \in Conn, tries[c[1]] + 1 = c[2], tries' = [tries EXCEPT ![c[1]] = c[2]],
             \A d \in Conn : d # c => server'[d] = server[d]
      PROVE  MadeInv'
  <2>1. c[1] \in Device /\ tries[c[1]] \in Nat /\ c[2] \in Nat
    BY <1>2, ConnFacts DEF MadeInv
  <2>2. tries' \in [Device -> Nat]
    BY <1>2, <2>1 DEF MadeInv
  <2>3. ASSUME NEW d \in Conn, tries'[d[1]] < d[2] PROVE server'[d] = "none"
    <3>1. d[1] \in Device
      BY ConnFacts
    <3>2. CASE d[1] = c[1]
      <4>1. tries'[d[1]] = c[2]
        BY <1>2, <2>1, <3>2 DEF MadeInv
      <4>2. d[2] \in Nat
        <5>1. PICK e \in Device : d \in {e} \X (1 .. MaxTries[e])
          BY DEF Conn
        <5>2. MaxTries[e] \in Nat
          BY HostAssumption
        <5> QED
          BY <5>1, <5>2
      <4>3. tries[d[1]] < d[2] /\ d # c
        BY <1>2, <2>1, <2>3, <3>2, <4>1, <4>2
      <4> QED
        BY <1>2, <4>3 DEF MadeInv
    <3>3. CASE d[1] # c[1]
      <4>1. tries'[d[1]] = tries[d[1]]
        BY <1>2, <2>1, <3>1, <3>3 DEF MadeInv
      <4> QED
        BY <1>2, <2>3, <3>3, <4>1 DEF MadeInv
    <3> QED
      BY <3>2, <3>3
  <2> QED
    BY <2>2, <2>3 DEF MadeInv
<1>3. ASSUME NEW c \in Conn, NEW at, server[c] # "none", server' = [server EXCEPT ![c] = at],
             UNCHANGED tries
      PROVE  MadeInv'
  BY <1>1, <1>3 DEF SessionType
<1>4. ASSUME NEW c \in Conn, SessionStep(c) PROVE MadeInv'
  <2>1. CASE RecvRequest(c) \/ RecvFinalization(c)
    BY <1>3, <2>1 DEF RecvRequest, RecvFinalization, EndTask, clients
  <2>2. CASE SendNonce(c) \/ RegisterKeys(c)
    BY <1>3, <2>2 DEF SendNonce, RegisterKeys, clients
  <2>3. CASE RecvMessage(c)
    BY <1>1, <1>3, <2>3 DEF RecvMessage, EndTask, clients
  <2>4. CASE RecvFails(c) \/ Timeout(c)
    <3>1. server[c] # "none"
      BY <2>4 DEF RecvFails, Timeout, TimeoutDue, Serving, Handshaking
    <3> QED
      BY <1>3, <2>4, <3>1 DEF RecvFails, Timeout, EndTask, clients
  <2>5. CASE StreamMessage(c) \/ StreamEnds(c) \/ ClientStep(c) \/ LoseConnection(c)
    <3>1. UNCHANGED <<server, tries>>
      BY <2>5 DEF StreamMessage, StreamEnds, ClientStep, ClientRecvResponse, ClientRecvNonce,
                  ClientRecvFails, Forward, ForwardEnds, View, LoseConnection, clients
    <3> QED
      BY <1>1, <3>1
  <2> QED
    BY <1>4, <2>1, <2>2, <2>3, <2>4, <2>5 DEF SessionStep, HostStep
<1>5. ASSUME NEW c \in Conn, NEW ip, Admit(c, ip) PROVE MadeInv'
  BY <1>3, <1>5 DEF Admit, clients
<1>6. ASSUME NEW c \in Conn, ClientConnects(c) \/ ClientCannotConnect(c) PROVE MadeInv'
  <2>1. /\ tries[c[1]] + 1 = c[2] /\ tries' = [tries EXCEPT ![c[1]] = c[2]]
        /\ server' = [server EXCEPT ![c] = "arriving"] \/ server' = server
    BY <1>6 DEF ClientConnects, ClientCannotConnect, Connect, ConnectFails
  <2> QED
    BY <1>2, <2>1 DEF SessionType
<1>7. CASE Abandon
  <2>1. /\ server' = [c \in Conn |-> IF server[c] = "arriving" THEN "ended" ELSE server[c]]
        /\ UNCHANGED tries
    BY <1>7 DEF Abandon, clients
  <2> QED
    BY <1>1, <2>1
<1>8. CASE UNCHANGED <<server, tries>>
  BY <1>1, <1>8
<1>9. CASE DriverStep
  BY <1>5, <1>7, <1>8, <1>9 DEF DriverStep, AcceptInitiator, Register, Poll, Receive, Bind,
                                SessionEnds, Wake, vars, clients
<1>10. CASE RelayAnswers \/ Fault \/ RTick \/ UNCHANGED allVars
  BY <1>8, <1>10 DEF RelayAnswers, Fault, RTick, Tick, allVars, vars, clients
<1>11. ASSUME NEW c \in Conn, AcceptDirect(c) \/ MakeIntent(c) \/ IntentExpires(c) PROVE MadeInv'
  BY <1>5, <1>8, <1>11 DEF AcceptDirect, MakeIntent, IntentExpires, vars, clients
<1> QED
  BY <1>4, <1>6, <1>9, <1>10, <1>11 DEF RNext

\* Every step of the composition keeps the invariant of the sessions.
LEMMA SessionInvKept ==
  ASSUME SessionInv, MadeInv, [RNext]_allVars
  PROVE  SessionInv'
<1>1. ASSUME NEW c \in Conn, HostStep(c) \/ Timeout(c) PROVE SessionInv'
  <2>1. CASE RecvFails(c) \/ Timeout(c)
    BY <2>1, EndTaskKeeps DEF RecvFails, Timeout
  <2>2. CASE StreamEnds(c)
    BY <2>2, SessionKept DEF StreamEnds
  <2> QED
    BY <1>1, <2>1, <2>2, RecvRequestKeeps, RecvFinalizationKeeps, SendNonceKeeps,
       RegisterKeysKeeps, RecvMessageKeeps, StreamMessageKeeps DEF HostStep
<1>2. ASSUME NEW c \in Conn, ClientStep(c) PROVE SessionInv'
  <2>1. CASE ClientRecvFails(c)
    BY <2>1, ClientReads DEF ClientRecvFails, Failed, host
  <2>2. CASE ForwardEnds(c)
    BY <2>2, ClientReads DEF ForwardEnds, Done, host
  <2>3. CASE View(c)
    <3>1. UNCHANGED <<server, keys, c2s>>
      BY <2>3 DEF View, host
    <3>2. UNCHANGED s2c \/ (s2c[c] # <<>> /\ s2c' = [s2c EXCEPT ![c] = Tail(s2c[c])])
      BY <2>3 DEF View, Take
    <3> QED
      BY <3>1, <3>2, ClientReads, SessionKept
  <2> QED
    BY <1>2, <2>1, <2>2, <2>3, ClientRecvResponseKeeps, ClientRecvNonceKeeps, ForwardKeeps
       DEF ClientStep
<1>3. ASSUME NEW c \in Conn, LoseConnection(c) PROVE SessionInv'
  BY <1>3, SessionKept DEF LoseConnection, host
<1>4. ASSUME NEW c \in Conn, AcceptDirect(c) PROVE SessionInv'
  BY <1>4, AdmitKeeps DEF AcceptDirect
<1>5. ASSUME NEW c \in Conn, ClientConnects(c) PROVE SessionInv'
  <2>1. Connect(c) /\ tries[c[1]] + 1 = c[2] /\ c[1] \in Device
    BY <1>5, ConnFacts DEF ClientConnects, Connect
  <2>2. server[c] = "none"
    BY <2>1 DEF MadeInv
  <2> QED
    BY <2>1, <2>2, ConnectKeeps
<1>6. ASSUME NEW c \in Conn, ClientCannotConnect(c) PROVE SessionInv'
  BY <1>6, ClientReads DEF ClientCannotConnect, ConnectFails, Failed, host
<1>7. ASSUME NEW c \in Conn, MakeIntent(c) \/ IntentExpires(c) PROVE SessionInv'
  BY <1>7, SessionKept DEF MakeIntent, IntentExpires, vars, host
<1>8. CASE DriverStep
  <2>1. ASSUME NEW c \in Conn, AcceptInitiator(c) PROVE SessionInv'
    BY <2>1, AdmitKeeps DEF AcceptInitiator
  <2>2. CASE Register \/ Poll \/ Receive \/ Bind \/ SessionEnds \/ Wake
    BY <2>2, SessionKept DEF Register, Poll, Receive, Bind, SessionEnds, Wake, vars, host
  <2> QED
    BY <1>8, <2>1, <2>2, AbandonKeeps DEF DriverStep
<1>9. CASE RTick
  BY <1>9, SessionKept DEF RTick, Tick
<1>10. CASE RelayAnswers \/ Fault \/ UNCHANGED allVars
  BY <1>10, SessionKept DEF RelayAnswers, Fault, allVars, vars, host
<1> QED
  BY <1>1, <1>2, <1>3, <1>4, <1>5, <1>6, <1>7, <1>8, <1>9, <1>10 DEF RNext, SessionStep

\* Every reachable state satisfies the invariant of the sessions.
LEMMA SessionInvariant == RSpec => [](SessionInv /\ MadeInv)
<1>1. RInit => SessionInv /\ MadeInv
  <2> SUFFICES ASSUME Init PROVE SessionInv /\ MadeInv
    BY DEF RInit
  <2>1. <<>> \in Seq(Message) /\ \A x : ~Holds(<<>>, x)
    BY DEF Holds
  <2>2. NoKeys \in KeyPair
    BY DEF NoKeys, KeyPair, Key
  <2>3. SessionType /\ MadeInv
    BY <2>1, <2>2, ConnFacts DEF Init, SessionType, ServerAt, End, MadeInv
  <2>4. ASSUME NEW c \in Conn PROVE KeyInv(c)
    BY <2>1, HostAssumption DEF Init, KeyInv
  <2> QED
    BY <2>3, <2>4 DEF SessionInv
<1>2. SessionInv /\ MadeInv /\ [RNext]_allVars => (SessionInv /\ MadeInv)'
  BY SessionInvKept, MadeKept DEF SessionInv
<1> QED
  BY <1>1, <1>2, PTL DEF RSpec

------------------------------------------------------------------------------
(* The results about sessions *)

\* Session keys are registered, at either end, only on behalf of a client that knows the
\* password, and the keys of the two ends of a connection fit (server_handshake swaps the
\* roles), whichever end registered first, also when the other never does.
THEOREM KeysAlwaysFit == RSpec => []KeysFit
<1>1. SessionInv => KeysFit
  <2> SUFFICES ASSUME SessionInv, NEW c \in Conn
               PROVE  /\ keys[c]["server"] # NoKeys \/ keys[c]["client"] # NoKeys =>
                           Kind[c[1]] = "member"
                      /\ keys[c]["server"] # NoKeys /\ keys[c]["client"] # NoKeys =>
                           /\ keys[c]["client"].send = keys[c]["server"].recv
                           /\ keys[c]["client"].recv = keys[c]["server"].send
    BY DEF KeysFit
  <2>1. KeyInv(c)
    BY DEF SessionInv
  <2> QED
    BY <2>1, KeyFacts DEF KeyInv, Member
<1> QED
  BY <1>1, SessionInvariant, PTL

------------------------------------------------------------------------------
(* The handshake permits *)

\* Conservation, with what makes the count of the tasks meaningful.
PermitInv ==
  /\ permits \in Nat /\ IsFiniteSet(Served)
  /\ permits + Cardinality(Served) = MaxHandshakes

\* A task that moves on within its timeout, or is not served before or after.
LEMMA PermitsKept ==
  ASSUME PermitInv, UNCHANGED permits, \A c \in Conn : Serving(c)' <=> Serving(c)
  PROVE  PermitInv'
<1>1. Served' = Served
  BY DEF Served
<1> QED
  BY <1>1 DEF PermitInv

\* The end of a task returns the permit it holds.
LEMMA EndTaskReturns ==
  ASSUME SessionType, PermitInv, NEW c \in Conn, Serving(c), EndTask(c)
  PROVE  PermitInv'
<1>1. server' = [server EXCEPT ![c] = "ended"] /\ permits' = permits + 1
  BY DEF EndTask
<1>2. \A d \in Conn : Serving(d)' <=> Serving(d) /\ d # c
  BY <1>1 DEF SessionType, Serving, Handshaking
<1>3. Served' = Served \ {c} /\ c \in Served
  BY <1>2 DEF Served
<1>4. /\ IsFiniteSet(Served \ {c}) /\ Cardinality(Served) \in Nat
      /\ Cardinality(Served \ {c}) = Cardinality(Served) - 1
  BY <1>3, FS_RemoveElement, FS_CardinalityType DEF PermitInv
<1> QED
  BY <1>1, <1>3, <1>4, HostAssumption DEF PermitInv

\* Admission takes one permit for the task it starts, or starts none.
LEMMA AdmitTakes ==
  ASSUME SessionType, PermitInv, NEW c \in Conn, NEW ip, Admit(c, ip)
  PROVE  PermitInv'
<1>1. ~Serving(c)
  BY DEF Admit, Serving, Handshaking
<1>2. CASE Allowed(window[ip]) /\ permits > 0
  <2>1. server' = [server EXCEPT ![c] = "request"] /\ permits' = permits - 1
    BY <1>2 DEF Admit
  <2>2. \A d \in Conn : Serving(d)' <=> Serving(d) \/ d = c
    BY <2>1 DEF SessionType, Serving, Handshaking
  <2>3. Served' = Served \cup {c} /\ c \notin Served
    BY <1>1, <2>2 DEF Served
  <2>4. /\ IsFiniteSet(Served \cup {c}) /\ Cardinality(Served) \in Nat
        /\ Cardinality(Served \cup {c}) = Cardinality(Served) + 1
    BY <2>3, FS_AddElement, FS_CardinalityType DEF PermitInv
  <2> QED
    BY <1>2, <2>1, <2>3, <2>4, HostAssumption DEF PermitInv
<1>3. CASE ~(Allowed(window[ip]) /\ permits > 0)
  <2>1. server' = [server EXCEPT ![c] = "ended"] /\ permits' = permits
    BY <1>3 DEF Admit
  <2>2. \A d \in Conn : Serving(d)' <=> Serving(d)
    BY <1>1, <2>1 DEF SessionType, Serving, Handshaking
  <2> QED
    BY <2>1, <2>2, PermitsKept
<1> QED
  BY <1>2, <1>3

\* A step of one connection that keeps its permit.
LEMMA PlaceChanges ==
  ASSUME SessionType, PermitInv, UNCHANGED permits, NEW c \in Conn, NEW at \in ServerAt,
         server' = [server EXCEPT ![c] = at],
         Serving(c) <=> at \in {"request", "finalization", "nonce", "keys", "active"}
  PROVE  PermitInv'
<1>1. \A d \in Conn : Serving(d)' <=> Serving(d)
  BY DEF SessionType, Serving, Handshaking
<1> QED
  BY <1>1, PermitsKept

\* Every step of the composition keeps the permits.
LEMMA PermitInvKept ==
  ASSUME SessionType, MadeInv, PermitInv, [RNext]_allVars
  PROVE  PermitInv'
<1>1. ASSUME UNCHANGED <<server, permits>> PROVE PermitInv'
  BY <1>1, PermitsKept DEF Serving, Handshaking
<1>2. ASSUME NEW c \in Conn, HostStep(c) \/ Timeout(c) PROVE PermitInv'
  <2>1. CASE RecvRequest(c) \/ RecvFinalization(c)
    <3>1. Serving(c)
      BY <2>1 DEF RecvRequest, RecvFinalization, Serving, Handshaking
    <3>2. \/ EndTask(c)
          \/ /\ UNCHANGED permits
             /\ \/ server' = [server EXCEPT ![c] = "finalization"]
                \/ server' = [server EXCEPT ![c] = "nonce"]
      BY <2>1 DEF RecvRequest, RecvFinalization
    <3>3. "finalization" \in ServerAt /\ "nonce" \in ServerAt
      BY DEF ServerAt
    <3> QED
      BY <3>1, <3>2, <3>3, EndTaskReturns, PlaceChanges
  <2>2. CASE SendNonce(c) \/ RegisterKeys(c)
    <3>1. Serving(c) /\ UNCHANGED permits
      BY <2>2 DEF SendNonce, RegisterKeys, Serving, Handshaking
    <3>2. \/ server' = [server EXCEPT ![c] = "keys"]
          \/ server' = [server EXCEPT ![c] = "active"]
      BY <2>2 DEF SendNonce, RegisterKeys
    <3>3. "keys" \in ServerAt /\ "active" \in ServerAt
      BY DEF ServerAt
    <3> QED
      BY <3>1, <3>2, <3>3, PlaceChanges
  <2>3. CASE RecvMessage(c)
    <3>1. Serving(c)
      BY <2>3 DEF RecvMessage, Serving
    <3> QED
      BY <1>1, <2>3, <3>1, EndTaskReturns DEF RecvMessage
  <2>4. CASE RecvFails(c) \/ Timeout(c)
    BY <2>4, EndTaskReturns DEF RecvFails, Timeout, TimeoutDue
  <2>5. CASE StreamMessage(c) \/ StreamEnds(c)
    BY <1>1, <2>5 DEF StreamMessage, StreamEnds, host
  <2> QED
    BY <1>2, <2>1, <2>2, <2>3, <2>4, <2>5 DEF HostStep
<1>3. ASSUME NEW c \in Conn, ClientStep(c) \/ LoseConnection(c) PROVE PermitInv'
  BY <1>1, <1>3 DEF ClientStep, ClientRecvResponse, ClientRecvNonce, ClientRecvFails, Forward,
                    ForwardEnds, View, LoseConnection, host
<1>4. ASSUME NEW c \in Conn, AcceptDirect(c) PROVE PermitInv'
  BY <1>4, AdmitTakes DEF AcceptDirect
<1>5. ASSUME NEW c \in Conn, ClientConnects(c) PROVE PermitInv'
  <2>1. Connect(c) /\ tries[c[1]] + 1 = c[2] /\ c[1] \in Device
    BY <1>5, ConnFacts DEF ClientConnects, Connect
  <2>2. server[c] = "none" /\ server' = [server EXCEPT ![c] = "arriving"] /\ UNCHANGED permits
    BY <2>1 DEF MadeInv, Connect, host
  <2>3. "arriving" \in ServerAt /\ ~Serving(c)
    BY <2>2 DEF ServerAt, Serving, Handshaking
  <2> QED
    BY <2>2, <2>3, PlaceChanges
<1>6. ASSUME NEW c \in Conn, ClientCannotConnect(c) \/ MakeIntent(c) \/ IntentExpires(c)
      PROVE  PermitInv'
  BY <1>1, <1>6 DEF ClientCannotConnect, ConnectFails, MakeIntent, IntentExpires, vars, host
<1>7. CASE DriverStep
  <2>1. ASSUME NEW c \in Conn, AcceptInitiator(c) PROVE PermitInv'
    BY <2>1, AdmitTakes DEF AcceptInitiator
  <2>2. CASE Abandon
    <3>1. /\ server' = [c \in Conn |-> IF server[c] = "arriving" THEN "ended" ELSE server[c]]
          /\ UNCHANGED permits
      BY <2>2 DEF Abandon, host
    <3> QED
      BY <3>1, PermitsKept DEF Serving, Handshaking
  <2>3. CASE Register \/ Poll \/ Receive \/ Bind \/ SessionEnds \/ Wake
    BY <1>1, <2>3 DEF Register, Poll, Receive, Bind, SessionEnds, Wake, vars, host
  <2> QED
    BY <1>7, <2>1, <2>2, <2>3 DEF DriverStep
<1>8. CASE RTick \/ RelayAnswers \/ Fault \/ UNCHANGED allVars
  BY <1>1, <1>8 DEF RTick, Tick, RelayAnswers, Fault, allVars, vars, host
<1> QED
  BY <1>2, <1>3, <1>4, <1>5, <1>6, <1>7, <1>8 DEF RNext, SessionStep

\* No permit of the handshake semaphore is lost or given out twice, for any number of
\* clients and connections, in direct mode and behind the relay (spawn_session_task).
THEOREM PermitsAlwaysConserved == RSpec => []PermitsConserved
<1>1. RInit => PermitInv
  <2> SUFFICES ASSUME Init PROVE PermitInv
    BY DEF RInit
  <2>1. Served = {} /\ permits = MaxHandshakes
    BY DEF Init, Served, Serving, Handshaking
  <2> QED
    BY <2>1, FS_EmptySet, HostAssumption DEF PermitInv
<1>2. SessionInv /\ MadeInv /\ PermitInv /\ [RNext]_allVars => PermitInv'
  BY PermitInvKept DEF SessionInv
<1>3. PermitInv => PermitsConserved
  BY DEF PermitInv, PermitsConserved
<1> QED
  BY <1>1, <1>2, <1>3, SessionInvariant, PTL DEF RSpec

------------------------------------------------------------------------------
(* The driver and the relay *)

\* The state of the driver after GoTo.
LEMMA GoToFacts ==
  ASSUME NEW at \in DriverAt, NEW intents \in SUBSET Conn, NEW wait \in Nat, GoTo(at, intents, wait)
  PROVE  driver' \in [at : DriverAt, intents : SUBSET Conn, wait : Nat] /\ driver'.at = at
BY DEF GoTo

\* Requests and replies by their types.
LEMMA ControlFacts ==
  /\ NoRequest \in ControlRequest /\ NoRequest.type = "none"
  /\ \A t \in {"register", "poll"} : [type |-> t] \in ControlRequest
  /\ \A S \in SUBSET Conn : [type |-> "accept", intents |-> S] \in ControlRequest
  /\ \A t \in {"ack", "error"} : [type |-> t] \in ControlReply
  /\ \A t \in {"pending", "exchange"}, S \in SUBSET Conn :
       [type |-> t, intents |-> S] \in ControlReply
  /\ \A r \in ControlReply : r.type \in {"pending", "exchange"} => r.intents \in SUBSET Conn
  /\ \A r \in ControlRequest : r.type = "accept" => r.intents \in SUBSET Conn
<1>1. /\ NoRequest \in ControlRequest /\ NoRequest.type = "none"
      /\ \A t \in {"register", "poll"} : [type |-> t] \in ControlRequest
      /\ \A S \in SUBSET Conn : [type |-> "accept", intents |-> S] \in ControlRequest
  BY DEF ControlRequest, NoRequest
<1>2. /\ \A t \in {"ack", "error"} : [type |-> t] \in ControlReply
      /\ \A t \in {"pending", "exchange"}, S \in SUBSET Conn :
           [type |-> t, intents |-> S] \in ControlReply
  BY DEF ControlReply
<1>3. ASSUME NEW r \in ControlReply, r.type \in {"pending", "exchange"}
      PROVE  r.intents \in SUBSET Conn
  BY <1>3 DEF ControlReply
<1>4. ASSUME NEW r \in ControlRequest, r.type = "accept"
      PROVE  r.intents \in SUBSET Conn
  BY <1>4 DEF ControlRequest
<1> QED
  BY <1>1, <1>2, <1>3, <1>4

\* Steps that leave the control plane alone.
LEMMA ControlKept ==
  ASSUME ControlInv, UNCHANGED <<driver, request, inbox, known, faults>>
  PROVE  ControlInv'
BY DEF ControlInv, ControlType, TurnInv, Awaits, Idle

\* The driver sends a request when nothing is on its way.
LEMMA SendsKeep ==
  ASSUME ControlInv, Register \/ Poll
  PROVE  ControlInv'
<1>1. PICK t \in {"register", "poll"}, at \in {"registering", "polling"} :
        /\ request' = [type |-> t] /\ GoTo(at, {}, 0)
        /\ (t = "register" <=> at = "registering")
        /\ driver.at = (IF t = "register" THEN "start" ELSE "poll")
        /\ UNCHANGED <<inbox, known, faults>>
  BY DEF Register, Poll, Send
<1>2. /\ driver' \in [at : DriverAt, intents : SUBSET Conn, wait : Nat] /\ driver'.at = at
  <2>1. at \in DriverAt /\ {} \in SUBSET Conn /\ 0 \in Nat
    BY DEF DriverAt
  <2> QED
    BY <1>1, <2>1, GoToFacts
<1>3. request' \in ControlRequest /\ request'.type = t
  BY <1>1, ControlFacts
<1>4. ControlType'
  BY <1>1, <1>2, <1>3 DEF ControlInv, ControlType
<1>5. faults' = 0 => TurnInv'
  BY <1>1, <1>2, <1>3 DEF ControlInv, TurnInv, Awaits, Idle
<1> QED
  BY <1>4, <1>5 DEF ControlInv

\* Steps of the driver between two requests.
LEMMA WaitsKeep ==
  ASSUME ControlInv, NEW at \in {"poll", "listen", "serve"}, NEW intents \in SUBSET Conn,
         NEW wait \in Nat, GoTo(at, intents, wait),
         driver.at \in {"sleep", "bind", "listen", "serve"},
         UNCHANGED <<request, inbox, known, faults>>
  PROVE  ControlInv'
<1>1. driver' \in [at : DriverAt, intents : SUBSET Conn, wait : Nat] /\ driver'.at = at
  <2>1. at \in DriverAt
    BY DEF DriverAt
  <2> QED
    BY <2>1, GoToFacts
<1>2. ControlType'
  BY <1>1 DEF ControlInv, ControlType
<1>3. faults' = 0 => TurnInv'
  BY <1>1 DEF ControlInv, TurnInv, Idle
<1> QED
  BY <1>2, <1>3 DEF ControlInv

\* The driver takes the datagram that is there for the reply to its request.
LEMMA ReceiveKeeps ==
  ASSUME ControlInv, Receive
  PROVE  ControlInv'
<1> DEFINE r == Head(inbox)
<1>1. ControlType /\ inbox # <<>> /\ inbox' = Tail(inbox) /\ UNCHANGED <<known, faults>>
  BY DEF ControlInv, Receive
<1>2. /\ r \in ControlReply /\ inbox' \in Seq(ControlReply) /\ r = inbox[1]
      /\ Len(inbox) = 1 => inbox' = <<>>
  BY <1>1 DEF ControlType
<1>3. \/ driver.at = "registering" /\ AfterRegister(r)
      \/ driver.at = "polling" /\ AfterPoll(r)
      \/ driver.at = "accepting" /\ AfterAccept(r)
  BY DEF Receive
<1> HIDE DEF r
<1>4. ASSUME NEW at \in DriverAt, NEW intents \in SUBSET Conn, NEW wait \in Nat,
             GoTo(at, intents, wait), request' \in ControlRequest, faults' = 0 => TurnInv'
      PROVE  ControlInv'
  <2>1. driver' \in [at : DriverAt, intents : SUBSET Conn, wait : Nat]
    BY <1>4, GoToFacts
  <2> QED
    BY <1>1, <1>2, <1>4, <2>1 DEF ControlInv, ControlType
<1>5. ASSUME driver.at = "registering", AfterRegister(r) PROVE ControlInv'
  <2>1. PICK at \in {"poll", "failed"} :
          GoTo(at, {}, 0) /\ (at = "failed" <=> r.type # "ack") /\ UNCHANGED request
    BY <1>5 DEF AfterRegister
  <2>2. at \in DriverAt /\ {} \in SUBSET Conn /\ 0 \in Nat
    BY DEF DriverAt
  <2>3. driver'.at = at
    BY <2>1, <2>2, GoToFacts
  <2>4. ASSUME faults' = 0 PROVE TurnInv'
    <3>1. TurnInv
      BY <1>1, <2>4 DEF ControlInv
    <3>2. request.type = "none" /\ Len(inbox) = 1 /\ r.type = "ack" /\ known
      BY <1>1, <1>2, <1>5, <3>1 DEF TurnInv, Awaits
    <3> QED
      BY <1>1, <1>2, <2>1, <2>3, <3>2 DEF TurnInv, Idle
  <2> QED
    BY <1>1, <1>4, <2>1, <2>2, <2>4 DEF ControlType
<1>6. ASSUME driver.at = "polling", AfterPoll(r) PROVE ControlInv'
  <2>1. ASSUME faults' = 0
        PROVE  request.type = "none" /\ inbox' = <<>> /\ r.type = "pending" /\ known
    <3>1. TurnInv
      BY <1>1, <2>1 DEF ControlInv
    <3> QED
      BY <1>1, <1>2, <1>6, <3>1 DEF TurnInv, Awaits
  <2>2. CASE r.type # "pending"
    <3>1. GoTo("failed", {}, 0) /\ UNCHANGED request /\ "failed" \in DriverAt /\ 0 \in Nat
      BY <1>6, <2>2 DEF AfterPoll, DriverAt
    <3> QED
      BY <1>1, <1>4, <2>1, <2>2, <3>1 DEF ControlType
  <2>3. CASE r.type = "pending" /\ r.intents = {}
    <3>1. GoTo("sleep", {}, PollInterval) /\ UNCHANGED request
      BY <1>6, <2>3 DEF AfterPoll
    <3>2. "sleep" \in DriverAt /\ {} \in SUBSET Conn /\ PollInterval \in Nat
      BY RendezvousAssumption DEF DriverAt
    <3>3. driver'.at = "sleep"
      BY <3>1, <3>2, GoToFacts
    <3>4. faults' = 0 => TurnInv'
      BY <1>1, <2>1, <3>1, <3>3 DEF TurnInv, Idle
    <3> QED
      BY <1>1, <1>4, <3>1, <3>2, <3>4 DEF ControlType
  <2>4. CASE r.type = "pending" /\ r.intents # {}
    <3>1. GoTo("accepting", r.intents, 0) /\ request' = [type |-> "accept", intents |-> r.intents]
      BY <1>6, <2>4 DEF AfterPoll, AcceptConnect
    <3>2. "accepting" \in DriverAt /\ r.intents \in SUBSET Conn /\ 0 \in Nat
      BY <1>2, <2>4, ControlFacts DEF DriverAt
    <3>3. driver'.at = "accepting"
      BY <3>1, <3>2, GoToFacts
    <3>4. request' \in ControlRequest /\ request'.type = "accept"
      BY <3>1, <3>2, ControlFacts
    <3>5. faults' = 0 => TurnInv'
      BY <1>1, <2>1, <3>3, <3>4 DEF TurnInv, Awaits
    <3> QED
      BY <1>4, <3>1, <3>2, <3>4, <3>5
  <2> QED
    BY <2>2, <2>3, <2>4
<1>7. ASSUME driver.at = "accepting", AfterAccept(r) PROVE ControlInv'
  <2>1. UNCHANGED request
    BY <1>7 DEF AfterAccept
  <2>2. ASSUME faults' = 0
        PROVE  request.type = "none" /\ inbox' = <<>> /\ known
    <3>1. TurnInv
      BY <1>1, <2>2 DEF ControlInv
    <3> QED
      BY <1>1, <1>2, <1>7, <3>1 DEF TurnInv, Awaits
  <2>3. PICK at \in {"bind", "sleep"}, intents \in SUBSET Conn, wait \in Nat :
          GoTo(at, intents, wait)
    <3>1. CASE r.type = "exchange"
      <4>1. r.intents \in SUBSET Conn
        BY <1>2, <3>1, ControlFacts
      <4> QED
        BY <1>7, <3>1, <4>1 DEF AfterAccept
    <3>2. CASE r.type # "exchange"
      BY <1>7, <3>2, RendezvousAssumption DEF AfterAccept
    <3> QED
      BY <3>1, <3>2
  <2>4. at \in DriverAt
    BY DEF DriverAt
  <2>5. driver'.at = at
    BY <2>3, <2>4, GoToFacts
  <2>6. faults' = 0 => TurnInv'
    BY <1>1, <2>1, <2>2, <2>5 DEF TurnInv, Idle
  <2> QED
    BY <1>1, <1>4, <2>1, <2>3, <2>4, <2>6 DEF ControlType
<1> QED
  BY <1>3, <1>5, <1>6, <1>7

\* The relay answers the request that is on its way.
LEMMA RelayAnswersKeeps ==
  ASSUME ControlInv, RelayAnswers
  PROVE  ControlInv'
<1>1. ControlType /\ UNCHANGED <<driver, faults>> /\ request' = NoRequest
  BY DEF ControlInv, RelayAnswers, RelayRegisters, RelayLists, RelayAccepts, Reply
<1>2. request'.type = "none" /\ request' \in ControlRequest
  BY <1>1, ControlFacts
<1>3. ASSUME NEW r \in ControlReply, inbox' = Append(inbox, r), known' \in BOOLEAN,
             faults = 0 => known \/ driver.at = "registering",
             known => known', driver.at = "registering" => known',
             faults = 0 => \/ request.type = "register" /\ r.type = "ack"
                           \/ request.type = "poll" /\ r.type = "pending"
                           \/ request.type = "accept" /\ r.type \in {"exchange", "error"}
      PROVE  ControlInv'
  <2>1. inbox' \in Seq(ControlReply) /\ (inbox = <<>> => Len(inbox') = 1 /\ inbox'[1] = r)
    BY <1>1, <1>3 DEF ControlType
  <2>2. ControlType'
    BY <1>1, <1>2, <1>3, <2>1 DEF ControlType
  <2>3. ASSUME faults' = 0 PROVE TurnInv'
    <3>1. TurnInv /\ faults = 0
      BY <1>1, <2>3 DEF ControlInv
    <3> QED
      BY <1>1, <1>2, <1>3, <2>1, <3>1 DEF TurnInv, Awaits, Idle
  <2> QED
    BY <2>2, <2>3 DEF ControlInv
<1>4. ASSUME faults = 0
      PROVE  /\ request.type = "register" => driver.at = "registering"
             /\ request.type \in {"poll", "accept"} => known /\ driver.at # "registering"
  BY <1>4 DEF ControlInv, TurnInv, Awaits, Idle
<1>5. CASE request.type = "register"
  <2>1. inbox' = Append(inbox, [type |-> "ack"]) /\ known' = TRUE
    BY <1>5 DEF RelayAnswers, RelayRegisters, RelayLists, RelayAccepts, Reply
  <2>2. [type |-> "ack"] \in ControlReply /\ [type |-> "ack"].type = "ack"
    BY ControlFacts
  <2> QED
    BY <1>3, <1>4, <1>5, <2>1, <2>2
<1>6. CASE request.type = "poll"
  <2>1. UNCHANGED known
    BY <1>6 DEF RelayAnswers, RelayRegisters, RelayLists, RelayAccepts
  <2>2. CASE known
    <3>1. PICK S \in SUBSET Conn : inbox' = Append(inbox, [type |-> "pending", intents |-> S])
      <4>1. \A c \in Pending : {c} \in SUBSET Conn
        BY DEF Pending
      <4> QED
        BY <1>6, <2>2, <4>1 DEF RelayAnswers, RelayRegisters, RelayLists, RelayAccepts, Reply
    <3>2. [type |-> "pending", intents |-> S] \in ControlReply
      BY ControlFacts
    <3> QED
      BY <1>1, <1>3, <1>4, <1>6, <2>1, <2>2, <3>1, <3>2 DEF ControlType
  <2>3. CASE ~known
    <3>1. inbox' = Append(inbox, [type |-> "error"])
      BY <1>6, <2>3 DEF RelayAnswers, RelayRegisters, RelayLists, RelayAccepts, Reply, Rejected
    <3>2. [type |-> "error"] \in ControlReply
      BY ControlFacts
    <3>3. faults # 0
      BY <1>4, <1>6, <2>3
    <3>4. inbox' \in Seq(ControlReply)
      BY <1>1, <3>1, <3>2 DEF ControlType
    <3> QED
      BY <1>1, <1>2, <2>1, <3>3, <3>4 DEF ControlInv, ControlType
  <2> QED
    BY <2>2, <2>3
<1>7. CASE request.type = "accept"
  <2>1. UNCHANGED known
    BY <1>7 DEF RelayAnswers, RelayRegisters, RelayLists, RelayAccepts
  <2>2. PICK r \in ControlReply : inbox' = Append(inbox, r) /\ r.type \in {"exchange", "error"}
    <3>1. request.intents \in SUBSET Conn
      BY <1>1, <1>7, ControlFacts DEF ControlType
    <3>2. /\ [type |-> "exchange", intents |-> request.intents] \in ControlReply
          /\ [type |-> "error"] \in ControlReply
      BY <3>1, ControlFacts
    <3> QED
      BY <1>7, <3>2 DEF RelayAnswers, RelayRegisters, RelayLists, RelayAccepts, Reply, Rejected
  <2>3. inbox' \in Seq(ControlReply) /\ (inbox = <<>> => Len(inbox') = 1 /\ inbox'[1] = r)
    BY <1>1, <2>2 DEF ControlType
  <2>4. ControlType'
    BY <1>1, <1>2, <2>1, <2>3 DEF ControlType
  <2>5. ASSUME faults' = 0 PROVE TurnInv'
    <3>1. TurnInv /\ faults = 0
      BY <1>1, <2>5 DEF ControlInv
    <3> QED
      BY <1>1, <1>2, <1>4, <1>7, <2>1, <2>2, <2>3, <3>1 DEF TurnInv, Awaits, Idle
  <2> QED
    BY <2>4, <2>5 DEF ControlInv
<1> QED
  BY <1>5, <1>6, <1>7 DEF RelayAnswers, RelayRegisters, RelayLists, RelayAccepts

\* After a fault nothing is claimed of the driver any more.
LEMMA FaultKeeps ==
  ASSUME ControlInv, Fault
  PROVE  ControlInv'
<1>1. ControlType /\ faults' = faults + 1
  BY DEF ControlInv, Fault
<1>2. faults' \in Nat /\ faults' # 0
  BY <1>1 DEF ControlType
<1>3. request' \in ControlRequest /\ inbox' \in Seq(ControlReply) /\ known' \in BOOLEAN
  <2>1. CASE LoseDatagram
    <3>1. inbox # <<>> => Tail(inbox) \in Seq(ControlReply)
      BY <1>1 DEF ControlType
    <3> QED
      BY <1>1, <2>1, <3>1, ControlFacts DEF ControlType, LoseDatagram
  <2>2. CASE RepeatReply
    <3>1. inbox \in Seq(ControlReply) /\ inbox # <<>> /\ inbox' = Append(inbox, Head(inbox))
          /\ UNCHANGED <<request, known>>
      BY <1>1, <2>2 DEF ControlType, RepeatReply
    <3>2. Head(inbox) \in ControlReply
      BY <3>1
    <3>3. inbox' \in Seq(ControlReply)
      BY <3>1, <3>2
    <3> QED
      BY <1>1, <3>1, <3>3 DEF ControlType
  <2>3. CASE ForgetHost
    <3>1. known' = FALSE /\ UNCHANGED <<request, inbox>>
      BY <2>3 DEF ForgetHost
    <3>2. known' \in BOOLEAN
      BY <3>1, Zenon
    <3> QED
      BY <1>1, <3>1, <3>2 DEF ControlType
  <2>4. CASE RefuseRegister
    <3>1. request' = NoRequest /\ inbox' = Append(inbox, [type |-> "error"]) /\ UNCHANGED known
      BY <2>4 DEF RefuseRegister, Reply, Rejected
    <3>2. [type |-> "error"] \in ControlReply /\ NoRequest \in ControlRequest
      BY ControlFacts
    <3> QED
      BY <1>1, <3>1, <3>2 DEF ControlType
  <2>5. CASE SocketFails
    BY <1>1, <2>5 DEF SocketFails, ControlType
  <2> QED
    BY <2>1, <2>2, <2>3, <2>4, <2>5 DEF Fault
<1>4. driver' \in [at : DriverAt, intents : SUBSET Conn, wait : Nat]
  <2>1. CASE UNCHANGED driver
    BY <1>1, <2>1 DEF ControlType
  <2>2. CASE SocketFails
    BY <2>2 DEF SocketFails, GoTo, DriverAt
  <2> QED
    BY <2>1, <2>2 DEF Fault
<1> QED
  BY <1>1, <1>2, <1>3, <1>4 DEF ControlInv, ControlType

\* The driver's timer runs and changes nothing else.
LEMMA RTickKeeps ==
  ASSUME ControlInv, RTick
  PROVE  ControlInv'
<1>1. /\ driver' = [driver EXCEPT !.wait = IF @ > 0 THEN @ - 1 ELSE 0]
      /\ UNCHANGED <<request, inbox, known, faults>> /\ ControlType
  BY DEF ControlInv, RTick
<1>2. driver' \in [at : DriverAt, intents : SUBSET Conn, wait : Nat] /\ driver'.at = driver.at
  BY <1>1 DEF ControlType
<1> QED
  BY <1>1, <1>2 DEF ControlInv, ControlType, TurnInv, Awaits, Idle

\* Every reachable state satisfies the invariant of the driver.
LEMMA ControlInvariant == RSpec => []ControlInv
<1>1. RInit => ControlInv
  <2> SUFFICES ASSUME RInit PROVE ControlInv
    OBVIOUS
  <2>1. PICK at \in {"start", "off"} : driver = [at |-> at, intents |-> {}, wait |-> 0]
    BY DEF RInit
  <2>2. driver \in [at : DriverAt, intents : SUBSET Conn, wait : Nat] /\ driver.at = at
    BY <2>1 DEF DriverAt
  <2>3. request \in ControlRequest /\ request.type = "none"
    BY ControlFacts DEF RInit
  <2>4. inbox \in Seq(ControlReply) /\ inbox = <<>> /\ known = FALSE /\ faults \in Nat
    BY DEF RInit
  <2>5. known \in BOOLEAN
    BY <2>4, Zenon
  <2> QED
    BY <2>1, <2>2, <2>3, <2>4, <2>5 DEF ControlInv, ControlType, TurnInv, Idle
<1>2. ControlInv /\ [RNext]_allVars => ControlInv'
  <2> SUFFICES ASSUME ControlInv, [RNext]_allVars PROVE ControlInv'
    OBVIOUS
  <2>1. ASSUME NEW c \in Conn,
               \/ SessionStep(c) /\ UNCHANGED control
               \/ AcceptDirect(c) \/ ClientConnects(c) \/ ClientCannotConnect(c)
               \/ MakeIntent(c) \/ IntentExpires(c)
        PROVE  ControlInv'
    BY <2>1, ControlKept DEF AcceptDirect, ClientConnects, ClientCannotConnect, MakeIntent,
                             IntentExpires, control
  <2>2. CASE DriverStep
    <3>1. driver.intents \in SUBSET Conn
      BY DEF ControlInv, ControlType
    <3>2. {} \in SUBSET Conn /\ 0 \in Nat /\ InitiatorTimeout \in Nat
      BY RendezvousAssumption
    <3>3. CASE Bind
      <4>1. UNCHANGED <<request, inbox, known, faults>> /\ driver.at = "bind"
        BY <3>3 DEF Bind
      <4>2. GoTo("listen", driver.intents, InitiatorTimeout) \/ GoTo("poll", {}, 0)
        BY <3>3 DEF Bind, Resume
      <4> QED
        BY <3>1, <3>2, <4>1, <4>2, WaitsKeep
    <3>4. ASSUME NEW c \in Conn, AcceptInitiator(c) PROVE ControlInv'
      <4>1. UNCHANGED <<request, inbox, known, faults>> /\ driver.at = "listen"
        BY <3>4 DEF AcceptInitiator
      <4>2. GoTo("serve", {c}, 0) \/ GoTo("poll", {}, 0)
        BY <3>4 DEF AcceptInitiator, Resume
      <4>3. {c} \in SUBSET Conn
        OBVIOUS
      <4> QED
        BY <3>2, <4>1, <4>2, <4>3, WaitsKeep
    <3>5. CASE Abandon \/ SessionEnds \/ Wake
      <4>1. /\ UNCHANGED <<request, inbox, known, faults>>
            /\ driver.at \in {"listen", "serve", "sleep"} /\ GoTo("poll", {}, 0)
        BY <3>5 DEF Abandon, SessionEnds, Wake, Resume
      <4> QED
        BY <3>2, <4>1, WaitsKeep
    <3> QED
      BY <2>2, <3>3, <3>4, <3>5, SendsKeep, ReceiveKeeps DEF DriverStep
  <2>3. CASE UNCHANGED allVars
    BY <2>3, ControlKept DEF allVars, control
  <2> QED
    BY <2>1, <2>2, <2>3, RelayAnswersKeeps, FaultKeeps, RTickKeeps DEF RNext
<1> QED
  BY <1>1, <1>2, PTL DEF RSpec

\* RendezvousDriver::run returns an error only after a fault of the relay or of the network:
\* not for an intent that expired, an initiator that did not come or a session that broke.
THEOREM DriverFailsOnlyOnFault == RSpec => []FailsOnlyOnFault
<1>1. ControlInv => FailsOnlyOnFault
  BY DEF ControlInv, ControlType, TurnInv, FailsOnlyOnFault
<1> QED
  BY <1>1, ControlInvariant, PTL

------------------------------------------------------------------------------
(* The attempts of one address *)

\* What the window open now has counted is all that the ticks since it opened have let
\* through, the first of them in the tick that opened it; the ticks before that, as many as
\* still matter, belong to one other window, without the tick that opened it.
Window == {w \in [count : 0 .. MaxAttempts, age : 0 .. RateWindow] :
             w.count = 0 => w.age = RateWindow}
RateType == window \in [Ip -> Window] /\ recent \in [Ip -> [0 .. RateWindow - 1 -> Nat]]
Budget(w, a) ==
  IF a >= w.age THEN w.count + MaxAttempts - 1
  ELSE IF w.count = 0 THEN 0 ELSE w.count - 1
RateInv ==
  /\ RateType
  /\ \A ip \in Ip : \A a \in 0 .. RateWindow - 1 : recent[ip][a] <= Budget(window[ip], a)

\* An attempt that is let through counts in the window, which may be a new one.
LEMMA RecordedFacts ==
  ASSUME NEW w \in Window
  PROVE  /\ Recorded(w) \in Window
         /\ Allowed(w) => \A a \in 0 .. RateWindow - 1 : Budget(w, a) + 1 <= Budget(Recorded(w), a)
         /\ ~Allowed(w) => Recorded(w) = w
<1>1. RateWindow \in Nat \ {0} /\ MaxAttempts \in Nat \ {0}
  BY HostAssumption
<1>2. /\ w.count \in 0 .. MaxAttempts /\ w.age \in 0 .. RateWindow
      /\ w.count = 0 => w.age = RateWindow
  BY DEF Window
<1>3. CASE w.age >= RateWindow
  <2>1. Recorded(w) = [count |-> 1, age |-> 0]
    BY <1>3 DEF Recorded
  <2>2. Recorded(w) \in Window /\ Recorded(w).count = 1 /\ Recorded(w).age = 0
    BY <1>1, <2>1 DEF Window
  <2>3. Allowed(w)
    BY <1>3 DEF Allowed
  <2> QED
    BY <1>1, <1>2, <1>3, <2>2, <2>3 DEF Budget
<1>4. CASE ~(w.age >= RateWindow) /\ Allowed(w)
  <2>1. Recorded(w) = [w EXCEPT !.count = @ + 1]
    BY <1>4 DEF Recorded
  <2>2. w.count < MaxAttempts
    BY <1>4 DEF Allowed
  <2>3. Recorded(w) \in Window /\ Recorded(w).count = w.count + 1 /\ Recorded(w).age = w.age
    BY <1>1, <1>2, <2>1, <2>2 DEF Window
  <2> QED
    BY <1>1, <1>2, <1>4, <2>3 DEF Budget
<1>5. CASE ~Allowed(w)
  BY <1>5 DEF Recorded, Allowed
<1> QED
  BY <1>3, <1>4, <1>5

\* Admission, in direct mode and behind the relay.
LEMMA AdmitKeepsRate ==
  ASSUME RateInv, NEW c, NEW ip \in Ip, Admit(c, ip)
  PROVE  RateInv'
<1>1. RateType /\ window[ip] \in Window /\ recent[ip] \in [0 .. RateWindow - 1 -> Nat]
  BY DEF RateInv, RateType
<1>2. window' = [window EXCEPT ![ip] = Recorded(window[ip])] /\ Recorded(window[ip]) \in Window
  BY <1>1, RecordedFacts DEF Admit
<1>3. CASE Allowed(window[ip])
  <2> DEFINE more == [a \in 0 .. RateWindow - 1 |-> recent[ip][a] + 1]
  <2>1. recent' = [recent EXCEPT ![ip] = more]
    BY <1>3 DEF Admit
  <2>2. more \in [0 .. RateWindow - 1 -> Nat] /\ \A a \in 0 .. RateWindow - 1 : more[a] = recent[ip][a] + 1
    <3>1. \A a \in 0 .. RateWindow - 1 : recent[ip][a] + 1 \in Nat
      <4>1. \A a \in 0 .. RateWindow - 1 : recent[ip][a] \in Nat
        BY <1>1
      <4> QED
        BY <4>1
    <3> QED
      BY <3>1
  <2> HIDE DEF more
  <2>3. RateType'
    BY <1>1, <1>2, <2>1, <2>2 DEF RateType
  <2>4. ASSUME NEW a \in 0 .. RateWindow - 1 PROVE recent'[ip][a] <= Budget(window'[ip], a)
    <3>1. recent[ip][a] <= Budget(window[ip], a) /\ Budget(window[ip], a) + 1 <= Budget(Recorded(window[ip]), a)
      BY <1>1, <1>3, RecordedFacts DEF RateInv
    <3>2. recent'[ip][a] = recent[ip][a] + 1 /\ window'[ip] = Recorded(window[ip])
      BY <1>1, <1>2, <2>1, <2>2 DEF RateType
    <3>3. recent[ip][a] \in Nat /\ Budget(window[ip], a) \in Nat /\ Budget(Recorded(window[ip]), a) \in Nat
      <4>1. \A w \in Window : Budget(w, a) \in Nat
        BY HostAssumption DEF Budget, Window
      <4> QED
        BY <1>1, <1>2, <4>1
    <3> QED
      BY <3>1, <3>2, <3>3
  <2>5. \A i \in Ip \ {ip} : recent'[i] = recent[i] /\ window'[i] = window[i]
    BY <1>1, <1>2, <2>1 DEF RateType
  <2> QED
    BY <2>3, <2>4, <2>5 DEF RateInv
<1>4. CASE ~Allowed(window[ip])
  <2>1. recent' = recent
    BY <1>4 DEF Admit
  <2>2. window' = window
    BY <1>1, <1>2, <1>4, RecordedFacts DEF RateType
  <2> QED
    BY <2>1, <2>2 DEF RateInv, RateType
<1> QED
  BY <1>3, <1>4

\* The clock: a window that is over is as old as the limiter looks back.
LEMMA TickKeepsRate ==
  ASSUME RateInv, Tick
  PROVE  RateInv'
<1>1. RateWindow \in Nat \ {0} /\ MaxAttempts \in Nat \ {0} /\ RateType
  BY HostAssumption DEF RateInv
<1>2. ASSUME NEW ip \in Ip
      PROVE  /\ window'[ip] \in Window /\ recent'[ip] \in [0 .. RateWindow - 1 -> Nat]
             /\ \A a \in 0 .. RateWindow - 1 : recent'[ip][a] <= Budget(window'[ip], a)
  <2>1. /\ window[ip] \in Window /\ recent[ip] \in [0 .. RateWindow - 1 -> Nat]
        /\ \A a \in 0 .. RateWindow - 1 : recent[ip][a] <= Budget(window[ip], a)
    BY <1>1 DEF RateInv, RateType
  <2>2. /\ window'[ip] = [window[ip] EXCEPT !.age = Older(window[ip].age, RateWindow)]
        /\ recent'[ip] = [a \in 0 .. RateWindow - 1 |-> IF a = 0 THEN 0 ELSE recent[ip][a - 1]]
    BY DEF Tick
  <2>3. /\ window[ip].count \in 0 .. MaxAttempts /\ window[ip].age \in 0 .. RateWindow
        /\ window[ip].count = 0 => window[ip].age = RateWindow
    BY <2>1 DEF Window
  <2>4. /\ Older(window[ip].age, RateWindow) \in 0 .. RateWindow
        /\ window[ip].age = RateWindow => Older(window[ip].age, RateWindow) = RateWindow
    BY <1>1, <2>3 DEF Older, Min2
  <2>5. /\ window'[ip] \in Window /\ window'[ip].count = window[ip].count
        /\ window'[ip].age = Older(window[ip].age, RateWindow)
    BY <2>1, <2>2, <2>3, <2>4 DEF Window
  <2>6. recent'[ip] \in [0 .. RateWindow - 1 -> Nat]
    BY <1>1, <2>1, <2>2
  <2>7. ASSUME NEW a \in 0 .. RateWindow - 1 PROVE recent'[ip][a] <= Budget(window'[ip], a)
    <3>1. CASE a = 0
      BY <1>1, <2>2, <2>3, <2>5, <3>1 DEF Budget
    <3>2. CASE a # 0
      <4>1. a - 1 \in 0 .. RateWindow - 1 /\ recent'[ip][a] = recent[ip][a - 1]
        BY <1>1, <2>2, <3>2
      <4>2. recent[ip][a - 1] <= Budget(window[ip], a - 1)
        BY <2>1, <4>1
      <4>3. a >= window'[ip].age <=> a - 1 >= window[ip].age
        BY <1>1, <2>3, <2>5 DEF Older, Min2
      <4> QED
        BY <2>5, <4>1, <4>2, <4>3 DEF Budget
    <3> QED
      BY <3>1, <3>2
  <2> QED
    BY <2>5, <2>6, <2>7
<1>3. window' \in [Ip -> Window] /\ recent' \in [Ip -> [0 .. RateWindow - 1 -> Nat]]
  <2>1. /\ window' = [ip \in Ip |-> window'[ip]] /\ recent' = [ip \in Ip |-> recent'[ip]]
    BY DEF Tick
  <2> QED
    BY <1>2, <2>1
<1> QED
  BY <1>2, <1>3 DEF RateInv, RateType

\* Only admission and the clock touch the limiter.
LEMMA RateKept ==
  ASSUME RateInv, UNCHANGED <<window, recent>>
  PROVE  RateInv'
BY DEF RateInv, RateType

\* An address gets at most 2 * MAX_AUTH_ATTEMPTS_PER_IP - 1 attempts through in any interval
\* as long as IP_RATE_WINDOW (check_and_record), for every limit and window, in direct mode
\* and for the relay's address behind it.
THEOREM AttemptsStayBounded == RSpec => []AttemptsBounded
<1>1. RInit => RateInv
  <2> SUFFICES ASSUME Init PROVE RateInv
    BY DEF RInit
  <2>1. RateWindow \in Nat \ {0} /\ MaxAttempts \in Nat \ {0}
    BY HostAssumption
  <2>2. /\ window = [ip \in Ip |-> [count |-> 0, age |-> RateWindow]]
        /\ recent = [ip \in Ip |-> [a \in 0 .. RateWindow - 1 |-> 0]]
    BY DEF Init
  <2>3. RateType
    BY <2>1, <2>2 DEF RateType, Window
  <2> QED
    BY <2>1, <2>2, <2>3 DEF RateInv, Budget
<1>2. RateInv /\ [RNext]_allVars => RateInv'
  <2> SUFFICES ASSUME RateInv, [RNext]_allVars PROVE RateInv'
    OBVIOUS
  <2>1. ASSUME NEW c \in Conn, AcceptDirect(c) PROVE RateInv'
    <3>1. IpOf[c[1]] \in Ip
      BY ConnFacts, HostAssumption
    <3> QED
      BY <2>1, <3>1, AdmitKeepsRate DEF AcceptDirect
  <2>2. ASSUME NEW c \in Conn, AcceptInitiator(c) PROVE RateInv'
    BY <2>2, AdmitKeepsRate, RendezvousAssumption DEF AcceptInitiator
  <2>3. CASE RTick
    BY <2>3, TickKeepsRate DEF RTick
  <2>4. ASSUME NEW c \in Conn, HostStep(c) \/ Timeout(c) PROVE RateInv'
    BY <2>4, RateKept DEF HostStep, RecvRequest, RecvFinalization, SendNonce, RegisterKeys, RecvMessage, RecvFails,
                          StreamMessage, StreamEnds, Timeout, host
  <2>5. ASSUME NEW c \in Conn, ClientStep(c) \/ LoseConnection(c) PROVE RateInv'
    BY <2>5, RateKept DEF ClientStep, ClientRecvResponse, ClientRecvNonce, ClientRecvFails, Forward,
                          ForwardEnds, View, LoseConnection, host
  <2>6. ASSUME NEW c \in Conn,
               ClientConnects(c) \/ ClientCannotConnect(c) \/ MakeIntent(c) \/ IntentExpires(c)
        PROVE  RateInv'
    BY <2>6, RateKept DEF ClientConnects, Connect, ClientCannotConnect, ConnectFails, MakeIntent,
                          IntentExpires, vars, host
  <2>7. CASE DriverStep
    BY <2>2, <2>7, RateKept DEF DriverStep, Register, Poll, Receive, Bind, Abandon, SessionEnds, Wake,
                                vars, host
  <2>8. CASE RelayAnswers \/ Fault \/ UNCHANGED allVars
    BY <2>8, RateKept DEF RelayAnswers, Fault, allVars, vars, host
  <2> QED
    BY <2>1, <2>3, <2>4, <2>5, <2>6, <2>7, <2>8 DEF RNext, SessionStep
<1>3. RateInv => AttemptsBounded
  <2> SUFFICES ASSUME RateInv, NEW ip \in Ip PROVE recent[ip][RateWindow - 1] <= 2 * MaxAttempts - 1
    BY DEF AttemptsBounded
  <2>1. RateWindow - 1 \in 0 .. RateWindow - 1 /\ MaxAttempts \in Nat \ {0}
    BY HostAssumption
  <2>2. window[ip] \in Window /\ recent[ip][RateWindow - 1] \in Nat
    BY <2>1 DEF RateInv, RateType
  <2>3. window[ip].count \in 0 .. MaxAttempts
    BY <2>2 DEF Window
  <2>4. recent[ip][RateWindow - 1] <= Budget(window[ip], RateWindow - 1)
    BY <2>1 DEF RateInv
  <2> QED
    BY <2>1, <2>2, <2>3, <2>4 DEF Budget
<1> QED
  BY <1>1, <1>2, <1>3, PTL DEF RSpec
===============================================================================
