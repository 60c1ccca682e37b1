----------------------------- MODULE HostSession -----------------------------
(***************************************************************************)
(* A session between a client and the host, from the connection to its end:  *)
(* admission (PerIpRateLimiter, the handshake permits and spawn_session_task *)
(* of bw-server/src/main.rs), the OPAQUE exchange and the key handshake      *)
(* (bw-session/src/wire.rs, secure_conn.rs, bw-auth/src/store.rs), the       *)
(* host's handle_session with its tasks, and the client's run_session with   *)
(* the retry loop around it (bw-client/src/main.rs).                         *)
(*                                                                           *)
(* A connection is known by the client's attempt.  QUIC streams are ordered; *)
(* a connection may be lost at any time.  OPAQUE and the key derivation are  *)
(* perfect: a client knows the password or does not.  What is sent over the  *)
(* established session is MessageFraming's subject: here a message is known  *)
(* by the key it is encrypted with.                                          *)
(*                                                                           *)
(* Time is measured in ticks by saturating ages.  A timer fires in the tick  *)
(* in which it is due.                                                       *)
(***************************************************************************)
EXTENDS Integers, Sequences, FiniteSets

CONSTANTS
  Device,          \* clients
  Kind,            \* Kind[d]: a "member" is enrolled and knows the password, a "stranger" does not
  MaxTries,        \* MaxTries[d]: bound: connections a client makes
  Ip, IpOf,        \* IpOf[d]: the address the host sees
  MaxHandshakes,   \* MAX_CONCURRENT_HANDSHAKES
  MaxAttempts,     \* MAX_AUTH_ATTEMPTS_PER_IP
  RateWindow,      \* IP_RATE_WINDOW
  SessionTimeout,  \* HANDSHAKE_TIMEOUT
  MaxBackoff       \* max_backoff of spawn_session

ASSUME HostAssumption ==
  /\ Kind \in [Device -> {"member", "stranger"}]
  /\ IpOf \in [Device -> Ip]
  /\ MaxTries \in [Device -> Nat] /\ MaxHandshakes \in Nat \ {0} /\ MaxAttempts \in Nat \ {0}
  /\ RateWindow \in Nat \ {0} /\ SessionTimeout \in Nat \ {0}
  /\ MaxBackoff \in Nat \ {0}

Conn == UNION {{d} \X (1 .. MaxTries[d]) : d \in Device}

VARIABLES
  window,    \* window[ip]: PerIpRateLimiter's count and the age of its time stamp
  recent,    \* recent[ip][a]: attempts let through in this tick and the a ticks before
  permits,   \* permits of the handshake semaphore
  server,    \* server[c]: where the host's task for c is
  age,       \* age[c]: ticks since that task was spawned
  streaming, \* streaming[c]: the sender task and the pipelines of c run
  client,    \* client[c]: where run_session is
  viewing,   \* viewing[c]: the client's recv_task runs
  keys,      \* keys[c][e]: the keys an end registered in its SessionManager
  up,        \* up[c]: the connection is open
  c2s, s2c,  \* c2s[c], s2c[c]: what the stream carries
  device,    \* device[d]: the retry loop of spawn_session
  tries      \* tries[d]: connections d has made

host == <<window, recent, permits, age, streaming>>
clients == <<viewing, device, tries>>
vars == <<host, server, client, keys, up, c2s, s2c, clients>>

NoKeys == [send |-> <<>>, recv |-> <<>>]

Init ==
  /\ window = [ip \in Ip |-> [count |-> 0, age |-> RateWindow]]
  /\ recent = [ip \in Ip |-> [a \in 0 .. RateWindow - 1 |-> 0]]
  /\ permits = MaxHandshakes
  /\ server = [c \in Conn |-> "none"]
  /\ age = [c \in Conn |-> 0]
  /\ streaming = [c \in Conn |-> FALSE]
  /\ client = [c \in Conn |-> "none"]
  /\ viewing = [c \in Conn |-> FALSE]
  /\ keys = [c \in Conn |-> [e \in {"client", "server"} |-> NoKeys]]
  /\ up = [c \in Conn |-> FALSE]
  /\ c2s = [c \in Conn |-> <<>>] /\ s2c = [c \in Conn |-> <<>>]
  /\ device = [d \in Device |-> [state |-> "retry", wait |-> 0, backoff |-> 1]]
  /\ tries = [d \in Device |-> 0]

Put(queues, c, m) == [queues EXCEPT ![c] = Append(@, m)]
Take(queues, c) == [queues EXCEPT ![c] = Tail(@)]
Arrived(queue, m) == queue # <<>> /\ Head(queue) = m

(***************************************************************************)
(* Admission                                                                 *)
(***************************************************************************)

\* Mutant: the window is over one tick early.
AllowedEarly(w) == w.age >= RateWindow - 1 \/ w.count < MaxAttempts

\* check_and_record.  An address without an entry is like one whose window expired:
\* either way the first attempt is counted as 1, so evicting stale entries, which the
\* code does when the table is large, changes nothing.
Allowed(w) == w.age >= RateWindow \/ w.count < MaxAttempts

Recorded(w) ==
  IF w.age >= RateWindow THEN [count |-> 1, age |-> 0]
  ELSE IF Allowed(w) THEN [w EXCEPT !.count = @ + 1]
  ELSE w

\* spawn_session_task: the attempt is recorded before a permit is tried for; a refused
\* connection is closed.
Admit(c, ip) ==
  LET allowed == Allowed(window[ip])
      admitted == allowed /\ permits > 0
  IN  /\ server[c] = "arriving"
      /\ window' = [window EXCEPT ![ip] = Recorded(@)]
      /\ recent' = IF allowed
                   THEN [recent EXCEPT ![ip] = [a \in 0 .. RateWindow - 1 |-> @[a] + 1]]
                   ELSE recent
      /\ permits' = IF admitted THEN permits - 1 ELSE permits
      /\ server' = [server EXCEPT ![c] = IF admitted THEN "request" ELSE "ended"]
      /\ up' = [up EXCEPT ![c] = @ /\ admitted]
      /\ c2s' = IF admitted THEN c2s ELSE [c2s EXCEPT ![c] = <<>>]
      /\ UNCHANGED <<age, streaming, client, keys, s2c, clients>>

(***************************************************************************)
(* The host's task for a connection                                          *)
(***************************************************************************)

\* The task is in its timeout, holding its permit.
Handshaking(c) == server[c] \in {"request", "finalization", "nonce", "keys"}
Serving(c) == Handshaking(c) \/ server[c] = "active"
Served == {c \in Conn : Serving(c)}

\* Mutant: the permit stays with the sender task of an established session.
EndTaskKeepingPermit(c) ==
  /\ server' = [server EXCEPT ![c] = "ended"]
  /\ permits' = IF server[c] = "active" THEN permits ELSE permits + 1
  /\ age' = [age EXCEPT ![c] = 0]
  /\ up' = [up EXCEPT ![c] = @ /\ server[c] = "active"]
  /\ c2s' = [c2s EXCEPT ![c] = <<>>]

\* The task ends: its permit returns and its half of the stream is dropped.  Before the
\* session is split the connection goes with it; afterwards the sender task and the
\* pipelines keep it, and the entry of the SessionManager stays in any case.
EndTask(c) ==
  /\ server' = [server EXCEPT ![c] = "ended"]
  /\ permits' = permits + 1
  /\ age' = [age EXCEPT ![c] = 0]
  /\ up' = [up EXCEPT ![c] = @ /\ server[c] = "active"]
  /\ c2s' = [c2s EXCEPT ![c] = <<>>]

\* A stranger has the identifier of a member, or one that is not enrolled.
Request(enrolled) == <<"request", enrolled>>
Identifiers(d) == IF Kind[d] = "member" THEN {TRUE} ELSE BOOLEAN

\* EnrollmentStore::start_login and finish_login: an identifier that is not enrolled is
\* refused, and so is the finalization of a client that does not know the password.
Enrolled(request) == request[2]
Genuine(finalization) == finalization # <<"forged">>

\* client::finish_login fails with a wrong password; a stranger may also run another
\* program that goes on all the same.
FinishesLogin(d) == IF Kind[d] = "member" THEN {TRUE} ELSE BOOLEAN
Finalization(d) == IF Kind[d] = "member" THEN <<"finalization">> ELSE <<"forged">>

\* server_establish, first frame.
RecvRequest(c) ==
  /\ server[c] = "request" /\ c2s[c] # <<>> /\ Head(c2s[c])[1] = "request"
  /\ IF ~Enrolled(Head(c2s[c]))
     THEN EndTask(c) /\ UNCHANGED s2c
     ELSE /\ server' = [server EXCEPT ![c] = "finalization"]
          /\ c2s' = Take(c2s, c)
          /\ s2c' = Put(s2c, c, <<"response">>)
          /\ UNCHANGED <<permits, age, up>>
  /\ UNCHANGED <<window, recent, streaming, client, keys, clients>>

\* server_establish, second frame.
RecvFinalization(c) ==
  /\ server[c] = "finalization"
  /\ c2s[c] # <<>> /\ Head(c2s[c]) \in {<<"finalization">>, <<"forged">>}
  /\ IF ~Genuine(Head(c2s[c]))
     THEN EndTask(c)
     ELSE /\ server' = [server EXCEPT ![c] = "nonce"]
          /\ c2s' = Take(c2s, c)
          /\ UNCHANGED <<permits, age, up>>
  /\ UNCHANGED <<window, recent, streaming, client, keys, s2c, clients>>

\* derive_session_keys: from the session key of this login and the two nonces, hence
\* different for every connection.
ClientKeys(c) == [send |-> <<"client-key", c>>, recv |-> <<"server-key", c>>]

\* Mutant: the host takes the keys as derived.
ServerKeysUnswapped(c) == ClientKeys(c)

\* server_handshake swaps the roles.
ServerKeys(c) == [send |-> ClientKeys(c).recv, recv |-> ClientKeys(c).send]

\* SessionManager::create_session_with_context.  The identifier is derived from the
\* session key of this login, so it is new and SessionDuplicate is not met.
CreateSession(c, end, k) == keys' = [keys EXCEPT ![c][end] = k]

\* server_handshake, first half: the host's nonce leaves before its keys are registered.
SendNonce(c) ==
  /\ server[c] = "nonce" /\ Arrived(c2s[c], <<"nonce">>)
  /\ c2s' = Take(c2s, c)
  /\ s2c' = Put(s2c, c, <<"nonce">>)
  /\ server' = [server EXCEPT ![c] = "keys"]
  /\ UNCHANGED <<window, recent, permits, age, streaming, client, keys, up, clients>>

\* Second half, then handle_session: register the keys, split, spawn the sender task and
\* the pipelines.
RegisterKeys(c) ==
  /\ server[c] = "keys"
  /\ CreateSession(c, "server", ServerKeys(c))
  /\ server' = [server EXCEPT ![c] = "active"]
  /\ streaming' = [streaming EXCEPT ![c] = TRUE]
  /\ UNCHANGED <<window, recent, permits, age, client, up, c2s, s2c, clients>>

\* The receiver loop: a message is dispatched (a failing handler is only logged); one
\* that does not decrypt ends the session.
RecvMessage(c) ==
  /\ server[c] = "active" /\ c2s[c] # <<>>
  /\ IF Head(c2s[c]) = keys[c]["server"].recv
     THEN c2s' = Take(c2s, c) /\ UNCHANGED <<server, permits, age, up>>
     ELSE EndTask(c)
  /\ UNCHANGED <<window, recent, streaming, client, keys, s2c, clients>>

\* Nothing is left of a connection that is gone; or the write of the nonce fails.
RecvFails(c) ==
  /\ Serving(c) /\ ~up[c] /\ (c2s[c] = <<>> \/ server[c] = "nonce")
  /\ EndTask(c)
  /\ UNCHANGED <<window, recent, streaming, client, keys, s2c, clients>>

\* Mutant: the wait for the first frame is outside the timeout.
TimeoutDueAfterRequest(c) ==
  Serving(c) /\ server[c] # "request" /\ age[c] >= SessionTimeout

\* The timeout is around handle_session, not around the handshake alone.
TimeoutDue(c) == Serving(c) /\ age[c] >= SessionTimeout

Timeout(c) ==
  /\ TimeoutDue(c)
  /\ EndTask(c)
  /\ UNCHANGED <<window, recent, streaming, client, keys, s2c, clients>>

\* The sender task sends what the pipelines queue, also when the task of the session has
\* ended; the stream holds one message here.
StreamMessage(c) ==
  /\ streaming[c] /\ up[c] /\ s2c[c] = <<>>
  /\ s2c' = Put(s2c, c, keys[c]["server"].send)
  /\ UNCHANGED <<host, server, client, keys, up, c2s, clients>>

\* It ends with the first write that fails, and the pipelines with it.
StreamEnds(c) ==
  /\ streaming[c] /\ ~up[c]
  /\ streaming' = [streaming EXCEPT ![c] = FALSE]
  /\ UNCHANGED <<window, recent, permits, age, server, client, keys, up, c2s, s2c, clients>>

(***************************************************************************)
(* The client                                                                *)
(***************************************************************************)

Min2(a, b) == IF a < b THEN a ELSE b

\* run_session returned an error: wait and try again, twice as long the next time.  The
\* back-off is never reset.
Failed(c) ==
  /\ client' = [client EXCEPT ![c] = "ended"]
  /\ up' = [up EXCEPT ![c] = FALSE]
  /\ s2c' = [s2c EXCEPT ![c] = <<>>]
  /\ device' = [device EXCEPT ![c[1]] =
                  [state |-> "retry", wait |-> @.backoff,
                   backoff |-> Min2(2 * @.backoff, MaxBackoff)]]

\* run_session returned Ok: the loop of spawn_session is left.
Done(c) ==
  /\ client' = [client EXCEPT ![c] = "ended"]
  /\ up' = [up EXCEPT ![c] = FALSE]
  /\ s2c' = [s2c EXCEPT ![c] = <<>>]
  /\ viewing' = [viewing EXCEPT ![c] = FALSE]
  /\ device' = [device EXCEPT ![c[1]].state = "done"]

\* The next connection: connect, open the stream, send the credential request.
Connect(c) ==
  /\ device[c[1]].state = "retry" /\ device[c[1]].wait = 0
  /\ tries[c[1]] + 1 = c[2]
  /\ tries' = [tries EXCEPT ![c[1]] = c[2]]
  /\ device' = [device EXCEPT ![c[1]].state = "busy"]
  /\ client' = [client EXCEPT ![c] = "response"]
  /\ server' = [server EXCEPT ![c] = "arriving"]
  /\ up' = [up EXCEPT ![c] = TRUE]
  /\ \E enrolled \in Identifiers(c[1]) : c2s' = Put(c2s, c, Request(enrolled))
  /\ UNCHANGED <<host, keys, s2c, viewing>>

\* The connection cannot be made.
ConnectFails(c) ==
  /\ device[c[1]].state = "retry" /\ device[c[1]].wait = 0
  /\ tries[c[1]] + 1 = c[2]
  /\ tries' = [tries EXCEPT ![c[1]] = c[2]]
  /\ Failed(c)
  /\ UNCHANGED <<host, server, keys, c2s, viewing>>

\* client_establish, second frame: the client sends its finalization and, without waiting,
\* the nonce of client_handshake.
ClientRecvResponse(c) ==
  /\ client[c] = "response" /\ Arrived(s2c[c], <<"response">>)
  /\ \E finishes \in FinishesLogin(c[1]) :
       IF ~finishes
       THEN Failed(c) /\ UNCHANGED c2s
       ELSE /\ client' = [client EXCEPT ![c] = "nonce"]
            /\ s2c' = Take(s2c, c)
            /\ c2s' = [c2s EXCEPT ![c] = @ \o << Finalization(c[1]), <<"nonce">> >>]
            /\ UNCHANGED <<up, device>>
  /\ UNCHANGED <<host, server, keys, viewing, tries>>

ClientRecvNonce(c) ==
  /\ client[c] = "nonce" /\ Arrived(s2c[c], <<"nonce">>)
  /\ s2c' = Take(s2c, c)
  /\ CreateSession(c, "client", ClientKeys(c))
  /\ client' = [client EXCEPT ![c] = "active"]
  /\ viewing' = [viewing EXCEPT ![c] = TRUE]
  /\ UNCHANGED <<host, server, up, c2s, device, tries>>

\* A read fails while the session is being established.
ClientRecvFails(c) ==
  /\ client[c] \in {"response", "nonce"} /\ ~up[c] /\ s2c[c] = <<>>
  /\ Failed(c)
  /\ UNCHANGED <<host, server, keys, c2s, viewing, tries>>

\* The forward loop sends an input or clipboard message.
Forward(c) ==
  /\ client[c] = "active" /\ up[c] /\ c2s[c] = <<>> /\ server[c] # "ended"
  /\ c2s' = Put(c2s, c, keys[c]["client"].send)
  /\ UNCHANGED <<host, server, client, keys, up, s2c, clients>>

\* A send fails when the connection is gone or the host has dropped its receiving half;
\* or the window is closed.  Either way run_session returns Ok.
ForwardEnds(c) ==
  /\ client[c] = "active"
  /\ Done(c)
  /\ UNCHANGED <<host, server, keys, c2s, tries>>

\* recv_task: one message, or the end of it when a message does not decrypt or the
\* connection is gone.  The forward loop does not notice.
View(c) ==
  /\ viewing[c]
  /\ \/ s2c[c] # <<>> /\ s2c' = Take(s2c, c)
        /\ viewing' = [viewing EXCEPT ![c] = Head(s2c[c]) = keys[c]["client"].recv]
     \/ s2c[c] = <<>> /\ ~up[c] /\ viewing' = [viewing EXCEPT ![c] = FALSE] /\ UNCHANGED s2c
  /\ UNCHANGED <<host, server, client, keys, up, c2s, device, tries>>

(***************************************************************************)
(* The environment                                                           *)
(***************************************************************************)
LoseConnection(c) ==
  /\ up[c]
  /\ up' = [up EXCEPT ![c] = FALSE]
  /\ UNCHANGED <<host, server, client, keys, c2s, s2c, clients>>

Older(n, max) == Min2(n + 1, max)

Tick ==
  /\ \A c \in Conn : ~TimeoutDue(c)
  /\ window' = [ip \in Ip |-> [window[ip] EXCEPT !.age = Older(@, RateWindow)]]
  /\ recent' = [ip \in Ip |-> [a \in 0 .. RateWindow - 1 |->
                                 IF a = 0 THEN 0 ELSE recent[ip][a - 1]]]
  /\ age' = [c \in Conn |-> IF Serving(c) THEN Older(age[c], SessionTimeout + 1) ELSE age[c]]
  /\ device' = [d \in Device |->
                  [device[d] EXCEPT !.wait = IF @ > 0 THEN @ - 1 ELSE 0]]
  /\ UNCHANGED <<permits, server, streaming, client, viewing, keys, up, c2s, s2c, tries>>

\* The steps of the host's tasks, of a client, and of the network.
HostStep(c) ==
  \/ RecvRequest(c) \/ RecvFinalization(c) \/ SendNonce(c) \/ RegisterKeys(c)
  \/ RecvMessage(c) \/ RecvFails(c) \/ StreamMessage(c) \/ StreamEnds(c)
ClientStep(c) ==
  \/ ClientRecvResponse(c) \/ ClientRecvNonce(c) \/ ClientRecvFails(c)
  \/ Forward(c) \/ ForwardEnds(c) \/ View(c)
SessionStep(c) == HostStep(c) \/ Timeout(c) \/ ClientStep(c) \/ LoseConnection(c)

(***************************************************************************)
(* Properties                                                                *)
(***************************************************************************)

\* However attempts and the expiry of the window fall, an address gets at most
\* 2 * MAX_AUTH_ATTEMPTS_PER_IP - 1 attempts through in any interval as long as
\* IP_RATE_WINDOW: all but the first of one window and all of the next.  (The comments
\* on PerIpRateLimiter speak of a sliding window and of MAX_AUTH_ATTEMPTS_PER_IP; the
\* window of check_and_record does not slide, and the bound is met:
\* MCRendezvous!DoesNotSlide.)
AttemptsBounded ==
  \A ip \in Ip : recent[ip][RateWindow - 1] <= 2 * MaxAttempts - 1

\* No permit of the handshake semaphore is lost or given out twice, however tasks end:
\* refused, failed, timed out before or after their session was split (spawn_session_task,
\* whose permit is dropped after the timeout around handle_session).
PermitsConserved == permits + Cardinality(Served) = MaxHandshakes

\* "If the handshake does not complete within this duration, it is aborted": a client that
\* stalls at any point of the handshake, or whose connection is lost there, does not keep
\* its task and its permit (HANDSHAKE_TIMEOUT in spawn_session_task).
HandshakesEnd == \A c \in Conn : Handshaking(c) ~> ~Handshaking(c)

\* HANDSHAKE_TIMEOUT is "for the entire OPAQUE handshake sequence", and "the session closes
\* when the client disconnects": a session that is established at both ends ends at the
\* host only when its connection is gone (spawn_session_task, handle_session).
EstablishedNotCut ==
  [][\A c \in Conn : server[c] = "active" /\ client[c] = "active" /\ server'[c] = "ended"
       => ~up[c]]_vars

\* Session keys are registered only on behalf of a client that knows the password, and once
\* both ends have registered theirs each decrypts what the other encrypts.  Either end may
\* be first, and may be the only one for good: the client holds keys as soon as the host's
\* nonce arrives, which leaves before the host has registered (server_handshake).
KeysFit ==
  \A c \in Conn :
    LET s == keys[c]["server"]
        k == keys[c]["client"]
    IN  /\ s # NoKeys \/ k # NoKeys => Kind[c[1]] = "member"
        /\ s # NoKeys /\ k # NoKeys => k.send = s.recv /\ k.recv = s.send
==============================================================================
