------------------------------ MODULE Rendezvous ------------------------------
(***************************************************************************)
(* The host process, run_server of bw-server/src/main.rs.  In direct mode it *)
(* admits connections as they come.  In relay mode RendezvousDriver          *)
(* (bw-server/src/rendezvous.rs) polls the relay through RelayControlClient  *)
(* (bw-relay/src/relay_client.rs) for an intent, accepts it, serves the one  *)
(* session it stands for and polls again.                                    *)
(*                                                                           *)
(* Composed with HostSession, whose sessions it admits.  The relay is what   *)
(* module Relay is about; here it answers requests, forgets the host when it *)
(* restarts or evicts it, and lets intents expire.  Control requests and     *)
(* replies are single UDP datagrams: lost, or delivered twice, at most       *)
(* MaxFaults times.  The client sends the next request when it has a reply,  *)
(* takes any datagram for it, and waits for it without a timeout.            *)
(***************************************************************************)
EXTENDS HostSession

CONSTANTS
  RelayIp,           \* the address every relayed connection comes from
  PollInterval,      \* RELAY_POLL_INTERVAL
  InitiatorTimeout,  \* INITIATOR_CONNECT_TIMEOUT
  MaxIntents,        \* bound: intents an initiator makes
  MaxFaults          \* bound: faults of the network, of the relay and of the socket

ASSUME RendezvousAssumption ==
  /\ RelayIp \in Ip
  /\ PollInterval \in Nat /\ InitiatorTimeout \in Nat
  /\ MaxIntents \in Nat /\ MaxFaults \in Nat

VARIABLES
  mode,     \* "direct" or "relay"
  driver,   \* where the driver is, the intent it is at, and its timer
  request,  \* the control request on its way to the relay
  inbox,    \* replies on their way to the host, and in its socket
  known,    \* the relay has the host registered
  intent,   \* intent[c]: the intent of connection c at the relay
  faults

control == <<mode, driver, request, inbox, known, intent, faults>>
allVars == <<vars, control>>

NoRequest == [type |-> "none"]

RInit ==
  /\ Init
  /\ mode \in {"direct", "relay"}
  /\ driver = [at |-> IF mode = "relay" THEN "start" ELSE "off", intents |-> {}, wait |-> 0]
  /\ request = NoRequest /\ inbox = <<>>
  /\ known = FALSE
  /\ intent = [c \in Conn |-> "none"]
  /\ faults = 0

GoTo(at, intents, wait) == driver' = [at |-> at, intents |-> intents, wait |-> wait]
Resume == GoTo("poll", {}, 0)

(***************************************************************************)
(* RelayControlClient and RendezvousDriver                                   *)
(***************************************************************************)

\* send_recv, first half.
Send(r) == request' = r /\ UNCHANGED inbox

\* run_server registers once, before the driver starts.
Register ==
  /\ driver.at = "start"
  /\ Send([type |-> "register"])
  /\ GoTo("registering", {}, 0)
  /\ UNCHANGED <<vars, mode, known, intent, faults>>

\* poll_pending_intents
Poll ==
  /\ driver.at = "poll"
  /\ Send([type |-> "poll"])
  /\ GoTo("polling", {}, 0)
  /\ UNCHANGED <<vars, mode, known, intent, faults>>

\* A reply to register: anything but the acknowledgment ends the process.
AfterRegister(r) == GoTo(IF r.type = "ack" THEN "poll" ELSE "failed", {}, 0) /\ UNCHANGED request

\* accept_connect
AcceptConnect(intents) == request' = [type |-> "accept", intents |-> intents]

\* A reply to poll: nothing pending, or the first intent is accepted; a rejection, or a
\* reply to something else, ends the driver and the process.
AfterPoll(r) ==
  IF r.type # "pending"
  THEN GoTo("failed", {}, 0) /\ UNCHANGED request
  ELSE IF r.intents = {}
  THEN GoTo("sleep", {}, PollInterval) /\ UNCHANGED request
  ELSE GoTo("accepting", r.intents, 0) /\ AcceptConnect(r.intents)

\* Mutant: every error of accept_connect is returned.
AfterAcceptStrict(r) ==
  /\ IF r.type = "exchange" THEN GoTo("bind", r.intents, 0) ELSE GoTo("failed", {}, 0)
  /\ UNCHANGED request

\* A reply to accept: a rejection, or a reply to something else, skips the intent.  (Any
\* other error is SocketFails.)
AfterAccept(r) ==
  /\ IF r.type = "exchange" THEN GoTo("bind", r.intents, 0) ELSE GoTo("sleep", {}, PollInterval)
  /\ UNCHANGED request

\* send_recv, second half: the next datagram is the reply.
Receive ==
  /\ inbox # <<>>
  /\ inbox' = Tail(inbox)
  /\ LET r == Head(inbox)
     IN  \/ driver.at = "registering" /\ AfterRegister(r)
         \/ driver.at = "polling" /\ AfterPoll(r)
         \/ driver.at = "accepting" /\ AfterAccept(r)
  /\ UNCHANGED <<vars, mode, known, intent, faults>>

\* serve binds the listen address anew for the session's token.  A session whose pipelines
\* still run, or whose connection is draining, keeps the address in use: the bind fails
\* and the accepted intent is given up.
Held == \E c \in Conn : up[c] \/ streaming[c]
Bind ==
  /\ driver.at = "bind"
  /\ \/ ~Held /\ GoTo("listen", driver.intents, InitiatorTimeout)
     \/ (\E c \in Conn : server[c] # "none") /\ Resume
  /\ UNCHANGED <<vars, mode, request, inbox, known, intent, faults>>

\* The initiator's connection arrives and is admitted, or refused; every relayed
\* connection counts for the relay's address.
AcceptInitiator(c) ==
  /\ driver.at = "listen" /\ driver.intents = {c} /\ up[c]
  /\ Admit(c, RelayIp)
  /\ IF server'[c] = "ended" THEN Resume ELSE GoTo("serve", {c}, 0)
  /\ UNCHANGED <<mode, request, inbox, known, intent, faults>>

\* Mutant: the endpoint waits for its initiator.
GivesUpNever == FALSE

\* INITIATOR_CONNECT_TIMEOUT, or an incoming connection that fails while it is accepted.
GivesUp == driver.wait = 0 \/ \E c \in driver.intents : server[c] = "arriving" /\ ~up[c]

\* What was arriving is closed with the endpoint.
Abandon ==
  /\ driver.at = "listen" /\ GivesUp
  /\ Resume
  /\ server' = [c \in Conn |-> IF server[c] = "arriving" THEN "ended" ELSE server[c]]
  /\ up' = [c \in Conn |-> up[c] /\ server[c] # "arriving"]
  /\ UNCHANGED <<host, client, keys, c2s, s2c, clients, mode, request, inbox, known, intent, faults>>

\* task.await returns when the session's task has ended.
SessionEnds ==
  /\ driver.at = "serve" /\ \A c \in driver.intents : server[c] = "ended"
  /\ Resume
  /\ UNCHANGED <<vars, mode, request, inbox, known, intent, faults>>

Wake ==
  /\ driver.at = "sleep" /\ driver.wait = 0
  /\ Resume
  /\ UNCHANGED <<vars, mode, request, inbox, known, intent, faults>>

DriverStep ==
  \/ Register \/ Poll \/ Receive \/ Bind \/ (\E c \in Conn : AcceptInitiator(c))
  \/ Abandon \/ SessionEnds \/ Wake

(***************************************************************************)
(* The relay and the initiators                                              *)
(***************************************************************************)
Pending == {c \in Conn : intent[c] = "pending"}
Reply(r) == inbox' = Append(inbox, r) /\ request' = NoRequest
Rejected == [type |-> "error"]

\* handle_register, for a relay that has room.
RelayRegisters ==
  /\ request.type = "register"
  /\ known' = TRUE
  /\ Reply([type |-> "ack"])
  /\ UNCHANGED intent

\* handle_poll_pending_intents.  Which pending intent is listed first is up to the relay's
\* hash map.
RelayLists ==
  /\ request.type = "poll"
  /\ IF ~known THEN Reply(Rejected)
     ELSE IF Pending = {} THEN Reply([type |-> "pending", intents |-> {}])
     ELSE \E c \in Pending : Reply([type |-> "pending", intents |-> {c}])
  /\ UNCHANGED <<known, intent>>

\* handle_accept_connect
RelayAccepts ==
  /\ request.type = "accept"
  /\ IF known /\ request.intents \subseteq Pending
     THEN /\ Reply([type |-> "exchange", intents |-> request.intents])
          /\ intent' = [c \in Conn |-> IF c \in request.intents THEN "accepted" ELSE intent[c]]
     ELSE Reply(Rejected) /\ UNCHANGED intent
  /\ UNCHANGED known

RelayAnswers ==
  /\ RelayRegisters \/ RelayLists \/ RelayAccepts
  /\ UNCHANGED <<vars, mode, driver, faults>>

\* An initiator registers an intent for its next connection...
MakeIntent(c) ==
  /\ mode = "relay" /\ known /\ intent[c] = "none" /\ c[2] <= MaxIntents
  /\ device[c[1]].state = "retry" /\ device[c[1]].wait = 0 /\ tries[c[1]] + 1 = c[2]
  /\ intent' = [intent EXCEPT ![c] = "pending"]
  /\ UNCHANGED <<vars, mode, driver, request, inbox, known, faults>>

\* ...which the relay drops when it is not accepted in time.
IntentExpires(c) ==
  /\ intent[c] = "pending"
  /\ intent' = [intent EXCEPT ![c] = "expired"]
  /\ UNCHANGED <<vars, mode, driver, request, inbox, known, faults>>

\* With the token of an accepted intent, a connection reaches the endpoint that listens
\* for it; in direct mode the endpoint always listens.
ClientConnects(c) ==
  /\ \/ mode = "direct"
     \/ intent[c] = "accepted" /\ driver.at = "listen" /\ driver.intents = {c}
  /\ Connect(c)
  /\ UNCHANGED control

ClientCannotConnect(c) ==
  /\ mode = "relay" => intent[c] # "none"
  /\ ConnectFails(c)
  /\ UNCHANGED control

\* The accept loop of direct mode.
AcceptDirect(c) ==
  /\ mode = "direct"
  /\ Admit(c, IpOf[c[1]])
  /\ UNCHANGED control

(***************************************************************************)
(* Faults                                                                    *)
(***************************************************************************)
LoseDatagram ==
  /\ \/ request # NoRequest /\ request' = NoRequest /\ UNCHANGED inbox
     \/ inbox # <<>> /\ inbox' = Tail(inbox) /\ UNCHANGED request
  /\ UNCHANGED <<known, intent>>

RepeatReply ==
  /\ inbox # <<>>
  /\ inbox' = Append(inbox, Head(inbox))
  /\ UNCHANGED <<request, known, intent>>

\* A restarted relay knows no host and no intent; a full one evicts a registration.
ForgetHost ==
  /\ known
  /\ known' = FALSE
  /\ \/ intent' = [c \in Conn |-> IF intent[c] = "none" THEN "none" ELSE "expired"]
     \/ UNCHANGED intent
  /\ UNCHANGED <<request, inbox>>

\* handle_register refuses: the registry is full of hosts that are not stale.
RefuseRegister ==
  /\ request.type = "register"
  /\ Reply(Rejected)
  /\ UNCHANGED <<known, intent>>

\* send_recv fails, or its reply cannot be decoded: whatever was asked, the error is
\* returned, by run_server, poll_pending_intents or next_session_token.
SocketFails ==
  /\ driver.at \in {"registering", "polling", "accepting"}
  /\ GoTo("failed", {}, 0)
  /\ UNCHANGED <<request, inbox, known, intent>>

Fault ==
  /\ faults < MaxFaults
  /\ faults' = faults + 1
  /\ \/ (LoseDatagram \/ RepeatReply \/ ForgetHost \/ RefuseRegister) /\ UNCHANGED driver
     \/ SocketFails
  /\ UNCHANGED <<vars, mode>>

RTick ==
  /\ Tick
  /\ driver' = [driver EXCEPT !.wait = IF @ > 0 THEN @ - 1 ELSE 0]
  /\ UNCHANGED <<mode, request, inbox, known, intent, faults>>

RNext ==
  \/ \E c \in Conn : \/ SessionStep(c) /\ UNCHANGED control
                     \/ AcceptDirect(c) \/ ClientConnects(c) \/ ClientCannotConnect(c)
                     \/ MakeIntent(c) \/ IntentExpires(c)
  \/ DriverStep \/ RelayAnswers \/ Fault \/ RTick

RSpec == RInit /\ [][RNext]_allVars

\* The host's tasks and its driver run whenever they can, its timers fire and time passes.
\* Nothing is assumed of clients, of the network or of the relay.
RFairness ==
  /\ WF_allVars(DriverStep) /\ WF_allVars(RTick)
  /\ \A c \in Conn : WF_allVars(Timeout(c) /\ UNCHANGED control)

RFairSpec == RSpec /\ RFairness

(***************************************************************************)
(* Properties                                                                *)
(***************************************************************************)

\* "The loop returns Err only for systemic control-plane failures": without a fault of the
\* relay, of the network or of its socket the driver never fails, although intents expire
\* between the poll that lists them and their acceptance, initiators do not come, and
\* sessions break.
FailsOnlyOnFault == driver.at = "failed" => faults > 0

\* "Accepting an intent never terminates the polling lifecycle": once the driver has a
\* token it polls again, whatever the initiator does (RT-001).
PollingResumes == (driver.at \in {"bind", "listen", "serve", "sleep"}) ~> (driver.at = "poll")
==============================================================================
