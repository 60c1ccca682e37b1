-------------------------------- MODULE Relay --------------------------------
(***************************************************************************)
(* The relay's control plane: RelayServer (bw-relay/src/server.rs) with its  *)
(* registry of devices, RendezvousRegistry (rendezvous.rs) and the sessions  *)
(* an acceptance authorizes (forwarding.rs).  bin/relay.rs handles one       *)
(* datagram at a time, so a handler is one step.                             *)
(*                                                                           *)
(* Requests and replies are UDP datagrams.  A signed request may be handled  *)
(* late, repeatedly or never: what is remembered of it is when it was signed.*)
(* A reply may be lost.  Signatures are valid and identifiers well formed;   *)
(* intent identifiers are random, so one names one attempt of one initiator  *)
(* to reach one target.                                                      *)
(***************************************************************************)
EXTENDS ForwardingContext, FiniteSets

CONSTANTS
  Intent,
  Pair,               \* Pair[i]: the initiator and the target of intent i
  MaxRegistrations,   \* MAX_REGISTRATIONS
  StaleRegistration,  \* STALE_REGISTRATION_MS
  TimestampWindow,    \* TIMESTAMP_WINDOW_MS
  MaxIntents,         \* MAX_INTENTS
  IntentTimeout,      \* INTENT_TIMEOUT_MS
  MaxRestarts         \* bound: restarts of the relay process

ASSUME RelayAssumption ==
  /\ None \notin Intent \cup Token \cup Time
  /\ Pair \in [Intent -> [Role -> Device]]
  /\ MaxRegistrations \in Nat /\ StaleRegistration \in Nat
  /\ TimestampWindow \in Nat
  /\ MaxIntents \in Nat /\ IntentTimeout \in Nat
  /\ MaxRestarts \in Nat

VARIABLES
  registry,               \* registry[d]: last_seen of device d, None if unregistered
  intents,                \* RendezvousRegistry::intents
  contexts, token_index,  \* ForwardingTable
  now,
  restarts,
  signed,    \* signed[i][r]: when the initiator (target) of i last signed its
             \* ConnectIntent (AcceptConnect)
  holds,     \* holds[i][r]: the token of the last CandidateExchange for i this relay
             \* process sent to r and r received
  used       \* tokens generated

relay == <<registry, intents, contexts, token_index>>
vars == <<relay, now, restarts, signed, holds, used>>

Vacant == [state |-> "Vacant"]
PendingIntent == [state : {"Pending"}, created_at : Time]
AcceptedIntent == [state : {"Accepted"}, token : Token]
Expired == [state |-> "Expired"]

TypeOK ==
  /\ registry \in [Device -> Time \cup {None}]
  /\ intents \in [Intent -> {Vacant, Expired} \cup PendingIntent \cup AcceptedIntent]
  /\ contexts \in [Intent -> Context \cup {Absent}]
  /\ token_index \in [Token -> Intent \cup {None}]
  /\ now \in Time
  /\ restarts \in 0 .. MaxRestarts
  /\ signed \in [Intent -> [Role -> Time \cup {None}]]
  /\ holds \in [Intent -> [Role -> Token \cup {None}]]
  /\ used \subseteq Token

NoDevices == [d \in Device |-> None]
NoIntents == [i \in Intent |-> Vacant]
NoContexts == [i \in Intent |-> Absent]
NoTokens == [t \in Token |-> None]
Nobody == [i \in Intent |-> [r \in Role |-> None]]

Init ==
  /\ registry = NoDevices
  /\ intents = NoIntents
  /\ contexts = NoContexts
  /\ token_index = NoTokens
  /\ now = 0
  /\ restarts = 0
  /\ signed = Nobody
  /\ holds = Nobody
  /\ used = {}

IsRegistered(d) == registry[d] # None
Registered == {d \in Device : IsRegistered(d)}

\* Mutant: timestamps are not checked.
FreshAnyTime(ts) == ts # None

\* Mutant: signatures are not checked.
FreshUnsigned(ts) == ts # None => now - ts <= TimestampWindow

\* The timestamp check of every signed request (the clocks agree in this model).
Fresh(ts) == ts # None /\ now - ts <= TimestampWindow

------------------------------------------------------------------------------
(* Registration *)

\* Mutant: capacity is not checked again after evicting.
AdmittedUnchecked(d) ==
  LET kept == {e \in Registered : registry[e] > now - StaleRegistration}
  IN  [e \in Device |->
         IF e = d THEN now
         ELSE IF Cardinality(Registered) >= MaxRegistrations /\ e \notin kept
              THEN None ELSE registry[e]]

\* The registry after a request of d: at capacity the stale entries go, and if
\* that makes no room, not even for a device that is registered, d is refused.
Admitted(d) ==
  LET kept == IF Cardinality(Registered) >= MaxRegistrations
              THEN {e \in Registered : registry[e] > now - StaleRegistration}
              ELSE Registered
  IN  [e \in Device |->
         IF e = d /\ Cardinality(kept) < MaxRegistrations THEN now
         ELSE IF e \in kept THEN registry[e] ELSE None]

\* handle_register.  A late copy of a request does what a new one does.
Register(d) ==
  /\ registry' = Admitted(d)
  /\ UNCHANGED <<intents, contexts, token_index, now, restarts, signed, holds, used>>

------------------------------------------------------------------------------
(* Rendezvous *)

\* The initiator makes up an intent and sends it.
SignIntent(i) ==
  /\ signed[i]["initiator"] = None
  /\ signed' = [signed EXCEPT ![i]["initiator"] = now]
  /\ UNCHANGED <<relay, now, restarts, holds, used>>

\* A pending intent is dropped IntentTimeout after its creation...
Stale(i) ==
  intents[i].state = "Pending" /\ intents[i].created_at <= now - IntentTimeout

\* ...by the next register_intent, which keeps accepted and expired ones.
Retained == [i \in Intent |-> IF Stale(i) THEN Vacant ELSE intents[i]]

Held(f) == {i \in Intent : f[i] # Vacant}

\* Mutant: the deadline is stored where the time of creation goes.
RegisterIntentDeadline(i) ==
  IF \/ Cardinality(Held(Retained)) >= MaxIntents
     \/ Retained[i].state = "Pending"
  THEN intents' = Retained
  ELSE intents' = [Retained EXCEPT ![i] = [state |-> "Pending", created_at |-> now + IntentTimeout]]

\* register_intent: the sweep takes effect also when the intent is refused.
\* Only a pending intent is protected against a repeated request.
RegisterIntent(i) ==
  IF \/ Cardinality(Held(Retained)) >= MaxIntents
     \/ Retained[i].state = "Pending"
  THEN intents' = Retained
  ELSE intents' = [Retained EXCEPT ![i] = [state |-> "Pending", created_at |-> now]]

\* handle_connect_intent
ConnectIntent(i) ==
  /\ Fresh(signed[i]["initiator"])
  /\ IsRegistered(Pair[i]["initiator"])
  /\ IsRegistered(Pair[i]["target"])
  /\ RegisterIntent(i)
  /\ UNCHANGED <<registry, contexts, token_index, now, restarts, signed, holds, used>>

\* pending_for
PendingFor(d) ==
  {i \in Intent : /\ Pair[i]["target"] = d
                  /\ intents[i].state = "Pending"
                  /\ ~Stale(i)}

\* handle_poll_pending_intents; the device answers an intent it is told of with an
\* AcceptConnect (RendezvousDriver of bw-server), unless the reply is lost.
Poll(d) ==
  /\ IsRegistered(d)
  /\ \/ UNCHANGED signed
     \/ \E i \in PendingFor(d) : signed' = [signed EXCEPT ![i]["target"] = now]
  /\ UNCHANGED <<relay, now, restarts, holds, used>>

\* accept_intent's own expiry check.
TimedOut(i) ==
  intents[i].state = "Pending" /\ now - intents[i].created_at > IntentTimeout

\* Mutant: the index keeps one token per intent.
IndexTokenReplacing(i, t) ==
  [u \in Token |-> IF u = t THEN i ELSE IF token_index[u] = i THEN None ELSE token_index[u]]

\* authorize_pair leaves an earlier token of the intent in the index.
IndexToken(i, t) == [token_index EXCEPT ![t] = i]

\* A CandidateExchange with token t for the end r of intent i arrives or is lost.
Reply(i, r, t) == holds' \in {holds, [holds EXCEPT ![i][r] = t]}

\* The acceptance of a target is the one it made up when it polled; another device that
\* has the intent's identifier signs for itself.
Accepts(i, d) == IsRegistered(d) /\ (d = Pair[i]["target"] => Fresh(signed[i]["target"]))

\* handle_accept_connect: an intent that has timed out is marked expired, whoever
\* accepts; one that is pending is accepted by its target under a token of fresh random
\* bytes, and its session authorized, in place of one the intent may have had.
AcceptConnect(i, d) ==
  /\ Accepts(i, d)
  /\ intents[i].state = "Pending"
  /\ \/ /\ TimedOut(i)
        /\ intents' = [intents EXCEPT ![i] = Expired]
        /\ UNCHANGED <<contexts, token_index, holds, used>>
     \/ /\ ~TimedOut(i) /\ d = Pair[i]["target"]
        /\ \E t \in Token \ used :
             /\ intents' = [intents EXCEPT ![i] = [state |-> "Accepted", token |-> t]]
             /\ contexts' = [contexts EXCEPT ![i] = NewContext(t, Pair[i], now)]
             /\ token_index' = IndexToken(i, t)
             /\ used' = used \cup {t}
             /\ Reply(i, "target", t)
  /\ UNCHANGED <<registry, now, restarts, signed>>

\* handle_get_candidates answers the initiator of an accepted intent.
GetCandidates(i) ==
  /\ IsRegistered(Pair[i]["initiator"])
  /\ intents[i].state = "Accepted"
  /\ Reply(i, "initiator", intents[i].token)
  /\ UNCHANGED <<relay, now, restarts, signed, used>>

\* handle_relay_establish
RelayEstablish(i, r, a) ==
  /\ IsRegistered(Pair[i][r])
  /\ contexts[i] # Absent
  /\ \E c \in Rebound(contexts[i], Pair[i][r], a, now) :
       contexts' = [contexts EXCEPT ![i] = c]
  /\ UNCHANGED <<registry, intents, token_index, now, restarts, signed, holds, used>>

------------------------------------------------------------------------------

\* Nothing is persisted: a restarted relay knows no device, intent or token.
Restart ==
  /\ restarts < MaxRestarts
  /\ restarts' = restarts + 1
  /\ registry' = NoDevices
  /\ intents' = NoIntents
  /\ contexts' = NoContexts
  /\ token_index' = NoTokens
  /\ holds' = Nobody
  /\ UNCHANGED <<now, signed, used>>

Tick ==
  /\ now < MaxTime
  /\ now' = now + 1
  /\ UNCHANGED <<relay, restarts, signed, holds, used>>

Next ==
  \/ \E d \in Device : Register(d) \/ Poll(d)
  \/ \E i \in Intent : \/ SignIntent(i) \/ ConnectIntent(i)
                       \/ GetCandidates(i)
  \/ \E i \in Intent, d \in Device : AcceptConnect(i, d)
  \/ \E i \in Intent, r \in Role, a \in Addr : RelayEstablish(i, r, a)
  \/ Restart
  \/ Tick

Spec == Init /\ [][Next]_vars

------------------------------------------------------------------------------
(* Properties *)

\* The registry never outgrows its limit, though a full one is pruned and grows
\* again in one step (MAX_REGISTRATIONS, handle_register).
RegistryBounded == Cardinality(Registered) <= MaxRegistrations

\* An intent a poll delivers could be accepted at that moment: the expiry test of
\* pending_for is no laxer than the one of accept_intent, so a stale intent cannot
\* reach the target's polling loop and fail there.
PolledIsAcceptable ==
  \A d \in Device : \A i \in PendingFor(d) : ~TimedOut(i)

\* Neither end is given the other's candidates and the token before both have signed
\* ("Candidate data is never released until both endpoints have signed their intent").
MutualConsent ==
  \A i \in Intent : (\E r \in Role : holds[i][r] # None) =>
                       \A r \in Role : signed[i][r] # None

\* The two ends of an intent meet: a token this relay process has given either of
\* them leads to the intent's session, even after a repeated ConnectIntent and
\* AcceptConnect have replaced session and token.
EndsMeet ==
  \A i \in Intent : \A r \in Role :
    holds[i][r] # None => token_index[holds[i][r]] = i /\ contexts[i] # Absent

\* However late and often requests arrive, a session is only authorized while the
\* initiator's wish is fresh: within the timestamp window and the intent timeout of
\* the moment it was signed.
AuthorizedWhileFresh ==
  \A i \in Intent : contexts[i] # Absent =>
    \E s \in Time :
      /\ signed[i]["initiator"] = s
      /\ contexts[i].authorized_at - s <= TimestampWindow + IntentTimeout

\* The registry refuses new intents for lack of room only while the intents it holds
\* are in progress: pending, or accepted with a session that has not reached its end
\* (MAX_INTENTS: "Maximum concurrent connect intents in the rendezvous registry").
InProgress(i) ==
  \/ intents[i].state = "Pending"
  \/ contexts[i] # Absent /\ ~Terminal(contexts[i]) /\ now < contexts[i].expires_at
FullOnlyWhenBusy ==
  Cardinality(Held(Retained)) >= MaxIntents =>
    \E i \in Held(Retained) : InProgress(i)

==============================================================================
