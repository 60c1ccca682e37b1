----------------------------- MODULE RelayProofs -----------------------------
(***************************************************************************)
(* Proofs about Relay, for every number of devices, intents, tokens and      *)
(* addresses and every value of the limits and timeouts.                     *)
(***************************************************************************)
EXTENDS Relay, FiniteSetTheorems, TLAPS

------------------------------------------------------------------------------
(* Sessions and intents *)

\* A context is told from the marker of a missing one by its state, and the session
\* authorize_pair inserts starts now.
LEMMA ContextFacts ==
  /\ \A c \in Context : c # Absent
  /\ \A c \in Context \cup {Absent} : c # Absent => c \in Context
  /\ \A t \in Token, pair \in [Role -> Device], n \in Time :
       NewContext(t, pair, n) \in Context /\ NewContext(t, pair, n).authorized_at = n
BY ContextAssumption DEF Context, Absent, State, NewContext, Time

\* Binding an address (update_binding) keeps a session and when it was authorized.
LEMMA ReboundKeeps ==
  ASSUME NEW c \in Context, NEW d \in Device, NEW a \in Addr, NEW n \in Time,
         NEW b \in Rebound(c, d, a, n)
  PROVE  b \in Context /\ b.authorized_at = c.authorized_at
<1>1. ~Terminal(c)
  BY DEF Rebound
<1>2. CASE BindExpires(c, n)
  <2>1. b = [c EXCEPT !.state = "RelayExpired"]
    BY <1>1, <1>2 DEF Rebound
  <2> QED
    BY <2>1 DEF Context, State
<1>3. CASE ~BindExpires(c, n)
  <2>1. PICK r \in RolesOf(c, d) : b = Bind(c, r, a, n)
    BY <1>1, <1>3 DEF Rebound
  <2> DEFINE addr == [c.addr EXCEPT ![r] = a]
             st == IF \A q \in Role : addr[q] # None THEN "RelayActive" ELSE "RelayRequested"
  <2>2. addr \in [Role -> Addr \cup {None}] /\ st \in State
    BY DEF RolesOf, Context, State
  <2>3. b = [c EXCEPT !.addr = addr, !.last_active = n, !.state = st]
    BY <2>1 DEF Bind
  <2> QED
    BY <2>2, <2>3 DEF Context
<1> QED
  BY <1>2, <1>3

\* What the state of an intent says of its record.
LEMMA IntentFacts ==
  ASSUME NEW x \in {Vacant, Expired} \cup PendingIntent \cup AcceptedIntent
  PROVE  /\ x.state = "Pending" => x \in PendingIntent /\ x.created_at \in Time
         /\ x.state = "Accepted" => x \in AcceptedIntent /\ x.token \in Token
BY DEF Vacant, Expired, PendingIntent, AcceptedIntent

\* A CandidateExchange changes at most what one end of one intent holds.
LEMMA ReplyFacts ==
  ASSUME TypeOK, NEW i \in Intent, NEW r \in Role, NEW t \in Token, Reply(i, r, t)
  PROVE  /\ holds' \in [Intent -> [Role -> Token \cup {None}]]
         /\ \A j \in Intent, q \in Role :
              holds'[j][q] = holds[j][q] \/ (j = i /\ holds'[j][q] = t)
<1>1. CASE holds' = holds
  BY <1>1 DEF TypeOK
<1>2. CASE holds' = [holds EXCEPT ![i][r] = t]
  <2> DEFINE row == [holds[i] EXCEPT ![r] = t]
  <2>1. row \in [Role -> Token \cup {None}] /\ \A q \in Role : row[q] = holds[i][q] \/ row[q] = t
    BY DEF TypeOK
  <2>2. holds' = [holds EXCEPT ![i] = row]
    BY <1>2
  <2> HIDE DEF row
  <2> QED
    BY <2>1, <2>2 DEF TypeOK
<1> QED
  BY <1>1, <1>2 DEF Reply

------------------------------------------------------------------------------
(* Types *)

\* The registries keep their types through every handler and a restart.
THEOREM RelayTypeCorrect == Spec => []TypeOK
<1> USE RelayAssumption, ContextAssumption
<1>1. Init => TypeOK
  BY DEF Init, TypeOK, Time, NoDevices, NoIntents, NoContexts, NoTokens, Nobody
<1>2. TypeOK /\ [Next]_vars => TypeOK'
  <2> SUFFICES ASSUME TypeOK, [Next]_vars PROVE TypeOK'
    OBVIOUS
  <2>1. ASSUME NEW d \in Device, Register(d) PROVE TypeOK'
    <3>1. registry' \in [Device -> Time \cup {None}]
      BY <2>1 DEF Register, Admitted, TypeOK
    <3> QED
      BY <2>1, <3>1 DEF Register, TypeOK
  <2>2. ASSUME NEW d \in Device, Poll(d) PROVE TypeOK'
    <3>1. signed' \in [Intent -> [Role -> Time \cup {None}]]
      BY <2>2 DEF Poll, TypeOK, Role, PendingFor
    <3> QED
      BY <2>2, <3>1 DEF Poll, TypeOK, relay
  <2>3. ASSUME NEW i \in Intent, SignIntent(i) PROVE TypeOK'
    BY <2>3 DEF SignIntent, TypeOK, Role, relay
  <2>4. ASSUME NEW i \in Intent, ConnectIntent(i) PROVE TypeOK'
    <3> DEFINE I == {Vacant, Expired} \cup PendingIntent \cup AcceptedIntent
    <3>1. Retained \in [Intent -> I]
      BY DEF Retained, TypeOK
    <3>2. [state |-> "Pending", created_at |-> now] \in I
      BY DEF PendingIntent, TypeOK
    <3>3. intents' = Retained \/ intents' = [Retained EXCEPT ![i] = [state |-> "Pending", created_at |-> now]]
      BY <2>4 DEF ConnectIntent, RegisterIntent
    <3>4. intents' \in [Intent -> I]
      BY <3>1, <3>2, <3>3
    <3> QED
      BY <2>4, <3>4 DEF ConnectIntent, TypeOK
  <2>5. ASSUME NEW i \in Intent, NEW d \in Device, AcceptConnect(i, d) PROVE TypeOK'
    <3>1. CASE TimedOut(i)
      BY <2>5, <3>1 DEF AcceptConnect, TypeOK
    <3>2. CASE ~TimedOut(i)
      <4>1. PICK t \in Token \ used :
              /\ intents' = [intents EXCEPT ![i] = [state |-> "Accepted", token |-> t]]
              /\ contexts' = [contexts EXCEPT ![i] = NewContext(t, Pair[i], now)]
              /\ token_index' = IndexToken(i, t)
              /\ used' = used \cup {t}
              /\ Reply(i, "target", t)
        BY <2>5, <3>2 DEF AcceptConnect
      <4>2. [state |-> "Accepted", token |-> t] \in AcceptedIntent
        BY DEF AcceptedIntent
      <4>3. NewContext(t, Pair[i], now) \in Context
        BY ContextFacts DEF TypeOK
      <4>4. holds' \in [Intent -> [Role -> Token \cup {None}]]
        BY <4>1, ReplyFacts DEF Role
      <4>5. token_index' \in [Token -> Intent \cup {None}]
        BY <4>1 DEF IndexToken, TypeOK
      <4> QED
        BY <2>5, <4>1, <4>2, <4>3, <4>4, <4>5 DEF AcceptConnect, TypeOK
    <3> QED
      BY <3>1, <3>2
  <2>6. ASSUME NEW i \in Intent, GetCandidates(i) PROVE TypeOK'
    <3>1. intents[i].token \in Token
      BY <2>6, IntentFacts DEF GetCandidates, TypeOK
    <3>2. holds' \in [Intent -> [Role -> Token \cup {None}]]
      BY <2>6, <3>1, ReplyFacts DEF GetCandidates, Role
    <3> QED
      BY <2>6, <3>2 DEF GetCandidates, TypeOK, relay
  <2>7. ASSUME NEW i \in Intent, NEW r \in Role, NEW a \in Addr, RelayEstablish(i, r, a)
        PROVE TypeOK'
    <3>1. PICK c \in Rebound(contexts[i], Pair[i][r], a, now) :
            contexts' = [contexts EXCEPT ![i] = c]
      BY <2>7 DEF RelayEstablish
    <3>2. contexts[i] \in Context /\ Pair[i][r] \in Device /\ now \in Time
      BY <2>7, ContextFacts DEF RelayEstablish, TypeOK
    <3>3. c \in Context
      BY <3>2, ReboundKeeps
    <3> QED
      BY <2>7, <3>1, <3>3 DEF RelayEstablish, TypeOK
  <2>8. CASE Restart
    BY <2>8 DEF Restart, TypeOK, NoDevices, NoIntents, NoContexts, NoTokens, Nobody
  <2>9. CASE Tick
    BY <2>9 DEF Tick, TypeOK, Time, relay
  <2>10. CASE UNCHANGED vars
    BY <2>10 DEF vars, relay, TypeOK
  <2> QED
    BY <2>1, <2>2, <2>3, <2>4, <2>5, <2>6, <2>7, <2>8, <2>9, <2>10 DEF Next
<1> QED
  BY <1>1, <1>2, PTL DEF Spec

------------------------------------------------------------------------------
(* The registry *)

\* The registry is finite: it grows by one device at a time.
RegistryInv == IsFiniteSet(Registered) /\ RegistryBounded

\* handle_register counts the registry after pruning it and adds one entry only where
\* the count leaves room, so the limit holds however many devices there are.
THEOREM RegistryStaysBounded == Spec => []RegistryBounded
<1> USE RelayAssumption, ContextAssumption
<1>1. Init => RegistryInv
  <2> SUFFICES ASSUME Init PROVE RegistryInv
    OBVIOUS
  <2>1. Registered = {}
    BY DEF Init, NoDevices, Registered, IsRegistered
  <2> QED
    BY <2>1, FS_EmptySet DEF RegistryInv, RegistryBounded
<1>2. TypeOK /\ RegistryInv /\ [Next]_vars => RegistryInv'
  <2> SUFFICES ASSUME TypeOK, RegistryInv, [Next]_vars PROVE RegistryInv'
    OBVIOUS
  <2>1. ASSUME NEW d \in Device, Register(d) PROVE RegistryInv'
    <3> DEFINE kept == IF Cardinality(Registered) >= MaxRegistrations
                       THEN {e \in Registered : registry[e] > now - StaleRegistration}
                       ELSE Registered
               room == Cardinality(kept) < MaxRegistrations
    <3>1. kept \subseteq Registered
      OBVIOUS
    <3>2. /\ IsFiniteSet(kept) /\ Cardinality(kept) \in Nat
          /\ Cardinality(Registered) \in Nat
          /\ Cardinality(kept) <= MaxRegistrations
      BY <3>1, FS_Subset, FS_CardinalityType DEF RegistryInv, RegistryBounded
    <3>3. registry' = [e \in Device |-> IF e = d /\ room THEN now
                                        ELSE IF e \in kept THEN registry[e] ELSE None]
      BY <2>1 DEF Register, Admitted
    <3>4. now # None
      BY DEF TypeOK
    <3>5. Registered' \subseteq IF room THEN kept \cup {d} ELSE kept
      BY <3>3 DEF Registered, IsRegistered
    <3> HIDE DEF kept
    <3>6. CASE room
      <4>0. /\ IsFiniteSet(kept \cup {d})
            /\ Cardinality(kept \cup {d}) = IF d \in kept THEN Cardinality(kept)
                                                          ELSE Cardinality(kept) + 1
        BY <3>2, FS_AddElement
      <4>1. /\ IsFiniteSet(kept \cup {d})
            /\ Cardinality(kept \cup {d}) \in Nat
            /\ Cardinality(kept \cup {d}) <= Cardinality(kept) + 1
        BY <3>2, <4>0
      <4>2. IsFiniteSet(Registered') /\ Cardinality(Registered') <= Cardinality(kept \cup {d})
        BY <3>5, <3>6, <4>1, FS_Subset
      <4>3. Cardinality(Registered') \in Nat
        BY <4>2, FS_CardinalityType
      <4> QED
        BY <3>2, <3>6, <4>1, <4>2, <4>3 DEF RegistryInv, RegistryBounded
    <3>7. CASE ~room
      <4>1. IsFiniteSet(Registered') /\ Cardinality(Registered') <= Cardinality(kept)
        BY <3>2, <3>5, <3>7, FS_Subset
      <4>2. Cardinality(Registered') \in Nat
        BY <4>1, FS_CardinalityType
      <4> QED
        BY <3>2, <4>1, <4>2 DEF RegistryInv, RegistryBounded
    <3> QED
      BY <3>6, <3>7
  <2>2. CASE Restart
    <3>1. Registered' = {}
      BY <2>2 DEF Restart, NoDevices, Registered, IsRegistered
    <3> QED
      BY <3>1, FS_EmptySet DEF RegistryInv, RegistryBounded
  <2>3. ASSUME registry' = registry PROVE RegistryInv'
    <3>1. Registered' = Registered
      BY <2>3 DEF Registered, IsRegistered
    <3> QED
      BY <3>1 DEF RegistryInv, RegistryBounded
  <2> QED
    BY <2>1, <2>2, <2>3 DEF Next, vars, relay, Poll, SignIntent, ConnectIntent,
       AcceptConnect, GetCandidates, RelayEstablish, Tick
<1> QED
  BY <1>1, <1>2, RelayTypeCorrect, PTL DEF Spec, RegistryInv

------------------------------------------------------------------------------
(* Rendezvous *)

\* pending_for and accept_intent compare the age of an intent in two different ways;
\* they never disagree on an intent a poll delivers, whatever the timeout.
THEOREM PollsAreAcceptable == Spec => []PolledIsAcceptable
<1>1. TypeOK => PolledIsAcceptable
  <2> SUFFICES ASSUME TypeOK, NEW i \in Intent, intents[i].state = "Pending", ~Stale(i)
               PROVE  ~TimedOut(i)
    BY DEF PolledIsAcceptable, PendingFor
  <2>1. intents[i].created_at \in Time
    BY IntentFacts DEF TypeOK
  <2> QED
    BY <2>1, RelayAssumption, ContextAssumption DEF TypeOK, Time, Stale, TimedOut
<1> QED
  BY <1>1, RelayTypeCorrect, PTL

\* What register_intent leaves of an intent: what it was, nothing, or a fresh one.
LEMMA RegisterFacts ==
  ASSUME TypeOK, NEW i \in Intent, RegisterIntent(i)
  PROVE  \A j \in Intent :
           \/ intents'[j] = intents[j]
           \/ intents'[j] = Vacant
           \/ j = i /\ intents'[j] = [state |-> "Pending", created_at |-> now]
BY DEF RegisterIntent, Retained, TypeOK

\* What an acceptance does, in the two cases of accept_intent.
LEMMA AcceptFacts ==
  ASSUME TypeOK, NEW i \in Intent, NEW d \in Device, AcceptConnect(i, d)
  PROVE  /\ intents[i].state = "Pending"
         /\ UNCHANGED <<registry, now, restarts, signed>>
         /\ \/ /\ intents' = [intents EXCEPT ![i] = Expired]
               /\ UNCHANGED <<contexts, token_index, holds, used>>
            \/ /\ ~TimedOut(i) /\ signed[i]["target"] # None
               /\ \E t \in Token \ used :
                    /\ intents' = [intents EXCEPT ![i] = [state |-> "Accepted", token |-> t]]
                    /\ contexts' = [contexts EXCEPT ![i] = NewContext(t, Pair[i], now)]
                    /\ token_index' = [token_index EXCEPT ![t] = i]
                    /\ used' = used \cup {t}
                    /\ \A j \in Intent, q \in Role :
                         holds'[j][q] = holds[j][q] \/ (j = i /\ holds'[j][q] = t)
<1>1. "target" \in Role
  BY DEF Role
<1>2. \A t \in Token : Reply(i, "target", t) =>
        \A j \in Intent, q \in Role :
          holds'[j][q] = holds[j][q] \/ (j = i /\ holds'[j][q] = t)
  BY <1>1, ReplyFacts
<1>3. CASE TimedOut(i)
  BY <1>3 DEF AcceptConnect
<1>4. CASE ~TimedOut(i)
  <2>1. PICK t \in Token \ used :
          /\ intents' = [intents EXCEPT ![i] = [state |-> "Accepted", token |-> t]]
          /\ contexts' = [contexts EXCEPT ![i] = NewContext(t, Pair[i], now)]
          /\ token_index' = IndexToken(i, t)
          /\ used' = used \cup {t}
          /\ Reply(i, "target", t)
    BY <1>4 DEF AcceptConnect
  <2>2. \A j \in Intent, q \in Role :
          holds'[j][q] = holds[j][q] \/ (j = i /\ holds'[j][q] = t)
    BY <1>2, <2>1
  <2>3. signed[i]["target"] # None /\ intents[i].state = "Pending"
        /\ UNCHANGED <<registry, now, restarts, signed>>
    BY <1>4 DEF AcceptConnect, Accepts, Fresh
  <2> QED
    BY <1>4, <2>1, <2>2, <2>3 DEF IndexToken
<1> QED
  BY <1>3, <1>4

\* A signature stays given, and only the first one of an initiator counts.
LEMMA SignedFacts ==
  ASSUME TypeOK, [Next]_vars
  PROVE  \A i \in Intent :
           /\ signed[i]["initiator"] # None => signed'[i]["initiator"] = signed[i]["initiator"]
           /\ signed[i]["target"] # None => signed'[i]["target"] # None
<1>1. ASSUME NEW d \in Device, Poll(d)
      PROVE \A i \in Intent :
              /\ signed'[i]["initiator"] = signed[i]["initiator"]
              /\ signed[i]["target"] # None => signed'[i]["target"] # None
  <2>1. now # None
    BY RelayAssumption DEF TypeOK
  <2>2. CASE UNCHANGED signed
    BY <2>2
  <2>3. CASE \E i \in PendingFor(d) : signed' = [signed EXCEPT ![i]["target"] = now]
    BY <2>1, <2>3 DEF PendingFor, TypeOK, Role
  <2> QED
    BY <1>1, <2>2, <2>3 DEF Poll
<1>2. ASSUME NEW i \in Intent, SignIntent(i)
      PROVE \A j \in Intent :
              /\ signed[j]["initiator"] # None => signed'[j]["initiator"] = signed[j]["initiator"]
              /\ signed'[j]["target"] = signed[j]["target"]
  BY <1>2 DEF SignIntent, TypeOK, Role
<1>3. ASSUME signed' = signed
      PROVE \A i \in Intent :
           /\ signed[i]["initiator"] # None => signed'[i]["initiator"] = signed[i]["initiator"]
           /\ signed[i]["target"] # None => signed'[i]["target"] # None
  BY <1>3
<1> QED
  BY <1>1, <1>2, <1>3 DEF Next, vars, relay, Register, ConnectIntent, AcceptConnect,
     GetCandidates, RelayEstablish, Restart, Tick

\* An intent is pending only after its initiator signed it, and accepted only after
\* both ends did.
ConsentInv ==
  \A i \in Intent :
    /\ intents[i].state \in {"Pending", "Accepted"} => signed[i]["initiator"] # None
    /\ intents[i].state = "Accepted" => signed[i]["target"] # None
    /\ (\E r \in Role : holds[i][r] # None) => \A r \in Role : signed[i][r] # None

\* Neither end receives the other's candidates before both have signed, whichever
\* requests are repeated, delayed or lost and however often the relay restarts.
THEOREM ConsentIsMutual == Spec => []MutualConsent
<1> USE RelayAssumption
<1>1. Init => ConsentInv
  BY DEF Init, ConsentInv, NoIntents, Vacant, Nobody
<1>2. TypeOK /\ ConsentInv /\ [Next]_vars => ConsentInv'
  <2> SUFFICES ASSUME TypeOK, ConsentInv, [Next]_vars PROVE ConsentInv'
    OBVIOUS
  <2> USE SignedFacts
  <2>1. ASSUME NEW i \in Intent, ConnectIntent(i) PROVE ConsentInv'
    <3>1. \A j \in Intent :
           \/ intents'[j] = intents[j]
           \/ intents'[j] = Vacant
           \/ j = i /\ intents'[j] = [state |-> "Pending", created_at |-> now]
      BY <2>1, RegisterFacts DEF ConnectIntent
    <3>2. signed[i]["initiator"] # None /\ UNCHANGED <<signed, holds>>
      BY <2>1 DEF ConnectIntent, Fresh
    <3> QED
      BY <3>1, <3>2 DEF ConsentInv, Vacant
  <2>2. ASSUME NEW i \in Intent, NEW d \in Device, AcceptConnect(i, d) PROVE ConsentInv'
    <3>0. intents[i].state = "Pending" /\ signed' = signed
      BY <2>2 DEF AcceptConnect
    <3>1. /\ signed' = signed /\ signed[i]["initiator"] # None
          /\ \A j \in Intent : intents'[j] = intents[j] \/ j = i
      BY <2>2, <3>0 DEF ConsentInv, TypeOK, AcceptConnect
    <3>2. CASE intents' = [intents EXCEPT ![i] = Expired] /\ holds' = holds
      BY <3>1, <3>2 DEF ConsentInv, Role, Expired, TypeOK
    <3>3. CASE /\ signed[i]["target"] # None
               /\ \A j \in Intent, q \in Role : holds'[j][q] = holds[j][q] \/ j = i
      BY <3>1, <3>3 DEF ConsentInv, Role
    <3> QED
      BY <2>2, <3>2, <3>3, AcceptFacts
  <2>3. ASSUME NEW i \in Intent, GetCandidates(i) PROVE ConsentInv'
    <3>1. intents[i].token \in Token /\ intents[i].state = "Accepted"
      BY <2>3, IntentFacts DEF GetCandidates, TypeOK
    <3>2. \A j \in Intent, q \in Role : holds'[j][q] = holds[j][q] \/ j = i
      BY <2>3, <3>1, ReplyFacts DEF GetCandidates, Role
    <3> QED
      BY <2>3, <3>1, <3>2 DEF ConsentInv, GetCandidates, Role, relay
  <2>4. CASE Restart
    BY <2>4 DEF Restart, ConsentInv, NoIntents, Vacant, Nobody
  <2>5. ASSUME intents' = intents, holds' = holds PROVE ConsentInv'
    BY <2>5 DEF ConsentInv, Role
  <2> QED
    BY <2>1, <2>2, <2>3, <2>4, <2>5 DEF Next, vars, relay, Register, Poll, SignIntent,
       RelayEstablish, Tick
<1>3. ConsentInv => MutualConsent
  BY DEF ConsentInv, MutualConsent
<1> QED
  BY <1>1, <1>2, <1>3, RelayTypeCorrect, PTL DEF Spec

------------------------------------------------------------------------------
(* Sessions and tokens *)

\* A token of intent i that this relay process issued: the index still has it, and
\* the intent has a session.
Issued(i, t) == t \in used /\ token_index[t] = i /\ contexts[i] # Absent

\* Both the token an accepted intent records and the tokens the ends hold, which after
\* a repeated rendezvous may be older ones, were issued for the intent.
SessionInv ==
  \A i \in Intent :
    /\ intents[i].state = "Accepted" => Issued(i, intents[i].token)
    /\ \A r \in Role : holds[i][r] # None => Issued(i, holds[i][r])

\* Every token an end holds leads to the session of its intent: replacing a session
\* leaves its old token in the index, and a new token never takes the place of one in
\* use.
THEOREM TokensMeet == Spec => []EndsMeet
<1> USE RelayAssumption
<1>1. Init => SessionInv
  BY DEF Init, SessionInv, NoIntents, Vacant, Nobody
<1>2. TypeOK /\ SessionInv /\ [Next]_vars => SessionInv'
  <2> SUFFICES ASSUME TypeOK, SessionInv, [Next]_vars PROVE SessionInv'
    OBVIOUS
  <2>1. ASSUME NEW i \in Intent, ConnectIntent(i) PROVE SessionInv'
    <3>1. \A j \in Intent : intents'[j] = intents[j] \/ intents'[j].state # "Accepted"
      BY <2>1, RegisterFacts DEF ConnectIntent, Vacant
    <3> QED
      BY <2>1, <3>1 DEF ConnectIntent, SessionInv, Issued
  <2>2. ASSUME NEW i \in Intent, NEW d \in Device, AcceptConnect(i, d) PROVE SessionInv'
    <3>1. CASE /\ intents' = [intents EXCEPT ![i] = Expired]
               /\ UNCHANGED <<contexts, token_index, holds, used>>
      BY <3>1 DEF SessionInv, Issued, Expired, TypeOK
    <3>2. CASE \E t \in Token \ used :
                 /\ intents' = [intents EXCEPT ![i] = [state |-> "Accepted", token |-> t]]
                 /\ contexts' = [contexts EXCEPT ![i] = NewContext(t, Pair[i], now)]
                 /\ token_index' = [token_index EXCEPT ![t] = i]
                 /\ used' = used \cup {t}
                 /\ \A j \in Intent, q \in Role :
                      holds'[j][q] = holds[j][q] \/ (j = i /\ holds'[j][q] = t)
      <4>1. PICK t \in Token \ used :
              /\ intents' = [intents EXCEPT ![i] = [state |-> "Accepted", token |-> t]]
              /\ contexts' = [contexts EXCEPT ![i] = NewContext(t, Pair[i], now)]
              /\ token_index' = [token_index EXCEPT ![t] = i]
              /\ used' = used \cup {t}
              /\ \A j \in Intent, q \in Role :
                   holds'[j][q] = holds[j][q] \/ (j = i /\ holds'[j][q] = t)
        BY <3>2
      <4>2. NewContext(t, Pair[i], now) # Absent
        BY ContextFacts DEF TypeOK
      <4>3. Issued(i, t)'
        BY <4>1, <4>2 DEF Issued, TypeOK
      <4>4. ASSUME NEW j \in Intent, NEW u, Issued(j, u) PROVE Issued(j, u)'
        BY <4>1, <4>2, <4>4 DEF Issued, TypeOK
      <4>5. \A j \in Intent : intents'[j] = intents[j]
                              \/ (j = i /\ intents'[j].token = t)
        BY <4>1 DEF TypeOK
      <4> QED
        BY <4>1, <4>3, <4>4, <4>5 DEF SessionInv
    <3> QED
      BY <2>2, <3>1, <3>2, AcceptFacts
  <2>3. ASSUME NEW i \in Intent, GetCandidates(i) PROVE SessionInv'
    <3>1. intents[i].token \in Token /\ Issued(i, intents[i].token)
      BY <2>3, IntentFacts DEF GetCandidates, TypeOK, SessionInv
    <3>2. \A j \in Intent, q \in Role :
            holds'[j][q] = holds[j][q] \/ (j = i /\ holds'[j][q] = intents[i].token)
      BY <2>3, <3>1, ReplyFacts DEF GetCandidates, Role
    <3>3. UNCHANGED <<intents, used, token_index, contexts>>
      BY <2>3 DEF GetCandidates, relay
    <3> QED
      BY <3>1, <3>2, <3>3 DEF SessionInv, Issued
  <2>4. ASSUME NEW i \in Intent, NEW r \in Role, NEW a \in Addr, RelayEstablish(i, r, a)
        PROVE SessionInv'
    <3>1. \A j \in Intent : contexts[j] # Absent => contexts'[j] # Absent
      <4>1. PICK c \in Rebound(contexts[i], Pair[i][r], a, now) :
              contexts' = [contexts EXCEPT ![i] = c]
        BY <2>4 DEF RelayEstablish
      <4>2. contexts[i] \in Context /\ Pair[i][r] \in Device /\ now \in Time
        BY <2>4, ContextFacts DEF RelayEstablish, TypeOK
      <4>3. c # Absent
        BY <4>2, ReboundKeeps, ContextFacts
      <4> QED
        BY <4>1, <4>3 DEF TypeOK
    <3> QED
      BY <2>4, <3>1 DEF SessionInv, Issued, RelayEstablish
  <2>5. CASE Restart
    BY <2>5 DEF Restart, SessionInv, NoIntents, Vacant, Nobody
  <2>6. ASSUME UNCHANGED <<intents, holds, used, token_index, contexts>> PROVE SessionInv'
    BY <2>6 DEF SessionInv, Issued
  <2> QED
    BY <2>1, <2>2, <2>3, <2>4, <2>5, <2>6 DEF Next, vars, relay, Register, Poll, SignIntent,
       Tick
<1>3. SessionInv => EndsMeet
  BY DEF SessionInv, EndsMeet, Issued
<1> QED
  BY <1>1, <1>2, <1>3, RelayTypeCorrect, PTL DEF Spec

\* A pending intent was created within the timestamp window of its signature.
FreshInv ==
  /\ \A i \in Intent : intents[i].state = "Pending" =>
       /\ signed[i]["initiator"] \in Time
       /\ intents[i].created_at - signed[i]["initiator"] <= TimestampWindow
  /\ AuthorizedWhileFresh

\* A repeated ConnectIntent renews an intent only while its one signature is fresh, so
\* the two windows add up and no chain of repetitions can stretch them.
THEOREM SessionsAreFresh == Spec => []AuthorizedWhileFresh
<1> USE RelayAssumption, ContextAssumption
<1>1. Init => FreshInv
  BY DEF Init, FreshInv, NoIntents, NoContexts, Vacant, AuthorizedWhileFresh
<1>2. TypeOK /\ FreshInv /\ [Next]_vars => FreshInv'
  <2> SUFFICES ASSUME TypeOK, FreshInv, [Next]_vars PROVE FreshInv'
    OBVIOUS
  <2>0. \A i \in Intent : signed[i]["initiator"] \in Time => signed'[i]["initiator"] = signed[i]["initiator"]
    BY SignedFacts
  <2>1. ASSUME NEW i \in Intent, ConnectIntent(i) PROVE FreshInv'
    <3>1. \A j \in Intent :
           \/ intents'[j] = intents[j]
           \/ intents'[j] = Vacant
           \/ j = i /\ intents'[j] = [state |-> "Pending", created_at |-> now]
      BY <2>1, RegisterFacts DEF ConnectIntent
    <3>2. /\ signed[i]["initiator"] \in Time /\ UNCHANGED <<signed, contexts>>
          /\ now - signed[i]["initiator"] <= TimestampWindow
      BY <2>1 DEF ConnectIntent, Fresh, TypeOK, Role
    <3> QED
      BY <3>1, <3>2 DEF FreshInv, AuthorizedWhileFresh, Vacant
  <2>2. ASSUME NEW i \in Intent, NEW d \in Device, AcceptConnect(i, d) PROVE FreshInv'
    <3>1. /\ signed' = signed
          /\ \A j \in Intent : intents'[j] = intents[j] \/ intents'[j].state # "Pending"
      BY <2>2, AcceptFacts DEF TypeOK, Expired
    <3>2. AuthorizedWhileFresh'
      <4>1. CASE contexts' = contexts
        BY <3>1, <4>1 DEF FreshInv, AuthorizedWhileFresh
      <4>2. CASE /\ ~TimedOut(i)
                 /\ \E t \in Token :
                      contexts' = [contexts EXCEPT ![i] = NewContext(t, Pair[i], now)]
        <5>0. PICK t \in Token : contexts' = [contexts EXCEPT ![i] = NewContext(t, Pair[i], now)]
          BY <4>2
        <5>a. NewContext(t, Pair[i], now).authorized_at = now
          BY ContextFacts DEF TypeOK
        <5>1. /\ \A j \in Intent : j # i => contexts'[j] = contexts[j]
              /\ contexts'[i].authorized_at = now
          BY <5>0, <5>a DEF TypeOK
        <5>2. intents[i].state = "Pending" /\ intents[i].created_at \in Time
          BY <2>2, AcceptFacts, IntentFacts DEF TypeOK
        <5>3. now - intents[i].created_at <= IntentTimeout
          BY <4>2, <5>2 DEF TimedOut, TypeOK, Time
        <5>4. /\ signed[i]["initiator"] \in Time
              /\ intents[i].created_at - signed[i]["initiator"] <= TimestampWindow
          BY <5>2 DEF FreshInv
        <5>5. now - signed[i]["initiator"] <= TimestampWindow + IntentTimeout
          BY <5>2, <5>3, <5>4 DEF Time, TypeOK
        <5> QED
          BY <3>1, <5>1, <5>4, <5>5 DEF FreshInv, AuthorizedWhileFresh
      <4> QED
        BY <2>2, <4>1, <4>2, AcceptFacts
    <3> QED
      BY <3>1, <3>2 DEF FreshInv
  <2>3. ASSUME NEW i \in Intent, NEW r \in Role, NEW a \in Addr, RelayEstablish(i, r, a)
        PROVE FreshInv'
    <3>1. \A j \in Intent : contexts'[j] # Absent =>
            contexts[j] # Absent /\ contexts'[j].authorized_at = contexts[j].authorized_at
      <4>1. PICK c \in Rebound(contexts[i], Pair[i][r], a, now) :
              contexts' = [contexts EXCEPT ![i] = c]
        BY <2>3 DEF RelayEstablish
      <4>2. contexts[i] # Absent
        BY <2>3 DEF RelayEstablish
      <4>3. contexts[i] \in Context /\ Pair[i][r] \in Device /\ now \in Time
        BY <4>2, ContextFacts DEF TypeOK
      <4>4. c.authorized_at = contexts[i].authorized_at
        BY <4>3, ReboundKeeps
      <4> QED
        BY <4>1, <4>2, <4>4 DEF TypeOK
    <3> QED
      BY <2>3, <3>1 DEF FreshInv, AuthorizedWhileFresh, RelayEstablish
  <2>4. CASE Restart
    BY <2>4 DEF Restart, FreshInv, NoIntents, NoContexts, Vacant, AuthorizedWhileFresh
  <2>5. ASSUME UNCHANGED <<intents, contexts>> PROVE FreshInv'
    BY <2>0, <2>5 DEF FreshInv, AuthorizedWhileFresh
  <2> QED
    BY <2>1, <2>2, <2>3, <2>4, <2>5 DEF Next, vars, relay, Register, Poll, SignIntent,
       GetCandidates, Tick
<1>3. FreshInv => AuthorizedWhileFresh
  BY DEF FreshInv
<1> QED
  BY <1>1, <1>2, <1>3, RelayTypeCorrect, PTL DEF Spec
==============================================================================
