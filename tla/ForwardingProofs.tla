--------------------------- MODULE ForwardingProofs ---------------------------
(***************************************************************************)
(* Proofs about Forwarding, for every number of intents, tokens, devices and *)
(* addresses and every value of the limits.                                  *)
(***************************************************************************)
EXTENDS Forwarding, TLAPS

------------------------------------------------------------------------------
(* A forwarding session *)

\* A context is told from the marker of a missing one by its state.
LEMMA AbsentFacts ==
  /\ \A c \in Context : c # Absent /\ c.state \in State
  /\ \A c \in Context \cup {Absent} : c # Absent => c \in Context
  /\ Absent.state = "Absent"
BY DEF Context, Absent, State

\* The session authorize_pair inserts: it starts now, empty and with a full bucket.
LEMMA NewContextFacts ==
  ASSUME NEW t \in Token, NEW pair \in [Role -> Device], NEW n \in Time
  PROVE  LET c == NewContext(t, pair, n)
         IN  /\ c \in Context
             /\ c.token = t /\ c.bytes = 0 /\ c.tokens = RateLimit
             /\ c.last_refill = n /\ c.last_active = n /\ c.authorized_at = n
BY ContextAssumption DEF NewContext, Context, State, Time

\* What update_binding leaves alone, and when it counts as activity: only a session
\* that is neither idle nor over age, which it marks active now.
LEMMA ReboundFacts ==
  ASSUME NEW c \in Context, NEW d \in Device, NEW a \in Addr, NEW n \in Time,
         NEW b \in Rebound(c, d, a, n)
  PROVE  /\ b \in Context
         /\ b.token = c.token /\ b.bytes = c.bytes /\ b.tokens = c.tokens
         /\ b.last_refill = c.last_refill /\ b.authorized_at = c.authorized_at
         /\ b.expires_at = c.expires_at
         /\ Terminal(b) => b.last_active = c.last_active
         /\ ~Terminal(b) => ~BindExpires(c, n) /\ b.last_active = n
<1>1. ~Terminal(c)
  BY DEF Rebound
<1>2. CASE BindExpires(c, n)
  <2>1. b = [c EXCEPT !.state = "RelayExpired"]
    BY <1>1, <1>2 DEF Rebound
  <2> QED
    BY <2>1 DEF Context, State, Terminal
<1>3. CASE ~BindExpires(c, n)
  <2>1. PICK r \in RolesOf(c, d) : b = Bind(c, r, a, n)
    BY <1>1, <1>3 DEF Rebound
  <2>2. r \in Role
    BY DEF RolesOf
  <2> DEFINE addr == [c.addr EXCEPT ![r] = a]
             st == IF \A q \in Role : addr[q] # None THEN "RelayActive" ELSE "RelayRequested"
  <2>3. addr \in [Role -> Addr \cup {None}] /\ st \in {"RelayActive", "RelayRequested"}
    BY <2>2 DEF Context
  <2>4. b = [c EXCEPT !.addr = addr, !.last_active = n, !.state = st]
    BY <2>1 DEF Bind
  <2> QED
    BY <1>3, <2>3, <2>4 DEF Context, State, Terminal
<1> QED
  BY <1>2, <1>3

------------------------------------------------------------------------------
(* Types and clocks *)

\* No time stamp of a session lies in the future, so the bucket is never drained
\* by refilling it.
Clocked ==
  \A i \in Intent : contexts[i] # Absent =>
    /\ contexts[i].last_refill <= now
    /\ contexts[i].last_active <= now
    /\ contexts[i].authorized_at <= now

\* The bucket get_destination works with holds between nothing and RateLimit.
LEMMA RefilledType ==
  ASSUME NEW c \in Context, now \in Time, c.last_refill <= now
  PROVE  Refilled(c) \in 0 .. RateLimit
<1>1. /\ now - c.last_refill \in Nat /\ c.tokens \in Nat /\ RateLimit \in Nat
  BY ContextAssumption DEF Context, Time
<1>2. (now - c.last_refill) * RateLimit \in Nat
  BY <1>1
<1> HIDE DEF Refilled
<1>3. Refilled(c) = IF c.tokens + (now - c.last_refill) * RateLimit < RateLimit
                    THEN c.tokens + (now - c.last_refill) * RateLimit ELSE RateLimit
  BY DEF Refilled
<1> QED
  BY <1>1, <1>2, <1>3

\* The session a packet reaches, c, and what get_destination makes of it, b: it
\* expires, or the bucket is refilled and refuses, or the packet is carried.
Expires(c, b) ==
  /\ b.bytes = c.bytes /\ b.last_active = c.last_active
  /\ b.tokens = c.tokens /\ b.last_refill = c.last_refill
  /\ UNCHANGED <<carried, last, activity>>

Refuses(c, b) ==
  /\ b.bytes = c.bytes /\ b.last_active = c.last_active
  /\ b.tokens = Refilled(c) /\ b.last_refill = now
  /\ UNCHANGED <<carried, last, activity>>

Carries(i, c, b, n) ==
  /\ ~PacketExpires(c)
  /\ n <= Refilled(c)
  /\ b.bytes = c.bytes + n /\ b.last_active = now
  /\ b.tokens = Refilled(c) - n /\ b.last_refill = now
  /\ carried' = [carried EXCEPT ![i] = [u \in Time |-> IF u >= now THEN @[u] + n ELSE @[u]]]
  /\ last' = [last EXCEPT ![i] = n]
  /\ activity' = [activity EXCEPT ![i] = @ \cup {now}]

\* A packet with a known token touches one session, in one of these three ways.
LEMMA KnownTokenCases ==
  ASSUME TypeOK, Clocked, NEW t \in Token, NEW src \in Addr, NEW n \in PacketLen,
         KnownToken(t, src, n)
  PROVE  \E i \in Intent : \E b \in Context :
           LET c == contexts[i]
           IN  /\ c \in Context
               /\ contexts' = [contexts EXCEPT ![i] = b]
               /\ b.token = c.token /\ b.authorized_at = c.authorized_at
               /\ b.expires_at = c.expires_at
               /\ Expires(c, b) \/ Refuses(c, b) \/ Carries(i, c, b, n)
<1> DEFINE i == token_index[t]
           c == contexts[i]
           refilled == [c EXCEPT !.tokens = Refilled(c), !.last_refill = now]
           paid == [refilled EXCEPT !.tokens = @ - n, !.bytes = @ + n, !.last_active = now]
<1>1. i \in Intent /\ c.state = "RelayActive" /\ c \in Context \cup {Absent}
  BY DEF KnownToken, TypeOK
<1>2. c \in Context /\ c.last_refill <= now
  BY <1>1, AbsentFacts DEF Clocked
<1>3. Refilled(c) \in 0 .. RateLimit /\ now \in Time /\ RateLimit \in Nat /\ n \in Nat
  BY <1>2, RefilledType, ContextAssumption, ForwardingAssumption DEF TypeOK
<1>4. /\ refilled \in Context
      /\ refilled.token = c.token /\ refilled.authorized_at = c.authorized_at
      /\ refilled.expires_at = c.expires_at /\ refilled.bytes = c.bytes
      /\ refilled.last_active = c.last_active
      /\ refilled.tokens = Refilled(c) /\ refilled.last_refill = now
  BY <1>2, <1>3 DEF Context
<1>5. CASE /\ PacketExpires(c)
           /\ contexts' = [contexts EXCEPT ![i].state = "RelayExpired"]
           /\ UNCHANGED <<carried, last, activity>>
  <2> DEFINE b == [c EXCEPT !.state = "RelayExpired"]
  <2>1. contexts' = [contexts EXCEPT ![i] = b]
    BY <1>5
  <2>2. b \in Context /\ b.token = c.token /\ b.authorized_at = c.authorized_at
        /\ b.expires_at = c.expires_at /\ b.bytes = c.bytes /\ b.last_active = c.last_active
        /\ b.tokens = c.tokens /\ b.last_refill = c.last_refill
    BY <1>2 DEF Context, State
  <2> QED
    BY <1>1, <1>2, <1>5, <2>1, <2>2 DEF Expires
<1>6. CASE /\ contexts' = [contexts EXCEPT ![i] = refilled]
           /\ UNCHANGED <<carried, last, activity>>
  BY <1>1, <1>2, <1>4, <1>6 DEF Refuses
<1>7. CASE /\ ~PacketExpires(c)
           /\ refilled.tokens >= n
           /\ contexts' = [contexts EXCEPT ![i] = paid]
           /\ carried' = [carried EXCEPT ![i] =
                            [u \in Time |-> IF u >= now THEN @[u] + n ELSE @[u]]]
           /\ last' = [last EXCEPT ![i] = n]
           /\ activity' = [activity EXCEPT ![i] = @ \cup {now}]
  <2>1. n <= Refilled(c) /\ refilled.tokens - n \in 0 .. RateLimit /\ refilled.bytes + n \in Nat
    BY <1>2, <1>3, <1>4, <1>7 DEF Context
  <2>2. paid \in Context /\ paid.token = c.token /\ paid.authorized_at = c.authorized_at
        /\ paid.expires_at = c.expires_at /\ paid.bytes = c.bytes + n /\ paid.last_active = now
        /\ paid.tokens = Refilled(c) - n /\ paid.last_refill = now
    BY <1>3, <1>4, <2>1 DEF Context
  <2>3. Carries(i, c, paid, n)
    BY <1>7, <2>1, <2>2 DEF Carries
  <2> QED
    BY <1>1, <1>2, <1>7, <2>2, <2>3
<1> QED
  BY <1>5, <1>6, <1>7 DEF KnownToken

\* A context that is written over one entry keeps the table well formed.
LEMMA OneContext ==
  ASSUME TypeOK, Clocked, NEW i \in Intent, NEW b \in Context,
         contexts' = [contexts EXCEPT ![i] = b], UNCHANGED now,
         b.last_refill <= now, b.last_active <= now, b.authorized_at <= now
  PROVE  contexts' \in [Intent -> Context \cup {Absent}] /\ Clocked'
BY DEF TypeOK, Clocked

\* The inductive form of the type invariant: with Clocked.
LEMMA TypeInvariant == Spec => [](TypeOK /\ Clocked)
<1>1. Init => TypeOK /\ Clocked
  BY ContextAssumption DEF Init, TypeOK, Clocked, Time
<1>2. TypeOK /\ Clocked /\ [Next]_vars => TypeOK' /\ Clocked'
  <2> SUFFICES ASSUME TypeOK, Clocked, [Next]_vars PROVE TypeOK' /\ Clocked'
    OBVIOUS
  <2>0. now \in Time /\ now \in Nat /\ \A n \in Time : n \in Nat
    BY DEF TypeOK, Time
  <2>1. ASSUME NEW i \in Intent, NEW t \in Token, AuthorizePair(i, t)
        PROVE  TypeOK' /\ Clocked'
    <3> DEFINE b == NewContext(t, Pair[i], now)
    <3>1. /\ b \in Context
          /\ b.last_refill = now /\ b.last_active = now /\ b.authorized_at = now
      BY <2>0, NewContextFacts, ForwardingAssumption
    <3>2. contexts' = [contexts EXCEPT ![i] = b] /\ UNCHANGED now
      BY <2>1 DEF AuthorizePair
    <3> HIDE DEF b
    <3>5. b.last_refill <= now /\ b.last_active <= now /\ b.authorized_at <= now
      BY <2>0, <3>1
    <3>3. contexts' \in [Intent -> Context \cup {Absent}] /\ Clocked'
      BY <3>1, <3>2, <3>5, OneContext
    <3>4. TypeOK'
      BY <2>0, <2>1, <3>3 DEF AuthorizePair, TypeOK, IndexToken
    <3> QED
      BY <3>3, <3>4
  <2>2. ASSUME NEW i \in Intent, NEW d \in Device, NEW a \in Addr, UpdateBinding(i, d, a)
        PROVE  TypeOK' /\ Clocked'
    <3>1. contexts[i] \in Context
      BY <2>2, AbsentFacts DEF UpdateBinding, TypeOK
    <3>2. PICK b \in Rebound(contexts[i], d, a, now) :
            /\ contexts' = [contexts EXCEPT ![i] = b]
            /\ activity' = IF Terminal(b) THEN activity
                           ELSE [activity EXCEPT ![i] = @ \cup {now}]
      BY <2>2 DEF UpdateBinding
    <3>3. /\ b \in Context /\ b.last_refill <= now /\ b.last_active <= now
          /\ b.authorized_at <= now
      BY <2>0, <3>1, AbsentFacts, ReboundFacts DEF Clocked
    <3>4. contexts' \in [Intent -> Context \cup {Absent}] /\ Clocked'
      BY <2>2, <3>2, <3>3, OneContext DEF UpdateBinding
    <3>5. activity' \in [Intent -> SUBSET Time]
      BY <2>0, <3>2 DEF TypeOK
    <3> QED
      BY <2>2, <3>4, <3>5 DEF UpdateBinding, TypeOK
  <2>3. ASSUME NEW i \in Intent, Close(i)
        PROVE  TypeOK' /\ Clocked'
    <3> DEFINE b == [contexts[i] EXCEPT !.state = "RelayClosed"]
    <3>1. contexts[i] \in Context /\ contexts' = [contexts EXCEPT ![i] = b]
      BY <2>3, AbsentFacts DEF Close, TypeOK
    <3>2. /\ b \in Context /\ b.last_refill = contexts[i].last_refill
          /\ b.last_active = contexts[i].last_active
          /\ b.authorized_at = contexts[i].authorized_at
      BY <3>1 DEF Context, State
    <3>3. contexts[i] # Absent /\ UNCHANGED now
      BY <2>3 DEF Close
    <3> HIDE DEF b
    <3>4. contexts' \in [Intent -> Context \cup {Absent}] /\ Clocked'
      BY <3>1, <3>2, <3>3, OneContext DEF Clocked
    <3> QED
      BY <2>3, <3>4 DEF Close, TypeOK, history
  <2>4. ASSUME Sweep
        PROVE  TypeOK' /\ Clocked'
    BY <2>4 DEF Sweep, TypeOK, Clocked
  <2>5. ASSUME NEW t \in Token, NEW a \in Addr, UnknownToken(t, a)
        PROVE  TypeOK' /\ Clocked'
    <3>1. IpOf[a] \in Ip
      BY ForwardingAssumption
    <3>2. Evict \in [Ip -> [count : Nat, window_start : Time]]
      BY ContextAssumption DEF Evict, NoEntry, TypeOK, Time
    <3>3. failed_lookups' \in [Ip -> [count : Nat, window_start : Time]]
      BY <2>0, <2>5, <3>1, <3>2 DEF UnknownToken, RecordFailedLookup, Recorded
    <3>4. failures' \in [Ip -> [Time -> Nat]]
      BY <2>5, <3>1 DEF UnknownToken, TypeOK
    <3> QED
      BY <2>5, <3>3, <3>4 DEF UnknownToken, TypeOK, Clocked
  <2>6. ASSUME NEW t \in Token, NEW a \in Addr, NEW n \in PacketLen, KnownToken(t, a, n)
        PROVE  TypeOK' /\ Clocked'
    <3>1. PICK i \in Intent, b \in Context :
             LET c == contexts[i]
             IN  /\ c \in Context
                 /\ contexts' = [contexts EXCEPT ![i] = b]
                 /\ b.token = c.token /\ b.authorized_at = c.authorized_at
                 /\ b.expires_at = c.expires_at
                 /\ Expires(c, b) \/ Refuses(c, b) \/ Carries(i, c, b, n)
      BY <2>6, KnownTokenCases
    <3>2. contexts[i] # Absent /\ n \in Nat
      BY <3>1, AbsentFacts, ForwardingAssumption
    <3>3. b.last_refill <= now /\ b.last_active <= now /\ b.authorized_at <= now
      BY <2>0, <3>1, <3>2 DEF Clocked, Expires, Refuses, Carries
    <3>4. contexts' \in [Intent -> Context \cup {Absent}] /\ Clocked'
      BY <2>6, <3>1, <3>3, OneContext DEF KnownToken
    <3>5. /\ carried' \in [Intent -> [Time -> Nat]] /\ activity' \in [Intent -> SUBSET Time]
          /\ last' \in [Intent -> PacketLen \cup {0}]
      <4>1. CASE UNCHANGED <<carried, last, activity>>
        BY <4>1 DEF TypeOK
      <4>2. CASE Carries(i, contexts[i], b, n)
        <5>1. [u \in Time |-> IF u >= now THEN carried[i][u] + n ELSE carried[i][u]]
                 \in [Time -> Nat]
          BY <3>2 DEF TypeOK
        <5> QED
          BY <2>0, <4>2, <5>1 DEF TypeOK, Carries
      <4> QED
        BY <3>1, <4>1, <4>2 DEF Expires, Refuses
    <3> QED
      BY <2>6, <3>4, <3>5 DEF KnownToken, TypeOK
  <2>7. ASSUME Tick
        PROVE  TypeOK' /\ Clocked'
    <3>1. now' \in Time /\ now <= now'
      BY <2>0, <2>7, ContextAssumption DEF Tick, Time
    <3>2. \A i \in Intent : contexts[i] # Absent =>
            contexts[i].last_refill \in Nat /\ contexts[i].last_active \in Nat
            /\ contexts[i].authorized_at \in Nat
      BY <2>0, AbsentFacts DEF TypeOK, Context
    <3>3. Clocked'
      BY <2>0, <2>7, <3>1, <3>2 DEF Tick, table, Clocked
    <3> QED
      BY <2>7, <3>1, <3>3 DEF Tick, table, history, TypeOK
  <2>8. ASSUME UNCHANGED vars
        PROVE  TypeOK' /\ Clocked'
    BY <2>8 DEF vars, table, history, TypeOK, Clocked
  <2> QED
    BY <2>1, <2>2, <2>3, <2>4, <2>5, <2>6, <2>7, <2>8 DEF Next
<1> QED
  BY <1>1, <1>2, PTL DEF Spec

\* The type invariant: in particular the token bucket stays between nothing and
\* RateLimit through every refill and every payment.
THEOREM TableTypeCorrect == Spec => []TypeOK
BY TypeInvariant, PTL

------------------------------------------------------------------------------
(* The steps of a session *)

\* A binding that succeeds.
Binds(i, c, b) ==
  /\ ~BindExpires(c, now)
  /\ b.bytes = c.bytes /\ b.last_active = now
  /\ b.tokens = c.tokens /\ b.last_refill = c.last_refill
  /\ activity' = [activity EXCEPT ![i] = @ \cup {now}]
  /\ UNCHANGED <<carried, last>>

\* What update_binding, close and get_destination have in common: they turn one
\* session, contexts[i], into b and leave its token and its life span alone.
SessionStep(i, b) ==
  LET c == contexts[i]
  IN  /\ c \in Context
      /\ contexts' = [contexts EXCEPT ![i] = b]
      /\ b.token = c.token /\ b.authorized_at = c.authorized_at
      /\ b.expires_at = c.expires_at
      /\ \/ Expires(c, b)
         \/ Refuses(c, b)
         \/ Binds(i, c, b)
         \/ \E n \in PacketLen : Carries(i, c, b, n)
      /\ UNCHANGED <<token_index, failed_lookups, now, issued, live, failures>>

\* Every step of the table is an authorization, a step of one session, a sweep, a
\* failed lookup or the clock.
LEMMA StepCases ==
  ASSUME TypeOK, Clocked, [Next]_vars
  PROVE  \/ \E i \in Intent, t \in Token : AuthorizePair(i, t)
         \/ \E i \in Intent, b \in Context : SessionStep(i, b)
         \/ Sweep
         \/ \E t \in Token, a \in Addr : UnknownToken(t, a)
         \/ Tick
         \/ UNCHANGED vars
<1>1. ASSUME NEW i \in Intent, NEW d \in Device, NEW a \in Addr, UpdateBinding(i, d, a)
      PROVE  \E b \in Context : SessionStep(i, b)
  <2>1. contexts[i] \in Context /\ now \in Time
    BY <1>1, AbsentFacts DEF UpdateBinding, TypeOK
  <2>2. PICK b \in Rebound(contexts[i], d, a, now) :
          /\ contexts' = [contexts EXCEPT ![i] = b]
          /\ activity' = IF Terminal(b) THEN activity
                         ELSE [activity EXCEPT ![i] = @ \cup {now}]
    BY <1>1 DEF UpdateBinding
  <2> DEFINE c == contexts[i]
  <2>3. /\ b \in Context
        /\ b.token = c.token /\ b.bytes = c.bytes /\ b.tokens = c.tokens
        /\ b.last_refill = c.last_refill /\ b.authorized_at = c.authorized_at
        /\ b.expires_at = c.expires_at
        /\ Terminal(b) => b.last_active = c.last_active
        /\ ~Terminal(b) => ~BindExpires(c, now) /\ b.last_active = now
    BY <2>1, ReboundFacts
  <2>4. UNCHANGED <<token_index, failed_lookups, now, issued, live, carried, last, failures>>
    BY <1>1 DEF UpdateBinding
  <2>5. Expires(c, b) \/ Binds(i, c, b)
    BY <2>2, <2>3, <2>4 DEF Expires, Binds
  <2> QED
    BY <2>1, <2>2, <2>3, <2>4, <2>5 DEF SessionStep
<1>2. ASSUME NEW i \in Intent, Close(i)
      PROVE  \E b \in Context : SessionStep(i, b)
  <2> DEFINE b == [contexts[i] EXCEPT !.state = "RelayClosed"]
  <2>1. contexts[i] \in Context /\ contexts' = [contexts EXCEPT ![i] = b]
    BY <1>2, AbsentFacts DEF Close, TypeOK
  <2>2. /\ b \in Context /\ b.token = contexts[i].token
        /\ b.authorized_at = contexts[i].authorized_at
        /\ b.expires_at = contexts[i].expires_at
        /\ b.bytes = contexts[i].bytes /\ b.last_active = contexts[i].last_active
        /\ b.tokens = contexts[i].tokens /\ b.last_refill = contexts[i].last_refill
    BY <2>1 DEF Context, State
  <2> HIDE DEF b
  <2> QED
    BY <1>2, <2>1, <2>2 DEF Close, history, SessionStep, Expires
<1>3. ASSUME NEW t \in Token, NEW a \in Addr, NEW n \in PacketLen, KnownToken(t, a, n)
      PROVE  \E i \in Intent, b \in Context : SessionStep(i, b)
  <2>1. PICK i \in Intent, b \in Context :
           LET c == contexts[i]
           IN  /\ c \in Context
               /\ contexts' = [contexts EXCEPT ![i] = b]
               /\ b.token = c.token /\ b.authorized_at = c.authorized_at
               /\ b.expires_at = c.expires_at
               /\ Expires(c, b) \/ Refuses(c, b) \/ Carries(i, c, b, n)
    BY <1>3, KnownTokenCases
  <2> QED
    BY <1>3, <2>1 DEF KnownToken, SessionStep
<1> QED
  BY <1>1, <1>2, <1>3 DEF Next

------------------------------------------------------------------------------
(* Tokens *)

\* Every context's token was generated for its intent, and every live token for
\* some intent.
TokenInv ==
  /\ \A i \in Intent : contexts[i] # Absent => issued[contexts[i].token] = i
  /\ \A t \in live : issued[t] \in Intent
  /\ TokensMeet

\* Until a session is swept, every token ever generated for its intent leads to it,
\* however often it was authorized anew (authorize_pair, sweep).
THEOREM TokensAlwaysMeet == Spec => []TokensMeet
<1>1. Init => TokenInv
  BY DEF Init, TokenInv, TokensMeet
<1>2. TypeOK /\ Clocked /\ TokenInv /\ [Next]_vars => TokenInv'
  <2> SUFFICES ASSUME TypeOK, Clocked, TokenInv, [Next]_vars PROVE TokenInv'
    OBVIOUS
  <2>0. \A i \in Intent : contexts[i] # Absent => contexts[i] \in Context /\ contexts[i].token \in Token
    BY AbsentFacts DEF TypeOK, Context
  <2>1. ASSUME NEW i \in Intent, NEW t \in Token, AuthorizePair(i, t) PROVE TokenInv'
    <3> DEFINE b == NewContext(t, Pair[i], now)
    <3>0. now \in Time /\ Pair[i] \in [Role -> Device]
      BY ForwardingAssumption DEF TypeOK
    <3>1. b \in Context /\ b.token = t /\ b # Absent
      BY <3>0, NewContextFacts, AbsentFacts
    <3>2. /\ contexts' = [contexts EXCEPT ![i] = b] /\ token_index' = [token_index EXCEPT ![t] = i]
          /\ issued' = [issued EXCEPT ![t] = i] /\ live' = live \cup {t} /\ issued[t] = None
      BY <2>1 DEF AuthorizePair, IndexToken
    <3> HIDE DEF b
    <3>3. t \notin live /\ \A j \in Intent : contexts[j] # Absent => contexts[j].token # t
      BY <3>2, ForwardingAssumption DEF TokenInv
    <3>4. \A j \in Intent : contexts'[j] # Absent => issued'[contexts'[j].token] = j
      BY <2>0, <3>1, <3>2, <3>3 DEF TokenInv, TypeOK
    <3>5. \A u \in live' : issued'[u] \in Intent /\ token_index'[u] = issued'[u]
                           /\ contexts'[issued'[u]] # Absent
      BY <3>1, <3>2, <3>3 DEF TokenInv, TypeOK, TokensMeet
    <3> QED
      BY <3>4, <3>5 DEF TokenInv, TokensMeet
  <2>2. ASSUME NEW i \in Intent, NEW b \in Context, SessionStep(i, b) PROVE TokenInv'
    <3>1. /\ contexts' = [contexts EXCEPT ![i] = b] /\ b.token = contexts[i].token
          /\ b # Absent /\ contexts[i] # Absent /\ UNCHANGED <<token_index, issued, live>>
      BY <2>2, AbsentFacts DEF SessionStep
    <3> QED
      BY <3>1 DEF TokenInv, TokensMeet, TypeOK
  <2>3. ASSUME Sweep PROVE TokenInv'
    <3> DEFINE gone == {i \in Intent : Swept(contexts[i])}
    <3>1. /\ contexts' = [i \in Intent |-> IF i \in gone THEN Absent ELSE contexts[i]]
          /\ token_index' = [t \in Token |->
                               IF \E i \in gone : contexts[i].token = t
                               THEN None ELSE token_index[t]]
          /\ live' = {t \in live : issued[t] \notin gone} /\ issued' = issued
      BY <2>3 DEF Sweep
    <3>2. \A i \in gone : i \in Intent /\ issued[contexts[i].token] = i
      BY DEF Swept, TokenInv
    <3> HIDE DEF gone
    <3>3. \A i \in Intent : contexts'[i] # Absent => issued'[contexts'[i].token] = i
      BY <3>1 DEF TokenInv
    <3>4. ASSUME NEW t \in live'
          PROVE  issued'[t] \in Intent /\ token_index'[t] = issued'[t]
                 /\ contexts'[issued'[t]] # Absent
      <4>1. t \in live /\ t \in Token /\ issued[t] \in Intent /\ issued[t] \notin gone
        BY <3>1 DEF TokenInv, TypeOK
      <4>2. token_index'[t] = token_index[t]
        BY <3>1, <3>2, <4>1
      <4> QED
        BY <3>1, <4>1, <4>2 DEF TokenInv, TokensMeet
    <3> QED
      BY <3>3, <3>4 DEF TokenInv, TokensMeet
  <2>4. ASSUME NEW t \in Token, NEW a \in Addr, UnknownToken(t, a) PROVE TokenInv'
    BY <2>4 DEF UnknownToken, TokenInv, TokensMeet
  <2>5. ASSUME Tick \/ UNCHANGED vars PROVE TokenInv'
    BY <2>5 DEF Tick, vars, table, history, TokenInv, TokensMeet
  <2> QED
    BY <2>1, <2>2, <2>3, <2>4, <2>5, StepCases
<1>3. TokenInv => TokensMeet
  BY DEF TokenInv
<1> QED
  BY <1>1, <1>2, <1>3, TypeInvariant, PTL DEF Spec

------------------------------------------------------------------------------
(* Expiry *)

\* The last activity of a session is one of its moments, and none is in the future.
LifeInv ==
  /\ \A i \in Intent : contexts[i] # Absent => contexts[i].last_active \in activity[i]
  /\ \A i \in Intent : \A t \in activity[i] : t <= now
  /\ NeverResumes

\* A session that has been idle too long, or is over age, is never active again,
\* neither by a packet nor by a binding (update_binding, get_destination).
THEOREM IdleNeverResumes == Spec => []NeverResumes
<1>1. Init => LifeInv
  BY DEF Init, LifeInv, NeverResumes
<1>2. TypeOK /\ Clocked /\ LifeInv /\ [Next]_vars => LifeInv'
  <2> SUFFICES ASSUME TypeOK, Clocked, LifeInv, [Next]_vars PROVE LifeInv'
    OBVIOUS
  <2>0. /\ now \in Time /\ now \in Nat
        /\ \A i \in Intent : activity[i] \subseteq Nat
        /\ \A i \in Intent : contexts[i] # Absent => contexts[i] \in Context
        /\ \A c \in Context : c # Absent /\ c.last_active \in Nat /\ c.authorized_at \in Nat
                              /\ c.expires_at \in Nat
    <3>1. /\ now \in Time /\ activity \in [Intent -> SUBSET Time]
          /\ contexts \in [Intent -> Context \cup {Absent}] /\ \A n \in Time : n \in Nat
      BY DEF TypeOK, Time
    <3>2. \A c \in Context : c # Absent /\ c.last_active \in Nat /\ c.authorized_at \in Nat
                              /\ c.expires_at \in Nat
      BY AbsentFacts DEF Context, Time
    <3> QED
      BY <3>1, <3>2, AbsentFacts
  <2>1. ASSUME NEW i \in Intent, NEW t \in Token, AuthorizePair(i, t) PROVE LifeInv'
    <3> DEFINE b == NewContext(t, Pair[i], now)
    <3>0. Pair[i] \in [Role -> Device]
      BY ForwardingAssumption
    <3>1. b \in Context /\ b.last_active = now /\ b.authorized_at = now
      BY <2>0, <3>0, NewContextFacts
    <3>2. /\ contexts' = [contexts EXCEPT ![i] = b] /\ UNCHANGED now
          /\ activity' = [activity EXCEPT ![i] = {now}]
      BY <2>1 DEF AuthorizePair
    <3> HIDE DEF b
    <3>3. contexts'[i] = b /\ activity'[i] = {now}
          /\ \A j \in Intent \ {i} : contexts'[j] = contexts[j] /\ activity'[j] = activity[j]
      BY <3>2 DEF TypeOK
    <3> QED
      BY <2>0, <3>1, <3>2, <3>3 DEF LifeInv, NeverResumes
  <2>2. ASSUME NEW i \in Intent, NEW b \in Context, SessionStep(i, b) PROVE LifeInv'
    <3> DEFINE c == contexts[i]
    <3>1. /\ c \in Context /\ c # Absent
          /\ contexts' = [contexts EXCEPT ![i] = b] /\ UNCHANGED now
          /\ b.authorized_at = c.authorized_at /\ b.expires_at = c.expires_at
      BY <2>0, <2>2 DEF SessionStep
    <3>2. contexts'[i] = b /\ \A j \in Intent \ {i} : contexts'[j] = contexts[j]
      BY <3>1 DEF TypeOK
    <3>3. CASE UNCHANGED activity /\ b.last_active = c.last_active
      <4>1. \A j \in Intent : contexts'[j] # Absent =>
              /\ contexts[j] # Absent
              /\ contexts'[j].last_active = contexts[j].last_active
              /\ contexts'[j].authorized_at = contexts[j].authorized_at
              /\ contexts'[j].expires_at = contexts[j].expires_at
        BY <3>1, <3>2, <3>3
      <4> QED
        BY <3>1, <3>3, <4>1 DEF LifeInv, NeverResumes
    <3>4. CASE /\ activity' = [activity EXCEPT ![i] = @ \cup {now}]
               /\ b.last_active = now /\ ~Idle(c, now) /\ now < c.expires_at
      <4>1. activity'[i] = activity[i] \cup {now}
            /\ \A j \in Intent \ {i} : activity'[j] = activity[j]
        BY <3>4 DEF TypeOK
      <4>2. /\ c.last_active \in activity[i] /\ c.last_active <= now
            /\ now - c.last_active <= IdleTimeout /\ c.authorized_at <= now
        BY <2>0, <3>1, <3>4, ContextAssumption DEF LifeInv, Clocked, Idle
      <4>3. ASSUME NEW t \in activity'[i]
            PROVE  /\ c.authorized_at <= t
                   /\ t > c.authorized_at =>
                        /\ \E u \in activity'[i] : u < t /\ t - u <= IdleTimeout
                        /\ t < c.expires_at
        <5>1. CASE t \in activity[i]
          BY <3>1, <4>1, <5>1 DEF LifeInv, NeverResumes
        <5>2. CASE t \notin activity[i]
          <6>1. t = now /\ c.last_active # now
            BY <4>1, <4>2, <5>2
          <6>2. c.last_active < now
            BY <2>0, <3>1, <4>2, <6>1
          <6> QED
            BY <3>4, <4>1, <4>2, <6>1, <6>2
        <5> QED
          BY <5>1, <5>2
      <4>4. /\ \A j \in Intent : contexts'[j] # Absent => contexts'[j].last_active \in activity'[j]
            /\ \A j \in Intent : \A t \in activity'[j] : t <= now'
        BY <2>0, <3>1, <3>2, <3>4, <4>1 DEF LifeInv
      <4>5. NeverResumes'
        BY <3>1, <3>2, <4>1, <4>3 DEF LifeInv, NeverResumes
      <4> QED
        BY <4>4, <4>5 DEF LifeInv
    <3> QED
      BY <2>0, <2>2, <3>3, <3>4, <3>1 DEF SessionStep, Expires, Refuses, Binds, Carries,
         BindExpires, PacketExpires
  <2>3. ASSUME Sweep PROVE LifeInv'
    BY <2>3 DEF Sweep, LifeInv, NeverResumes
  <2>4. ASSUME NEW t \in Token, NEW a \in Addr, UnknownToken(t, a) PROVE LifeInv'
    BY <2>4 DEF UnknownToken, LifeInv, NeverResumes
  <2>5. ASSUME Tick PROVE LifeInv'
    BY <2>0, <2>5 DEF Tick, table, history, LifeInv, NeverResumes
  <2>6. ASSUME UNCHANGED vars PROVE LifeInv'
    BY <2>6 DEF vars, table, history, LifeInv, NeverResumes
  <2> QED
    BY <2>1, <2>2, <2>3, <2>4, <2>5, <2>6, StepCases
<1>3. LifeInv => NeverResumes
  BY DEF LifeInv
<1> QED
  BY <1>1, <1>2, <1>3, TypeInvariant, PTL DEF Spec

------------------------------------------------------------------------------
(* Traffic *)

\* The history of the bytes carried is flat from now on and ends in the session's
\* own counter.
CarryInv ==
  /\ \A i \in Intent : \A u \in Time : u >= now => carried[i][u] = carried[i][now]
  /\ \A i \in Intent : contexts[i] # Absent => carried[i][now] = contexts[i].bytes


\* CarryInv is inductive.
LEMMA CarryStep ==
  ASSUME TypeOK, Clocked, CarryInv, [Next]_vars
  PROVE  CarryInv'
<1>0. /\ now \in Time /\ now \in Nat /\ \A u \in Time : u \in Nat
      /\ \A i \in Intent : contexts[i] # Absent => contexts[i] \in Context
      /\ \A c \in Context : c # Absent /\ c.bytes \in Nat
  <2>1. now \in Time /\ \A i \in Intent : contexts[i] # Absent => contexts[i] \in Context
    BY AbsentFacts DEF TypeOK
  <2>2. \A u \in Time : u \in Nat
    BY DEF Time
  <2>3. \A c \in Context : c # Absent /\ c.bytes \in Nat
    BY AbsentFacts DEF Context
  <2> QED
    BY <2>1, <2>2, <2>3
<1>1. ASSUME NEW i \in Intent, NEW t \in Token, AuthorizePair(i, t) PROVE CarryInv'
  <2> DEFINE b == NewContext(t, Pair[i], now)
  <2>0. Pair[i] \in [Role -> Device]
    BY ForwardingAssumption
  <2>1. b \in Context /\ b.bytes = 0
    BY <1>0, <2>0, NewContextFacts
  <2>2. /\ contexts' = [contexts EXCEPT ![i] = b] /\ now' = now
        /\ carried' = [carried EXCEPT ![i] = [u \in Time |-> 0]]
    BY <1>1 DEF AuthorizePair
  <2> HIDE DEF b
  <2>3. /\ contexts'[i] = b /\ \A j \in Intent \ {i} : contexts'[j] = contexts[j]
        /\ carried'[i] = [u \in Time |-> 0] /\ \A j \in Intent \ {i} : carried'[j] = carried[j]
    BY <2>2 DEF TypeOK
  <2> QED
    BY <1>0, <2>1, <2>2, <2>3 DEF CarryInv
<1>2. ASSUME NEW i \in Intent, NEW b \in Context, SessionStep(i, b) PROVE CarryInv'
  <2>1. /\ contexts[i] # Absent /\ now' = now
        /\ contexts'[i] = b /\ \A j \in Intent \ {i} : contexts'[j] = contexts[j]
    BY <1>0, <1>2 DEF SessionStep, TypeOK
  <2>2. CASE UNCHANGED carried /\ b.bytes = contexts[i].bytes
    BY <2>1, <2>2 DEF CarryInv
  <2>3. ASSUME NEW n \in PacketLen, Carries(i, contexts[i], b, n) PROVE CarryInv'
    <3>1. /\ carried'[i] = [u \in Time |-> IF u >= now THEN carried[i][u] + n ELSE carried[i][u]]
          /\ \A j \in Intent \ {i} : carried'[j] = carried[j]
          /\ b.bytes = contexts[i].bytes + n
      BY <2>3 DEF Carries, TypeOK
    <3>2. \A u \in Time : u >= now => carried'[i][u] = carried[i][u] + n
      BY <3>1
    <3> QED
      BY <1>0, <2>1, <3>1, <3>2 DEF CarryInv
  <2> QED
    BY <1>2, <2>2, <2>3 DEF SessionStep, Expires, Refuses, Binds
<1>3. ASSUME Sweep PROVE CarryInv'
  BY <1>3 DEF Sweep, CarryInv
<1>4. ASSUME NEW t \in Token, NEW a \in Addr, UnknownToken(t, a) PROVE CarryInv'
  BY <1>4 DEF UnknownToken, CarryInv
<1>5. ASSUME Tick PROVE CarryInv'
  <2>1. now' = now + 1 /\ now' \in Time /\ UNCHANGED <<contexts, carried>>
    BY <1>0, <1>5, ContextAssumption DEF Tick, table, history, Time
  <2>2. ASSUME NEW u \in Time, u >= now' PROVE u >= now
    <3>1. u \in Nat
      BY <1>0
    <3> QED
      BY <1>0, <2>1, <2>2, <3>1
  <2>3. now' >= now
    BY <1>0, <2>1
  <2> QED
    BY <2>1, <2>2, <2>3 DEF CarryInv
<1>6. ASSUME UNCHANGED vars PROVE CarryInv'
  BY <1>6 DEF vars, table, history, CarryInv
<1> QED
  BY <1>1, <1>2, <1>3, <1>4, <1>5, <1>6, StepCases

\* A session passes its byte cap by less than its last packet: what it had carried
\* before that packet was below the cap (get_destination).
THEOREM CapHolds == Spec => []CapOvershoot
<1>1. Init => CarryInv /\ CapOvershoot
  BY ContextAssumption DEF Init, CarryInv, CapOvershoot, Time
<1>2. TypeOK /\ Clocked /\ CarryInv /\ CapOvershoot /\ [Next]_vars => CarryInv' /\ CapOvershoot'
  <2> SUFFICES ASSUME TypeOK, Clocked, CarryInv, CapOvershoot, [Next]_vars PROVE CapOvershoot'
    BY CarryStep
  <2>0. now \in Time /\ now \in Nat
    BY DEF TypeOK, Time
  <2>1. ASSUME NEW i \in Intent, NEW t \in Token, AuthorizePair(i, t) PROVE CapOvershoot'
    <3>1. /\ carried'[i][now] = 0 /\ UNCHANGED now
          /\ \A j \in Intent \ {i} : carried'[j] = carried[j] /\ last'[j] = last[j]
      BY <2>0, <2>1 DEF AuthorizePair, TypeOK
    <3> QED
      BY <3>1 DEF CapOvershoot
  <2>2. ASSUME NEW i \in Intent, NEW b \in Context, SessionStep(i, b) PROVE CapOvershoot'
    <3>1. CASE UNCHANGED <<carried, last, now>>
      BY <3>1 DEF CapOvershoot
    <3>2. ASSUME NEW n \in PacketLen, Carries(i, contexts[i], b, n) PROVE CapOvershoot'
      <4>1. /\ carried'[i][now] = carried[i][now] + n /\ last'[i] = n /\ UNCHANGED now
            /\ \A j \in Intent \ {i} : carried'[j] = carried[j] /\ last'[j] = last[j]
        BY <2>0, <2>2, <3>2 DEF SessionStep, Carries, TypeOK
      <4>2. contexts[i] # Absent /\ contexts[i].bytes \in Nat /\ n \in Nat /\ ByteCap \in Nat
        BY <2>2, AbsentFacts, ForwardingAssumption DEF SessionStep, Context
      <4>3. contexts[i].bytes < ByteCap
        BY <3>2, <4>2 DEF Carries, PacketExpires
      <4>4. carried'[i][now] - last'[i] < ByteCap
        BY <4>1, <4>2, <4>3 DEF CarryInv
      <4> QED
        BY <4>1, <4>4 DEF CapOvershoot
    <3> QED
      BY <2>2, <3>1, <3>2 DEF SessionStep, Expires, Refuses, Binds
  <2>3. ASSUME UNCHANGED <<carried, last, now>> PROVE CapOvershoot'
    BY <2>3 DEF CapOvershoot
  <2>4. ASSUME Tick PROVE CapOvershoot'
    <3>1. now' = now + 1 /\ now' \in Time /\ UNCHANGED <<carried, last>>
      BY <2>0, <2>4, ContextAssumption DEF Tick, history, Time
    <3>2. \A i \in Intent : carried[i][now'] = carried[i][now]
      BY <2>0, <3>1 DEF CarryInv
    <3> QED
      BY <3>1, <3>2 DEF CapOvershoot
  <2> QED
    BY <2>1, <2>2, <2>3, <2>4, StepCases DEF Sweep, UnknownToken, vars, history
<1> QED
  BY <1>1, <1>2, TypeInvariant, PTL DEF Spec

\* The bytes the rate limit allows between two moments.
Allowed(s, e) == RateLimit * (1 + e - s)

\* What an interval allows: a bucket at least, a bucket more with every second.
LEMMA AllowedFacts ==
  ASSUME NEW s \in Nat, NEW e \in Nat, s <= e
  PROVE  /\ Allowed(s, e) \in Nat
         /\ RateLimit <= Allowed(s, e)
         /\ Allowed(s, e + 1) = Allowed(s, e) + RateLimit
         /\ \A f \in Nat : e <= f => Allowed(s, e) <= Allowed(s, f)
<1>1. RateLimit \in Nat /\ e - s \in Nat
  BY ContextAssumption
<1>2. RateLimit * (1 + e - s) = RateLimit + RateLimit * (e - s)
  BY <1>1
<1>3. RateLimit * (e - s) \in Nat
  BY <1>1
<1>4. RateLimit * (1 + (e + 1) - s) = RateLimit * (1 + e - s) + RateLimit
  BY <1>1
<1>5. ASSUME NEW f \in Nat, e <= f
      PROVE  RateLimit * (1 + e - s) <= RateLimit * (1 + f - s)
  <2>1. f - e \in Nat
    BY <1>5
  <2>2. RateLimit * (f - e) \in Nat
    BY <1>1, <2>1
  <2>3. RateLimit * (1 + f - s) = RateLimit * (1 + e - s) + RateLimit * (f - e)
    BY <1>1, <2>1
  <2> QED
    BY <1>1, <1>2, <1>3, <2>2, <2>3
<1> QED
  BY <1>1, <1>2, <1>3, <1>4, <1>5 DEF Allowed

\* A second later the bucket holds at most one second's worth more.
LEMMA RefilledTick ==
  ASSUME NEW c \in Context, now \in Time, c.last_refill <= now, now' = now + 1
  PROVE  /\ Refilled(c) \in 0 .. RateLimit
         /\ (IF c.tokens + (now' - c.last_refill) * RateLimit < RateLimit
             THEN c.tokens + (now' - c.last_refill) * RateLimit ELSE RateLimit)
               \in 0 .. RateLimit
         /\ (IF c.tokens + (now' - c.last_refill) * RateLimit < RateLimit
             THEN c.tokens + (now' - c.last_refill) * RateLimit ELSE RateLimit)
               <= Refilled(c) + RateLimit
<1>1. now - c.last_refill \in Nat /\ c.tokens \in Nat /\ RateLimit \in Nat /\ now \in Nat
      /\ c.last_refill \in Nat
  BY ContextAssumption DEF Context, Time
<1>2. (now - c.last_refill) * RateLimit \in Nat
  BY <1>1
<1>3. (now' - c.last_refill) * RateLimit = (now - c.last_refill) * RateLimit + RateLimit
  <2>1. \A x, r \in Nat : (x + 1) * r = x * r + r
    OBVIOUS
  <2>2. now' - c.last_refill = (now - c.last_refill) + 1
    BY <1>1
  <2> QED
    BY <1>1, <2>1, <2>2
<1>4. Refilled(c) \in 0 .. RateLimit
  BY RefilledType
<1>5. Refilled(c) = IF c.tokens + (now - c.last_refill) * RateLimit < RateLimit
                    THEN c.tokens + (now - c.last_refill) * RateLimit ELSE RateLimit
  BY DEF Refilled
<1> QED
  BY <1>1, <1>2, <1>3, <1>4, <1>5

\* What the bucket still holds counts against the interval that ends now.
Bucket(i) ==
  contexts[i] # Absent =>
    \A s \in Time : s <= now =>
      carried[i][now] - CarriedBefore(i, s) + Refilled(contexts[i]) <= Allowed(s, now)

BucketInv == \A i \in Intent : Bucket(i)

\* The bytes carried before a moment of the clock are a number.
LEMMA CarriedBeforeType ==
  ASSUME TypeOK, NEW i \in Intent, NEW s \in Time
  PROVE  CarriedBefore(i, s) \in Nat
<1>1. s = 0 \/ s - 1 \in Time
  BY ContextAssumption DEF Time
<1> QED
  BY <1>1 DEF CarriedBefore, TypeOK

\* A refill at this very moment adds nothing.
LEMMA RefilledNow ==
  ASSUME NEW b \in Context, now \in Time, b.last_refill = now
  PROVE  Refilled(b) = b.tokens
<1>1. now \in Nat /\ RateLimit \in Nat /\ b.tokens \in 0 .. RateLimit
  BY ContextAssumption DEF Time, Context
<1>2. (now - b.last_refill) * RateLimit = 0
  BY <1>1
<1> QED
  BY <1>1, <1>2 DEF Refilled

\* The bucket pays for what a session carries.
LEMMA BucketStep ==
  ASSUME TypeOK, Clocked, CarryInv, BucketInv, [Next]_vars
  PROVE  BucketInv'
<1>0. /\ now \in Time /\ now \in Nat /\ RateLimit \in Nat
      /\ \A u \in Time : u \in Nat
      /\ \A c \in Context : c # Absent
  BY AbsentFacts, ContextAssumption DEF TypeOK, Time
<1>1. ASSUME NEW i \in Intent, NEW t \in Token, AuthorizePair(i, t) PROVE BucketInv'
  <2> DEFINE b == NewContext(t, Pair[i], now)
  <2>0. Pair[i] \in [Role -> Device]
    BY ForwardingAssumption
  <2>1. b \in Context /\ b.tokens = RateLimit /\ b.last_refill = now
    BY <1>0, <2>0, NewContextFacts
  <2>2. /\ contexts' = [contexts EXCEPT ![i] = b] /\ now' = now
        /\ carried' = [carried EXCEPT ![i] = [u \in Time |-> 0]]
    BY <1>1 DEF AuthorizePair
  <2> HIDE DEF b
  <2>3. /\ contexts'[i] = b /\ \A j \in Intent \ {i} : contexts'[j] = contexts[j]
        /\ carried'[i] = [u \in Time |-> 0] /\ \A j \in Intent \ {i} : carried'[j] = carried[j]
    BY <2>2 DEF TypeOK
  <2>4. Refilled(b) = RateLimit
    BY <1>0, <2>1, RefilledNow
  <2>5. ASSUME NEW s \in Time, s <= now
        PROVE  carried'[i][now] - CarriedBefore(i, s)' + Refilled(b) <= Allowed(s, now)
    <3>1. s = 0 \/ s - 1 \in Time
      BY ContextAssumption DEF Time
    <3>2. carried'[i][now] = 0 /\ CarriedBefore(i, s)' = 0
      BY <1>0, <2>3, <3>1 DEF CarriedBefore
    <3>3. RateLimit <= Allowed(s, now)
      BY <1>0, <2>5, AllowedFacts
    <3> QED
      BY <1>0, <2>4, <3>2, <3>3
  <2>6. Bucket(i)'
    BY <2>2, <2>3, <2>5 DEF Bucket, Refilled, Allowed
  <2>7. \A j \in Intent \ {i} : Bucket(j)'
    BY <2>2, <2>3 DEF BucketInv, Bucket, CarriedBefore, Refilled, Allowed
  <2> QED
    BY <2>6, <2>7 DEF BucketInv
<1>2. ASSUME NEW i \in Intent, NEW b \in Context, SessionStep(i, b) PROVE BucketInv'
  <2> DEFINE c == contexts[i]
  <2>1. /\ c \in Context /\ c # Absent /\ c.last_refill <= now /\ now' = now
        /\ contexts'[i] = b /\ \A j \in Intent \ {i} : contexts'[j] = contexts[j]
    BY <1>0, <1>2 DEF SessionStep, TypeOK, Clocked
  <2>2. Refilled(c) \in 0 .. RateLimit
    BY <1>0, <2>1, RefilledType
  <2>3. CASE UNCHANGED carried /\ Refilled(b) = Refilled(c)
    BY <2>1, <2>3 DEF BucketInv, Bucket, CarriedBefore, Refilled, Allowed
  <2>4. ASSUME NEW n \in PacketLen, Carries(i, c, b, n) PROVE BucketInv'
    <3>1. /\ carried'[i] = [u \in Time |-> IF u >= now THEN carried[i][u] + n ELSE carried[i][u]]
          /\ \A j \in Intent \ {i} : carried'[j] = carried[j]
      BY <2>4 DEF Carries, TypeOK
    <3>2. n \in Nat /\ Refilled(b) = Refilled(c) - n
      BY <1>0, <2>4, RefilledNow, ForwardingAssumption DEF Carries
    <3>3. ASSUME NEW s \in Time, s <= now
          PROVE  carried'[i][now] - CarriedBefore(i, s)' + Refilled(b) <= Allowed(s, now)
      <4>1. s = 0 \/ (s - 1 \in Time /\ ~(s - 1 >= now))
        BY <1>0, <3>3, ContextAssumption DEF Time
      <4>2. CarriedBefore(i, s)' = CarriedBefore(i, s)
        BY <3>1, <4>1 DEF CarriedBefore
      <4>3. carried'[i][now] = carried[i][now] + n /\ carried[i][now] \in Nat
        BY <1>0, <3>1 DEF TypeOK
      <4>4. carried[i][now] - CarriedBefore(i, s) + Refilled(c) <= Allowed(s, now)
        BY <2>1, <3>3 DEF BucketInv, Bucket
      <4>5. CarriedBefore(i, s) \in Nat
        BY CarriedBeforeType
      <4>6. Allowed(s, now) \in Nat
        BY <1>0, <3>3, AllowedFacts
      <4> QED
        BY <2>2, <3>2, <4>2, <4>3, <4>4, <4>5, <4>6
    <3>4. Bucket(i)'
      BY <2>1, <3>3 DEF Bucket, Refilled, Allowed
    <3>5. \A j \in Intent \ {i} : Bucket(j)'
      BY <2>1, <3>1 DEF BucketInv, Bucket, CarriedBefore, Refilled, Allowed
    <3> QED
      BY <3>4, <3>5 DEF BucketInv
  <2>5. CASE Expires(c, b) \/ Binds(i, c, b)
    <3>1. UNCHANGED carried /\ b.tokens = c.tokens /\ b.last_refill = c.last_refill
      BY <2>5 DEF Expires, Binds
    <3> QED
      BY <2>3, <3>1 DEF Refilled
  <2>6. CASE Refuses(c, b)
    <3>1. Refilled(b) = Refilled(c)
      BY <1>0, <2>6, RefilledNow DEF Refuses
    <3> QED
      BY <2>3, <2>6, <3>1 DEF Refuses
  <2> QED
    BY <1>2, <2>4, <2>5, <2>6 DEF SessionStep
<1>3. ASSUME Sweep PROVE BucketInv'
  BY <1>3 DEF Sweep, BucketInv, Bucket, CarriedBefore, Refilled, Allowed
<1>4. ASSUME NEW t \in Token, NEW a \in Addr, UnknownToken(t, a) PROVE BucketInv'
  BY <1>4 DEF UnknownToken, BucketInv, Bucket, CarriedBefore, Refilled, Allowed
<1>5. ASSUME Tick PROVE BucketInv'
  <2>1. now' = now + 1 /\ now' \in Time /\ UNCHANGED <<contexts, carried>>
    BY <1>0, <1>5, ContextAssumption DEF Tick, table, history, Time
  <2>2. ASSUME NEW i \in Intent, contexts[i] # Absent, NEW s \in Time, s <= now'
        PROVE  carried[i][now'] - CarriedBefore(i, s) + Refilled(contexts[i])' <= Allowed(s, now')
    <3> DEFINE c == contexts[i]
    <3>1. c \in Context /\ c.last_refill <= now
      BY <2>2, AbsentFacts DEF TypeOK, Clocked
    <3>2. Refilled(c)' = IF c.tokens + (now' - c.last_refill) * RateLimit < RateLimit
                         THEN c.tokens + (now' - c.last_refill) * RateLimit ELSE RateLimit
      BY <2>1 DEF Refilled
    <3>3. /\ Refilled(c) \in 0 .. RateLimit /\ Refilled(c)' \in 0 .. RateLimit
          /\ Refilled(c)' <= Refilled(c) + RateLimit
      BY <1>0, <2>1, <3>1, <3>2, RefilledTick
    <3>4. carried[i][now'] = carried[i][now] /\ carried[i][now] \in Nat /\ s \in Nat
          /\ CarriedBefore(i, s) \in Nat
      BY <1>0, <2>1, CarriedBeforeType DEF CarryInv, TypeOK
    <3>5. CASE s <= now
      <4>1. Allowed(s, now') = Allowed(s, now) + RateLimit /\ Allowed(s, now) \in Nat
        BY <1>0, <2>1, <3>4, <3>5, AllowedFacts
      <4>2. carried[i][now] - CarriedBefore(i, s) + Refilled(c) <= Allowed(s, now)
        BY <2>2, <3>5 DEF BucketInv, Bucket
      <4> QED
        BY <1>0, <3>3, <3>4, <4>1, <4>2
    <3>6. CASE s = now'
      <4>1. CarriedBefore(i, s) = carried[i][now]
        BY <1>0, <2>1, <3>6 DEF CarriedBefore
      <4>2. RateLimit <= Allowed(s, now')
        BY <1>0, <2>1, <2>2, <3>4, AllowedFacts
      <4>3. Allowed(s, now') \in Nat
        BY <1>0, <2>1, <2>2, <3>4, AllowedFacts
      <4> QED
        BY <1>0, <3>3, <3>4, <4>1, <4>2, <4>3
    <3> QED
      BY <1>0, <2>1, <2>2, <3>4, <3>5, <3>6
  <2> QED
    BY <2>1, <2>2 DEF BucketInv, Bucket, CarriedBefore, Allowed
<1>6. ASSUME UNCHANGED vars PROVE BucketInv'
  BY <1>6 DEF vars, table, history, BucketInv, Bucket, CarriedBefore, Refilled, Allowed
<1> QED
  BY <1>1, <1>2, <1>3, <1>4, <1>5, <1>6, StepCases

\* In every interval a session carries at most what the rate limit allows, for every
\* pattern of packets, refusals and pauses (the token bucket of get_destination).
THEOREM RateHolds == Spec => []RateBounded
<1>1. Init => CarryInv /\ BucketInv /\ RateBounded
  <2> SUFFICES ASSUME Init PROVE RateBounded
    BY ContextAssumption DEF Init, CarryInv, BucketInv, Bucket, Time
  <2>1. ASSUME NEW i \in Intent, NEW s \in Time, NEW e \in Time, s <= e
        PROVE  carried[i][e] - CarriedBefore(i, s) <= Allowed(s, e)
    <3>1. s \in Nat /\ e \in Nat /\ (s = 0 \/ s - 1 \in Time)
      BY ContextAssumption DEF Time
    <3>2. carried[i][e] = 0 /\ CarriedBefore(i, s) = 0
      BY <3>1 DEF Init, CarriedBefore
    <3>3. Allowed(s, e) \in Nat
      BY <2>1, <3>1, AllowedFacts
    <3> QED
      BY <3>2, <3>3
  <2> QED
    BY <2>1 DEF RateBounded, Allowed
<1>2. /\ TypeOK /\ Clocked /\ CarryInv /\ BucketInv /\ RateBounded /\ TypeOK' /\ Clocked'
      /\ [Next]_vars
      => CarryInv' /\ BucketInv' /\ RateBounded'
  <2> SUFFICES ASSUME TypeOK, Clocked, CarryInv, BucketInv, RateBounded, TypeOK', Clocked',
                      [Next]_vars
               PROVE  RateBounded'
    BY CarryStep, BucketStep
  <2>0. CarryInv' /\ BucketInv'
    BY CarryStep, BucketStep
  <2>1. ASSUME UNCHANGED carried PROVE RateBounded'
    BY <2>1 DEF RateBounded, CarriedBefore
  <2>2. ASSUME NEW i \in Intent, NEW t \in Token, AuthorizePair(i, t) PROVE RateBounded'
    <3>1. /\ carried'[i] = [u \in Time |-> 0]
          /\ \A j \in Intent \ {i} : carried'[j] = carried[j]
      BY <2>2 DEF AuthorizePair, TypeOK
    <3>2. ASSUME NEW s \in Time, NEW e \in Time, s <= e
          PROVE  carried'[i][e] - CarriedBefore(i, s)' <= Allowed(s, e)
      <4>1. s \in Nat /\ e \in Nat /\ (s = 0 \/ s - 1 \in Time)
        BY ContextAssumption DEF Time
      <4>2. carried'[i][e] = 0 /\ CarriedBefore(i, s)' = 0
        BY <3>1, <4>1 DEF CarriedBefore
      <4>3. Allowed(s, e) \in Nat
        BY <3>2, <4>1, AllowedFacts
      <4> QED
        BY <4>2, <4>3
    <3> QED
      BY <3>1, <3>2 DEF RateBounded, CarriedBefore, Allowed
  <2>3. ASSUME NEW i \in Intent, NEW b \in Context, SessionStep(i, b),
               NEW n \in PacketLen, Carries(i, contexts[i], b, n)
        PROVE  RateBounded'
    <3>1. /\ carried'[i] = [u \in Time |-> IF u >= now THEN carried[i][u] + n ELSE carried[i][u]]
          /\ \A j \in Intent \ {i} : carried'[j] = carried[j]
          /\ now' = now /\ contexts'[i] = b /\ b # Absent /\ b.last_refill = now
      BY <2>3, AbsentFacts DEF Carries, SessionStep, TypeOK
    <3>2. Refilled(b)' \in 0 .. RateLimit /\ RateLimit \in Nat
      <4>1. Refilled(b) \in 0 .. RateLimit
        BY <3>1, RefilledType DEF TypeOK, Time
      <4> QED
        BY <3>1, <4>1, ContextAssumption DEF Refilled
    <3>3. ASSUME NEW s \in Time, NEW e \in Time, s <= e
          PROVE  carried'[i][e] - CarriedBefore(i, s)' <= Allowed(s, e)
      <4>1. /\ s \in Nat /\ e \in Nat /\ now \in Nat /\ now \in Time
            /\ (s = 0 \/ (s - 1 \in Time /\ s - 1 < e))
        BY <3>3, ContextAssumption DEF Time, TypeOK
      <4>2. CarriedBefore(i, s)' \in Nat /\ carried'[i][e] \in Nat /\ carried'[i][now] \in Nat
        <5>1. CarriedBefore(i, s)' = IF s = 0 THEN 0 ELSE carried'[i][s - 1]
          BY DEF CarriedBefore
        <5> QED
          BY <4>1, <5>1 DEF TypeOK
      <4>3. Allowed(s, e) \in Nat
        BY <3>3, <4>1, AllowedFacts
      <4>4. CASE e < now
        <5>1. carried'[i][e] = carried[i][e] /\ CarriedBefore(i, s)' = CarriedBefore(i, s)
          BY <3>1, <4>1, <4>4 DEF CarriedBefore
        <5> QED
          BY <3>3, <5>1 DEF RateBounded, Allowed
      <4>5. CASE e >= now /\ s <= now
        <5>1. carried'[i][e] = carried'[i][now]
          BY <2>0, <3>1, <4>5 DEF CarryInv
        <5>2. carried'[i][now] - CarriedBefore(i, s)' + Refilled(b)' <= Allowed(s, now)
          BY <2>0, <3>1, <4>5 DEF BucketInv, Bucket, Allowed
        <5>3. Allowed(s, now) <= Allowed(s, e) /\ Allowed(s, now) \in Nat
          BY <4>1, <4>5, AllowedFacts
        <5> QED
          BY <3>2, <4>2, <4>3, <5>1, <5>2, <5>3
      <4>6. CASE s > now
        <5>1. carried'[i][e] = carried'[i][now] /\ CarriedBefore(i, s)' = carried'[i][now]
          <6>1. e >= now /\ s # 0 /\ s - 1 >= now
            BY <3>3, <4>1, <4>6
          <6> QED
            BY <2>0, <3>1, <4>1, <6>1 DEF CarryInv, CarriedBefore
        <5> QED
          BY <4>2, <4>3, <5>1
      <4> QED
        BY <4>1, <4>4, <4>5, <4>6
    <3> QED
      BY <3>1, <3>3 DEF RateBounded, CarriedBefore, Allowed
  <2>4. ASSUME NEW i \in Intent, NEW b \in Context, SessionStep(i, b) PROVE RateBounded'
    BY <2>1, <2>3, <2>4 DEF SessionStep, Expires, Refuses, Binds
  <2> QED
    BY <2>1, <2>2, <2>4, StepCases DEF Sweep, UnknownToken, Tick, vars, history
<1> QED
  BY <1>1, <1>2, TypeInvariant, PTL DEF Spec

------------------------------------------------------------------------------
(* The blocklist *)

Entry == [count : Nat, window_start : Time]

\* The failures a history F counts before a moment.
Before(F, t) == IF t = 0 THEN 0 ELSE F[t - 1]

\* F with one failure more at n.
Failed(F, n) == [u \in Time |-> IF u >= n THEN F[u] + 1 ELSE F[u]]

\* How an entry of failed_lookups accounts for the history of its IP at time n.
\* With no entry, the last window's length holds less than the threshold, for the
\* failure that opened the last window lies before it; with one, the entry counts
\* what happened since its window opened, the opening failure included, and the
\* window's length before that holds less than the threshold.
Accounts(e, F, n) ==
  /\ \A u \in Time : u >= n => F[u] = F[n]
  /\ \A u, v \in Time : u <= v => F[u] <= F[v]
  /\ e.count = 0 =>
       /\ F[n] = Before(F, n)
       /\ \A s \in Time : s <= n /\ n - s <= BlocklistWindow =>
            F[n] - Before(F, s) < BlocklistThreshold
  /\ e.count > 0 =>
       LET w == e.window_start
       IN  /\ w <= n /\ e.count <= BlocklistThreshold
           /\ F[n] - Before(F, w) <= e.count
           /\ F[w] > Before(F, w)
           /\ Over(e, n) => F[n] = Before(F, n)
           /\ \A s \in Time : s <= w /\ w - s <= BlocklistWindow =>
                Before(F, w) - Before(F, s) < BlocklistThreshold

\* A history is a non-decreasing count.
LEMMA BeforeFacts ==
  ASSUME NEW F \in [Time -> Nat], \A u, v \in Time : u <= v => F[u] <= F[v],
         NEW s \in Time, NEW t \in Time, s <= t
  PROVE  /\ s \in Nat /\ t \in Nat /\ F[s] \in Nat /\ F[t] \in Nat
         /\ Before(F, s) \in Nat /\ Before(F, t) \in Nat
         /\ Before(F, s) <= Before(F, t) /\ Before(F, t) <= F[t]
<1>1. s \in Nat /\ t \in Nat /\ (s = 0 \/ s - 1 \in Time) /\ (t = 0 \/ t - 1 \in Time)
  BY ContextAssumption DEF Time
<1>2. F[s] \in Nat /\ F[t] \in Nat /\ (s = 0 \/ F[s - 1] \in Nat) /\ (t = 0 \/ F[t - 1] \in Nat)
  BY <1>1
<1>3. t = 0 \/ F[t - 1] <= F[t]
  BY <1>1
<1>4. s = 0 \/ (t # 0 /\ F[s - 1] <= F[t - 1])
  BY <1>1
<1> QED
  BY <1>1, <1>2, <1>3, <1>4 DEF Before

\* An entry whose window is over holds no count against what follows it.
LEMMA OverQuiet ==
  ASSUME NEW e \in Entry, NEW F \in [Time -> Nat], NEW n \in Time, Accounts(e, F, n),
         e.count = 0 \/ Over(e, n)
  PROVE  /\ F[n] = Before(F, n)
         /\ \A s \in Time : s <= n /\ n - s <= BlocklistWindow =>
              F[n] - Before(F, s) < BlocklistThreshold
<1>1. CASE e.count = 0
  BY <1>1 DEF Accounts
<1>2. CASE e.count > 0
  <2> DEFINE w == e.window_start
  <2>1. /\ w \in Time /\ w <= n /\ e.count <= BlocklistThreshold /\ Over(e, n)
        /\ F[n] - Before(F, w) <= e.count /\ F[n] = Before(F, n) /\ e.count \in Nat
    BY <1>2 DEF Accounts, Entry
  <2>2. ASSUME NEW s \in Time, s <= n, n - s <= BlocklistWindow
        PROVE  F[n] - Before(F, s) < BlocklistThreshold
    <3>0. w \in Nat /\ s \in Nat /\ n \in Nat /\ BlocklistWindow \in Nat /\ n - w > BlocklistWindow
      BY <2>1, ForwardingAssumption DEF Over, Time
    <3>1. w < s /\ s - 1 \in Time /\ s # 0 /\ w <= s - 1
      BY <2>2, <3>0, ContextAssumption DEF Time
    <3>2. /\ Before(F, w) \in Nat /\ Before(F, s) \in Nat /\ F[n] \in Nat /\ F[w] \in Nat
          /\ F[w] <= F[s - 1] /\ Before(F, s) = F[s - 1] /\ F[w] > Before(F, w)
      BY <1>2, <2>1, <3>1, BeforeFacts DEF Accounts, Before
    <3> QED
      BY <2>1, <3>2, ForwardingAssumption
  <2> QED
    BY <2>1, <2>2
<1> QED
  BY <1>1, <1>2 DEF Entry

\* Evicting an entry whose window is over forgets nothing that still counts.
LEMMA EvictAccounts ==
  ASSUME NEW e \in Entry, NEW F \in [Time -> Nat], NEW n \in Time, Accounts(e, F, n),
         Over(e, n)
  PROVE  NoEntry \in Entry /\ Accounts(NoEntry, F, n)
<1>1. NoEntry \in Entry /\ NoEntry.count = 0
  BY ContextAssumption DEF NoEntry, Entry, Time
<1>2. /\ F[n] = Before(F, n)
      /\ \A s \in Time : s <= n /\ n - s <= BlocklistWindow =>
           F[n] - Before(F, s) < BlocklistThreshold
  BY OverQuiet
<1> QED
  BY <1>1, <1>2 DEF Accounts

\* The clock changes nothing.
LEMMA TickAccounts ==
  ASSUME NEW e \in Entry, NEW F \in [Time -> Nat], NEW n \in Time, n + 1 \in Time,
         Accounts(e, F, n)
  PROVE  Accounts(e, F, n + 1)
<1>0. n \in Nat /\ BlocklistWindow \in Nat /\ BlocklistThreshold \in Nat \ {0}
  BY ForwardingAssumption DEF Time
<1>1. F[n + 1] = F[n] /\ Before(F, n + 1) = F[n] /\ F[n] \in Nat
  BY <1>0 DEF Accounts, Before
<1>2. \A u \in Time : u >= n + 1 => F[u] = F[n + 1]
  BY <1>0, <1>1 DEF Accounts, Time
<1>3. ASSUME e.count = 0, NEW s \in Time, s <= n + 1, (n + 1) - s <= BlocklistWindow
      PROVE  F[n + 1] - Before(F, s) < BlocklistThreshold
  <2>1. s \in Nat
    BY DEF Time
  <2>2. CASE s <= n
    BY <1>0, <1>1, <1>3, <2>1, <2>2 DEF Accounts
  <2>3. CASE s = n + 1
    BY <1>0, <1>1, <2>3
  <2> QED
    BY <1>0, <1>3, <2>1, <2>2, <2>3
<1>4. e.count > 0 => e.window_start <= n + 1
  BY <1>0 DEF Accounts, Entry, Time
<1> QED
  BY <1>1, <1>2, <1>3, <1>4 DEF Accounts

\* A failure that is not blocklisted is accounted for by the entry that records it.
LEMMA RecordAccounts ==
  ASSUME NEW e \in Entry, NEW F \in [Time -> Nat], NEW n \in Time, Accounts(e, F, n),
         e.count = 0 \/ Over(e, n) \/ e.count < BlocklistThreshold
  PROVE  /\ Recorded(e, n) \in Entry
         /\ Recorded(e, n).count > 0
         /\ Failed(F, n) \in [Time -> Nat]
         /\ Accounts(Recorded(e, n), Failed(F, n), n)
<1> DEFINE G == Failed(F, n)
           r == Recorded(e, n)
<1>0. /\ n \in Nat /\ BlocklistWindow \in Nat /\ BlocklistThreshold \in Nat
      /\ BlocklistThreshold >= 1 /\ e.count \in Nat /\ e.window_start \in Time
      /\ \A u \in Time : u \in Nat
  BY ForwardingAssumption DEF Time, Entry
<1>1. /\ G \in [Time -> Nat] /\ G[n] = F[n] + 1 /\ F[n] \in Nat
      /\ \A u \in Time : u >= n => G[u] = G[n]
      /\ \A u \in Time : ~(u >= n) => G[u] = F[u]
  BY <1>0 DEF Failed, Accounts
<1>2. \A u, v \in Time : u <= v => G[u] <= G[v]
  BY <1>0 DEF Failed, Accounts
<1>3. ASSUME NEW s \in Time, s <= n PROVE Before(G, s) = Before(F, s)
  <2>1. s = 0 \/ (s - 1 \in Time /\ ~(s - 1 >= n))
    BY <1>0, <1>3, ContextAssumption DEF Time
  <2> QED
    BY <1>1, <2>1 DEF Before
<1>4. ASSUME NEW s \in Time PROVE Before(F, s) \in Nat
  BY <1>4, <1>0, BeforeFacts DEF Accounts
<1>5. CASE e.count = 0 \/ Over(e, n)
  <2>1. r = [count |-> 1, window_start |-> n] /\ r \in Entry /\ ~Over(r, n)
        /\ r.count = 1 /\ r.window_start = n
    BY <1>0, <1>5 DEF Recorded, Entry, Over
  <2>2. /\ F[n] = Before(F, n)
        /\ \A s \in Time : s <= n /\ n - s <= BlocklistWindow =>
             F[n] - Before(F, s) < BlocklistThreshold
    BY <1>5, OverQuiet
  <2>3. G[n] - Before(G, n) <= 1 /\ G[n] > Before(G, n)
    BY <1>0, <1>1, <1>3, <2>2
  <2>4. \A s \in Time : s <= n /\ n - s <= BlocklistWindow =>
          Before(G, n) - Before(G, s) < BlocklistThreshold
    BY <1>0, <1>3, <2>2
  <2> HIDE DEF G, r
  <2>5. Accounts(r, G, n)
    BY <1>0, <1>1, <1>2, <2>1, <2>3, <2>4 DEF Accounts
  <2> QED
    BY <1>1, <2>1, <2>5 DEF G, r
<1>6. CASE e.count > 0 /\ ~Over(e, n) /\ e.count < BlocklistThreshold
  <2> DEFINE w == e.window_start
  <2>1. r = [e EXCEPT !.count = @ + 1] /\ r \in Entry /\ ~Over(r, n)
        /\ r.count = e.count + 1 /\ r.window_start = w
    BY <1>0, <1>6 DEF Recorded, Entry, Over
  <2>2. /\ w <= n /\ F[n] - Before(F, w) <= e.count /\ F[w] > Before(F, w)
        /\ \A s \in Time : s <= w /\ w - s <= BlocklistWindow =>
             Before(F, w) - Before(F, s) < BlocklistThreshold
    BY <1>6 DEF Accounts
  <2>3. G[n] - Before(G, w) <= r.count /\ G[w] > Before(G, w)
    <3>1. Before(G, w) = Before(F, w) /\ Before(F, w) \in Nat /\ F[w] \in Nat /\ w \in Nat
      BY <1>0, <1>3, <1>4, <2>2
    <3>2. w = n \/ ~(w >= n)
      BY <1>0, <2>2, <3>1
    <3> QED
      BY <1>0, <1>1, <2>1, <2>2, <3>1, <3>2
  <2>4. ASSUME NEW s \in Time, s <= w, w - s <= BlocklistWindow
        PROVE  Before(G, w) - Before(G, s) < BlocklistThreshold
    <3>0. s \in Nat /\ w \in Nat
      BY <1>0
    <3>1. s <= n
      BY <1>0, <2>2, <2>4, <3>0
    <3> QED
      BY <1>0, <1>3, <2>2, <2>4, <3>1
  <2> HIDE DEF G, r
  <2>5. Accounts(r, G, n)
    BY <1>0, <1>1, <1>2, <1>6, <2>1, <2>2, <2>3, <2>4 DEF Accounts
  <2> QED
    BY <1>0, <1>1, <2>1, <2>5 DEF G, r
<1> QED
  BY <1>0, <1>5, <1>6

\* An entry that counts leaves less than twice the threshold in an interval of the
\* window's length that reaches up to now.
LEMMA AccountsBound ==
  ASSUME NEW e \in Entry, NEW F \in [Time -> Nat], NEW n \in Time, Accounts(e, F, n),
         e.count > 0, NEW s \in Time, s <= n, n - s <= BlocklistWindow
  PROVE  F[n] - Before(F, s) <= 2 * BlocklistThreshold - 1
<1> DEFINE w == e.window_start
<1>0. /\ n \in Nat /\ BlocklistWindow \in Nat /\ BlocklistThreshold \in Nat /\ s \in Nat
      /\ w \in Time /\ w \in Nat /\ e.count \in Nat
  BY ForwardingAssumption DEF Time, Entry
<1>1. w <= n /\ e.count <= BlocklistThreshold /\ F[n] - Before(F, w) <= e.count
  BY DEF Accounts
<1>2. Before(F, s) \in Nat /\ Before(F, w) \in Nat /\ F[n] \in Nat
  BY <1>0, BeforeFacts DEF Accounts
<1>3. CASE w <= s
  <2>1. Before(F, w) <= Before(F, s)
    BY <1>0, <1>3, BeforeFacts DEF Accounts
  <2> QED
    BY <1>0, <1>1, <1>2, <2>1
<1>4. CASE s < w
  <2>1. w - s <= BlocklistWindow
    BY <1>0, <1>1, <1>4
  <2>2. Before(F, w) - Before(F, s) < BlocklistThreshold
    BY <1>0, <1>4, <2>1 DEF Accounts
  <2> QED
    BY <1>0, <1>1, <1>2, <2>2
<1> QED
  BY <1>0, <1>3, <1>4

AccountsInv == \A p \in Ip : Accounts(failed_lookups[p], failures[p], now)

\* In no interval of the window's length do more than all but one of one window's and
\* all of the next window's failed lookups from one IP get through, whatever a full table evicts
\* (record_failed_lookup, is_blocklisted).
THEOREM BlocklistHolds == Spec => []FailuresBounded
<1>1. Init => AccountsInv /\ FailuresBounded
  <2> SUFFICES ASSUME Init PROVE AccountsInv /\ FailuresBounded
    OBVIOUS
  <2>1. BlocklistThreshold \in Nat \ {0} /\ BlocklistWindow \in Nat /\ now = 0
    BY ForwardingAssumption DEF Init
  <2>2. \A p \in Ip : failed_lookups[p].count = 0 /\ \A t \in Time : failures[p][t] = 0
    BY DEF Init
  <2>3. 0 \in Time /\ \A t \in Time : t = 0 \/ t - 1 \in Time
    BY ContextAssumption DEF Time
  <2>4. \A p \in Ip : \A t \in Time : Before(failures[p], t) = 0
    BY <2>2, <2>3 DEF Before
  <2>5. \A t \in Time : t <= BlocklistWindow \/ t - BlocklistWindow - 1 \in Time
    BY <2>1, ContextAssumption DEF Time
  <2>6. AccountsInv
    BY <2>1, <2>2, <2>3, <2>4 DEF AccountsInv, Accounts
  <2>7. FailuresBounded
    BY <2>1, <2>2, <2>5 DEF FailuresBounded
  <2> QED
    BY <2>6, <2>7
<1>2. /\ TypeOK /\ Clocked /\ AccountsInv /\ FailuresBounded /\ [Next]_vars
      => AccountsInv' /\ FailuresBounded'
  <2> SUFFICES ASSUME TypeOK, Clocked, AccountsInv, FailuresBounded, [Next]_vars
               PROVE  AccountsInv' /\ FailuresBounded'
    OBVIOUS
  <2>0. /\ now \in Time
        /\ \A p \in Ip : failed_lookups[p] \in Entry /\ failures[p] \in [Time -> Nat]
    BY DEF TypeOK, Entry
  <2>1. ASSUME UNCHANGED <<failed_lookups, failures, now>>
        PROVE  AccountsInv' /\ FailuresBounded'
    BY <2>1 DEF AccountsInv, FailuresBounded, Accounts, Before, Over
  <2>2. ASSUME Tick PROVE AccountsInv' /\ FailuresBounded'
    <3>1. now' = now + 1 /\ now + 1 \in Time /\ UNCHANGED <<failed_lookups, failures>>
      BY <2>0, <2>2, ContextAssumption DEF Tick, table, history, Time
    <3>2. \A p \in Ip : Accounts(failed_lookups[p], failures[p], now + 1)
      BY <2>0, <3>1, TickAccounts DEF AccountsInv
    <3> QED
      BY <3>1, <3>2 DEF AccountsInv, FailuresBounded, Accounts, Before, Over
  <2>3. ASSUME NEW t \in Token, NEW a \in Addr, UnknownToken(t, a)
        PROVE  AccountsInv' /\ FailuresBounded'
    <3> DEFINE p == IpOf[a]
               G == Failed(failures[p], now)
               r == Recorded(Evict[p], now)
    <3>1. p \in Ip /\ ~Blocklisted(p) /\ now' = now
      BY <2>3, ForwardingAssumption DEF UnknownToken
    <3>2. ASSUME NEW q \in Ip
          PROVE  /\ Evict[q] \in Entry /\ Accounts(Evict[q], failures[q], now)
                 /\ Evict[q] = failed_lookups[q] \/ Evict[q].count = 0
      <4>1. Evict[q] = failed_lookups[q] \/ (Evict[q] = NoEntry /\ Over(failed_lookups[q], now))
        BY DEF Evict, Over
      <4>2. CASE Evict[q] = failed_lookups[q]
        BY <2>0, <4>2 DEF AccountsInv
      <4>3. CASE Evict[q] = NoEntry /\ Over(failed_lookups[q], now)
        BY <2>0, <4>3, EvictAccounts DEF AccountsInv, NoEntry
      <4> QED
        BY <4>1, <4>2, <4>3
    <3>3. /\ failed_lookups' = [Evict EXCEPT ![p] = r]
          /\ failures' = [failures EXCEPT ![p] = G]
      BY <2>3 DEF UnknownToken, RecordFailedLookup, Recorded, Over, Failed
    <3>4. Evict[p].count = 0 \/ Over(Evict[p], now) \/ Evict[p].count < BlocklistThreshold
      <4>1. /\ Evict[p] \in Entry /\ failed_lookups[p] \in Entry /\ BlocklistThreshold \in Nat
            /\ Evict[p] = failed_lookups[p] \/ Evict[p].count = 0
        BY <2>0, <3>1, <3>2, ForwardingAssumption
      <4>2. now \in Nat /\ BlocklistWindow \in Nat
        BY <2>0, ForwardingAssumption DEF Time
      <4> QED
        BY <3>1, <4>1, <4>2 DEF Blocklisted, Blocked, Over, Entry, Time
    <3>5. r \in Entry /\ r.count > 0 /\ G \in [Time -> Nat] /\ Accounts(r, G, now)
      BY <2>0, <3>1, <3>2, <3>4, RecordAccounts
    <3> HIDE DEF r, G
    <3>6. /\ failed_lookups'[p] = r /\ failures'[p] = G
          /\ \A q \in Ip \ {p} : failed_lookups'[q] = Evict[q] /\ failures'[q] = failures[q]
      BY <3>1, <3>3 DEF TypeOK, Evict
    <3>7. \A q \in Ip : Accounts(failed_lookups'[q], failures'[q], now)
      BY <3>2, <3>5, <3>6
    <3>8. AccountsInv'
      BY <3>1, <3>7 DEF AccountsInv, Accounts, Before, Over
    <3>9. ASSUME NEW u \in Time
          PROVE  G[u] - (IF u <= BlocklistWindow THEN 0 ELSE G[u - BlocklistWindow - 1])
                   <= 2 * BlocklistThreshold - 1
      <4> DEFINE s == IF u <= BlocklistWindow THEN 0 ELSE u - BlocklistWindow
      <4>1. /\ u \in Nat /\ now \in Nat /\ BlocklistWindow \in Nat
            /\ BlocklistThreshold \in Nat \ {0}
            /\ s \in Time /\ s \in Nat /\ (s = 0 \/ s - 1 \in Time)
        BY <2>0, ForwardingAssumption, ContextAssumption DEF Time
      <4>2. (IF u <= BlocklistWindow THEN 0 ELSE G[u - BlocklistWindow - 1]) = Before(G, s)
        BY <4>1 DEF Before
      <4>3. G[now] \in Nat /\ G[u] \in Nat
        BY <2>0, <3>5
      <4>4. CASE u >= now /\ s <= now
        <5>1. G[u] = G[now]
          BY <3>5, <4>4 DEF Accounts
        <5>2. now - s <= BlocklistWindow
          BY <4>1, <4>4
        <5>3. G[now] - Before(G, s) <= 2 * BlocklistThreshold - 1
          BY <2>0, <3>5, <4>1, <4>4, <5>2, AccountsBound
        <5> QED
          BY <4>2, <5>1, <5>3
      <4>5. CASE u >= now /\ s > now
        <5>1. s # 0 /\ s - 1 >= now /\ s - 1 \in Time
          BY <4>1, <4>5
        <5>2. Before(G, s) = G[s - 1] /\ G[s - 1] = G[now] /\ G[u] = G[now]
          BY <3>5, <4>5, <5>1 DEF Accounts, Before
        <5> QED
          BY <4>1, <4>2, <4>3, <5>2
      <4>6. CASE u < now
        <5>1. G[u] = failures[p][u] /\ Before(G, s) = Before(failures[p], s)
          <6>1. ~(u >= now) /\ (s = 0 \/ ~(s - 1 >= now))
            BY <4>1, <4>6
          <6> QED
            BY <4>1, <6>1 DEF G, Failed, Before
        <5>2. (IF u <= BlocklistWindow THEN 0 ELSE failures[p][u - BlocklistWindow - 1])
                = Before(failures[p], s)
          BY <4>1 DEF Before
        <5>3. failures[p][u] -
                (IF u <= BlocklistWindow THEN 0 ELSE failures[p][u - BlocklistWindow - 1])
                <= 2 * BlocklistThreshold - 1
          BY <3>1 DEF FailuresBounded
        <5> QED
          BY <4>2, <5>1, <5>2, <5>3
      <4> QED
        BY <4>1, <4>4, <4>5, <4>6
    <3>10. FailuresBounded'
      BY <3>6, <3>9 DEF FailuresBounded
    <3> QED
      BY <3>8, <3>10
  <2> QED
    BY <2>1, <2>2, <2>3, StepCases DEF AuthorizePair, SessionStep, Sweep, vars, table, history
<1> QED
  BY <1>1, <1>2, TypeInvariant, PTL DEF Spec
==============================================================================
