------------------------------ MODULE Forwarding ------------------------------
(***************************************************************************)
(* The relay's data plane: ForwardingTable of bw-relay/src/forwarding.rs.    *)
(* A context joins the two endpoints of an accepted intent; a packet names   *)
(* it by token.  The relay's receive loop (bin/relay.rs) handles one         *)
(* datagram at a time, so a call of the table is one step.                   *)
(*                                                                           *)
(* The maps of the code are total functions here: an intent with no context  *)
(* has the context Absent, a token that is not indexed has the intent None,  *)
(* and an IP with no entry in failed_lookups has the count 0.  One unit of   *)
(* time is a second of the rate limiter.                                     *)
(***************************************************************************)
EXTENDS ForwardingContext, FiniteSets

CONSTANTS
  Intent, Ip,
  IpOf,                 \* IpOf[a]: the IP of socket address a
  Pair,                 \* Pair[i]: the initiator and the target of intent i
  ExchangeTimeout,      \* EXCHANGE_TIMEOUT_MS
  ByteCap,              \* SESSION_BYTE_CAP
  PacketLen,            \* lengths of the packets sent
  BlocklistThreshold, BlocklistWindow, MaxBlocklistEntries

ASSUME ForwardingAssumption ==
  /\ None \notin Intent
  /\ IpOf \in [Addr -> Ip]
  /\ Pair \in [Intent -> [Role -> Device]]
  /\ ExchangeTimeout \in Nat
  /\ ByteCap \in Nat
  /\ PacketLen \subseteq Nat \ {0}
  /\ BlocklistThreshold \in Nat \ {0}
  /\ BlocklistWindow \in Nat
  /\ MaxBlocklistEntries \in Nat

VARIABLES
  contexts, token_index, failed_lookups,   \* ForwardingTable
  now,                                     \* the clock
  issued,     \* issued[t]: the intent token t was generated for
  live,       \* the tokens of sessions that have not been swept
  carried,    \* carried[i][t]: bytes the session of i had carried by the end of t
  last,       \* last[i]: the length of the last packet it carried, 0 if none
  activity,   \* activity[i]: when its session was authorized, bound or carried bytes
  failures    \* failures[p][t]: failed lookups from p counted by the end of t

table == <<contexts, token_index, failed_lookups>>
history == <<issued, live, carried, last, activity, failures>>
vars == <<table, now, history>>

TypeOK ==
  /\ contexts \in [Intent -> Context \cup {Absent}]
  /\ token_index \in [Token -> Intent \cup {None}]
  /\ failed_lookups \in [Ip -> [count : Nat, window_start : Time]]
  /\ now \in Time
  /\ issued \in [Token -> Intent \cup {None}]
  /\ live \subseteq Token
  /\ carried \in [Intent -> [Time -> Nat]]
  /\ last \in [Intent -> PacketLen \cup {0}]
  /\ activity \in [Intent -> SUBSET Time]
  /\ failures \in [Ip -> [Time -> Nat]]

Init ==
  /\ contexts = [i \in Intent |-> Absent]
  /\ token_index = [t \in Token |-> None]
  /\ failed_lookups = [p \in Ip |-> [count |-> 0, window_start |-> 0]]
  /\ now = 0
  /\ issued = [t \in Token |-> None]
  /\ live = {}
  /\ carried = [i \in Intent |-> [t \in Time |-> 0]]
  /\ last = [i \in Intent |-> 0]
  /\ activity = [i \in Intent |-> {}]
  /\ failures = [p \in Ip |-> [t \in Time |-> 0]]

------------------------------------------------------------------------------
(* Control plane *)

\* Mutant: a re-authorized intent drops the token it was given before.
IndexTokenReplacing(i, t) ==
  [u \in Token |-> IF u = t THEN i ELSE IF token_index[u] = i THEN None ELSE token_index[u]]

IndexToken(i, t) == [token_index EXCEPT ![t] = i]

\* authorize_pair.  The token is 32 fresh random bytes.  An intent that already
\* has a context gets a new one, and the index keeps its earlier token.
AuthorizePair(i, t) ==
  /\ issued[t] = None
  /\ contexts' = [contexts EXCEPT ![i] = NewContext(t, Pair[i], now)]
  /\ token_index' = IndexToken(i, t)
  /\ issued' = [issued EXCEPT ![t] = i]
  /\ live' = live \cup {t}
  /\ carried' = [carried EXCEPT ![i] = [u \in Time |-> 0]]
  /\ last' = [last EXCEPT ![i] = 0]
  /\ activity' = [activity EXCEPT ![i] = {now}]
  /\ UNCHANGED <<failed_lookups, now, failures>>

\* update_binding
UpdateBinding(i, d, a) ==
  /\ contexts[i] # Absent
  /\ \E c \in Rebound(contexts[i], d, a, now) :
       /\ contexts' = [contexts EXCEPT ![i] = c]
       /\ activity' = IF Terminal(c) THEN activity
                      ELSE [activity EXCEPT ![i] = @ \cup {now}]
  /\ UNCHANGED <<token_index, failed_lookups, now, issued, live, carried, last, failures>>

\* close
Close(i) ==
  /\ contexts[i] # Absent
  /\ contexts' = [contexts EXCEPT ![i].state = "RelayClosed"]
  /\ UNCHANGED <<token_index, failed_lookups, now, history>>

\* What sweep removes: the sessions past a timeout, which it first marks expired,
\* and those that were terminal already.
Swept(c) ==
  /\ c # Absent
  /\ \/ c.state = "RelayActive" /\ Idle(c, now)
     \/ /\ c.state \in {"Authorized", "RelayRequested"}
        /\ now - c.authorized_at > ExchangeTimeout
     \/ now >= c.expires_at
     \/ Terminal(c)

\* sweep: with a context goes the index entry of the token it was created with.
Sweep ==
  LET gone == {i \in Intent : Swept(contexts[i])}
  IN  /\ contexts' = [i \in Intent |-> IF i \in gone THEN Absent ELSE contexts[i]]
      /\ token_index' = [t \in Token |->
                           IF \E i \in gone : contexts[i].token = t
                           THEN None ELSE token_index[t]]
      /\ live' = {t \in live : issued[t] \notin gone}
      /\ UNCHANGED <<failed_lookups, now, issued, carried, last, activity, failures>>

------------------------------------------------------------------------------
(* Data plane: get_destination *)

\* The window of an entry is over.
Over(e, at) == at - e.window_start > BlocklistWindow

\* is_blocklisted
Blocked(e, at) == e.count >= BlocklistThreshold /\ ~Over(e, at)
Blocklisted(p) == Blocked(failed_lookups[p], now)

NoEntry == [count |-> 0, window_start |-> 0]

\* Mutant: a full table is emptied.
EvictEverything ==
  [p \in Ip |-> IF Cardinality({q \in Ip : failed_lookups[q].count > 0}) >= MaxBlocklistEntries
                THEN NoEntry ELSE failed_lookups[p]]

\* A full table forgets the IPs whose window is over (and may find none).
Evict ==
  [p \in Ip |->
     IF /\ Cardinality({q \in Ip : failed_lookups[q].count > 0}) >= MaxBlocklistEntries
        /\ Over(failed_lookups[p], now)
     THEN NoEntry ELSE failed_lookups[p]]

\* record_failed_lookup on one entry: it counts within a window that opens with the
\* first failure and stays where it is.
Recorded(e, at) ==
  IF e.count = 0 \/ Over(e, at) THEN [count |-> 1, window_start |-> at]
                               ELSE [e EXCEPT !.count = @ + 1]

\* record_failed_lookup
RecordFailedLookup(p) == failed_lookups' = [Evict EXCEPT ![p] = Recorded(Evict[p], now)]

\* A packet with a token the index does not hold.
UnknownToken(t, src) ==
  LET p == IpOf[src]
  IN  /\ ~Blocklisted(p)
      /\ token_index[t] = None
      /\ RecordFailedLookup(p)
      /\ failures' = [failures EXCEPT ![p] =
                        [u \in Time |-> IF u >= now THEN @[u] + 1 ELSE @[u]]]
      /\ UNCHANGED <<contexts, token_index, now, issued, live, carried, last, activity>>

\* Mutant: no byte cap.
PacketExpiresUncapped(c) == now >= c.expires_at \/ Idle(c, now)

\* The three limits a packet is checked against, whoever sent it.
PacketExpires(c) == now >= c.expires_at \/ c.bytes >= ByteCap \/ Idle(c, now)

\* Mutant: a bucket that fills without limit.
RefilledUnlimited(c) == c.tokens + (now - c.last_refill) * RateLimit

\* The token bucket at this moment: it holds at most one second's worth.
Refilled(c) ==
  LET filled == c.tokens + (now - c.last_refill) * RateLimit
  IN  IF filled < RateLimit THEN filled ELSE RateLimit

\* A packet of len bytes with a token the index holds.  It is forwarded from one
\* bound address to the other; one that comes from elsewhere, or that the bucket
\* cannot pay for, is dropped, the latter after the bucket has been refilled.
KnownToken(t, src, len) ==
  LET i == token_index[t]
      c == contexts[i]
      refilled == [c EXCEPT !.tokens = Refilled(c), !.last_refill = now]
  IN  /\ ~Blocklisted(IpOf[src])
      /\ i # None
      /\ c.state = "RelayActive"
      /\ \/ /\ PacketExpires(c)
            /\ contexts' = [contexts EXCEPT ![i].state = "RelayExpired"]
            /\ UNCHANGED <<carried, last, activity>>
         \/ /\ ~PacketExpires(c)
            /\ \E r \in Role : src = c.addr[r]
            /\ refilled.tokens < len
            /\ contexts' = [contexts EXCEPT ![i] = refilled]
            /\ UNCHANGED <<carried, last, activity>>
         \/ /\ ~PacketExpires(c)
            /\ \E r \in Role : src = c.addr[r]
            /\ refilled.tokens >= len
            /\ contexts' = [contexts EXCEPT ![i] =
                 [refilled EXCEPT !.tokens = @ - len, !.bytes = @ + len, !.last_active = now]]
            /\ carried' = [carried EXCEPT ![i] =
                             [u \in Time |-> IF u >= now THEN @[u] + len ELSE @[u]]]
            /\ last' = [last EXCEPT ![i] = len]
            /\ activity' = [activity EXCEPT ![i] = @ \cup {now}]
      /\ UNCHANGED <<token_index, failed_lookups, now, issued, live, failures>>

------------------------------------------------------------------------------

Tick ==
  /\ now < MaxTime
  /\ now' = now + 1
  /\ UNCHANGED <<table, history>>

Next ==
  \/ \E i \in Intent, t \in Token : AuthorizePair(i, t)
  \/ \E i \in Intent, d \in Device, a \in Addr : UpdateBinding(i, d, a)
  \/ \E i \in Intent : Close(i)
  \/ Sweep
  \/ \E t \in Token, a \in Addr : UnknownToken(t, a)
  \/ \E t \in Token, a \in Addr, n \in PacketLen : KnownToken(t, a, n)
  \/ Tick

Spec == Init /\ [][Next]_vars

------------------------------------------------------------------------------
(* Properties *)

\* Bytes the session of i carried before time t.
CarriedBefore(i, t) == IF t = 0 THEN 0 ELSE carried[i][t - 1]

\* Whatever the pattern of packets, refusals and pauses, a session carries no
\* more than the rate limit allows in any interval (the bucket of get_destination,
\* refilled also by the packets it refuses).
RateBounded ==
  \A i \in Intent : \A s, e \in Time :
    s <= e => carried[i][e] - CarriedBefore(i, s) <= RateLimit * (1 + e - s)

\* A session's last packet may overshoot the byte cap, but by less than itself: what
\* the session had carried before that packet was below the cap (get_destination
\* checks the cap before it adds the packet, and a refused packet adds nothing).
CapOvershoot ==
  \A i \in Intent : carried[i][now] > 0 => carried[i][now] - last[i] < ByteCap

\* A session that has been idle for longer than the timeout never comes back,
\* neither by a packet nor by a new binding; every moment of its life is within
\* the idle timeout of an earlier one, and before its absolute expiry.
NeverResumes ==
  \A i \in Intent : \A t \in activity[i] :
    LET c == contexts[i]
    IN  c # Absent =>
          /\ c.authorized_at <= t
          /\ t > c.authorized_at =>
               /\ \E u \in activity[i] : u < t /\ t - u <= IdleTimeout
               /\ t < c.expires_at

\* Until a session is swept, every token generated for its intent finds it, also
\* after a repeated AcceptConnect has authorized it anew under another token: the
\* two ends may hold different tokens and still meet (authorize_pair, sweep).
TokensMeet ==
  \A t \in live : token_index[t] = issued[t] /\ contexts[issued[t]] # Absent

\* In no interval as long as the window do more than 2 * BlocklistThreshold - 1 failed
\* lookups from one IP get through, whatever a full table evicts: all but the first
\* of one window and all of the next.  (The comment on BLOCKLIST_WINDOW_MS speaks of
\* a rolling window, which would allow BlocklistThreshold; the window opens with the
\* first failure and does not roll, and the bound is met: MCForwarding!DoesNotRoll.)
FailuresBounded ==
  \A p \in Ip : \A t \in Time :
    failures[p][t] -
      (IF t <= BlocklistWindow THEN 0 ELSE failures[p][t - BlocklistWindow - 1])
      <= 2 * BlocklistThreshold - 1
==============================================================================
