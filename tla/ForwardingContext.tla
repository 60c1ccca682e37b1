-------------------------- MODULE ForwardingContext --------------------------
(***************************************************************************)
(* ForwardingContext of bw-relay/src/forwarding.rs: the session that joins   *)
(* the two endpoints of an accepted intent, and what the control plane does  *)
(* to it.  Used by Relay, whose handlers create and bind sessions, and by    *)
(* Forwarding, which adds the data plane.  `now` is the clock at the call.   *)
(* An intent with no context has the context Absent.                         *)
(***************************************************************************)
EXTENDS Integers

CONSTANTS
  Device, Token, Addr,
  None,            \* no address; no intent
  IdleTimeout,     \* IDLE_TIMEOUT_MS
  SessionExpiry,   \* session_expiry_ms
  RateLimit,       \* rate_limit_bytes_per_sec: the bucket's size
  MaxTime          \* bound: the clock

Role == {"initiator", "target"}
Time == 0 .. MaxTime

ASSUME ContextAssumption ==
  /\ None \notin Addr
  /\ IdleTimeout \in Nat
  /\ SessionExpiry \in Nat
  /\ RateLimit \in Nat
  /\ MaxTime \in Nat

State == {"Authorized", "RelayRequested", "RelayActive", "RelayExpired", "RelayClosed"}

Context ==
  [token : Token, device : [Role -> Device], addr : [Role -> Addr \cup {None}],
   state : State, last_active : Time, expires_at : Nat, bytes : Nat,
   authorized_at : Time, tokens : 0 .. RateLimit, last_refill : Time]

Absent == [state |-> "Absent"]

\* The context authorize_pair inserts.
NewContext(t, pair, now) ==
  [token |-> t, device |-> pair, addr |-> [r \in Role |-> None],
   state |-> "Authorized", last_active |-> now, expires_at |-> now + SessionExpiry,
   bytes |-> 0, authorized_at |-> now, tokens |-> RateLimit, last_refill |-> now]

Terminal(c) == c.state \in {"RelayExpired", "RelayClosed"}
Idle(c, now) == now - c.last_active > IdleTimeout

\* Mutant: an idle session may be bound again.
BindExpiresAbsoluteOnly(c, now) == now >= c.expires_at

\* The two expiry checks of update_binding.
BindExpires(c, now) == Idle(c, now) \/ now >= c.expires_at

\* The endpoints d stands for: the initiator's identity is compared first.
RolesOf(c, d) ==
  {r \in Role : c.device[r] = d /\ (r = "target" => c.device["initiator"] # d)}

Bind(c, r, a, now) ==
  LET addr == [c.addr EXCEPT ![r] = a]
  IN  [c EXCEPT !.addr = addr,
                !.last_active = now,
                !.state = IF \A q \in Role : addr[q] # None
                          THEN "RelayActive" ELSE "RelayRequested"]

\* What update_binding may make of a context: one that is idle or over age
\* expires before the device is even looked at; a device of neither role, or a
\* terminal context, changes nothing.
Rebound(c, d, a, now) ==
  IF Terminal(c)
  THEN {}
  ELSE IF BindExpires(c, now)
       THEN {[c EXCEPT !.state = "RelayExpired"]}
       ELSE {Bind(c, r, a, now) : r \in RolesOf(c, d)}
==============================================================================
