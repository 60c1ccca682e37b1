----------------------------- MODULE MCRendezvous -----------------------------
(***************************************************************************)
(* An instance of Rendezvous for TLC: a client with the password and one     *)
(* without it, behind one address.                                           *)
(***************************************************************************)
EXTENDS Rendezvous

CONSTANTS alice, mallory, lan

Kinds == [d \in Device |-> IF d = alice THEN "member" ELSE "stranger"]
Tries == [d \in Device |-> IF d = alice THEN 2 ELSE 1]
Addresses == [d \in Device |-> lan]

\* The limiter of the code, MAX_AUTH_ATTEMPTS_PER_IP = 10 in IP_RATE_WINDOW = 60 s.
Code == INSTANCE HostSession WITH MaxAttempts <- 10, RateWindow <- 60

\* Its window does not slide: made at these seconds, 20 attempts of one address are all
\* let through, and the last 60 s hold 19 of them (check_and_record).
ASSUME DoesNotSlide ==
  LET at == [k \in 1 .. 20 |-> IF k = 1 THEN 0 ELSE IF k <= 10 THEN 59 ELSE 60]
      Aged(w, k) == [w EXCEPT !.age = @ + at[k] - (IF k = 1 THEN 0 ELSE at[k - 1])]
      w[k \in 0 .. 20] == IF k = 0 THEN [count |-> 0, age |-> 60]
                          ELSE Code!Recorded(Aged(w[k - 1], k))
  IN  /\ \A k \in 1 .. 20 : Code!Allowed(Aged(w[k - 1], k))
      /\ Cardinality({k \in 1 .. 20 : at[20] - at[k] < 60}) = 19
==============================================================================
