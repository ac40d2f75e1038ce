--------------------------- MODULE LoginAdmission ---------------------------
(***************************************************************************)
(* The limiter of login attempts, internal/server/login_admission.go: for  *)
(* each address a window with the time at which it was opened and a count. *)
(* allow runs under a mutex, so it is a function of the table; the time    *)
(* that it judges by was read before the mutex was taken, and may be       *)
(* earlier than one that the table already holds.                          *)
(***************************************************************************)
EXTENDS Naturals, FiniteSets

CONSTANTS
  Addresses,     \* loginClientIP of a request
  Limit,         \* LOGIN_ATTEMPT_LIMIT_PER_MINUTE
  Period,        \* loginAttemptPeriod
  MaxAddresses   \* loginAdmissionMaxIPs

\* A window with count 0 stands for an address that is not in the map.
NoWindow == [startedAt |-> 0, count |-> 0]
NoAttempts == [a \in Addresses |-> NoWindow]

Known(attempts) == {a \in Addresses : attempts[a].count > 0}

\* now.Sub(startedAt) >= loginAttemptPeriod
Over(window, now) == now >= window.startedAt + Period

\* Mutation of EvictExpired: nothing is evicted.
EvictNothing(attempts, now) == attempts

EvictExpired(attempts, now) ==
  [a \in Addresses |-> IF Over(attempts[a], now) THEN NoWindow ELSE attempts[a]]

\* A new window, if the table has room for it or can be given some.
Open(attempts, key, now) ==
  LET table == IF Cardinality(Known(attempts)) >= MaxAddresses
                 THEN EvictExpired(attempts, now) ELSE attempts
  IN  IF Cardinality(Known(table)) >= MaxAddresses
        THEN [verdict |-> "full", attempts |-> table]
        ELSE [verdict |-> "admitted",
              attempts |-> [table EXCEPT ![key] = [startedAt |-> now, count |-> 1]]]

Allow(attempts, key, now) ==
  LET window == attempts[key] IN
  IF window.count = 0 \/ Over(window, now)
    THEN Open([attempts EXCEPT ![key] = NoWindow], key, now)
  ELSE IF window.count >= Limit
    THEN [verdict |-> "limited", attempts |-> attempts]
    ELSE [verdict |-> "admitted", attempts |-> [attempts EXCEPT ![key].count = @ + 1]]
=============================================================================
