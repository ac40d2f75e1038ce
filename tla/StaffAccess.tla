---------------------------- MODULE StaffAccess ----------------------------
(***************************************************************************)
(* What stands between staff and the business operations: the admission of *)
(* logins (LoginAdmission), the sessions (AuthSession), the access tokens  *)
(* that login and refresh issue (internal/auth/jwt.go), and what a bearer  *)
(* may do (internal/server, internal/tenant).                              *)
(*                                                                         *)
(* An access token is signed after the transaction that read the user has  *)
(* been committed and its lock released.  It carries the role and bank     *)
(* that were read; requests are judged by these, and by the time, without  *)
(* another look at the user.  The token of a handler is kept in access; a  *)
(* grant, a role with the bank it is for, is a member of Roles.            *)
(*                                                                         *)
(* Logins come from an address and wait for the limiter's mutex with the   *)
(* time they have read.  One clock serves all; what a request does once it *)
(* is permitted is in the other modules.                                   *)
(***************************************************************************)
EXTENDS AuthSession, LoginAdmission

CONSTANTS
  Banks,
  AccessLifetime,   \* accessLifetime
  MaxTime           \* bound: the clock's last value

\* A login attempt: its address, the time it has read (once admitted, when) and
\* the limiter's verdict.
Arrival == [address : Addresses, time : Nat, verdict : {"waiting", "admitted", "limited", "full"}]

ASSUME StaffAccessAssumption ==
  /\ \A g \in Roles : \/ g.role \in {"issuer_operator", "issuer_readonly"} /\ g.bank = None
                      \/ g.role \in {"bank_operator", "bank_readonly"} /\ g.bank \in Banks
  /\ Limit \in Nat \ {0} /\ Period \in Nat \ {0} /\ MaxAddresses \in Nat \ {0}
  /\ AccessLifetime \in Nat \ {0} /\ MaxTime \in Nat
  /\ IsFiniteSet(Addresses) /\ IsFiniteSet(Requests)
  /\ None \notin Nat /\ None \notin Arrival

VARIABLES
  clock,
  attempts,   \* the limiter's table
  arrival,    \* the login attempt behind a request, or None
  access,     \* access tokens by handler: claims, when committed, when issued
  held        \* ghost: when a user last had a grant that is gone now

accessVars == <<clock, attempts, arrival, access, held>>
staffVars == <<vars, accessVars>>

NoToken == [grant |-> None, committed |-> None, issued |-> None]

AccessInit ==
  /\ Init
  /\ clock = 0
  /\ attempts = NoAttempts
  /\ arrival = [q \in Requests |-> None]
  /\ access = [q \in Requests |-> NoToken]
  /\ held = [u \in Users |-> [g \in Roles |-> None]]

-----------------------------------------------------------------------------
(* Access tokens and what they permit *)

\* Mutation of Validate: exp is not compared with the time.
ValidateForever(q) == access[q].issued # None

\* Validate of a token signed by Issue: it is good until exp.
Validate(q) == access[q].issued # None /\ clock < access[q].issued + AccessLifetime

Claims(q) == access[q].grant

CanRead(grant, bank, active) ==
  /\ grant.role \in {"issuer_operator", "issuer_readonly"} \/ grant.bank = bank
  /\ bank \in active

Operations == {"banks", "users", "read", "create", "patch", "command", "batch", "retry_expiry"}

\* The role checks of the handlers.
RoleAllows(role, op) ==
  CASE op \in {"banks", "users", "patch", "retry_expiry"} -> role = "issuer_operator"
    [] op \in {"create", "command", "batch"} -> role \in {"issuer_operator", "bank_operator"}
    [] op = "read" -> TRUE

\* What a bearer of the token is permitted to do, active being the banks with
\* an active route.  The directory of banks and the staff belong to no bank.
Permitted(q, op, bank, active) ==
  /\ Validate(q)
  /\ RoleAllows(Claims(q).role, op)
  /\ op \in {"banks", "users"} \/ CanRead(Claims(q), bank, active)

-----------------------------------------------------------------------------
(* Steps *)

Tick ==
  /\ clock < MaxTime /\ clock' = clock + 1
  /\ UNCHANGED <<vars, attempts, arrival, access, held>>

\* A login arrives; allow reads the time.
Arrive(q, address) ==
  /\ req[q].pc = "idle" /\ arrival[q] = None
  /\ arrival' = [arrival EXCEPT ![q] = [address |-> address, time |-> clock,
                                        verdict |-> "waiting"]]
  /\ UNCHANGED <<vars, clock, attempts, access, held>>

\* allow has the mutex.
Admit(q) ==
  /\ arrival[q] # None /\ arrival[q].verdict = "waiting"
  /\ LET allowed == Allow(attempts, arrival[q].address, arrival[q].time) IN
     /\ attempts' = allowed.attempts
     /\ arrival' = [arrival EXCEPT ![q].verdict = allowed.verdict,
                      ![q].time = IF allowed.verdict = "admitted" THEN clock ELSE @]
  /\ UNCHANGED <<vars, clock, access, held>>

\* A login is begun when it was admitted, a change of password by the bearer
\* of a token, a refresh or a logout by anyone with a refresh token.
MayBegin(q, kind, u) ==
  CASE kind = "login" -> arrival[q] # None /\ arrival[q].verdict = "admitted"
    [] kind = "change" -> arrival[q] = None /\ \E p \in Requests : Validate(p) /\ req[p].user = u
    [] OTHER -> arrival[q] = None

\* A step of AuthSession, and what it means for tokens and grants.
SessionStep ==
  /\ Next
  /\ \A q \in Requests : req[q].pc = "idle" /\ req'[q].pc # "idle"
                         => MayBegin(q, req'[q].kind, req'[q].user)
  /\ access' = [q \in Requests |->
        IF req[q].pc # "answered" /\ req'[q].answer \in {"logged_in", "rotated"}
          THEN [access[q] EXCEPT !.grant = req[q].seen.role, !.committed = clock] ELSE access[q]]
  /\ held' = [u \in Users |->
        IF user[u].enabled /\ (~user'[u].enabled \/ user'[u].role # user[u].role)
          THEN [held[u] EXCEPT ![user[u].role] = clock] ELSE held[u]]
  /\ UNCHANGED <<clock, attempts, arrival>>

\* Issue, once the transaction is over.
Issue(q) ==
  /\ access[q].committed # None /\ access[q].issued = None
  /\ access' = [access EXCEPT ![q].issued = clock]
  /\ UNCHANGED <<vars, clock, attempts, arrival, held>>

AccessNext ==
  \/ SessionStep
  \/ Tick
  \/ \E q \in Requests : \/ \E address \in Addresses : Arrive(q, address)
                         \/ Admit(q) \/ Issue(q)

AccessSpec == AccessInit /\ [][AccessNext]_staffVars

-----------------------------------------------------------------------------
(* Properties *)

\* What the roles are for, card-issuer-architecture.md, 93 to 102.
Entitles(grant, op, bank) ==
  \/ grant.role = "issuer_operator"
  \/ grant.role = "issuer_readonly" /\ op = "read"
  \/ /\ grant.role = "bank_operator" /\ grant.bank = bank
     /\ op \in {"read", "create", "command", "batch"}
  \/ grant.role = "bank_readonly" /\ grant.bank = bank /\ op = "read"

\* User u has grant g, or had it less than span before now.
HadWithin(u, g, span) ==
  \/ user[u].enabled /\ user[u].role = g
  \/ held[u][g] # None /\ clock < held[u][g] + span

\* Whoever is permitted an operation has, or recently had, a grant that
\* entitles to it: the permission ends when the lifetime of an access token
\* has passed since the grant was lost, and the time that the token took to be
\* issued after the commit.  A change of the user that runs beside a login or
\* a refresh is seen by it or comes after its commit.
AuthorityWasHeld ==
  \A q \in Requests, op \in Operations, bank \in Banks :
    Permitted(q, op, bank, Banks)
    => \E g \in Roles :
         /\ Entitles(g, op, bank)
         /\ HadWithin(req[q].user, g,
                      AccessLifetime + access[q].issued - access[q].committed)

\* The same within the lifetime of a token.  (A token issued late, after the
\* grant was lost, exceeds it.)
StalePermissionBounded ==
  \A q \in Requests, op \in Operations, bank \in Banks :
    Permitted(q, op, bank, Banks)
    => \E g \in Roles : /\ Entitles(g, op, bank)
                        /\ HadWithin(req[q].user, g, AccessLifetime)

AdmittedAfter(address, time) ==
  {q \in Requests : /\ arrival[q] # None /\ arrival[q].verdict = "admitted"
                    /\ arrival[q].address = address /\ arrival[q].time + Period > time}

\* A login is refused only if its address had its attempts, or as many other
\* addresses as the table holds had one, within a period of the time that the
\* refused one has read; and the table stays within its bounds, though times
\* reach it out of order.
RefusalsJustified ==
  /\ Cardinality(Known(attempts)) <= MaxAddresses
  /\ \A a \in Addresses : attempts[a].count <= Limit
  /\ \A q \in Requests : arrival[q] # None =>
       /\ arrival[q].verdict = "limited"
          => Cardinality(AdmittedAfter(arrival[q].address, arrival[q].time)) >= Limit
       /\ arrival[q].verdict = "full"
          => Cardinality({a \in Addresses \ {arrival[q].address} :
                            AdmittedAfter(a, arrival[q].time) # {}}) >= MaxAddresses
=============================================================================
