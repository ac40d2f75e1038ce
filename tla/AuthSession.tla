---------------------------- MODULE AuthSession ----------------------------
(***************************************************************************)
(* Staff sessions: login, refresh with rotating refresh tokens, logout and *)
(* password change of internal/auth/service.go, the staff administration   *)
(* of internal/staff/service.go that changes a user under them, and the    *)
(* triggers of the control database that guard users, sessions and tokens. *)
(*                                                                         *)
(* Each handler is a process.  Refresh and logout look their token up      *)
(* outside any transaction; every transaction then locks the user's row,   *)
(* reads user, session and token, and commits.  Session and token are only *)
(* written under their user's lock, so the locks the code also takes on    *)
(* them (user, then session, then token) never wait.  A staff command is   *)
(* one UPDATE and its commit; its replay under a central idempotency key   *)
(* changes nothing and is left out.  A password hash is salted: setting a  *)
(* password always changes the hash.                                       *)
(***************************************************************************)
EXTENDS Naturals, FiniteSets

CONSTANTS
  Users,
  Sessions,     \* session identifiers
  Tokens,       \* refresh tokens; a new one is one never used before
  Requests,     \* handlers
  Passwords,
  Roles,
  None,
  MaxFaults,    \* bound: errors and lost answers
  MaxChanges    \* bound: changes of users

ASSUME AuthSessionAssumption ==
  /\ MaxFaults \in Nat /\ MaxChanges \in Nat
  /\ Passwords # {} /\ Roles # {}

VARIABLES
  user,      \* control.users
  session,   \* control.auth_sessions
  token,     \* control.refresh_tokens
  req,       \* the handlers
  outdated,  \* ghost: sessions that existed when their user was changed
  changes, faults

tables == <<user, session, token>>
vars == <<tables, req, outdated, changes, faults>>

User == [enabled : BOOLEAN, version : Nat, password : Passwords, role : Roles]
\* password and role are ghosts: those of the user at login.
Session == [user : Users, version : Nat, revoked : BOOLEAN, expired : BOOLEAN,
            password : Passwords, role : Roles]
Token == [session : Sessions, parent : Tokens \cup {None}, consumed : BOOLEAN]

ASSUME AbsentAssumption == None \notin Session /\ None \notin Token /\ None \notin Tokens

Kinds == {"login", "refresh", "logout", "change"}
Answers == {"none", "logged_in", "rotated", "refused", "logged_out", "changed", "failed"}

\* seen holds the user's row as read under the lock; used, ended and lapsed
\* what was read of token and session.
Handler ==
  [pc : {"idle", "started", "locked", "answered"}, kind : Kinds \cup {None},
   user : Users \cup {None}, token : Tokens \cup {None}, password : Passwords \cup {None},
   seen : User \cup {None}, used : BOOLEAN, ended : BOOLEAN, lapsed : BOOLEAN,
   answer : Answers]

IdleHandler == [pc |-> "idle", kind |-> None, user |-> None, token |-> None,
                password |-> None, seen |-> None, used |-> FALSE, ended |-> FALSE,
                lapsed |-> FALSE, answer |-> "none"]

TypeOK ==
  /\ user \in [Users -> User]
  /\ session \in [Sessions -> Session \cup {None}]
  /\ token \in [Tokens -> Token \cup {None}]
  /\ req \in [Requests -> Handler]
  /\ outdated \subseteq Sessions
  /\ changes \in 0..MaxChanges /\ faults \in 0..MaxFaults

Init ==
  /\ \E p \in Passwords, r \in Roles :
       user = [u \in Users |-> [enabled |-> TRUE, version |-> 1, password |-> p, role |-> r]]
  /\ session = [s \in Sessions |-> None]
  /\ token = [t \in Tokens |-> None]
  /\ req = [q \in Requests |-> IdleHandler]
  /\ outdated = {}
  /\ changes = 0 /\ faults = 0

-----------------------------------------------------------------------------

\* Mutation of UserLocked: the row is read without FOR UPDATE.
UserNeverLocked(u) == FALSE

UserLocked(u) == \E q \in Requests : req[q].pc = "locked" /\ req[q].user = u

SessionOf(t) == token[t].session
SessionsOf(u) == {s \in Sessions : session[s] # None /\ session[s].user = u}

\* The handler ends: its answer is left, and what the answer is about.
Answer(q, a) ==
  req' = [req EXCEPT ![q] = [IdleHandler EXCEPT !.pc = "answered", !.answer = a,
            !.kind = req[q].kind, !.user = req[q].user, !.token = req[q].token]]
Fault == faults < MaxFaults /\ faults' = faults + 1

\* Mutation of Guarded: only a new password invalidates sessions.
GuardedPasswordOnly(old, new, rehashed) ==
  IF rehashed THEN [new EXCEPT !.version = old.version + 1] ELSE new

\* guard_user: a row whose password hash, role or status changes gets the
\* next auth_version.
Guarded(old, new, rehashed) ==
  IF rehashed \/ new.role # old.role \/ new.enabled # old.enabled
    THEN [new EXCEPT !.version = old.version + 1]
    ELSE new

\* An UPDATE of a user's row, and who is affected.
UpdateUser(u, new, rehashed) ==
  LET row == Guarded(user[u], new, rehashed) IN
  /\ changes < MaxChanges /\ changes' = changes + 1
  /\ user' = [user EXCEPT ![u] = row]
  /\ outdated' = IF rehashed \/ new # user[u] THEN outdated \cup SessionsOf(u) ELSE outdated

-----------------------------------------------------------------------------
(* Staff administration *)

UpdateUserRole(u, role) ==
  /\ ~UserLocked(u)
  /\ UpdateUser(u, [user[u] EXCEPT !.role = role], FALSE)
  /\ UNCHANGED <<session, token, req, faults>>

DisableUser(u) ==
  /\ ~UserLocked(u)
  /\ UpdateUser(u, [user[u] EXCEPT !.enabled = FALSE], FALSE)
  /\ UNCHANGED <<session, token, req, faults>>

SetUserPassword(u, password) ==
  /\ ~UserLocked(u)
  /\ UpdateUser(u, [user[u] EXCEPT !.password = password], TRUE)
  /\ UNCHANGED <<session, token, req, faults>>

\* Seven days after login.
SessionExpires(s) ==
  /\ session[s] # None /\ ~session[s].expired
  /\ session' = [session EXCEPT ![s].expired = TRUE]
  /\ UNCHANGED <<user, token, req, outdated, changes, faults>>

-----------------------------------------------------------------------------
(* The handlers *)

StartLogin(q, u, password) ==
  /\ req[q].pc = "idle"
  /\ req' = [req EXCEPT ![q] = [IdleHandler EXCEPT !.pc = "started", !.kind = "login",
                                                   !.user = u, !.password = password]]
  /\ UNCHANGED <<tables, outdated, changes, faults>>

\* claims name the user; the access token is not looked up anywhere.
StartChangePassword(q, u, password) ==
  /\ req[q].pc = "idle"
  /\ req' = [req EXCEPT ![q] = [IdleHandler EXCEPT !.pc = "started", !.kind = "change",
                                                   !.user = u, !.password = password]]
  /\ UNCHANGED <<tables, outdated, changes, faults>>

\* LookupRefresh; an unknown token is refused and leaves only an audit event.
LookupRefresh(q, kind, t) ==
  /\ req[q].pc = "idle" /\ kind \in {"refresh", "logout"}
  /\ token[t] # None
  /\ req' = [req EXCEPT ![q] = [IdleHandler EXCEPT !.pc = "started", !.kind = kind,
                                  !.token = t, !.user = session[SessionOf(t)].user]]
  /\ UNCHANGED <<tables, outdated, changes, faults>>

\* The transaction begins with the user's row; session and token follow.
LockAndRead(q) ==
  LET u == req[q].user  t == req[q].token IN
  /\ req[q].pc = "started"
  /\ ~UserLocked(u)
  /\ req' = [req EXCEPT ![q].pc = "locked", ![q].seen = user[u],
               ![q].used = IF t = None THEN FALSE ELSE token[t].consumed,
               ![q].ended = IF t = None THEN FALSE ELSE session[SessionOf(t)].revoked,
               ![q].lapsed = IF t = None THEN FALSE ELSE session[SessionOf(t)].expired]
  /\ UNCHANGED <<tables, outdated, changes, faults>>

\* Login: a session under the auth_version just read, and its first token.
OpenSession(q) ==
  /\ req[q].pc = "locked" /\ req[q].kind = "login"
  /\ req[q].seen.enabled /\ req[q].password = req[q].seen.password
  /\ \E s \in Sessions, t \in Tokens :
       /\ session[s] = None /\ token[t] = None
       /\ session' = [session EXCEPT ![s] =
            [user |-> req[q].user, version |-> req[q].seen.version, revoked |-> FALSE,
             expired |-> FALSE, password |-> req[q].seen.password, role |-> req[q].seen.role]]
       /\ token' = [token EXCEPT ![t] = [session |-> s, parent |-> None, consumed |-> FALSE]]

RefuseLogin(q) ==
  /\ req[q].pc = "locked" /\ req[q].kind = "login"
  /\ ~(req[q].seen.enabled /\ req[q].password = req[q].seen.password)
  /\ Answer(q, "refused")
  /\ UNCHANGED <<tables, outdated, changes, faults>>

\* The conditions of Refresh.
Refreshable(q) ==
  /\ req[q].pc = "locked" /\ req[q].kind = "refresh"
  /\ ~req[q].used /\ ~req[q].ended /\ ~req[q].lapsed /\ req[q].seen.enabled
  /\ req[q].seen.version = session[SessionOf(req[q].token)].version

\* guard_refresh_token, UNIQUE (parent_token_id): what the insert of a
\* successor still requires of the tables.  The user's lock makes it hold.
InsertAllowed(t) ==
  /\ ~session[SessionOf(t)].revoked
  /\ \A x \in Tokens : token[x] # None => token[x].parent # t

\* The presented token is consumed and gets its one successor.
Rotate(q) ==
  LET t == req[q].token IN
  /\ Refreshable(q) /\ InsertAllowed(t)
  /\ \E x \in Tokens :
       /\ token[x] = None
       /\ token' = [token EXCEPT ![t].consumed = TRUE,
                                 ![x] = [session |-> SessionOf(t), parent |-> t,
                                         consumed |-> FALSE]]
  /\ UNCHANGED <<user, session>>

\* Mutation of RefuseRefresh: the error path is rolled back.
RefuseRefreshRollingBack(q) ==
  /\ req[q].pc = "locked" /\ req[q].kind = "refresh" /\ ~Refreshable(q)
  /\ UNCHANGED tables

\* A refused refresh commits too: a consumed token revokes its session.
RefuseRefresh(q) ==
  /\ req[q].pc = "locked" /\ req[q].kind = "refresh" /\ ~Refreshable(q)
  /\ session' = IF req[q].used /\ ~req[q].ended
                  THEN [session EXCEPT ![SessionOf(req[q].token)].revoked = TRUE]
                  ELSE session
  /\ UNCHANGED <<user, token>>

CloseSession(q) ==
  /\ req[q].pc = "locked" /\ req[q].kind = "logout"
  /\ session' = [session EXCEPT ![SessionOf(req[q].token)].revoked = TRUE]
  /\ UNCHANGED <<user, token>>

\* The commits that can be acknowledged, or not, and the answer they bring.
Outcome(q, a) ==
  \/ a = "logged_in" /\ OpenSession(q) /\ UNCHANGED user
  \/ a = "rotated" /\ Rotate(q)
  \/ a = "refused" /\ RefuseRefresh(q)
  \/ a = "logged_out" /\ CloseSession(q)

Commit(q) ==
  \E a \in {"logged_in", "rotated", "refused", "logged_out"} :
    /\ Outcome(q, a)
    /\ Answer(q, a)
    /\ UNCHANGED <<outdated, changes, faults>>

CommitUnacknowledged(q) ==
  \E a \in {"logged_in", "rotated", "refused", "logged_out"} :
    /\ Outcome(q, a)
    /\ Fault
    /\ Answer(q, "failed")
    /\ UNCHANGED <<outdated, changes>>

\* ChangePassword, the current password checked against the hash read.
ChangePassword(q, new) ==
  LET u == req[q].user IN
  /\ req[q].pc = "locked" /\ req[q].kind = "change"
  /\ req[q].seen.enabled /\ req[q].password = req[q].seen.password
  /\ UpdateUser(u, [user[u] EXCEPT !.password = new], TRUE)
  /\ Answer(q, "changed")
  /\ UNCHANGED <<session, token, faults>>

RefuseChange(q) ==
  /\ req[q].pc = "locked" /\ req[q].kind = "change"
  /\ ~(req[q].seen.enabled /\ req[q].password = req[q].seen.password)
  /\ Answer(q, "refused")
  /\ UNCHANGED <<tables, outdated, changes, faults>>

\* A statement or the commit fails: rolled back.
TransactionFails(q) ==
  /\ req[q].pc = "locked"
  /\ Fault
  /\ Answer(q, "failed")
  /\ UNCHANGED <<tables, outdated, changes>>

Next ==
  \/ \E u \in Users : \/ \E role \in Roles : UpdateUserRole(u, role)
                      \/ DisableUser(u)
                      \/ \E p \in Passwords : SetUserPassword(u, p)
  \/ \E s \in Sessions : SessionExpires(s)
  \/ \E q \in Requests :
       \/ \E u \in Users, p \in Passwords : StartLogin(q, u, p) \/ StartChangePassword(q, u, p)
       \/ \E kind \in Kinds, t \in Tokens : LookupRefresh(q, kind, t)
       \/ LockAndRead(q) \/ RefuseLogin(q) \/ Commit(q)
       \/ CommitUnacknowledged(q) \/ RefuseChange(q) \/ TransactionFails(q)
       \/ \E p \in Passwords : ChangePassword(q, p)

Spec == Init /\ [][Next]_vars

-----------------------------------------------------------------------------
(* Properties *)

\* A session that still matches its user was opened with the password and role
\* the user has now, by a user who is enabled: any change of them takes every
\* older session out of use, whatever was in flight when it was made.
LiveSessionsMatchUser ==
  \A s \in Sessions :
    (session[s] # None /\ session[s].version = user[session[s].user].version)
    => LET u == user[session[s].user] IN
       /\ u.enabled /\ session[s].password = u.password /\ session[s].role = u.role

\* A family of refresh tokens is a chain that reuse breaks: per session at
\* most one token is not consumed and no token has two successors; and when one
\* caller has rotated a token and another was refused with it, the session is
\* revoked (the refusal is committed, not rolled back), so the successor is
\* worthless in either caller's hands.
FamilyIsChain ==
  /\ \A x, y \in Tokens :
       (/\ x # y /\ token[x] # None /\ token[y] # None /\ SessionOf(x) = SessionOf(y))
       => /\ token[x].consumed \/ token[y].consumed
          /\ token[x].parent # token[y].parent
  /\ \A q, r \in Requests :
       (/\ req[q].answer = "rotated" /\ req[r].answer = "refused" /\ req[r].kind = "refresh"
        /\ req[q].token = req[r].token)
       => session[SessionOf(req[q].token)].revoked

\* Revocation is final, and a family that is revoked, expired or outdated by a
\* change of its user never grows: a refresh that read its state before a
\* logout or an administrator's change committed does not commit after it.
DeadFamiliesStayDead ==
  [][\A s \in Sessions :
       session[s] # None =>
         /\ session[s].revoked => session'[s].revoked
         /\ (session[s].revoked \/ s \in outdated)
            => \A t \in Tokens : token[t] = None /\ token'[t] # None => token'[t].session # s]_vars
=============================================================================
