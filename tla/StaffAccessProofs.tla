------------------------- MODULE StaffAccessProofs -------------------------
(***************************************************************************)
(* Theorems about the staff's sessions, for any number of users, sessions, *)
(* tokens and concurrent handlers.                                         *)
(***************************************************************************)
EXTENDS StaffAccess, FiniteSetTheorems, TLAPS

-----------------------------------------------------------------------------
(* The inductive invariant *)

TokensRooted == \A t \in Tokens : token[t] # None => session[SessionOf(t)] # None

\* auth_version only grows, so an older session can never match again.
VersionsBounded ==
  \A s \in Sessions : session[s] # None => session[s].version <= user[session[s].user].version

OutdatedBehind ==
  \A s \in outdated : session[s] # None /\ session[s].version < user[session[s].user].version

WithToken == {"refresh", "logout"}

\* What a handler has been asked for exists.
Asked(h, tokens, sessions) ==
  /\ h.user \in Users /\ h.kind \in Kinds
  /\ h.kind \in WithToken => /\ h.token \in Tokens /\ tokens[h.token] # None
                             /\ sessions[tokens[h.token].session].user = h.user
  /\ h.kind \notin WithToken => h.token = None

HandlersAsked ==
  \A q \in Requests : /\ req[q].pc # "idle" => Asked(req[q], token, session)
                      /\ req[q].pc # "answered" => req[q].answer = "none"

\* The lock of a user's row is exclusive.
LocksExclusive ==
  \A q, r \in Requests :
    q # r /\ req[q].pc = "locked" /\ req[r].pc = "locked" => req[q].user # req[r].user

\* Under the lock, what a handler has read stays true; only time goes on.
ReadsCurrent ==
  \A q \in Requests : req[q].pc = "locked" =>
    /\ req[q].seen = user[req[q].user]
    /\ req[q].token # None =>
         /\ req[q].used = token[req[q].token].consumed
         /\ req[q].ended = session[SessionOf(req[q].token)].revoked
         /\ req[q].lapsed => session[SessionOf(req[q].token)].expired

\* A refresh of this session cannot begin to succeed any more.
Stale(row, users) ==
  \/ row.revoked \/ row.expired
  \/ ~users[row.user].enabled
  \/ row.version # users[row.user].version

RefusedRefresh(q) == req[q].answer = "refused" /\ req[q].kind = "refresh"

AnswersKept ==
  /\ \A q \in Requests : req[q].answer = "rotated"
       => req[q].kind = "refresh" /\ token[req[q].token].consumed
  /\ \A r \in Requests : RefusedRefresh(r)
       => /\ Stale(session[SessionOf(req[r].token)], user)
          /\ \A q \in Requests : Refreshable(q) => req[q].token # req[r].token

\* The two halves of FamilyIsChain.
Chained ==
  \A x, y \in Tokens :
    (/\ x # y /\ token[x] # None /\ token[y] # None /\ SessionOf(x) = SessionOf(y))
    => /\ token[x].consumed \/ token[y].consumed
       /\ token[x].parent # token[y].parent

ReuseRevokes ==
  \A q, r \in Requests :
    (req[q].answer = "rotated" /\ RefusedRefresh(r) /\ req[q].token = req[r].token)
    => session[SessionOf(req[q].token)].revoked

TableInv ==
  TokensRooted /\ VersionsBounded /\ OutdatedBehind /\ LiveSessionsMatchUser /\ Chained

HandlerInv == HandlersAsked /\ LocksExclusive /\ ReadsCurrent /\ AnswersKept /\ ReuseRevokes

SessionInv == TypeOK /\ TableInv /\ HandlerInv

LEMMA ChainHalves == FamilyIsChain <=> Chained /\ ReuseRevokes
  BY DEF FamilyIsChain, Chained, ReuseRevokes, RefusedRefresh

LEMMA InitSessionInv == Init => SessionInv
  <1> SUFFICES ASSUME Init PROVE SessionInv
    OBVIOUS
  <1>1. TypeOK
    <2>1. IdleHandler \in Handler
      BY DEF IdleHandler, Handler, Answers
    <2>2. user \in [Users -> User]
      <3>1. PICK p \in Passwords, r \in Roles :
              user = [u \in Users |-> [enabled |-> TRUE, version |-> 1, password |-> p, role |-> r]]
        BY DEF Init
      <3>2. [enabled |-> TRUE, version |-> 1, password |-> p, role |-> r] \in User
        BY DEF User
      <3> QED
        BY <3>1, <3>2
    <2>3. changes \in 0..MaxChanges /\ faults \in 0..MaxFaults
      BY AuthSessionAssumption DEF Init
    <2> QED
      BY <2>1, <2>2, <2>3 DEF Init, TypeOK
  <1>2. \A q \in Requests : req[q].pc = "idle" /\ req[q].answer = "none"
    BY DEF Init, IdleHandler
  <1>3. TableInv
    BY DEF Init, TableInv, TokensRooted, VersionsBounded, OutdatedBehind,
       LiveSessionsMatchUser, Chained
  <1>4. HandlerInv
    BY <1>2 DEF HandlerInv, HandlersAsked, LocksExclusive, ReadsCurrent, AnswersKept,
       ReuseRevokes, RefusedRefresh
  <1> QED
    BY <1>1, <1>3, <1>4 DEF SessionInv

-----------------------------------------------------------------------------
(* Handlers, whatever happens to the tables *)

\* Rows stay, versions and flags only grow, nobody is enabled again.
RowsKept ==
  /\ \A t \in Tokens : token[t] # None =>
       /\ token'[t] # None /\ token'[t].session = token[t].session
       /\ token[t].consumed => token'[t].consumed
  /\ \A s \in Sessions : session[s] # None =>
       /\ session'[s] # None /\ session'[s].user = session[s].user
       /\ session'[s].version = session[s].version
       /\ session[s].revoked => session'[s].revoked
       /\ session[s].expired => session'[s].expired
  /\ \A u \in Users :
       user[u].version <= user'[u].version /\ (user'[u].enabled => user[u].enabled)

\* q does nothing, and what it may have read under the lock is left alone.
Rests(q) ==
  /\ req'[q] = req[q]
  /\ req[q].pc = "locked" =>
       /\ user'[req[q].user] = user[req[q].user]
       /\ req[q].token # None =>
            /\ token'[req[q].token].consumed = token[req[q].token].consumed
            /\ session'[SessionOf(req[q].token)].revoked = session[SessionOf(req[q].token)].revoked

Starts(q) ==
  /\ req[q].pc = "idle" /\ req'[q].pc = "started" /\ req'[q].answer = "none"
  /\ Asked(req'[q], token, session)
  /\ UNCHANGED tables

Locks(q) ==
  /\ req[q].pc = "started" /\ req'[q].pc = "locked" /\ ~UserLocked(req[q].user)
  /\ req'[q].kind = req[q].kind /\ req'[q].user = req[q].user /\ req'[q].token = req[q].token
  /\ req'[q].answer = req[q].answer
  /\ req'[q].seen = user[req[q].user]
  /\ req[q].token # None =>
       /\ req'[q].used = token[req[q].token].consumed
       /\ req'[q].ended = session[SessionOf(req[q].token)].revoked
       /\ req'[q].lapsed = session[SessionOf(req[q].token)].expired
  /\ UNCHANGED tables

Ends(q) ==
  /\ req[q].pc = "locked" /\ req'[q].pc = "answered"
  /\ req'[q].kind = req[q].kind /\ req'[q].user = req[q].user /\ req'[q].token = req[q].token
  /\ req'[q].answer = "rotated" => Refreshable(q) /\ token'[req[q].token].consumed
  /\ req'[q].answer = "refused" /\ req[q].kind = "refresh"
       => ~Refreshable(q) /\ (req[q].used => session'[SessionOf(req[q].token)].revoked)

Moves(q) == Starts(q) \/ Locks(q) \/ Ends(q)

OneMoves ==
  /\ \A q \in Requests : Rests(q) \/ Moves(q)
  /\ \A q, r \in Requests : q # r => Rests(q) \/ Rests(r)

LEMMA StaleStays ==
  ASSUME TypeOK, TypeOK', VersionsBounded, RowsKept, NEW s \in Sessions, session[s] # None,
         Stale(session[s], user)
  PROVE  Stale(session'[s], user')
  <1>1. /\ session[s] \in Session /\ session'[s] \in Session
        /\ session'[s].user = session[s].user /\ session'[s].version = session[s].version
        /\ session[s].revoked => session'[s].revoked
        /\ session[s].expired => session'[s].expired
    BY DEF TypeOK, RowsKept
  <1> DEFINE u == session[s].user
  <1>2. u \in Users /\ session[s].version \in Nat /\ session[s].version <= user[u].version
    BY <1>1 DEF Session, VersionsBounded
  <1>3. /\ user[u].version \in Nat /\ user'[u].version \in Nat
        /\ user[u].version <= user'[u].version
        /\ user'[u].enabled => user[u].enabled
    BY <1>2 DEF TypeOK, User, RowsKept
  <1> QED
    BY <1>1, <1>2, <1>3 DEF Stale

\* The token of a refresh or a logout and its session.
LEMMA AskedToken ==
  ASSUME TypeOK, TokensRooted, HandlersAsked, NEW q \in Requests, req[q].pc # "idle",
         req[q].kind \in WithToken
  PROVE  /\ req[q].token \in Tokens /\ token[req[q].token] \in Token
         /\ SessionOf(req[q].token) \in Sessions
         /\ session[SessionOf(req[q].token)] \in Session
         /\ session[SessionOf(req[q].token)].user = req[q].user
         /\ req[q].user \in Users /\ req[q].token # None
         /\ token[req[q].token] # None /\ session[SessionOf(req[q].token)] # None
  <1>1. Asked(req[q], token, session)
    BY DEF HandlersAsked
  <1>2. req[q].token \in Tokens /\ token[req[q].token] # None
    BY <1>1 DEF Asked
  <1>3. token[req[q].token] \in Token /\ token[req[q].token].session \in Sessions
    BY <1>2 DEF TypeOK, Token
  <1>4. session[SessionOf(req[q].token)] # None
    BY <1>2 DEF TokensRooted
  <1> QED
    BY <1>1, <1>2, <1>3, <1>4, AbsentAssumption DEF Asked, SessionOf, TypeOK

LEMMA HandlersStep ==
  ASSUME TypeOK, TypeOK', TokensRooted, VersionsBounded, HandlerInv, RowsKept, OneMoves
  PROVE  HandlerInv'
  <1> USE DEF HandlerInv
  <1>0. token \in [Tokens -> Token \cup {None}]
    BY DEF TypeOK
  <1>1. \A h : Asked(h, token, session) => Asked(h, token', session')
    <2> SUFFICES ASSUME NEW h, Asked(h, token, session) PROVE Asked(h, token', session')
      OBVIOUS
    <2>1. CASE h.kind \notin WithToken
      BY <2>1 DEF Asked
    <2>2. CASE h.kind \in WithToken
      <3>0. h.token \in Tokens /\ token[h.token] # None
        BY <2>2 DEF Asked
      <3>1. h.token \in Tokens /\ token[h.token] # None /\ token[h.token] \in Token
        BY <1>0, <3>0
      <3>2. SessionOf(h.token) \in Sessions /\ session[SessionOf(h.token)] # None
        BY <3>1 DEF TokensRooted, SessionOf, Token
      <3>3. token'[h.token] # None /\ token'[h.token].session = SessionOf(h.token)
        BY <3>1 DEF RowsKept, SessionOf
      <3>4. session'[SessionOf(h.token)].user = h.user
        BY <2>2, <3>2 DEF RowsKept, Asked, SessionOf
      <3> QED
        BY <2>2, <3>1, <3>3, <3>4 DEF Asked, SessionOf
    <2> QED
      BY <2>1, <2>2
  <1>3. HandlersAsked'
    <2> SUFFICES ASSUME NEW q \in Requests
                 PROVE  /\ req'[q].pc # "idle" => Asked(req'[q], token', session')
                        /\ req'[q].pc # "answered" => req'[q].answer = "none"
      BY DEF HandlersAsked
    <2>1. CASE Rests(q)
      BY <1>1, <2>1 DEF Rests, HandlersAsked
    <2>2. CASE Starts(q)
      BY <1>1, <2>2 DEF Starts
    <2>3. CASE Locks(q) \/ Ends(q)
      <3>1. /\ Asked(req[q], token, session) /\ req[q].answer = "none"
            /\ req'[q].kind = req[q].kind /\ req'[q].user = req[q].user
            /\ req'[q].token = req[q].token
        BY <2>3 DEF HandlersAsked, Locks, Ends
      <3>2. Asked(req'[q], token, session)
        BY <3>1 DEF Asked
      <3> QED
        BY <1>1, <2>3, <3>1, <3>2 DEF Locks, Ends
    <2> QED
      BY <2>1, <2>2, <2>3 DEF OneMoves, Moves
  <1>4. LocksExclusive'
    <2> SUFFICES ASSUME NEW q \in Requests, NEW r \in Requests, q # r,
                        req'[q].pc = "locked", req'[r].pc = "locked", Rests(r)
                 PROVE  req'[q].user # req'[r].user
      BY DEF LocksExclusive, OneMoves
    <2>1. req'[r] = req[r]
      BY DEF Rests
    <2>2. CASE Rests(q)
      BY <2>1, <2>2 DEF Rests, LocksExclusive
    <2>3. CASE Locks(q)
      BY <2>1, <2>3 DEF Locks, UserLocked
    <2> QED
      BY <2>2, <2>3 DEF OneMoves, Moves, Starts, Ends
  <1>5. ReadsCurrent'
    <2> SUFFICES ASSUME NEW q \in Requests, req'[q].pc = "locked"
                 PROVE  /\ req'[q].seen = user'[req'[q].user]
                        /\ req'[q].token # None =>
                             /\ req'[q].used = token'[req'[q].token].consumed
                             /\ req'[q].ended = session'[token'[req'[q].token].session].revoked
                             /\ req'[q].lapsed => session'[token'[req'[q].token].session].expired
      BY DEF ReadsCurrent, SessionOf
    <2>1. CASE Rests(q)
      <3>1. req'[q] = req[q] /\ req[q].pc = "locked"
        BY <2>1 DEF Rests
      <3>2. CASE req[q].token = None
        BY <2>1, <3>1, <3>2 DEF Rests, ReadsCurrent
      <3>3. CASE req[q].token # None
        <4>1. req[q].kind \in WithToken
          BY <3>1, <3>3 DEF HandlersAsked, Asked
        <4>2. /\ req[q].token \in Tokens /\ token[req[q].token] # None
              /\ SessionOf(req[q].token) \in Sessions
              /\ session[SessionOf(req[q].token)] # None
          BY <3>1, <4>1, AskedToken
        <4>3. token'[req[q].token].session = SessionOf(req[q].token)
          BY <4>2 DEF RowsKept, SessionOf
        <4>4. session[SessionOf(req[q].token)].expired
                => session'[SessionOf(req[q].token)].expired
          BY <4>2 DEF RowsKept
        <4> QED
          BY <2>1, <3>1, <3>3, <4>3, <4>4 DEF Rests, ReadsCurrent, SessionOf
      <3> QED
        BY <3>2, <3>3
    <2>2. CASE Locks(q)
      BY <2>2 DEF Locks, tables, SessionOf
    <2> QED
      BY <2>1, <2>2 DEF OneMoves, Moves, Starts, Ends
  <1>6. \A q \in Requests : RefusedRefresh(q) \/ req[q].answer = "rotated"
           => /\ req[q].pc = "answered" /\ req'[q] = req[q] /\ req[q].kind = "refresh"
              /\ req[q].token \in Tokens /\ token[req[q].token] # None
              /\ SessionOf(req[q].token) \in Sessions
              /\ session[SessionOf(req[q].token)] # None
              /\ token'[req[q].token].session = SessionOf(req[q].token)
    <2> SUFFICES ASSUME NEW q \in Requests, RefusedRefresh(q) \/ req[q].answer = "rotated"
                 PROVE  /\ req[q].pc = "answered" /\ req'[q] = req[q] /\ req[q].kind = "refresh"
                        /\ req[q].token \in Tokens /\ token[req[q].token] # None
                        /\ SessionOf(req[q].token) \in Sessions
                        /\ session[SessionOf(req[q].token)] # None
                        /\ token'[req[q].token].session = SessionOf(req[q].token)
      OBVIOUS
    <2>1. req[q].pc = "answered" /\ req[q].kind = "refresh"
      BY DEF RefusedRefresh, HandlersAsked, AnswersKept
    <2>2. req'[q] = req[q]
      BY <2>1 DEF OneMoves, Rests, Moves, Starts, Locks, Ends
    <2>3. /\ req[q].token \in Tokens /\ token[req[q].token] # None
          /\ SessionOf(req[q].token) \in Sessions
          /\ session[SessionOf(req[q].token)] # None
      BY <2>1, AskedToken DEF WithToken
    <2> QED
      BY <2>1, <2>2, <2>3 DEF RowsKept, SessionOf
  \* A handler that is answered now was locked: its token is as it was read.
  <1>7. \A q \in Requests : Ends(q) /\ req[q].kind = "refresh"
           => /\ req[q].pc = "locked" /\ req'[q].token = req[q].token
              /\ req[q].token \in Tokens /\ token[req[q].token] # None
              /\ SessionOf(req[q].token) \in Sessions
              /\ session[SessionOf(req[q].token)] # None
              /\ session[SessionOf(req[q].token)].user = req[q].user
              /\ token'[req[q].token].session = SessionOf(req[q].token)
              /\ req[q].used = token[req[q].token].consumed
              /\ req[q].ended = session[SessionOf(req[q].token)].revoked
              /\ req[q].lapsed => session[SessionOf(req[q].token)].expired
              /\ req[q].seen = user[req[q].user]
    <2> SUFFICES ASSUME NEW q \in Requests, Ends(q), req[q].kind = "refresh"
                 PROVE  /\ req[q].pc = "locked" /\ req'[q].token = req[q].token
                        /\ req[q].token \in Tokens /\ token[req[q].token] # None
                        /\ SessionOf(req[q].token) \in Sessions
                        /\ session[SessionOf(req[q].token)] # None
                        /\ session[SessionOf(req[q].token)].user = req[q].user
                        /\ token'[req[q].token].session = SessionOf(req[q].token)
                        /\ req[q].used = token[req[q].token].consumed
                        /\ req[q].ended = session[SessionOf(req[q].token)].revoked
                        /\ req[q].lapsed => session[SessionOf(req[q].token)].expired
                        /\ req[q].seen = user[req[q].user]
      OBVIOUS
    <2>1. req[q].pc = "locked" /\ req'[q].token = req[q].token
      BY DEF Ends
    <2>2. /\ req[q].token \in Tokens /\ token[req[q].token] # None /\ req[q].token # None
          /\ SessionOf(req[q].token) \in Sessions
          /\ session[SessionOf(req[q].token)] # None
          /\ session[SessionOf(req[q].token)].user = req[q].user
      BY <2>1, AskedToken DEF WithToken
    <2> QED
      BY <2>1, <2>2 DEF RowsKept, SessionOf, ReadsCurrent
  <1>8. ASSUME NEW q \in Requests, req'[q].answer = "rotated"
        PROVE  /\ req'[q].kind = "refresh" /\ token'[req'[q].token].consumed
               /\ \/ req[q].answer = "rotated" /\ req'[q] = req[q]
                  \/ Ends(q) /\ Refreshable(q)
    <2>1. CASE Rests(q)
      <3>1. req[q].answer = "rotated" /\ req'[q] = req[q]
        BY <1>8, <2>1 DEF Rests
      <3>2. req[q].kind = "refresh" /\ token[req[q].token].consumed
        BY <3>1 DEF AnswersKept
      <3>3. req[q].token \in Tokens /\ token[req[q].token] # None
        BY <1>6, <3>1
      <3> QED
        BY <3>1, <3>2, <3>3 DEF RowsKept
    <2>2. CASE Ends(q)
      BY <1>8, <2>2 DEF Ends, Refreshable
    <2> QED
      BY <1>8, <2>1, <2>2 DEF OneMoves, Moves, Starts, Locks, HandlersAsked
  <1>9. ASSUME NEW r \in Requests, RefusedRefresh(r)'
        PROVE  \/ RefusedRefresh(r) /\ req'[r] = req[r]
               \/ Ends(r) /\ req[r].kind = "refresh" /\ ~Refreshable(r)
    <2>1. CASE Rests(r)
      BY <1>9, <2>1 DEF Rests, RefusedRefresh
    <2>2. CASE Ends(r)
      BY <1>9, <2>2 DEF Ends, RefusedRefresh
    <2> QED
      BY <1>9, <2>1, <2>2 DEF OneMoves, Moves, Starts, Locks, HandlersAsked, RefusedRefresh
  <1>10. ASSUME NEW r \in Requests, RefusedRefresh(r)'
         PROVE  /\ Stale(session'[token'[req'[r].token].session], user')
                /\ \A q \in Requests : Refreshable(q)' => req'[q].token # req'[r].token
    <2>1. CASE RefusedRefresh(r) /\ req'[r] = req[r]
      <3> DEFINE s == SessionOf(req[r].token)
      <3>1. /\ s \in Sessions /\ session[s] # None
            /\ req[r].token \in Tokens /\ token[req[r].token] # None
            /\ token'[req'[r].token].session = s
        BY <1>6, <2>1
      <3>2. Stale(session[s], user) /\ \A q \in Requests : Refreshable(q) => req[q].token # req[r].token
        BY <2>1 DEF AnswersKept
      <3>3. Stale(session'[s], user')
        BY <3>1, <3>2, StaleStays
      <3>4. ASSUME NEW q \in Requests, Refreshable(q)', req'[q].token = req[r].token
            PROVE  FALSE
        <4>1. CASE Rests(q)
          <5>1. session'[s].version = session[s].version
            BY <3>1 DEF RowsKept
          <5>2. Refreshable(q) /\ req[q].token = req[r].token
            BY SMTT(30), <2>1, <3>1, <3>4, <4>1, <5>1 DEF Rests, Refreshable, SessionOf
          <5> QED
            BY <3>2, <5>2
        <4>2. CASE Locks(q)
          <5>1. /\ req[q].kind = "refresh" /\ req[q].token = req[r].token /\ req[q].pc = "started"
                /\ req'[q].seen = user[req[q].user] /\ req'[q].ended = session[s].revoked
                /\ req'[q].lapsed = session[s].expired
                /\ session' = session /\ token' = token /\ user' = user
            BY <3>1, <3>4, <4>2, AbsentAssumption DEF Locks, Refreshable, SessionOf, tables
          <5>2. session[s].user = req[q].user
            BY <5>1, AskedToken DEF WithToken
          <5> QED
            BY <2>1, <3>1, <3>2, <3>4, <5>1, <5>2 DEF Refreshable, Stale, SessionOf
        <4> QED
          BY <3>4, <4>1, <4>2 DEF OneMoves, Moves, Starts, Ends, Refreshable
      <3> QED
        BY <2>1, <3>1, <3>3, <3>4
    <2>2. CASE Ends(r) /\ req[r].kind = "refresh" /\ ~Refreshable(r)
      <3> DEFINE s == SessionOf(req[r].token)
      <3>1. /\ s \in Sessions /\ session[s] # None /\ session[s].user = req[r].user
            /\ req[r].pc = "locked" /\ req'[r].token = req[r].token
            /\ token'[req'[r].token].session = s
            /\ req[r].used = token[req[r].token].consumed
            /\ req[r].ended = session[s].revoked
            /\ req[r].lapsed => session[s].expired
            /\ req[r].seen = user[req[r].user]
        BY <1>7, <2>2
      <3>2. Stale(session'[s], user')
        <4>1. CASE req[r].used
          BY <1>10, <2>2, <3>1, <4>1 DEF Ends, RefusedRefresh, Stale
        <4>2. CASE ~req[r].used
          <5>1. Stale(session[s], user)
            BY <2>2, <3>1, <4>2 DEF Refreshable, Stale
          <5> QED
            BY <3>1, <5>1, StaleStays
        <4> QED
          BY <4>1, <4>2
      <3>3. ASSUME NEW q \in Requests, Refreshable(q)', req'[q].token = req[r].token
            PROVE  FALSE
        <4>1. q # r
          BY <2>2, <3>3 DEF Ends, Refreshable
        <4>2. Rests(q)
          BY <2>2, <4>1 DEF OneMoves, Ends, Rests
        <4>3. req[q].pc = "locked" /\ req[q].kind = "refresh" /\ req[q].token = req[r].token
          BY <3>3, <4>2 DEF Rests, Refreshable
        <4>4. req[q].user = session[s].user
          BY <4>3, AskedToken DEF WithToken
        <4> QED
          BY <3>1, <4>1, <4>3, <4>4 DEF LocksExclusive
      <3> QED
        BY <3>1, <3>2, <3>3
    <2> QED
      BY <1>9, <1>10, <2>1, <2>2
  <1>11. AnswersKept'
    BY <1>8, <1>10 DEF AnswersKept, SessionOf
  <1>12. ReuseRevokes'
    <2> SUFFICES ASSUME NEW q \in Requests, NEW r \in Requests, req'[q].answer = "rotated",
                        RefusedRefresh(r)', req'[q].token = req'[r].token
                 PROVE  session'[token'[req'[q].token].session].revoked
      BY DEF ReuseRevokes, SessionOf
    <2>1. CASE req[q].answer = "rotated" /\ req'[q] = req[q]
      <3> DEFINE t == req[q].token
      <3>1. /\ SessionOf(t) \in Sessions /\ session[SessionOf(t)] # None
            /\ token'[t].session = SessionOf(t) /\ token[t].consumed
        BY <1>6, <2>1 DEF AnswersKept
      <3>2. CASE RefusedRefresh(r) /\ req'[r] = req[r]
        BY <2>1, <3>1, <3>2 DEF ReuseRevokes, RowsKept
      <3>3. CASE Ends(r) /\ req[r].kind = "refresh" /\ ~Refreshable(r)
        <4>1. req[r].token = t /\ req[r].used
          BY <1>7, <2>1, <3>1, <3>3
        <4> QED
          BY <2>1, <3>1, <3>3, <4>1 DEF Ends, RefusedRefresh
      <3> QED
        BY <1>9, <3>2, <3>3
    <2>2. CASE Ends(q) /\ Refreshable(q)
      <3>1. req'[q].token = req[q].token /\ req'[q].answer # "refused"
        BY <2>2 DEF Ends
      <3>2. CASE RefusedRefresh(r) /\ req'[r] = req[r]
        BY <2>2, <3>1, <3>2 DEF AnswersKept
      <3>3. CASE Ends(r)
        BY <2>2, <3>1, <3>3 DEF OneMoves, Ends, Rests, RefusedRefresh
      <3> QED
        BY <1>9, <3>2, <3>3
    <2> QED
      BY <1>8, <2>1, <2>2
  <1> QED
    BY <1>3, <1>4, <1>5, <1>11, <1>12

-----------------------------------------------------------------------------
(* Handlers: what the steps make of their records *)

\* Only rows of user u, their sessions and tokens are touched.
OnlyFor(u) ==
  /\ \A v \in Users \ {u} : user'[v] = user[v]
  /\ \A s \in Sessions : session[s] # None /\ session[s].user # u
       => session'[s].revoked = session[s].revoked
  /\ \A t \in Tokens : token[t] # None /\ session[SessionOf(t)].user # u
       => token'[t].consumed = token[t].consumed

LEMMA OthersRest ==
  ASSUME SessionInv, NEW u, OnlyFor(u), NEW r \in Requests, req'[r] = req[r],
         req[r].pc = "locked" => req[r].user # u
  PROVE  Rests(r)
  <1> USE DEF SessionInv, TableInv, HandlerInv
  <1>1. ASSUME req[r].pc = "locked" PROVE user'[req[r].user] = user[req[r].user]
    BY <1>1 DEF HandlersAsked, Asked, OnlyFor
  <1>2. ASSUME req[r].pc = "locked", req[r].token # None
        PROVE  /\ token'[req[r].token].consumed = token[req[r].token].consumed
               /\ session'[SessionOf(req[r].token)].revoked
                    = session[SessionOf(req[r].token)].revoked
    <2>1. req[r].kind \in WithToken
      BY <1>2 DEF HandlersAsked, Asked
    <2>2. /\ req[r].token \in Tokens /\ token[req[r].token] # None
          /\ SessionOf(req[r].token) \in Sessions
          /\ session[SessionOf(req[r].token)] # None
          /\ session[SessionOf(req[r].token)].user = req[r].user
      BY <1>2, <2>1, AskedToken
    <2> QED
      BY <1>2, <2>2 DEF OnlyFor
  <1> QED
    BY <1>1, <1>2 DEF Rests

\* The record that Answer leaves.
LEMMA AnsweredHandler ==
  ASSUME TypeOK, NEW q \in Requests, NEW a \in Answers, Answer(q, a)
  PROVE  /\ req' \in [Requests -> Handler]
         /\ req'[q].pc = "answered" /\ req'[q].answer = a
         /\ req'[q].kind = req[q].kind /\ req'[q].user = req[q].user
         /\ req'[q].token = req[q].token
         /\ \A r \in Requests \ {q} : req'[r] = req[r]
  <1> DEFINE h == [IdleHandler EXCEPT !.pc = "answered", !.answer = a, !.kind = req[q].kind,
                                      !.user = req[q].user, !.token = req[q].token]
  <1>1. req \in [Requests -> Handler] /\ req[q] \in Handler
    BY DEF TypeOK
  <1>2. /\ h \in Handler /\ h.pc = "answered" /\ h.answer = a /\ h.kind = req[q].kind
        /\ h.user = req[q].user /\ h.token = req[q].token
    BY <1>1 DEF IdleHandler, Handler
  <1>3. req' = [req EXCEPT ![q] = h]
    BY DEF Answer
  <1> HIDE DEF h
  <1> QED
    BY <1>1, <1>2, <1>3

\* A handler under the lock ends; its commit touches its own user's rows only.
LEMMA EndingMoves ==
  ASSUME SessionInv, NEW q \in Requests, NEW a \in Answers, Answer(q, a), req[q].pc = "locked",
         OnlyFor(req[q].user),
         a = "rotated" => Refreshable(q) /\ token'[req[q].token].consumed,
         a = "refused" /\ req[q].kind = "refresh"
           => ~Refreshable(q) /\ (req[q].used => session'[SessionOf(req[q].token)].revoked)
  PROVE  OneMoves /\ req' \in [Requests -> Handler]
  <1>1. TypeOK /\ LocksExclusive
    BY DEF SessionInv, HandlerInv
  <1>2. /\ req' \in [Requests -> Handler]
        /\ req'[q].pc = "answered" /\ req'[q].answer = a
        /\ req'[q].kind = req[q].kind /\ req'[q].user = req[q].user
        /\ req'[q].token = req[q].token
        /\ \A r \in Requests \ {q} : req'[r] = req[r]
    BY <1>1, AnsweredHandler
  <1>3. Ends(q)
    BY <1>2 DEF Ends
  <1>4. \A r \in Requests \ {q} : Rests(r)
    <2> SUFFICES ASSUME NEW r \in Requests \ {q} PROVE Rests(r)
      OBVIOUS
    <2>1. req[r].pc = "locked" => req[r].user # req[q].user
      BY <1>1 DEF LocksExclusive
    <2> QED
      BY <1>2, <2>1, OthersRest
  <1> QED
    BY <1>2, <1>3, <1>4 DEF OneMoves, Moves

\* Steps that leave the tables alone.
LEMMA TablesUntouched ==
  ASSUME SessionInv, UNCHANGED <<tables, outdated>>, changes' \in 0..MaxChanges,
         faults' \in 0..MaxFaults, req' \in [Requests -> Handler], OneMoves
  PROVE  SessionInv'
  <1> USE DEF SessionInv, tables
  <1>1. TypeOK'
    BY DEF TypeOK
  <1>2. RowsKept
    BY DEF RowsKept, TypeOK, User
  <1>3. TableInv'
    BY DEF TableInv, TokensRooted, VersionsBounded, OutdatedBehind, LiveSessionsMatchUser,
       Chained, SessionOf
  <1>4. TokensRooted /\ VersionsBounded
    BY DEF TableInv
  <1> QED
    BY <1>1, <1>2, <1>3, <1>4, HandlersStep

LEMMA FaultCounted == ASSUME TypeOK, Fault PROVE faults' \in 0..MaxFaults
  BY AuthSessionAssumption DEF TypeOK, Fault

\* Handlers that end without a word to the tables.
LEMMA GiveUpStep ==
  ASSUME SessionInv, NEW q \in Requests,
         RefuseLogin(q) \/ RefuseChange(q) \/ TransactionFails(q)
  PROVE  SessionInv'
  <1>1. TypeOK
    BY DEF SessionInv
  <1>2. /\ UNCHANGED <<tables, outdated>> /\ changes' = changes
        /\ req[q].pc = "locked"
        /\ Answer(q, "failed") \/ (Answer(q, "refused") /\ req[q].kind # "refresh")
        /\ faults' = faults \/ Fault
    BY DEF RefuseLogin, RefuseChange, TransactionFails
  <1>3. changes' \in 0..MaxChanges /\ faults' \in 0..MaxFaults
    BY <1>1, <1>2, FaultCounted DEF TypeOK
  <1>4. OnlyFor(req[q].user)
    BY <1>2 DEF OnlyFor, tables
  <1>5. OneMoves /\ req' \in [Requests -> Handler]
    <2>1. "failed" \in Answers /\ "refused" \in Answers
      BY DEF Answers
    <2>2. CASE Answer(q, "failed")
      BY <1>2, <1>4, <2>1, <2>2, EndingMoves
    <2>3. CASE Answer(q, "refused") /\ req[q].kind # "refresh"
      BY <1>2, <1>4, <2>1, <2>3, EndingMoves
    <2> QED
      BY <1>2, <2>2, <2>3
  <1> QED
    BY <1>2, <1>3, <1>5, TablesUntouched

\* A request arrives.
LEMMA StartStep ==
  ASSUME SessionInv, NEW q \in Requests,
         \/ \E u \in Users, p \in Passwords : StartLogin(q, u, p) \/ StartChangePassword(q, u, p)
         \/ \E kind \in Kinds, t \in Tokens : LookupRefresh(q, kind, t)
  PROVE  SessionInv'
  <1>1. TypeOK /\ req \in [Requests -> Handler]
    BY SMTT(30) DEF SessionInv, TypeOK
  <1>2. UNCHANGED <<tables, outdated, changes, faults>> /\ req[q].pc = "idle"
    BY ZenonT(40) DEF StartLogin, StartChangePassword, LookupRefresh
  <1>3. PICK h \in Handler : /\ req' = [req EXCEPT ![q] = h]
                             /\ h.pc = "started" /\ h.answer = "none"
                             /\ Asked(h, token, session)
    <2>1. ASSUME NEW u \in Users, NEW p \in Passwords, NEW kind \in {"login", "change"},
                 req' = [req EXCEPT ![q] = [IdleHandler EXCEPT !.pc = "started", !.kind = kind,
                                                               !.user = u, !.password = p]]
          PROVE  \E h \in Handler : /\ req' = [req EXCEPT ![q] = h]
                                    /\ h.pc = "started" /\ h.answer = "none"
                                    /\ Asked(h, token, session)
      <3> DEFINE h == [IdleHandler EXCEPT !.pc = "started", !.kind = kind, !.user = u,
                                          !.password = p]
      <3>1. /\ h \in Handler /\ h.pc = "started" /\ h.answer = "none" /\ h.user = u
            /\ h.kind = kind /\ h.token = None
        BY <2>1 DEF IdleHandler, Handler, Answers, Kinds
      <3> HIDE DEF h
      <3>2. Asked(h, token, session)
        BY <2>1, <3>1 DEF Asked, Kinds, WithToken
      <3> QED
        BY <2>1, <3>1, <3>2 DEF h
    <2>2. ASSUME NEW kind \in Kinds, NEW t \in Tokens, LookupRefresh(q, kind, t)
          PROVE  \E h \in Handler : /\ req' = [req EXCEPT ![q] = h]
                                    /\ h.pc = "started" /\ h.answer = "none"
                                    /\ Asked(h, token, session)
      <3> DEFINE u == session[SessionOf(t)].user
                 h == [IdleHandler EXCEPT !.pc = "started", !.kind = kind, !.token = t, !.user = u]
      <3>1. kind \in WithToken /\ token[t] # None /\ token[t] \in Token
        BY <1>1, <2>2 DEF LookupRefresh, WithToken, TypeOK
      <3>2. session[SessionOf(t)] \in Session
        <4>1. SessionOf(t) \in Sessions /\ session[SessionOf(t)] # None
          BY <3>1 DEF SessionInv, TableInv, TokensRooted, SessionOf, Token
        <4> QED
          BY <1>1, <4>1 DEF TypeOK
      <3>3. u \in Users
        BY <3>2 DEF Session
      <3>4. /\ h \in Handler /\ h.pc = "started" /\ h.answer = "none" /\ h.user = u
            /\ h.kind = kind /\ h.token = t
        BY <3>1, <3>3 DEF IdleHandler, Handler, Answers
      <3>5. req' = [req EXCEPT ![q] = h]
        BY <2>2 DEF LookupRefresh
      <3> HIDE DEF h
      <3>6. Asked(h, token, session)
        BY <3>1, <3>3, <3>4 DEF Asked, SessionOf
      <3> QED
        BY <3>4, <3>5, <3>6
    <2> QED
      BY <2>1, <2>2 DEF StartLogin, StartChangePassword
  <1>4. /\ req' \in [Requests -> Handler] /\ req'[q] = h
        /\ \A r \in Requests \ {q} : req'[r] = req[r]
    BY <1>1, <1>3
  <1>5. OneMoves
    <2>1. Starts(q)
      BY <1>2, <1>3, <1>4 DEF Starts
    <2>2. \A r \in Requests \ {q} : Rests(r)
      BY <1>2, <1>4 DEF Rests, tables
    <2> QED
      BY <2>1, <2>2 DEF OneMoves, Moves
  <1>6. changes' \in 0..MaxChanges /\ faults' \in 0..MaxFaults
    BY <1>1, <1>2 DEF TypeOK
  <1> QED
    BY <1>2, <1>4, <1>5, <1>6, TablesUntouched

\* A transaction begins.
LEMMA LockStep ==
  ASSUME SessionInv, NEW q \in Requests, LockAndRead(q)
  PROVE  SessionInv'
  <1> DEFINE u == req[q].user
             t == req[q].token
             used == IF t = None THEN FALSE ELSE token[t].consumed
             ended == IF t = None THEN FALSE ELSE session[SessionOf(t)].revoked
             lapsed == IF t = None THEN FALSE ELSE session[SessionOf(t)].expired
             x == req[q]
             h == [x EXCEPT !.pc = "locked", !.seen = user[u], !.used = used, !.ended = ended,
                            !.lapsed = lapsed]
  <1>1. TypeOK /\ req \in [Requests -> Handler] /\ x \in Handler /\ x.pc = "started"
    BY DEF SessionInv, TypeOK, LockAndRead
  <1>2. UNCHANGED <<tables, outdated, changes, faults>> /\ ~UserLocked(u)
    BY DEF LockAndRead
  <1>3. Asked(req[q], token, session)
    BY <1>1 DEF SessionInv, HandlerInv, HandlersAsked
  <1>4. user[u] \in User
    BY <1>1, <1>3 DEF Asked, TypeOK
  <1>5. used \in BOOLEAN /\ ended \in BOOLEAN /\ lapsed \in BOOLEAN
    <2>1. CASE t = None
      BY <2>1
    <2>2. CASE t # None
      <3>1. x.kind \in WithToken
        BY <1>3, <2>2 DEF Asked
      <3>2. token[t] \in Token /\ session[SessionOf(t)] \in Session
        BY <1>1, <3>1, AskedToken DEF SessionInv, TableInv, HandlerInv
      <3> QED
        BY <2>2, <3>2 DEF Token, Session
    <2> QED
      BY <2>1, <2>2
  <1>6. req' = [req EXCEPT ![q] = h]
    BY DEF LockAndRead
  <1>7. /\ h \in Handler /\ h.pc = "locked" /\ h.kind = x.kind /\ h.user = x.user
        /\ h.token = x.token /\ h.answer = x.answer /\ h.seen = user[u]
        /\ h.used = used /\ h.ended = ended /\ h.lapsed = lapsed
    <2> HIDE DEF x, used, ended, lapsed
    <2> QED
      BY ZenonT(40), <1>1, <1>4, <1>5 DEF Handler
  <1> HIDE DEF h
  <1>8. /\ req' \in [Requests -> Handler] /\ req'[q] = h
        /\ \A r \in Requests \ {q} : req'[r] = req[r]
    BY <1>1, <1>6, <1>7
  <1>9. OneMoves
    <2>1. Locks(q)
      BY <1>1, <1>2, <1>7, <1>8 DEF Locks
    <2>2. \A r \in Requests \ {q} : Rests(r)
      BY <1>2, <1>8 DEF Rests, tables
    <2> QED
      BY <2>1, <2>2 DEF OneMoves, Moves
  <1>10. changes' \in 0..MaxChanges /\ faults' \in 0..MaxFaults
    BY <1>1, <1>2 DEF TypeOK
  <1> QED
    BY <1>2, <1>8, <1>9, <1>10, TablesUntouched

-----------------------------------------------------------------------------
(* Changes of users *)

\* What guard_user makes of a change: the row is as it was, or the next
\* version of it; nobody is enabled by it.
UserChanged(u) ==
  \E row \in User :
    /\ user' = [user EXCEPT ![u] = row]
    /\ row.enabled => user[u].enabled
    /\ \/ row = user[u] /\ outdated' = outdated
       \/ row.version = user[u].version + 1 /\ outdated' = outdated \cup SessionsOf(u)

LEMMA GuardedChange ==
  ASSUME TypeOK, NEW u \in Users, NEW new \in User, NEW rehashed \in BOOLEAN,
         UpdateUser(u, new, rehashed), new.version = user[u].version,
         new.enabled => user[u].enabled, ~rehashed => new.password = user[u].password
  PROVE  UserChanged(u) /\ changes' \in 0..MaxChanges
  <1> DEFINE old == user[u]
             next == [new EXCEPT !.version = old.version + 1]
  <1>1. old \in User /\ old.version + 1 \in Nat
    BY DEF TypeOK, User
  <1>2. changes' \in 0..MaxChanges
    BY AuthSessionAssumption DEF TypeOK, UpdateUser
  <1>3. next \in User /\ next.version = old.version + 1 /\ next.enabled = new.enabled
    BY <1>1 DEF User
  <1> HIDE DEF next
  <1>4. CASE rehashed \/ new.role # old.role \/ new.enabled # old.enabled
    <2>1. Guarded(user[u], new, rehashed) = next
      BY <1>4 DEF Guarded, next
    <2>2. rehashed \/ new # user[u]
      BY <1>4
    <2>3. user' = [user EXCEPT ![u] = next] /\ outdated' = outdated \cup SessionsOf(u)
      BY <2>1, <2>2 DEF UpdateUser
    <2> QED
      BY <1>2, <1>3, <2>3 DEF UserChanged
  <1>5. CASE ~(rehashed \/ new.role # old.role \/ new.enabled # old.enabled)
    <2>1. Guarded(user[u], new, rehashed) = new
      BY <1>5 DEF Guarded
    <2>2. new = user[u]
      BY <1>1, <1>5 DEF User
    <2>3. user' = [user EXCEPT ![u] = new] /\ outdated' = outdated
      BY <1>5, <2>1, <2>2 DEF UpdateUser
    <2> QED
      BY <1>1, <1>2, <2>2, <2>3 DEF UserChanged
  <1> QED
    BY <1>4, <1>5

LEMMA EditedUser ==
  ASSUME NEW x \in User, NEW role \in Roles, NEW p \in Passwords
  PROVE  /\ [x EXCEPT !.role = role] \in User
         /\ [x EXCEPT !.role = role].version = x.version
         /\ [x EXCEPT !.role = role].enabled = x.enabled
         /\ [x EXCEPT !.role = role].password = x.password
         /\ [x EXCEPT !.enabled = FALSE] \in User
         /\ [x EXCEPT !.enabled = FALSE].version = x.version
         /\ [x EXCEPT !.enabled = FALSE].enabled = FALSE
         /\ [x EXCEPT !.enabled = FALSE].password = x.password
         /\ [x EXCEPT !.password = p] \in User
         /\ [x EXCEPT !.password = p].version = x.version
         /\ [x EXCEPT !.password = p].enabled = x.enabled
  BY DEF User

\* A change of a user takes the older sessions out of use.
LEMMA UserTables ==
  ASSUME TypeOK, TypeOK', TableInv, NEW u \in Users, UserChanged(u), UNCHANGED <<session, token>>
  PROVE  TableInv' /\ RowsKept /\ OnlyFor(u)
  <1> USE DEF TableInv
  <1>1. PICK row \in User :
          /\ user' = [user EXCEPT ![u] = row]
          /\ row.enabled => user[u].enabled
          /\ \/ row = user[u] /\ outdated' = outdated
             \/ row.version = user[u].version + 1 /\ outdated' = outdated \cup SessionsOf(u)
    BY DEF UserChanged
  <1>2. /\ user \in [Users -> User] /\ user'[u] = row
        /\ \A v \in Users \ {u} : user'[v] = user[v]
        /\ \A v \in Users : user[v].version \in Nat /\ user'[v].version \in Nat
    BY <1>1 DEF TypeOK, User
  <1>3. \A v \in Users : /\ user[v].version <= user'[v].version
                         /\ user'[v] = user[v] \/ user[v].version < user'[v].version
                         /\ user'[v].enabled => user[v].enabled
    BY <1>1, <1>2
  <1>4. \A s \in Sessions : session[s] # None =>
          /\ session[s].user \in Users /\ session[s].version \in Nat
          /\ session[s].version <= user[session[s].user].version
    BY DEF TypeOK, Session, VersionsBounded
  <1>5. RowsKept
    BY <1>3 DEF RowsKept
  <1>6. OnlyFor(u)
    BY <1>2 DEF OnlyFor
  <1>7. TokensRooted' /\ Chained'
    BY DEF TokensRooted, Chained, SessionOf
  <1>8. VersionsBounded'
    BY <1>2, <1>3, <1>4 DEF VersionsBounded
  <1>9. LiveSessionsMatchUser'
    <2> SUFFICES ASSUME NEW s \in Sessions, session[s] # None,
                        session[s].version = user'[session[s].user].version
                 PROVE  /\ user'[session[s].user].enabled
                        /\ session[s].password = user'[session[s].user].password
                        /\ session[s].role = user'[session[s].user].role
      BY DEF LiveSessionsMatchUser
    <2>1. user'[session[s].user] = user[session[s].user]
      BY <1>2, <1>3, <1>4
    <2> QED
      BY <2>1 DEF LiveSessionsMatchUser
  <1>10. OutdatedBehind'
    <2> SUFFICES ASSUME NEW s \in outdated'
                 PROVE  session[s] # None /\ session[s].version < user'[session[s].user].version
      BY DEF OutdatedBehind
    <2>1. CASE s \in outdated
      <3>1. /\ s \in Sessions /\ session[s] # None
            /\ session[s].version < user[session[s].user].version
        BY <2>1 DEF OutdatedBehind, TypeOK
      <3> QED
        BY <1>2, <1>3, <1>4, <3>1
    <2>2. CASE s \notin outdated
      <3>1. s \in SessionsOf(u) /\ row.version = user[u].version + 1
        BY <1>1, <2>2
      <3>2. s \in Sessions /\ session[s] # None /\ session[s].user = u
        BY <3>1 DEF SessionsOf
      <3> QED
        BY <1>2, <1>4, <3>1, <3>2
    <2> QED
      BY <2>1, <2>2
  <1> QED
    BY <1>5, <1>6, <1>7, <1>8, <1>9, <1>10

LEMMA UserStepTyped ==
  ASSUME TypeOK, NEW u \in Users, UserChanged(u), UNCHANGED <<session, token>>,
         changes' \in 0..MaxChanges, faults' \in 0..MaxFaults, req' \in [Requests -> Handler]
  PROVE  TypeOK'
  BY DEF TypeOK, UserChanged, SessionsOf

\* Staff administration waits for the lock, so nobody under it is disturbed.
LEMMA AdminStep ==
  ASSUME SessionInv, NEW u \in Users,
         \/ \E role \in Roles : UpdateUserRole(u, role)
         \/ DisableUser(u)
         \/ \E p \in Passwords : SetUserPassword(u, p)
  PROVE  SessionInv'
  <1>1. TypeOK /\ user[u] \in User
    BY DEF SessionInv, TypeOK
  <1>2. ~UserLocked(u) /\ UNCHANGED <<session, token, req, faults>>
    BY DEF UpdateUserRole, DisableUser, SetUserPassword
  <1>3. UserChanged(u) /\ changes' \in 0..MaxChanges
    <2>1. ASSUME NEW role \in Roles, UpdateUserRole(u, role)
          PROVE  UserChanged(u) /\ changes' \in 0..MaxChanges
      <3> DEFINE new == [user[u] EXCEPT !.role = role]
      <3>1. /\ new \in User /\ new.version = user[u].version /\ new.enabled = user[u].enabled
            /\ new.password = user[u].password
        BY <1>1, AuthSessionAssumption, EditedUser
      <3>2. UpdateUser(u, new, FALSE)
        BY <2>1 DEF UpdateUserRole
      <3> HIDE DEF new
      <3> QED
        BY <1>1, <3>1, <3>2, GuardedChange
    <2>2. ASSUME DisableUser(u) PROVE UserChanged(u) /\ changes' \in 0..MaxChanges
      <3> DEFINE new == [user[u] EXCEPT !.enabled = FALSE]
      <3>1. /\ new \in User /\ new.version = user[u].version /\ new.enabled = FALSE
            /\ new.password = user[u].password
        BY <1>1, AuthSessionAssumption, EditedUser
      <3>2. UpdateUser(u, new, FALSE)
        BY <2>2 DEF DisableUser
      <3> HIDE DEF new
      <3> QED
        BY <1>1, <3>1, <3>2, GuardedChange
    <2>3. ASSUME NEW p \in Passwords, SetUserPassword(u, p)
          PROVE  UserChanged(u) /\ changes' \in 0..MaxChanges
      <3> DEFINE new == [user[u] EXCEPT !.password = p]
      <3>1. new \in User /\ new.version = user[u].version /\ new.enabled = user[u].enabled
        BY <1>1, AuthSessionAssumption, EditedUser
      <3>2. UpdateUser(u, new, TRUE)
        BY <2>3 DEF SetUserPassword
      <3> HIDE DEF new
      <3> QED
        BY <1>1, <3>1, <3>2, GuardedChange
    <2> QED
      BY <2>1, <2>2, <2>3
  <1>4. TypeOK'
    BY <1>1, <1>2, <1>3, UserStepTyped DEF TypeOK
  <1>5. TableInv' /\ RowsKept /\ OnlyFor(u)
    BY <1>1, <1>2, <1>3, <1>4, UserTables DEF SessionInv
  <1>6. OneMoves
    <2>1. \A r \in Requests : Rests(r)
      BY <1>2, <1>5, OthersRest DEF UserLocked
    <2> QED
      BY <2>1 DEF OneMoves
  <1> QED
    BY <1>1, <1>4, <1>5, <1>6, HandlersStep DEF SessionInv, TableInv

LEMMA ChangePasswordStep ==
  ASSUME SessionInv, NEW q \in Requests, NEW p \in Passwords, ChangePassword(q, p)
  PROVE  SessionInv'
  <1> DEFINE u == req[q].user
             new == [user[u] EXCEPT !.password = p]
  <1>1. TypeOK /\ req[q].pc = "locked" /\ UNCHANGED <<session, token, faults>>
    BY DEF SessionInv, ChangePassword
  <1>2. u \in Users
    BY <1>1 DEF SessionInv, HandlerInv, HandlersAsked, Asked
  <1>3. user[u] \in User
    BY <1>1, <1>2 DEF TypeOK
  <1>4. new \in User /\ new.version = user[u].version /\ new.enabled = user[u].enabled
    BY <1>3, AuthSessionAssumption, EditedUser
  <1>5. UpdateUser(u, new, TRUE) /\ Answer(q, "changed")
    BY DEF ChangePassword
  <1> HIDE DEF new
  <1>6. UserChanged(u) /\ changes' \in 0..MaxChanges
    BY <1>1, <1>2, <1>4, <1>5, GuardedChange
  <1>7. "changed" \in Answers
    BY DEF Answers
  <1>8. TypeOK'
    <2>1. req' \in [Requests -> Handler]
      BY <1>1, <1>5, <1>7, AnsweredHandler
    <2> QED
      BY <1>1, <1>2, <1>6, <2>1, UserStepTyped DEF TypeOK
  <1>9. TableInv' /\ RowsKept /\ OnlyFor(u)
    BY <1>1, <1>2, <1>6, <1>8, UserTables DEF SessionInv
  <1>10. OneMoves
    BY <1>1, <1>5, <1>7, <1>9, EndingMoves
  <1> QED
    BY <1>1, <1>8, <1>9, <1>10, HandlersStep DEF SessionInv, TableInv

-----------------------------------------------------------------------------
(* Sessions and tokens *)

\* Sessions are marked revoked or expired, and are the same otherwise.
Marked ==
  \A s \in Sessions :
    /\ session[s] = None => session'[s] = None
    /\ session[s] # None =>
         /\ session'[s] # None
         /\ session'[s].user = session[s].user /\ session'[s].version = session[s].version
         /\ session'[s].password = session[s].password /\ session'[s].role = session[s].role
         /\ session[s].revoked => session'[s].revoked
         /\ session[s].expired => session'[s].expired

LEMMA MarkedTables ==
  ASSUME TypeOK, TableInv, Marked, UNCHANGED <<user, token, outdated>>
  PROVE  TableInv' /\ RowsKept
  <1> USE DEF TableInv
  <1>1. RowsKept
    BY DEF RowsKept, Marked, TypeOK, User
  <1>2. \A t \in Tokens : token[t] # None => SessionOf(t) \in Sessions
    BY DEF TypeOK, Token, SessionOf
  <1>3. TokensRooted'
    BY <1>2 DEF TokensRooted, SessionOf, Marked
  <1>4. Chained'
    BY DEF Chained, SessionOf
  <1>5. VersionsBounded' /\ LiveSessionsMatchUser'
    BY DEF VersionsBounded, LiveSessionsMatchUser, Marked
  <1>6. OutdatedBehind'
    BY DEF OutdatedBehind, Marked, TypeOK
  <1> QED
    BY <1>1, <1>3, <1>4, <1>5, <1>6

LEMMA MarkOne ==
  ASSUME TypeOK, NEW s \in Sessions, session[s] # None,
         \/ session' = [session EXCEPT ![s].revoked = TRUE]
         \/ session' = [session EXCEPT ![s].expired = TRUE]
  PROVE  /\ Marked /\ session' \in [Sessions -> Session \cup {None}]
         /\ \A x \in Sessions \ {s} : session'[x] = session[x]
         /\ session' = [session EXCEPT ![s].revoked = TRUE] => session'[s].revoked
         /\ session' = [session EXCEPT ![s].expired = TRUE]
              => session'[s].revoked = session[s].revoked
  <1> DEFINE x == session[s]
             a == [x EXCEPT !.revoked = TRUE]
             b == [x EXCEPT !.expired = TRUE]
  <1>1. session \in [Sessions -> Session \cup {None}] /\ x \in Session
    BY DEF TypeOK
  <1>2. /\ a \in Session /\ a.user = x.user /\ a.version = x.version /\ a.password = x.password
        /\ a.role = x.role /\ a.revoked = TRUE /\ a.expired = x.expired
        /\ b \in Session /\ b.user = x.user /\ b.version = x.version /\ b.password = x.password
        /\ b.role = x.role /\ b.revoked = x.revoked /\ b.expired = TRUE
    <2> HIDE DEF x
    <2> QED
      BY <1>1 DEF Session
  <1>3. /\ session' = [session EXCEPT ![s].revoked = TRUE] => session' = [session EXCEPT ![s] = a]
        /\ session' = [session EXCEPT ![s].expired = TRUE] => session' = [session EXCEPT ![s] = b]
    OBVIOUS
  <1> HIDE DEF a, b
  <1>4. a # None /\ b # None
    BY <1>2, AbsentAssumption
  <1>5. session'[s] \in {a, b} /\ \A y \in Sessions \ {s} : session'[y] = session[y]
    BY <1>1, <1>3
  <1>6. Marked
    BY <1>2, <1>4, <1>5 DEF Marked
  <1>7. session' \in [Sessions -> Session \cup {None}]
    BY <1>1, <1>2, <1>3
  <1> QED
    BY <1>1, <1>2, <1>3, <1>5, <1>6, <1>7

LEMMA ExpiryStep ==
  ASSUME SessionInv, NEW s \in Sessions, SessionExpires(s)
  PROVE  SessionInv'
  <1>1. TypeOK /\ TableInv /\ UNCHANGED <<user, token, req, outdated, changes, faults>>
    BY DEF SessionInv, SessionExpires
  <1>2. /\ Marked /\ session' \in [Sessions -> Session \cup {None}]
        /\ \A x \in Sessions \ {s} : session'[x] = session[x]
        /\ session'[s].revoked = session[s].revoked
    BY <1>1, MarkOne DEF SessionExpires
  <1>3. TypeOK'
    BY <1>1, <1>2 DEF TypeOK
  <1>4. TableInv' /\ RowsKept
    BY <1>1, <1>2, MarkedTables
  <1>5. OnlyFor(None) /\ OneMoves
    <2>1. \A x \in Sessions : session'[x].revoked = session[x].revoked
      BY <1>2
    <2>2. ASSUME NEW r \in Requests PROVE Rests(r)
      <3>1. ASSUME req[r].pc = "locked", req[r].token # None
            PROVE  SessionOf(req[r].token) \in Sessions
        <4>1. req[r].kind \in WithToken
          BY <3>1 DEF SessionInv, HandlerInv, HandlersAsked, Asked
        <4> QED
          BY <1>1, <3>1, <4>1, AskedToken DEF SessionInv, TableInv, HandlerInv
      <3> QED
        BY <1>1, <2>1, <3>1 DEF Rests
    <2> QED
      BY <1>1, <2>1, <2>2 DEF OneMoves, OnlyFor
  <1> QED
    BY <1>1, <1>3, <1>4, <1>5, HandlersStep DEF SessionInv, TableInv

\* What the commits of handlers do to the tables (Outcome), for a handler's
\* own user only.
LEMMA RevokeTables ==
  ASSUME SessionInv, NEW q \in Requests, RefuseRefresh(q) \/ CloseSession(q), outdated' = outdated
  PROVE  /\ TableInv' /\ RowsKept /\ OnlyFor(req[q].user)
         /\ session' \in [Sessions -> Session \cup {None}] /\ UNCHANGED <<user, token>>
         /\ RefuseRefresh(q) /\ req[q].used => session'[SessionOf(req[q].token)].revoked
  <1> DEFINE s == SessionOf(req[q].token)
  <1>1. TypeOK /\ TableInv /\ HandlerInv /\ UNCHANGED <<user, token>>
    BY DEF SessionInv, RefuseRefresh, CloseSession
  <1>2. req[q].pc = "locked" /\ req[q].kind \in WithToken
    BY DEF RefuseRefresh, CloseSession, WithToken
  <1>3. s \in Sessions /\ session[s] # None /\ session[s].user = req[q].user /\ req[q].token # None
    BY <1>1, <1>2, AskedToken DEF TableInv, HandlerInv
  <1>4. req[q].ended = session[s].revoked
    BY <1>1, <1>2, <1>3 DEF HandlerInv, ReadsCurrent
  <1>5. CASE session' = session
    <2>1. Marked
      BY <1>5 DEF Marked
    <2>2. OnlyFor(req[q].user)
      BY <1>1, <1>5 DEF OnlyFor
    <2>3. RefuseRefresh(q) /\ req[q].used => session'[s].revoked
      <3>1. CASE RefuseRefresh(q) /\ req[q].used /\ ~req[q].ended
        <4>1. session' = [session EXCEPT ![s].revoked = TRUE]
          BY <3>1 DEF RefuseRefresh
        <4> QED
          BY <1>1, <1>3, <4>1, MarkOne
      <3> QED
        BY <1>4, <1>5, <3>1
    <2>4. session' \in [Sessions -> Session \cup {None}]
      BY <1>1, <1>5 DEF TypeOK
    <2> QED
      BY <1>1, <2>1, <2>2, <2>3, <2>4, MarkedTables
  <1>6. CASE session' = [session EXCEPT ![s].revoked = TRUE]
    <2>1. /\ Marked /\ session' \in [Sessions -> Session \cup {None}]
          /\ \A x \in Sessions \ {s} : session'[x] = session[x]
          /\ session'[s].revoked
      BY <1>1, <1>3, <1>6, MarkOne
    <2>2. OnlyFor(req[q].user)
      BY <1>1, <1>3, <2>1 DEF OnlyFor
    <2> QED
      BY <1>1, <2>1, <2>2, MarkedTables
  <1> QED
    BY <1>5, <1>6 DEF RefuseRefresh, CloseSession

\* A new session has the version, password and role that its user has.
LEMMA OpenTables ==
  ASSUME SessionInv, NEW q \in Requests, OpenSession(q), UNCHANGED user, outdated' = outdated
  PROVE  /\ TableInv' /\ RowsKept /\ OnlyFor(req[q].user)
         /\ session' \in [Sessions -> Session \cup {None}]
         /\ token' \in [Tokens -> Token \cup {None}]
  <1> DEFINE new == [user |-> req[q].user, version |-> req[q].seen.version, revoked |-> FALSE,
                     expired |-> FALSE, password |-> req[q].seen.password,
                     role |-> req[q].seen.role]
             first(s) == [session |-> s, parent |-> None, consumed |-> FALSE]
  <1>1. TypeOK /\ TableInv /\ HandlerInv /\ req[q].pc = "locked" /\ req[q].seen.enabled
    BY DEF SessionInv, OpenSession
  <1>2. PICK s \in Sessions, t \in Tokens :
          /\ session[s] = None /\ token[t] = None
          /\ session' = [session EXCEPT ![s] = new]
          /\ token' = [token EXCEPT ![t] = first(s)]
    BY DEF OpenSession
  <1>3. /\ req[q].user \in Users /\ req[q].seen = user[req[q].user] /\ req[q].seen \in User
    BY <1>1 DEF HandlerInv, HandlersAsked, Asked, ReadsCurrent, TypeOK
  <1>4. /\ new \in Session /\ new.user = req[q].user /\ new.version = req[q].seen.version
        /\ new.password = req[q].seen.password /\ new.role = req[q].seen.role
    BY <1>3 DEF Session, User
  <1>5. first(s) \in Token /\ first(s).session = s /\ first(s).parent = None
    BY DEF Token
  <1>6. new # None /\ first(s) # None
    BY <1>4, <1>5, AbsentAssumption
  <1> HIDE DEF new, first
  <1>7. /\ session' \in [Sessions -> Session \cup {None}] /\ session'[s] = new
        /\ \A x \in Sessions \ {s} : session'[x] = session[x]
        /\ token' \in [Tokens -> Token \cup {None}] /\ token'[t] = first(s)
        /\ \A y \in Tokens \ {t} : token'[y] = token[y]
    BY <1>1, <1>2, <1>4, <1>5 DEF TypeOK
  <1>8. RowsKept
    BY <1>1, <1>2, <1>7 DEF RowsKept, TypeOK, User
  <1>9. OnlyFor(req[q].user)
    BY <1>2, <1>7 DEF OnlyFor
  <1>10. \A y \in Tokens : token[y] # None => SessionOf(y) \in Sessions /\ SessionOf(y) # s
    BY <1>1, <1>2 DEF TableInv, TokensRooted, SessionOf, TypeOK, Token
  <1>11. TokensRooted'
    BY <1>1, <1>5, <1>6, <1>7, <1>10 DEF TableInv, TokensRooted, SessionOf
  <1>12. Chained'
    BY <1>1, <1>5, <1>7, <1>10 DEF TableInv, Chained, SessionOf
  <1>13. VersionsBounded'
    BY <1>1, <1>3, <1>4, <1>7 DEF TableInv, VersionsBounded, User
  <1>14. OutdatedBehind'
    BY <1>1, <1>2, <1>7 DEF TableInv, OutdatedBehind, TypeOK
  <1>15. LiveSessionsMatchUser'
    BY <1>1, <1>3, <1>4, <1>7 DEF TableInv, LiveSessionsMatchUser
  <1> QED
    BY <1>7, <1>8, <1>9, <1>11, <1>12, <1>13, <1>14, <1>15 DEF TableInv

\* The presented token is consumed; its successor is the only one not consumed.
LEMMA RotateTables ==
  ASSUME SessionInv, NEW q \in Requests, Rotate(q), outdated' = outdated
  PROVE  /\ TableInv' /\ RowsKept /\ OnlyFor(req[q].user)
         /\ token' \in [Tokens -> Token \cup {None}]
         /\ token'[req[q].token].consumed
  <1> DEFINE t == req[q].token
             s == SessionOf(t)
             old == token[t]
             spent == [old EXCEPT !.consumed = TRUE]
             next == [session |-> s, parent |-> t, consumed |-> FALSE]
  <1>1. /\ TypeOK /\ TableInv /\ HandlerInv /\ Refreshable(q) /\ InsertAllowed(t)
        /\ UNCHANGED <<user, session>>
    BY DEF SessionInv, Rotate
  <1>2. req[q].pc = "locked" /\ req[q].kind \in WithToken
    BY <1>1 DEF Refreshable, WithToken
  <1>3. /\ t \in Tokens /\ token[t] # None /\ token[t] \in Token /\ t # None
        /\ s \in Sessions /\ session[s] # None /\ session[s].user = req[q].user
    BY <1>1, <1>2, AskedToken DEF TableInv, HandlerInv
  <1>4. ~token[t].consumed
    BY <1>1, <1>2, <1>3 DEF HandlerInv, ReadsCurrent, Refreshable
  <1>5. PICK x \in Tokens :
          /\ token[x] = None
          /\ token' = [token EXCEPT ![t].consumed = TRUE, ![x] = next]
    BY DEF Rotate
  <1>6. /\ spent \in Token /\ spent.session = s /\ spent.parent = token[t].parent
        /\ spent.consumed = TRUE
    <2>1. old \in Token /\ old.session = s
      BY <1>3 DEF SessionOf
    <2> HIDE DEF old
    <2> QED
      BY <2>1 DEF Token, old
  <1>7. next \in Token /\ next.session = s /\ next.parent = t /\ next.consumed = FALSE
    BY <1>3 DEF Token
  <1>8. x # t /\ token' = [token EXCEPT ![t] = spent, ![x] = next]
    BY <1>3, <1>5
  <1> HIDE DEF spent, next
  <1>9. /\ token' \in [Tokens -> Token \cup {None}] /\ token'[t] = spent /\ token'[x] = next
        /\ \A y \in Tokens \ {t, x} : token'[y] = token[y]
    BY <1>1, <1>3, <1>6, <1>7, <1>8 DEF TypeOK
  <1>10. spent # None /\ next # None
    BY <1>6, <1>7, AbsentAssumption
  <1>11. RowsKept
    <2>1. \A y \in Tokens : token[y] # None =>
            /\ token'[y] # None /\ token'[y].session = token[y].session
            /\ token[y].consumed => token'[y].consumed
      BY <1>5, <1>6, <1>9, <1>10 DEF SessionOf
    <2> QED
      BY <1>1, <2>1 DEF RowsKept, TypeOK, User
  <1>12. OnlyFor(req[q].user)
    <2>1. ASSUME NEW y \in Tokens, token[y] # None, session[SessionOf(y)].user # req[q].user
          PROVE  token'[y] = token[y]
      BY <1>3, <1>5, <1>9, <2>1
    <2> QED
      BY <1>1, <2>1 DEF OnlyFor
  <1>13. TokensRooted'
    BY <1>1, <1>3, <1>6, <1>7, <1>9 DEF TableInv, TokensRooted, SessionOf
  <1>14. \A y \in Tokens \ {t, x} : token[y] # None /\ token[y].session = s
           => token[y].consumed /\ token[y].parent # t /\ token[y].parent # token[t].parent
    BY <1>1, <1>3, <1>4 DEF TableInv, Chained, InsertAllowed, SessionOf
  <1>15. token[t].parent # t
    BY <1>1, <1>3 DEF InsertAllowed
  <1>16. Chained'
    <2> SUFFICES ASSUME NEW y \in Tokens, NEW z \in Tokens, y # z, token'[y] # None,
                        token'[z] # None, token'[y].session = token'[z].session
                 PROVE  /\ token'[y].consumed \/ token'[z].consumed
                        /\ token'[y].parent # token'[z].parent
      BY DEF Chained, SessionOf
    <2>1. CASE y \notin {t, x} /\ z \notin {t, x}
      BY <1>1, <1>9, <2>1 DEF TableInv, Chained, SessionOf
    <2>2. CASE y \in {t, x} /\ z \in {t, x}
      BY <1>6, <1>7, <1>9, <1>15, <2>2
    <2>3. CASE y \in {t, x} /\ z \notin {t, x}
      BY <1>6, <1>7, <1>9, <1>14, <2>3
    <2>4. CASE y \notin {t, x} /\ z \in {t, x}
      BY <1>6, <1>7, <1>9, <1>14, <2>4
    <2> QED
      BY <2>1, <2>2, <2>3, <2>4
  <1>17. VersionsBounded' /\ OutdatedBehind' /\ LiveSessionsMatchUser'
    BY <1>1 DEF TableInv, VersionsBounded, OutdatedBehind, LiveSessionsMatchUser
  <1> QED
    BY <1>6, <1>9, <1>11, <1>12, <1>13, <1>16, <1>17 DEF TableInv

\* A commit, acknowledged or not.
LEMMA CommitStep ==
  ASSUME SessionInv, NEW q \in Requests, Commit(q) \/ CommitUnacknowledged(q)
  PROVE  SessionInv'
  <1>1. TypeOK /\ UNCHANGED <<outdated, changes>> /\ faults' \in 0..MaxFaults
    BY FaultCounted DEF SessionInv, TypeOK, Commit, CommitUnacknowledged
  <1>2. PICK a \in {"logged_in", "rotated", "refused", "logged_out"} :
          Outcome(q, a) /\ (Answer(q, a) \/ Answer(q, "failed"))
    BY DEF Commit, CommitUnacknowledged
  <1>3. a \in Answers /\ "failed" \in Answers
    BY DEF Answers
  <1>4. /\ req[q].pc = "locked"
        /\ UNCHANGED user
        /\ TableInv' /\ RowsKept /\ OnlyFor(req[q].user)
        /\ session' \in [Sessions -> Session \cup {None}]
        /\ token' \in [Tokens -> Token \cup {None}]
        /\ a = "rotated" => Refreshable(q) /\ token'[req[q].token].consumed
        /\ a = "refused" => ~Refreshable(q)
                            /\ (req[q].used => session'[SessionOf(req[q].token)].revoked)
    <2>0. session \in [Sessions -> Session \cup {None}] /\ token \in [Tokens -> Token \cup {None}]
      BY <1>1 DEF TypeOK
    <2>1. CASE a = "logged_in" /\ OpenSession(q) /\ UNCHANGED user
      BY <1>1, <2>1, OpenTables DEF OpenSession
    <2>2. CASE a = "rotated" /\ Rotate(q)
      BY <1>1, <2>0, <2>2, RotateTables DEF Rotate, Refreshable
    <2>3. CASE a = "refused" /\ RefuseRefresh(q)
      BY <1>1, <2>0, <2>3, RevokeTables DEF RefuseRefresh
    <2>4. CASE a = "logged_out" /\ CloseSession(q)
      BY <1>1, <2>0, <2>4, RevokeTables DEF CloseSession
    <2> QED
      BY <1>2, <2>1, <2>2, <2>3, <2>4 DEF Outcome
  <1>5. OneMoves /\ req' \in [Requests -> Handler]
    <2>1. CASE Answer(q, a)
      BY <1>3, <1>4, <2>1, EndingMoves
    <2>2. CASE Answer(q, "failed")
      BY <1>3, <1>4, <2>2, EndingMoves
    <2> QED
      BY <1>2, <2>1, <2>2
  <1>6. TypeOK'
    BY <1>1, <1>4, <1>5 DEF TypeOK
  <1> QED
    BY <1>1, <1>4, <1>5, <1>6, HandlersStep DEF SessionInv, TableInv

LEMMA NextSessionInv == SessionInv /\ [Next]_vars => SessionInv'
  <1> SUFFICES ASSUME SessionInv, [Next]_vars PROVE SessionInv'
    OBVIOUS
  <1>1. ASSUME UNCHANGED vars PROVE SessionInv'
    <2>1. UNCHANGED <<tables, outdated, req, changes, faults>>
      BY <1>1 DEF vars
    <2>2. req' \in [Requests -> Handler] /\ changes' \in 0..MaxChanges /\ faults' \in 0..MaxFaults
      BY <2>1 DEF SessionInv, TypeOK
    <2>3. OneMoves
      BY <2>1 DEF OneMoves, Rests, tables
    <2> QED
      BY <2>1, <2>2, <2>3, TablesUntouched
  <1> QED
    BY <1>1, AdminStep, ExpiryStep, StartStep, LockStep, GiveUpStep, CommitStep,
       ChangePasswordStep DEF Next

-----------------------------------------------------------------------------
(* Theorems *)

\* User, session and token rows and the handlers keep their types, and what a
\* handler reads under the user's lock stays true until it commits.
THEOREM SessionInvariant == Spec => []SessionInv
  BY InitSessionInv, NextSessionInv, PTL DEF Spec

\* A session that matches its user has the user's password and role.
THEOREM LiveSessions == Spec => []LiveSessionsMatchUser
  <1>1. SessionInv => LiveSessionsMatchUser
    BY DEF SessionInv, TableInv
  <1> QED
    BY <1>1, SessionInvariant, PTL

\* A family of refresh tokens is a chain, and reuse revokes it.
THEOREM Families == Spec => []FamilyIsChain
  <1>1. SessionInv => FamilyIsChain
    BY ChainHalves DEF SessionInv, TableInv, HandlerInv
  <1> QED
    BY <1>1, SessionInvariant, PTL

\* Only an unused session gets its first token, and only a session that its
\* user's lock shows to be neither revoked nor outdated gets another one.
LEMMA DeadStep ==
  ASSUME SessionInv, [Next]_vars, NEW s \in Sessions, session[s] # None
  PROVE  /\ session[s].revoked => session'[s].revoked
         /\ (session[s].revoked \/ s \in outdated)
            => \A t \in Tokens : token[t] = None /\ token'[t] # None => token'[t].session # s
  <1>1. TypeOK
    BY DEF SessionInv
  <1>2. CASE UNCHANGED <<session, token>>
    BY <1>2
  <1>3. ASSUME NEW x \in Sessions, SessionExpires(x)
        PROVE  UNCHANGED token /\ (session[s].revoked => session'[s].revoked)
    BY <1>1, <1>3, MarkOne DEF SessionExpires, Marked
  <1>4. ASSUME NEW q \in Requests, OpenSession(q), UNCHANGED user, outdated' = outdated
        PROVE  /\ session[s].revoked => session'[s].revoked
               /\ \A t \in Tokens : token[t] = None /\ token'[t] # None => token'[t].session # s
    <2>1. session[s].revoked => session'[s].revoked
      BY <1>4, OpenTables DEF RowsKept
    <2>2. \A t \in Tokens : token[t] = None /\ token'[t] # None => token'[t].session # s
      <3>1. PICK x \in Sessions, y \in Tokens :
              /\ session[x] = None
              /\ token' = [token EXCEPT ![y] = [session |-> x, parent |-> None,
                                                consumed |-> FALSE]]
        BY <1>4 DEF OpenSession
      <3> QED
        BY <1>1, <3>1 DEF TypeOK
    <2> QED
      BY <2>1, <2>2
  <1>5. ASSUME NEW q \in Requests, Rotate(q)
        PROVE  /\ UNCHANGED session
               /\ (session[s].revoked \/ s \in outdated)
                  => \A t \in Tokens : token[t] = None /\ token'[t] # None => token'[t].session # s
    <2> DEFINE t == req[q].token
    <2>1. Refreshable(q) /\ UNCHANGED session
      BY <1>5 DEF Rotate
    <2>2. req[q].pc = "locked" /\ req[q].kind \in WithToken
      BY <2>1 DEF Refreshable, WithToken
    <2>3. /\ t \in Tokens /\ token[t] # None /\ t # None /\ SessionOf(t) \in Sessions
          /\ session[SessionOf(t)].user = req[q].user
      BY <2>2, AskedToken DEF SessionInv, TableInv, HandlerInv
    <2>4. ~session[SessionOf(t)].revoked /\ SessionOf(t) \notin outdated
      <3>1. req[q].ended = session[SessionOf(t)].revoked /\ req[q].seen = user[req[q].user]
        BY <2>2, <2>3 DEF SessionInv, HandlerInv, ReadsCurrent
      <3>2. session[SessionOf(t)].version = user[session[SessionOf(t)].user].version
        BY <2>1, <2>3, <3>1 DEF Refreshable
      <3>3. SessionOf(t) \in outdated
              => session[SessionOf(t)].version < user[session[SessionOf(t)].user].version
        BY DEF SessionInv, TableInv, OutdatedBehind
      <3>4. user[req[q].user].version \in Nat
        BY <1>1, <2>2 DEF SessionInv, HandlerInv, HandlersAsked, Asked, TypeOK, User
      <3> QED
        BY <2>1, <2>3, <3>1, <3>2, <3>3, <3>4 DEF Refreshable
    <2>5. PICK x \in Tokens :
            /\ token[x] = None
            /\ token' = [token EXCEPT ![t].consumed = TRUE,
                                      ![x] = [session |-> SessionOf(t), parent |-> t,
                                              consumed |-> FALSE]]
      BY <1>5 DEF Rotate
    <2>6. \A y \in Tokens : token[y] = None /\ token'[y] # None => y = x
      BY <1>1, <2>3, <2>5 DEF TypeOK
    <2>7. token'[x].session = SessionOf(t)
      BY <1>1, <2>3, <2>5 DEF TypeOK
    <2> QED
      BY <2>1, <2>4, <2>6, <2>7
  <1>6. ASSUME NEW q \in Requests, RefuseRefresh(q) \/ CloseSession(q), outdated' = outdated
        PROVE  UNCHANGED token /\ (session[s].revoked => session'[s].revoked)
    BY <1>6, RevokeTables DEF RowsKept
  <1>7. ASSUME NEW q \in Requests, NEW a, Outcome(q, a), outdated' = outdated
        PROVE  /\ session[s].revoked => session'[s].revoked
               /\ (session[s].revoked \/ s \in outdated)
                  => \A t \in Tokens : token[t] = None /\ token'[t] # None => token'[t].session # s
    BY <1>4, <1>5, <1>6, <1>7 DEF Outcome
  <1>8. ASSUME NEW q \in Requests, Commit(q) \/ CommitUnacknowledged(q)
        PROVE  \E a : Outcome(q, a) /\ outdated' = outdated
    BY <1>8 DEF Commit, CommitUnacknowledged
  <1>9. ASSUME NEW u \in Users,
               \/ \E role \in Roles : UpdateUserRole(u, role)
               \/ DisableUser(u)
               \/ \E p \in Passwords : SetUserPassword(u, p)
        PROVE  UNCHANGED <<session, token>>
    BY <1>9 DEF UpdateUserRole, DisableUser, SetUserPassword
  <1>10. ASSUME NEW q \in Requests,
                \/ \E u \in Users, p \in Passwords :
                     StartLogin(q, u, p) \/ StartChangePassword(q, u, p)
                \/ \E kind \in Kinds, t \in Tokens : LookupRefresh(q, kind, t)
                \/ LockAndRead(q) \/ RefuseLogin(q) \/ RefuseChange(q) \/ TransactionFails(q)
                \/ \E p \in Passwords : ChangePassword(q, p)
         PROVE  UNCHANGED <<session, token>>
    BY <1>10 DEF StartLogin, StartChangePassword, LookupRefresh, LockAndRead, RefuseLogin,
       RefuseChange, TransactionFails, ChangePassword, tables
  <1>11. UNCHANGED vars => UNCHANGED <<session, token>>
    BY DEF vars, tables
  <1> QED
    BY <1>2, <1>3, <1>7, <1>8, <1>9, <1>10, <1>11 DEF Next

\* Revocation is final, and a revoked or outdated family never grows.
THEOREM DeadFamilies == Spec => DeadFamiliesStayDead
  <1>1. SessionInv /\ [Next]_vars =>
          [\A s \in Sessions :
             session[s] # None =>
               /\ session[s].revoked => session'[s].revoked
               /\ (session[s].revoked \/ s \in outdated)
                  => \A t \in Tokens : token[t] = None /\ token'[t] # None
                                         => token'[t].session # s]_vars
    BY DeadStep
  <1> QED
    BY <1>1, SessionInvariant, PTL DEF Spec, DeadFamiliesStayDead

-----------------------------------------------------------------------------
(* Access tokens *)

AccessTypeOK ==
  /\ clock \in Nat
  /\ access \in [Requests -> [grant : Roles \cup {None}, committed : Nat \cup {None},
                              issued : Nat \cup {None}]]
  /\ held \in [Users -> [Roles -> Nat \cup {None}]]

\* A user with this row has grant g, or lost it no earlier than time.
HadSince(row, losses, g, time) ==
  \/ row.enabled /\ row.role = g
  \/ losses[g] # None /\ time <= losses[g]

\* A token carries what its user had when the transaction was committed.
TokensEarned ==
  \A q \in Requests :
    /\ access[q].issued # None => access[q].committed # None
    /\ access[q].committed # None =>
         /\ req[q].pc = "answered" /\ access[q].grant \in Roles
         /\ access[q].committed <= clock
         /\ access[q].issued # None => access[q].committed <= access[q].issued
         /\ HadSince(user[req[q].user], held[req[q].user], access[q].grant, access[q].committed)

AccessInv == SessionInv /\ AccessTypeOK /\ TokensEarned

LEMMA InitAccessInv == AccessInit => AccessInv
  <1> SUFFICES ASSUME AccessInit PROVE AccessInv
    OBVIOUS
  <1>1. SessionInv
    BY InitSessionInv DEF AccessInit
  <1>2. AccessTypeOK
    BY DEF AccessInit, AccessTypeOK, NoToken
  <1>3. TokensEarned
    BY DEF AccessInit, TokensEarned, NoToken
  <1> QED
    BY <1>1, <1>2, <1>3 DEF AccessInv

\* A handler whose answer brings a token was under the lock of an enabled
\* user, whose row the commit leaves alone.
Granted(q) ==
  /\ req[q].pc = "locked" /\ req[q].seen.enabled /\ user' = user
  /\ req'[q].pc = "answered" /\ req'[q].user = req[q].user

\* One handler moves, and an answered one never does.
LEMMA HandlerSteps ==
  ASSUME SessionInv, [Next]_vars, NEW r \in Requests
  PROVE  \/ req'[r] = req[r]
         \/ /\ req[r].pc # "answered"
            /\ req'[r].answer \in {"logged_in", "rotated"} => Granted(r)
  <1> DEFINE Fine(q) == \/ req'[q] = req[q]
                        \/ /\ req[q].pc # "answered"
                           /\ req'[q].answer \in {"logged_in", "rotated"} => Granted(q)
  <1>1. TypeOK /\ req \in [Requests -> Handler]
    BY DEF SessionInv, TypeOK
  <1>2. CASE UNCHANGED req
    BY <1>2
  <1>3. ASSUME NEW q \in Requests, NEW h, req' = [req EXCEPT ![q] = h],
               req[q].pc # "answered", h.answer \notin {"logged_in", "rotated"}
        PROVE  Fine(r)
    BY SMTT(30), <1>1, <1>3
  <1>4. ASSUME NEW q \in Requests,
               \/ \E u \in Users, p \in Passwords :
                    StartLogin(q, u, p) \/ StartChangePassword(q, u, p)
               \/ \E kind \in Kinds, t \in Tokens : LookupRefresh(q, kind, t)
        PROVE  Fine(r)
    <2>1. req[q].pc = "idle"
      BY <1>4 DEF StartLogin, StartChangePassword, LookupRefresh
    <2>2. ASSUME NEW k, NEW u, NEW p,
                 req' = [req EXCEPT ![q] = [IdleHandler EXCEPT !.pc = "started", !.kind = k,
                                                               !.user = u, !.password = p]]
          PROVE  Fine(r)
      <3> DEFINE h == [IdleHandler EXCEPT !.pc = "started", !.kind = k, !.user = u,
                                          !.password = p]
      <3>1. h.answer = "none"
        BY DEF IdleHandler
      <3>2. req' = [req EXCEPT ![q] = h]
        BY <2>2
      <3> HIDE DEF h, Fine
      <3> QED
        BY <1>3, <2>1, <3>1, <3>2
    <2>3. ASSUME NEW kind \in Kinds, NEW t \in Tokens, LookupRefresh(q, kind, t) PROVE Fine(r)
      <3> DEFINE h == [IdleHandler EXCEPT !.pc = "started", !.kind = kind, !.token = t,
                                          !.user = session[SessionOf(t)].user]
      <3>1. h.answer = "none"
        BY DEF IdleHandler
      <3>2. req' = [req EXCEPT ![q] = h]
        BY <2>3 DEF LookupRefresh
      <3> HIDE DEF h, Fine
      <3> QED
        BY <1>3, <2>1, <3>1, <3>2
    <2> HIDE DEF Fine
    <2> QED
      BY <1>4, <2>2, <2>3 DEF StartLogin, StartChangePassword
  <1>5. ASSUME NEW q \in Requests, LockAndRead(q) PROVE Fine(r)
    <2> DEFINE x == req[q]
    <2>1. x \in Handler /\ x.pc = "started" /\ x.answer = "none"
      BY <1>1, <1>5 DEF LockAndRead, SessionInv, HandlerInv, HandlersAsked
    <2> DEFINE t == x.token
               used == IF t = None THEN FALSE ELSE token[t].consumed
               ended == IF t = None THEN FALSE ELSE session[SessionOf(t)].revoked
               lapsed == IF t = None THEN FALSE ELSE session[SessionOf(t)].expired
               h == [x EXCEPT !.pc = "locked", !.seen = user[x.user], !.used = used,
                              !.ended = ended, !.lapsed = lapsed]
    <2>2. req' = [req EXCEPT ![q] = h]
      BY <1>5 DEF LockAndRead
    <2>3. h.answer = "none"
      <3> HIDE DEF x, used, ended, lapsed
      <3> QED
        BY <2>1 DEF Handler
    <2> HIDE DEF h, Fine
    <2> QED
      BY <1>3, <2>1, <2>2, <2>3
  <1>6. ASSUME NEW q \in Requests, NEW a \in Answers, Answer(q, a), req[q].pc = "locked",
               a \in {"logged_in", "rotated"} => req[q].seen.enabled /\ user' = user
        PROVE  Fine(r)
    <2>1. /\ req'[q].pc = "answered" /\ req'[q].answer = a /\ req'[q].user = req[q].user
          /\ \A z \in Requests \ {q} : req'[z] = req[z]
      BY <1>1, <1>6, AnsweredHandler
    <2> QED
      BY <1>6, <2>1 DEF Granted
  <1>7. ASSUME NEW q \in Requests,
               \/ RefuseLogin(q) \/ RefuseChange(q) \/ TransactionFails(q)
               \/ \E p \in Passwords : ChangePassword(q, p)
        PROVE  Fine(r)
    <2>1. /\ req[q].pc = "locked"
          /\ \E a \in {"refused", "failed", "changed"} : Answer(q, a)
      BY <1>7 DEF RefuseLogin, RefuseChange, TransactionFails, ChangePassword
    <2>2. {"refused", "failed", "changed"} \subseteq Answers
      BY DEF Answers
    <2> QED
      BY <1>6, <2>1, <2>2
  <1>8. ASSUME NEW q \in Requests, Commit(q) \/ CommitUnacknowledged(q) PROVE Fine(r)
    <2>1. PICK a \in {"logged_in", "rotated", "refused", "logged_out"} :
            Outcome(q, a) /\ (Answer(q, a) \/ Answer(q, "failed"))
      BY <1>8 DEF Commit, CommitUnacknowledged
    <2>2. /\ req[q].pc = "locked" /\ user' = user
          /\ a \in {"logged_in", "rotated"} => req[q].seen.enabled
      BY <2>1 DEF Outcome, OpenSession, Rotate, RefuseRefresh, CloseSession, Refreshable
    <2>3. a \in Answers /\ "failed" \in Answers
      BY DEF Answers
    <2> QED
      BY <1>6, <2>1, <2>2, <2>3
  <1>9. ASSUME NEW u \in Users,
               \/ \E role \in Roles : UpdateUserRole(u, role)
               \/ DisableUser(u)
               \/ \E p \in Passwords : SetUserPassword(u, p)
        PROVE  UNCHANGED req
    BY <1>9 DEF UpdateUserRole, DisableUser, SetUserPassword
  <1>10. ASSUME NEW s \in Sessions, SessionExpires(s) PROVE UNCHANGED req
    BY <1>10 DEF SessionExpires
  <1>11. UNCHANGED vars => UNCHANGED req
    BY DEF vars
  <1> QED
    BY <1>2, <1>4, <1>5, <1>7, <1>8, <1>9, <1>10, <1>11 DEF Next

\* A step of a session: a new token is earned, and a grant that is lost is
\* held from now on, after every commit so far.
LEMMA SessionStepAccess ==
  ASSUME AccessInv, SessionInv', SessionStep
  PROVE  AccessInv'
  <1>1. /\ TypeOK /\ TypeOK' /\ clock \in Nat /\ clock' = clock /\ None \notin Nat
        /\ held \in [Users -> [Roles -> Nat \cup {None}]]
        /\ access \in [Requests -> [grant : Roles \cup {None}, committed : Nat \cup {None},
                                    issued : Nat \cup {None}]]
    BY StaffAccessAssumption DEF AccessInv, SessionInv, AccessTypeOK, SessionStep
  <1>2. \A u \in Users : user[u] \in User /\ user'[u] \in User /\ user[u].role \in Roles
    BY <1>1 DEF TypeOK, User
  <1>3. held' \in [Users -> [Roles -> Nat \cup {None}]]
    BY <1>1, <1>2 DEF SessionStep
  <1>4. \A u \in Users, g \in Roles, time \in Nat :
           HadSince(user[u], held[u], g, time) /\ time <= clock => HadSince(user'[u], held'[u], g, time)
    <2> SUFFICES ASSUME NEW u \in Users, NEW g \in Roles, NEW time \in Nat,
                        HadSince(user[u], held[u], g, time), time <= clock
                 PROVE  HadSince(user'[u], held'[u], g, time)
      OBVIOUS
    <2> DEFINE lost == user[u].enabled /\ (~user'[u].enabled \/ user'[u].role # user[u].role)
    <2>1. held'[u] = IF lost THEN [held[u] EXCEPT ![user[u].role] = clock] ELSE held[u]
      BY DEF SessionStep
    <2>2. held[u] \in [Roles -> Nat \cup {None}]
      BY <1>1
    <2>3. CASE user[u].enabled /\ user[u].role = g
      <3>1. CASE lost
        <4>1. held'[u][g] = clock
          BY <2>1, <2>2, <2>3, <3>1
        <4> QED
          BY <1>1, <4>1 DEF HadSince
      <3>2. CASE ~lost
        BY <2>3, <3>2 DEF HadSince
      <3> QED
        BY <3>1, <3>2
    <2>4. CASE held[u][g] # None /\ time <= held[u][g]
      <3>1. held'[u][g] = held[u][g] \/ held'[u][g] = clock
        BY <2>1, <2>2
      <3> QED
        BY <1>1, <2>4, <3>1 DEF HadSince
    <2> QED
      BY <2>3, <2>4 DEF HadSince
  <1>5. ASSUME NEW q \in Requests
        PROVE  /\ access'[q] \in [grant : Roles \cup {None}, committed : Nat \cup {None},
                                  issued : Nat \cup {None}]
               /\ access'[q].issued # None => access'[q].committed # None
               /\ access'[q].committed # None =>
                    /\ req'[q].pc = "answered" /\ access'[q].grant \in Roles
                    /\ access'[q].committed <= clock'
                    /\ access'[q].issued # None => access'[q].committed <= access'[q].issued
                    /\ HadSince(user'[req'[q].user], held'[req'[q].user], access'[q].grant,
                                access'[q].committed)
    <2> DEFINE new == req[q].pc # "answered" /\ req'[q].answer \in {"logged_in", "rotated"}
               x == access[q]
               y == [x EXCEPT !.grant = req[q].seen.role, !.committed = clock]
    <2>1. /\ x \in [grant : Roles \cup {None}, committed : Nat \cup {None},
                    issued : Nat \cup {None}]
          /\ x.issued # None => x.committed # None
          /\ x.committed # None =>
               /\ req[q].pc = "answered" /\ x.grant \in Roles
               /\ x.committed <= clock
               /\ x.issued # None => x.committed <= x.issued
               /\ HadSince(user[req[q].user], held[req[q].user], x.grant, x.committed)
      BY <1>1 DEF AccessInv, TokensEarned
    <2>2. access'[q] = IF new THEN y ELSE x
      BY DEF SessionStep
    <2>3. \/ req'[q] = req[q]
          \/ /\ req[q].pc # "answered"
             /\ req'[q].answer \in {"logged_in", "rotated"} => Granted(q)
      BY HandlerSteps DEF AccessInv, SessionStep
    <2>4. req[q].pc # "idle" => req[q].user \in Users
      BY DEF AccessInv, SessionInv, HandlerInv, HandlersAsked, Asked
    <2>5. CASE new
      <3>1. Granted(q)
        BY <2>3, <2>5 DEF AccessInv, SessionInv, HandlerInv, HandlersAsked
      <3>2. req[q].seen = user[req[q].user] /\ req[q].user \in Users
        BY <2>4, <3>1 DEF Granted, AccessInv, SessionInv, HandlerInv, ReadsCurrent
      <3>3. x.committed = None /\ x.issued = None
        BY <2>1, <2>5
      <3>4. req[q].seen.role \in Roles
        BY <1>2, <3>2
      <3>5. /\ y \in [grant : Roles \cup {None}, committed : Nat \cup {None},
                      issued : Nat \cup {None}]
            /\ y.grant = req[q].seen.role /\ y.committed = clock /\ y.issued = x.issued
        <4> HIDE DEF x
        <4> QED
          BY <1>1, <2>1, <3>4
      <3> HIDE DEF x, y
      <3>6. access'[q] = y
        BY <2>2, <2>5
      <3>7. HadSince(user'[req'[q].user], held'[req'[q].user], access'[q].grant,
                                access'[q].committed)
        BY <3>1, <3>2, <3>5, <3>6 DEF HadSince, Granted
      <3> QED
        BY <1>1, <3>1, <3>3, <3>4, <3>5, <3>6, <3>7 DEF Granted
    <2>6. CASE ~new
      <3>1. access'[q] = x
        BY <2>2, <2>6
      <3>2. ASSUME x.committed # None
            PROVE  /\ req'[q] = req[q]
                   /\ HadSince(user'[req[q].user], held'[req[q].user], x.grant, x.committed)
        <4>1. req'[q] = req[q] /\ req[q].user \in Users
          BY <2>1, <2>3, <2>4, <3>2
        <4>2. x.committed \in Nat
          BY <2>1, <3>2
        <4> QED
          BY <1>4, <2>1, <3>2, <4>1, <4>2
      <3> QED
        BY <1>1, <2>1, <3>1, <3>2
    <2> QED
      BY <2>5, <2>6
  <1>6. AccessTypeOK'
    BY <1>1, <1>3, <1>5 DEF AccessTypeOK, SessionStep
  <1>7. TokensEarned'
    BY <1>5 DEF TokensEarned
  <1> QED
    BY <1>6, <1>7 DEF AccessInv

LEMMA NextAccessInv == AccessInv /\ [AccessNext]_staffVars => AccessInv'
  <1> SUFFICES ASSUME AccessInv, [AccessNext]_staffVars PROVE AccessInv'
    OBVIOUS
  <1>1. SessionInv'
    BY NextSessionInv
    DEF AccessInv, AccessNext, SessionStep, Tick, Arrive, Admit, Issue, staffVars
  <1>2. CASE SessionStep
    BY <1>1, <1>2, SessionStepAccess
  <1>3. CASE UNCHANGED <<vars, clock, access, held>>
    BY <1>1, <1>3 DEF AccessInv, AccessTypeOK, TokensEarned, vars, tables
  <1>4. CASE Tick
    <2>1. UNCHANGED <<user, req, access, held>> /\ clock' = clock + 1
      BY <1>4 DEF Tick, vars, tables
    <2>2. /\ clock \in Nat
          /\ \A q \in Requests : access[q].committed # None => access[q].committed \in Nat
      BY DEF AccessInv, AccessTypeOK
    <2>3. AccessTypeOK'
      BY <2>1, <2>2 DEF AccessInv, AccessTypeOK
    <2>4. TokensEarned'
      BY <2>1, <2>2 DEF AccessInv, TokensEarned
    <2> QED
      BY <1>1, <2>3, <2>4 DEF AccessInv
  <1>5. ASSUME NEW q \in Requests, Issue(q) PROVE AccessInv'
    <2> DEFINE x == access[q]
               y == [x EXCEPT !.issued = clock]
    <2>1. /\ UNCHANGED <<user, req, clock, held>> /\ access' = [access EXCEPT ![q] = y]
          /\ x.committed # None
      BY <1>5 DEF Issue, vars, tables
    <2>2. /\ clock \in Nat
          /\ access \in [Requests -> [grant : Roles \cup {None}, committed : Nat \cup {None},
                                      issued : Nat \cup {None}]]
          /\ x \in [grant : Roles \cup {None}, committed : Nat \cup {None},
                    issued : Nat \cup {None}]
      BY DEF AccessInv, AccessTypeOK
    <2>3. /\ y \in [grant : Roles \cup {None}, committed : Nat \cup {None},
                    issued : Nat \cup {None}]
          /\ y.grant = x.grant /\ y.committed = x.committed /\ y.issued = clock
      <3> HIDE DEF x
      <3> QED
        BY <2>2
    <2> HIDE DEF y
    <2>4. access'[q] = y /\ \A r \in Requests \ {q} : access'[r] = access[r]
      BY <2>1, <2>2
    <2>5. AccessTypeOK'
      BY <2>1, <2>2, <2>3 DEF AccessInv, AccessTypeOK
    <2>6. TokensEarned'
      BY <2>1, <2>3, <2>4 DEF AccessInv, TokensEarned
    <2> QED
      BY <1>1, <2>5, <2>6 DEF AccessInv
  <1> QED
    BY <1>2, <1>3, <1>4, <1>5 DEF AccessNext, Arrive, Admit, staffVars, accessVars

\* Composed with the admission of logins and the access tokens, the sessions
\* keep their invariant, and tokens are earned.
THEOREM AccessInvariant == AccessSpec => []AccessInv
  BY InitAccessInv, NextAccessInv, PTL DEF AccessSpec

\* The role checks of the handlers give nobody more than the role is for.
LEMMA PermittedEntitled ==
  ASSUME NEW q \in Requests, NEW op \in Operations, NEW bank \in Banks,
         Permitted(q, op, bank, Banks), access[q].grant \in Roles
  PROVE  Entitles(access[q].grant, op, bank)
  <1>1. /\ RoleAllows(access[q].grant.role, op)
        /\ op \in {"banks", "users"} \/ CanRead(access[q].grant, bank, Banks)
    BY DEF Permitted, Claims
  <1>2. \/ access[q].grant.role \in {"issuer_operator", "issuer_readonly"}
        \/ access[q].grant.role \in {"bank_operator", "bank_readonly"}
    BY StaffAccessAssumption
  <1> QED
    BY <1>1, <1>2 DEF RoleAllows, CanRead, Entitles, Operations

\* Whoever is permitted an operation has, or within the lifetime of a token
\* had, a grant that entitles to it.
THEOREM Authority == AccessSpec => []AuthorityWasHeld
  <1>1. AccessInv => AuthorityWasHeld
    <2> SUFFICES ASSUME AccessInv, NEW q \in Requests, NEW op \in Operations, NEW bank \in Banks,
                        Permitted(q, op, bank, Banks)
                 PROVE  \E g \in Roles :
                          /\ Entitles(g, op, bank)
                          /\ HadWithin(req[q].user, g,
                                       AccessLifetime + access[q].issued - access[q].committed)
      BY DEF AuthorityWasHeld
    <2> DEFINE g == access[q].grant
               u == req[q].user
    <2>1. access[q].issued # None /\ clock < access[q].issued + AccessLifetime
      BY DEF Permitted, Validate
    <2>2. /\ g \in Roles /\ access[q].committed # None
          /\ req[q].pc = "answered"
          /\ HadSince(user[u], held[u], g, access[q].committed)
      BY <2>1 DEF AccessInv, TokensEarned
    <2>3. Entitles(g, op, bank)
      BY <2>2, PermittedEntitled
    <2>4. u \in Users
      BY <2>2 DEF AccessInv, SessionInv, HandlerInv, HandlersAsked, Asked
    <2>5. /\ access[q].issued \in Nat /\ access[q].committed \in Nat /\ clock \in Nat
          /\ AccessLifetime \in Nat /\ held[u][g] \in Nat \cup {None}
      BY <2>1, <2>2, <2>4, StaffAccessAssumption DEF AccessInv, AccessTypeOK
    <2>6. HadWithin(u, g, AccessLifetime + access[q].issued - access[q].committed)
      BY <2>1, <2>2, <2>5 DEF HadSince, HadWithin
    <2> QED
      BY <2>2, <2>3, <2>6
  <1> QED
    BY <1>1, AccessInvariant, PTL

-----------------------------------------------------------------------------
(* The admission of logins *)

Window == [startedAt : Nat, count : Nat]

Admitted(q) == arrival[q] # None /\ arrival[q].verdict = "admitted"

\* The admissions that the window of an address counts.
Counted(a) == {q \in Requests : /\ Admitted(q) /\ arrival[q].address = a
                                /\ attempts[a].startedAt <= arrival[q].time}

AdmissionTyped ==
  /\ clock \in Nat /\ attempts \in [Addresses -> Window]
  /\ arrival \in [Requests -> Arrival \cup {None}]

\* No window is ahead of the clock, and none counts more than was admitted.
WindowOK(a) ==
  /\ attempts[a].startedAt <= clock
  /\ attempts[a].count <= Limit /\ attempts[a].count <= Cardinality(Counted(a))

RefusalOK(q) ==
  arrival[q] # None =>
    /\ arrival[q].time <= clock
    /\ arrival[q].verdict = "limited"
       => Cardinality(AdmittedAfter(arrival[q].address, arrival[q].time)) >= Limit
    /\ arrival[q].verdict = "full"
       => Cardinality({a \in Addresses \ {arrival[q].address} :
                         AdmittedAfter(a, arrival[q].time) # {}}) >= MaxAddresses

AdmissionInv ==
  /\ AdmissionTyped
  /\ Cardinality(Known(attempts)) <= MaxAddresses
  /\ \A a \in Addresses : WindowOK(a)
  /\ \A q \in Requests : RefusalOK(q)

\* What allow makes of a table, whatever time it was given.
Allowed(t, key, now, r) ==
  /\ r.attempts \in [Addresses -> Window] /\ r.verdict \in {"admitted", "limited", "full"}
  /\ Cardinality(Known(r.attempts)) <= MaxAddresses
  /\ \A a \in Addresses : r.attempts[a].count <= Limit
  /\ \A a \in Addresses : \/ r.attempts[a] \in {t[a], NoWindow}
                          \/ a = key /\ r.verdict = "admitted"
  /\ r.verdict = "admitted" => \/ r.attempts[key] = [startedAt |-> now, count |-> 1]
                               \/ /\ r.attempts[key].startedAt = t[key].startedAt
                                  /\ r.attempts[key].count = t[key].count + 1
  /\ r.verdict = "limited" => Limit <= t[key].count /\ now < t[key].startedAt + Period
  /\ r.verdict = "full" =>
       Cardinality({a \in Addresses \ {key} : t[a].count > 0 /\ now < t[a].startedAt + Period})
         >= MaxAddresses

LEMMA AllowResult ==
  ASSUME NEW t \in [Addresses -> Window], NEW key \in Addresses, NEW now \in Nat,
         Cardinality(Known(t)) <= MaxAddresses, \A a \in Addresses : t[a].count <= Limit,
         NEW r, r = Allow(t, key, now)
  PROVE  Allowed(t, key, now, r)
  <1>1. /\ Limit \in Nat /\ 1 <= Limit /\ Period \in Nat /\ MaxAddresses \in Nat /\ IsFiniteSet(Addresses)
        /\ NoWindow \in Window /\ NoWindow.count = 0
    BY StaffAccessAssumption DEF Window, NoWindow
  <1>2. \A f : IsFiniteSet(Known(f)) /\ Cardinality(Known(f)) \in Nat
    BY <1>1, FS_Subset, FS_CardinalityType DEF Known
  <1>3. PICK window \in Window : window = t[key]
    OBVIOUS
  <1>4. CASE window.count = 0 \/ Over(window, now)
    <2>1. PICK cleared \in [Addresses -> Window] : cleared = [t EXCEPT ![key] = NoWindow]
      BY <1>1
    <2>2. PICK table \in [Addresses -> Window] :
            table = IF Cardinality(Known(cleared)) >= MaxAddresses THEN EvictExpired(cleared, now) ELSE cleared
      BY <1>1, <2>1 DEF EvictExpired
    <2>3. r = Open(cleared, key, now)
      BY <1>3, <1>4, <2>1 DEF Allow
    <2>4. r = IF Cardinality(Known(table)) >= MaxAddresses
                THEN [verdict |-> "full", attempts |-> table]
                ELSE [verdict |-> "admitted",
                      attempts |-> [table EXCEPT ![key] = [startedAt |-> now, count |-> 1]]]
      BY <2>2, <2>3 DEF Open
    <2>5. /\ cleared[key] = NoWindow /\ \A a \in Addresses : a # key => cleared[a] = t[a]
          /\ table[key] = NoWindow /\ \A a \in Addresses : table[a] \in {cleared[a], NoWindow}
      BY <2>1, <2>2 DEF EvictExpired
    <2>6. \A a \in Addresses : table[a].count <= Limit
      BY <1>1, <2>5
    <2>7. CASE Cardinality(Known(table)) >= MaxAddresses
      <3>1. r = [verdict |-> "full", attempts |-> table]
        BY <2>4, <2>7
      <3>2. r.verdict = "full" /\ r.attempts = table
        BY <3>1
      <3>3. Known(table) \subseteq Known(t)
        BY <1>1, <2>5 DEF Known
      <3>4. Cardinality(Known(table)) <= MaxAddresses
        BY <1>1, <1>2, <3>3, FS_Subset
      <3>5. table = EvictExpired(cleared, now)
        BY <1>1, <1>2, <2>2, <2>7
      <3>6. Known(table) \subseteq {a \in Addresses \ {key} : t[a].count > 0 /\ now < t[a].startedAt + Period}
        <4> SUFFICES ASSUME NEW a \in Known(table)
                     PROVE  a \in Addresses \ {key} /\ t[a].count > 0 /\ now < t[a].startedAt + Period
          OBVIOUS
        <4>1. a \in Addresses /\ table[a].count > 0
          BY DEF Known
        <4>2. a # key
          BY <1>1, <2>5, <4>1
        <4>3. ~Over(cleared[a], now) /\ table[a] = cleared[a] /\ cleared[a] = t[a]
          BY <1>1, <2>5, <3>5, <4>1, <4>2 DEF EvictExpired
        <4>4. t[a].startedAt \in Nat
          BY <4>1 DEF Window
        <4> QED
          BY <1>1, <4>1, <4>2, <4>3, <4>4 DEF Over
      <3>7. PICK S : S = {a \in Addresses \ {key} : t[a].count > 0 /\ now < t[a].startedAt + Period}
        OBVIOUS
      <3>8. IsFiniteSet(S) /\ Cardinality(S) \in Nat
        BY <1>1, <3>7, FS_Subset, FS_CardinalityType
      <3>9. Cardinality(S) >= MaxAddresses
        BY <1>1, <1>2, <2>7, <3>6, <3>7, <3>8, FS_Subset
      <3> QED
        BY <2>5, <2>6, <3>2, <3>4, <3>7, <3>9 DEF Allowed
    <2>8. CASE ~(Cardinality(Known(table)) >= MaxAddresses)
      <3>1. PICK first \in Window : first = [startedAt |-> now, count |-> 1]
        BY DEF Window
      <3>2. r = [verdict |-> "admitted", attempts |-> [table EXCEPT ![key] = first]]
        BY <2>4, <2>8, <3>1
      <3>3. r.verdict = "admitted" /\ r.attempts = [table EXCEPT ![key] = first]
        BY <3>2
      <3>4. first.count = 1
        BY <3>1
      <3>5. Known(r.attempts) = Known(table) \cup {key}
        BY <3>3, <3>4 DEF Known
      <3>6. Cardinality(Known(r.attempts)) <= MaxAddresses
        <4>1. PICK K : K = Known(table) /\ IsFiniteSet(K) /\ Cardinality(K) \in Nat
          BY <1>2
        <4>2. Cardinality(K \cup {key}) <= Cardinality(K) + 1
          <5>1. Cardinality(K \cup {key}) = IF key \in K THEN Cardinality(K) ELSE Cardinality(K) + 1
            BY <4>1, FS_AddElement
          <5> QED
            BY <4>1, <5>1
        <4>3. Cardinality(K) + 1 <= MaxAddresses
          BY <1>1, <2>8, <4>1
        <4>4. Cardinality(K \cup {key}) \in Nat
          BY <4>1, FS_AddElement, FS_CardinalityType
        <4> QED
          BY <1>1, <3>5, <4>1, <4>2, <4>3, <4>4
      <3> QED
        BY <1>1, <2>5, <2>6, <3>1, <3>3, <3>4, <3>6 DEF Allowed
    <2> QED
      BY <2>7, <2>8
  <1>5. CASE ~(window.count = 0 \/ Over(window, now)) /\ window.count >= Limit
    <2>1. r = [verdict |-> "limited", attempts |-> t]
      BY <1>3, <1>5 DEF Allow
    <2>2. r.verdict = "limited" /\ r.attempts = t
      BY <2>1
    <2>3. now < t[key].startedAt + Period
      BY <1>1, <1>3, <1>5 DEF Over, Window
    <2> QED
      BY <1>1, <1>3, <1>5, <2>2, <2>3 DEF Window, Allowed
  <1>6. CASE ~(window.count = 0 \/ Over(window, now)) /\ ~(window.count >= Limit)
    <2>1. PICK m \in Nat : m = window.count + 1
      BY DEF Window
    <2>2. PICK next : next = [window EXCEPT !.count = m]
      OBVIOUS
    <2>3. next \in Window /\ next.startedAt = window.startedAt /\ next.count = m
      BY <2>2 DEF Window
    <2>4. r = [verdict |-> "admitted", attempts |-> [t EXCEPT ![key] = next]]
      BY <1>3, <1>6, <2>1, <2>2 DEF Allow
    <2>5. r.verdict = "admitted" /\ r.attempts = [t EXCEPT ![key] = next]
      BY <2>4
    <2>6. m <= Limit /\ 0 < m /\ 0 < window.count
      BY <1>1, <1>6, <2>1 DEF Window
    <2>7. Known(r.attempts) = Known(t)
      BY <1>3, <2>3, <2>5, <2>6 DEF Known
    <2> QED
      BY <1>3, <2>1, <2>3, <2>5, <2>6, <2>7 DEF Allowed
  <1> QED
    BY <1>4, <1>5, <1>6

\* Admissions are never taken back, so what justified a refusal still does.
LEMMA RefusalKept ==
  ASSUME AdmissionTyped, clock \in Nat, clock' \in Nat, clock <= clock',
         \A p \in Requests : Admitted(p) => arrival'[p] = arrival[p],
         NEW q \in Requests, RefusalOK(q), arrival'[q] = arrival[q]
  PROVE  RefusalOK(q)'
  <1> SUFFICES ASSUME arrival[q] # None PROVE RefusalOK(q)'
    BY DEF RefusalOK
  <1>1. PICK x \in Arrival : x = arrival[q] /\ x = arrival'[q]
    BY DEF AdmissionTyped
  <1>2. PICK key, now : key = x.address /\ now = x.time
    OBVIOUS
  <1>3. now \in Nat /\ MaxAddresses \in Nat /\ Limit \in Nat /\ IsFiniteSet(Addresses) /\ IsFiniteSet(Requests)
    BY <1>2, StaffAccessAssumption DEF Arrival
  <1>4. \A a : AdmittedAfter(a, now) \subseteq AdmittedAfter(a, now)'
    BY DEF AdmittedAfter, Admitted
  <1>5. \A a : /\ IsFiniteSet(AdmittedAfter(a, now)) /\ IsFiniteSet(AdmittedAfter(a, now)')
               /\ Cardinality(AdmittedAfter(a, now)) \in Nat /\ Cardinality(AdmittedAfter(a, now)') \in Nat
    BY <1>3, FS_Subset, FS_CardinalityType DEF AdmittedAfter
  <1>6. PICK S, T : S = AdmittedAfter(key, now) /\ T = AdmittedAfter(key, now)'
    OBVIOUS
  <1>7. Cardinality(S) <= Cardinality(T)
    BY <1>4, <1>5, <1>6, FS_Subset
  <1>8. PICK A, B : /\ A = {a \in Addresses \ {key} : AdmittedAfter(a, now) # {}}
                    /\ B = {a \in Addresses \ {key} : AdmittedAfter(a, now)' # {}}
    OBVIOUS
  <1>9. A \subseteq B /\ IsFiniteSet(B) /\ IsFiniteSet(A)
    BY <1>3, <1>4, <1>8, FS_Subset
  <1>10. Cardinality(A) <= Cardinality(B) /\ Cardinality(A) \in Nat /\ Cardinality(B) \in Nat
    BY <1>9, FS_Subset, FS_CardinalityType
  <1>11. now <= clock'
    BY <1>1, <1>2, <1>3 DEF RefusalOK
  <1>12. x.verdict = "limited" => Cardinality(T) >= Limit
    BY <1>1, <1>2, <1>3, <1>5, <1>6, <1>7 DEF RefusalOK
  <1>13. x.verdict = "full" => Cardinality(B) >= MaxAddresses
    BY <1>1, <1>2, <1>3, <1>8, <1>10 DEF RefusalOK
  <1> QED
    BY <1>1, <1>2, <1>6, <1>8, <1>11, <1>12, <1>13 DEF RefusalOK, AdmittedAfter

\* The window of an address that is left alone, or forgotten.
LEMMA WindowKept ==
  ASSUME AdmissionTyped, clock' \in Nat, clock <= clock', NEW a \in Addresses, WindowOK(a),
         attempts'[a] \in {attempts[a], NoWindow},
         \A p \in Requests : (Admitted(p) \/ Admitted(p)') /\ arrival'[p].address = a => arrival'[p] = arrival[p],
         \A p \in Requests : Admitted(p) => arrival'[p] = arrival[p]
  PROVE  WindowOK(a)'
  <1>1. attempts[a] \in Window /\ clock \in Nat /\ Limit \in Nat
    BY StaffAccessAssumption DEF AdmissionTyped
  <1>2. IsFiniteSet(Counted(a)') /\ Cardinality(Counted(a)') \in Nat
    BY StaffAccessAssumption, FS_Subset, FS_CardinalityType DEF Counted
  <1>3. CASE attempts'[a] = attempts[a]
    <2>1. Counted(a)' = Counted(a)
      BY <1>3 DEF Counted, Admitted
    <2> QED
      BY <1>1, <1>3, <2>1 DEF WindowOK, Window
  <1>4. CASE attempts'[a] = NoWindow
    <2>1. NoWindow.startedAt = 0 /\ NoWindow.count = 0
      BY DEF NoWindow
    <2> QED
      BY <1>1, <1>2, <1>4, <2>1 DEF WindowOK
  <1> QED
    BY <1>3, <1>4

LEMMA AdmitStep ==
  ASSUME AdmissionInv, NEW q \in Requests, Admit(q)
  PROVE  AdmissionInv'
  <1>1. PICK x \in Arrival : x = arrival[q] /\ x # None /\ x.verdict = "waiting"
    BY DEF AdmissionInv, AdmissionTyped, Admit
  <1>2. PICK key \in Addresses, now \in Nat : key = x.address /\ now = x.time /\ now <= clock
    BY <1>1 DEF Arrival, AdmissionInv, RefusalOK
  <1>3. PICK r : r = Allow(attempts, key, now)
    OBVIOUS
  <1>4. PICK verdict, time : verdict = r.verdict /\ time = IF verdict = "admitted" THEN clock ELSE now
    OBVIOUS
  <1>5. PICK y : y = [x EXCEPT !.verdict = verdict, !.time = time]
    OBVIOUS
  <1>6. /\ attempts' = r.attempts /\ clock' = clock /\ clock \in Nat
        /\ arrival \in [Requests -> Arrival \cup {None}] /\ attempts \in [Addresses -> Window]
    BY <1>1, <1>2, <1>3 DEF Admit, AdmissionInv, AdmissionTyped
  <1>7. arrival' = [arrival EXCEPT ![q] = y]
    BY <1>1, <1>2, <1>3, <1>4, <1>5, <1>6 DEF Admit
  <1>8. /\ r.attempts \in [Addresses -> Window] /\ r.verdict \in {"admitted", "limited", "full"}
        /\ Cardinality(Known(r.attempts)) <= MaxAddresses
        /\ \A a \in Addresses : r.attempts[a].count <= Limit
        /\ \A a \in Addresses : \/ r.attempts[a] \in {attempts[a], NoWindow}
                                \/ a = key /\ r.verdict = "admitted"
        /\ r.verdict = "admitted" => \/ r.attempts[key] = [startedAt |-> now, count |-> 1]
                                     \/ /\ r.attempts[key].startedAt = attempts[key].startedAt
                                        /\ r.attempts[key].count = attempts[key].count + 1
        /\ r.verdict = "limited" => Limit <= attempts[key].count /\ now < attempts[key].startedAt + Period
        /\ r.verdict = "full" =>
             Cardinality({a \in Addresses \ {key} : attempts[a].count > 0 /\ now < attempts[a].startedAt + Period})
               >= MaxAddresses
    <2>1. Cardinality(Known(attempts)) <= MaxAddresses /\ \A a \in Addresses : attempts[a].count <= Limit
      BY DEF AdmissionInv, WindowOK
    <2>2. Allowed(attempts, key, now, r)
      BY <1>3, <1>6, <2>1, AllowResult
    <2> QED
      BY <2>2 DEF Allowed
  <1>9. y \in Arrival /\ y # None /\ y.address = key /\ y.verdict = verdict /\ y.time = time
    <2>1. verdict \in {"waiting", "admitted", "limited", "full"} /\ time \in Nat
      BY <1>4, <1>6, <1>8
    <2>2. y \in Arrival /\ y.address = key /\ y.verdict = verdict /\ y.time = time
      BY <1>2, <1>5, <2>1 DEF Arrival
    <2> QED
      BY <2>2, StaffAccessAssumption
  <1>10. arrival'[q] = y /\ \A p \in Requests : p # q => arrival'[p] = arrival[p]
    BY <1>6, <1>7
  <1>11. ~Admitted(q) /\ (Admitted(q)' <=> verdict = "admitted")
    BY <1>1, <1>9, <1>10 DEF Admitted
  <1>12. \A p \in Requests : Admitted(p) => arrival'[p] = arrival[p]
    BY <1>10, <1>11
  <1>13. AdmissionTyped'
    BY <1>6, <1>7, <1>8, <1>9 DEF AdmissionTyped
  <1>14. /\ IsFiniteSet(Requests) /\ IsFiniteSet(Addresses) /\ Limit \in Nat /\ 1 <= Limit /\ Period \in Nat
         /\ MaxAddresses \in Nat
    BY StaffAccessAssumption
  <1>15. \A a \in Addresses : /\ IsFiniteSet(Counted(a)) /\ Cardinality(Counted(a)) \in Nat
                              /\ IsFiniteSet(Counted(a)') /\ Cardinality(Counted(a)') \in Nat
    BY <1>14, FS_Subset, FS_CardinalityType DEF Counted
  <1>16. ASSUME NEW a \in Addresses, attempts'[a] \in {attempts[a], NoWindow},
                a # key \/ verdict # "admitted"
         PROVE  WindowOK(a)'
    <2>1. \A p \in Requests : (Admitted(p) \/ Admitted(p)') /\ arrival'[p].address = a => arrival'[p] = arrival[p]
      BY <1>9, <1>10, <1>11, <1>16
    <2>2. AdmissionTyped /\ WindowOK(a) /\ clock' \in Nat /\ clock <= clock'
      BY <1>6 DEF AdmissionInv
    <2> QED
      BY <1>12, <1>16, <2>1, <2>2, WindowKept
  <1>17. ASSUME verdict = "admitted" PROVE WindowOK(key)'
    <2>1. time = clock
      BY <1>4, <1>17
    <2>2. PICK S, T : S = Counted(key) /\ T = Counted(key)'
      OBVIOUS
    <2>3. attempts[key] \in Window /\ WindowOK(key)
      BY <1>6 DEF AdmissionInv
    <2>4. CASE r.attempts[key] = [startedAt |-> now, count |-> 1]
      <3>1. attempts'[key].startedAt = now /\ attempts'[key].count = 1
        BY <1>6, <2>4
      <3>2. q \in T
        BY <1>2, <1>6, <1>9, <1>10, <1>11, <1>17, <2>1, <2>2, <3>1 DEF Counted
      <3>3. Cardinality(T) # 0
        BY <1>15, <2>2, <3>2, FS_EmptySet
      <3>4. 1 <= Cardinality(T)
        BY <1>15, <2>2, <3>3
      <3> QED
        BY <1>2, <1>6, <1>14, <2>2, <3>1, <3>4 DEF WindowOK
    <2>5. CASE /\ r.attempts[key].startedAt = attempts[key].startedAt
               /\ r.attempts[key].count = attempts[key].count + 1
      <3>1. attempts'[key].startedAt = attempts[key].startedAt /\ attempts'[key].count = attempts[key].count + 1
        BY <1>6, <2>5
      <3>2. attempts[key].startedAt <= clock
        BY <2>3 DEF WindowOK
      <3>3. q \notin S /\ T = S \cup {q}
        BY <1>9, <1>10, <1>11, <1>12, <1>17, <2>1, <2>2, <3>1, <3>2 DEF Counted, Admitted
      <3>4. Cardinality(T) = Cardinality(S) + 1
        BY <1>15, <2>2, <3>3, FS_AddElement
      <3>5. attempts[key].count <= Cardinality(S) /\ attempts[key].count \in Nat /\ Cardinality(S) \in Nat
        BY <1>15, <2>2, <2>3 DEF WindowOK, Window
      <3>6. attempts'[key].count <= Limit
        BY <1>6, <1>8
      <3> QED
        BY <1>6, <2>2, <3>1, <3>2, <3>4, <3>5, <3>6 DEF WindowOK
    <2> QED
      BY <1>4, <1>8, <1>17, <2>4, <2>5
  <1>18. \A a \in Addresses : WindowOK(a)'
    BY <1>4, <1>6, <1>8, <1>16, <1>17
  <1>19. ASSUME NEW a \in Addresses, now < attempts[a].startedAt + Period
         PROVE  Counted(a) \subseteq AdmittedAfter(a, now)'
    <2> SUFFICES ASSUME NEW p \in Counted(a) PROVE p \in AdmittedAfter(a, now)'
      OBVIOUS
    <2>1. p \in Requests /\ Admitted(p) /\ arrival[p].address = a /\ attempts[a].startedAt <= arrival[p].time
      BY DEF Counted
    <2>2. arrival'[p] = arrival[p]
      BY <1>12, <2>1
    <2>3. arrival[p].time \in Nat /\ attempts[a].startedAt \in Nat
      BY <1>6, <2>1 DEF Admitted, Arrival, Window
    <2>4. arrival[p].time + Period > now
      BY <1>14, <1>19, <2>1, <2>3
    <2> QED
      BY <2>1, <2>2, <2>4 DEF AdmittedAfter, Admitted
  <1>20. \A a : IsFiniteSet(AdmittedAfter(a, now)') /\ Cardinality(AdmittedAfter(a, now)') \in Nat
    BY <1>14, FS_Subset, FS_CardinalityType DEF AdmittedAfter
  <1>21. ASSUME verdict = "limited" PROVE Cardinality(AdmittedAfter(key, now)') >= Limit
    <2>1. Limit <= attempts[key].count /\ now < attempts[key].startedAt + Period
      BY <1>4, <1>8, <1>21
    <2>2. PICK S, T : S = Counted(key) /\ T = AdmittedAfter(key, now)'
      OBVIOUS
    <2>3. S \subseteq T /\ IsFiniteSet(T) /\ Cardinality(T) \in Nat /\ Cardinality(S) \in Nat
      BY <1>15, <1>19, <1>20, <2>1, <2>2
    <2>4. Cardinality(S) <= Cardinality(T)
      BY <2>3, FS_Subset
    <2>5. attempts[key].count <= Cardinality(S) /\ attempts[key].count \in Nat
      BY <1>6, <2>2 DEF AdmissionInv, WindowOK, Window
    <2> QED
      BY <1>14, <2>1, <2>2, <2>3, <2>4, <2>5
  <1>22. ASSUME verdict = "full"
         PROVE  Cardinality({a \in Addresses \ {key} : AdmittedAfter(a, now)' # {}}) >= MaxAddresses
    <2>1. PICK S, T : /\ S = {a \in Addresses \ {key} : attempts[a].count > 0 /\ now < attempts[a].startedAt + Period}
                      /\ T = {a \in Addresses \ {key} : AdmittedAfter(a, now)' # {}}
      OBVIOUS
    <2>2. Cardinality(S) >= MaxAddresses
      BY <1>4, <1>8, <1>22, <2>1
    <2>3. ASSUME NEW a \in S PROVE a \in T
      <3>1. a \in Addresses \ {key} /\ attempts[a].count > 0 /\ now < attempts[a].startedAt + Period
        BY <2>1
      <3>2. attempts[a].count <= Cardinality(Counted(a)) /\ attempts[a].count \in Nat
        BY <1>6, <3>1 DEF AdmissionInv, WindowOK, Window
      <3>3. Counted(a) # {}
        <4>1. Cardinality(Counted(a)) # 0
          BY <1>15, <3>1, <3>2
        <4> QED
          BY <4>1, FS_EmptySet
      <3> QED
        BY <1>19, <2>1, <3>1, <3>3
    <2>4. IsFiniteSet(S) /\ IsFiniteSet(T) /\ Cardinality(S) \in Nat /\ Cardinality(T) \in Nat
      BY <1>14, <2>1, FS_Subset, FS_CardinalityType
    <2>5. Cardinality(S) <= Cardinality(T)
      BY <2>3, <2>4, FS_Subset
    <2> QED
      BY <1>14, <2>1, <2>2, <2>4, <2>5
  <1>23. RefusalOK(q)'
    <2>1. y.time <= clock'
      BY <1>2, <1>4, <1>6, <1>9
    <2>2. verdict # "admitted" => y.time = now
      BY <1>4, <1>9
    <2>3. PICK B, T : /\ B = {a \in Addresses \ {key} : AdmittedAfter(a, now)' # {}}
                      /\ T = AdmittedAfter(key, now)'
      OBVIOUS
    <2>4. /\ verdict = "limited" => Cardinality(T) >= Limit
          /\ verdict = "full" => Cardinality(B) >= MaxAddresses
      BY <1>21, <1>22, <2>3
    <2>5. CASE verdict = "admitted"
      BY <1>9, <1>10, <2>1, <2>5 DEF RefusalOK
    <2>6. CASE verdict # "admitted"
      <3>1. key = y.address /\ now = y.time /\ verdict = y.verdict
        BY <1>9, <2>2, <2>6
      <3> QED
        BY <1>10, <2>1, <2>3, <2>4, <3>1 DEF RefusalOK, AdmittedAfter
    <2> QED
      BY <2>5, <2>6
  <1>24. ASSUME NEW p \in Requests, p # q PROVE RefusalOK(p)'
    BY <1>6, <1>10, <1>12, <1>24, RefusalKept DEF AdmissionInv
  <1> QED
    BY <1>6, <1>8, <1>13, <1>18, <1>23, <1>24 DEF AdmissionInv

LEMMA ArriveStep ==
  ASSUME AdmissionInv, NEW q \in Requests, NEW address \in Addresses, Arrive(q, address)
  PROVE  AdmissionInv'
  <1>1. PICK y : /\ y = [address |-> address, time |-> clock, verdict |-> "waiting"]
                 /\ arrival' = [arrival EXCEPT ![q] = y]
    BY DEF Arrive
  <1>2. /\ arrival[q] = None /\ clock' = clock /\ attempts' = attempts /\ clock \in Nat
        /\ arrival \in [Requests -> Arrival \cup {None}] /\ attempts \in [Addresses -> Window]
    BY DEF Arrive, AdmissionInv, AdmissionTyped
  <1>3. y \in Arrival /\ y.time = clock /\ y.verdict = "waiting"
    BY <1>1, <1>2 DEF Arrival
  <1>4. arrival'[q] = y /\ \A p \in Requests : p # q => arrival'[p] = arrival[p]
    BY <1>1, <1>2
  <1>5. ~Admitted(q) /\ ~Admitted(q)'
    BY <1>2, <1>3, <1>4 DEF Admitted
  <1>6. AdmissionTyped'
    BY <1>1, <1>2, <1>3 DEF AdmissionTyped
  <1>7. \A a \in Addresses : WindowOK(a)'
    BY <1>2, <1>4, <1>5, WindowKept DEF AdmissionInv
  <1>8. RefusalOK(q)'
    BY <1>2, <1>3, <1>4 DEF RefusalOK
  <1>9. \A p \in Requests : p # q => RefusalOK(p)'
    BY <1>2, <1>4, <1>5, RefusalKept DEF AdmissionInv
  <1> QED
    BY <1>2, <1>6, <1>7, <1>8, <1>9 DEF AdmissionInv

LEMMA AdmissionRests ==
  ASSUME AdmissionInv, UNCHANGED <<attempts, arrival>>, clock' \in Nat, clock <= clock'
  PROVE  AdmissionInv'
  <1>1. AdmissionTyped /\ AdmissionTyped' /\ clock \in Nat
    BY DEF AdmissionInv, AdmissionTyped
  <1>2. \A a \in Addresses : WindowOK(a)'
    BY <1>1, WindowKept DEF AdmissionInv
  <1>3. \A q \in Requests : RefusalOK(q)'
    BY <1>1, RefusalKept DEF AdmissionInv
  <1> QED
    BY <1>1, <1>2, <1>3 DEF AdmissionInv

LEMMA InitAdmissionInv == AccessInit => AdmissionInv
  <1> SUFFICES ASSUME AccessInit PROVE AdmissionInv
    OBVIOUS
  <1>1. NoWindow \in Window /\ NoWindow.startedAt = 0 /\ NoWindow.count = 0
    BY DEF NoWindow, Window
  <1>2. /\ clock = 0 /\ attempts = [a \in Addresses |-> NoWindow]
        /\ arrival = [q \in Requests |-> None]
    BY DEF AccessInit, NoAttempts
  <1>3. Known(attempts) = {}
    BY <1>1, <1>2 DEF Known
  <1>4. Cardinality(Known(attempts)) <= MaxAddresses
    BY <1>3, FS_EmptySet, StaffAccessAssumption
  <1>5. ASSUME NEW a \in Addresses PROVE WindowOK(a)
    <2>1. Counted(a) = {}
      BY <1>2 DEF Counted, Admitted
    <2>2. Cardinality(Counted(a)) = 0
      BY <2>1, FS_EmptySet
    <2> QED
      BY <1>1, <1>2, <2>2, StaffAccessAssumption DEF WindowOK
  <1> QED
    BY <1>1, <1>2, <1>4, <1>5 DEF AdmissionInv, AdmissionTyped, RefusalOK

LEMMA NextAdmissionInv == AdmissionInv /\ [AccessNext]_staffVars => AdmissionInv'
  <1> SUFFICES ASSUME AdmissionInv, [AccessNext]_staffVars PROVE AdmissionInv'
    OBVIOUS
  <1>1. clock \in Nat
    BY DEF AdmissionInv, AdmissionTyped
  <1>2. CASE UNCHANGED staffVars \/ SessionStep \/ Tick \/ \E q \in Requests : Issue(q)
    <2>1. UNCHANGED <<attempts, arrival>> /\ (clock' = clock \/ clock' = clock + 1)
      BY <1>2 DEF staffVars, accessVars, SessionStep, Tick, Issue
    <2> QED
      BY <1>1, <2>1, AdmissionRests
  <1> QED
    BY <1>2, AdmitStep, ArriveStep DEF AccessNext

\* A login is refused only when its address had its attempts within a period,
\* or the table was full of others that had one, though the times at which
\* requests reach the limiter are out of order; and the table stays bounded.
THEOREM Refusals == AccessSpec => []RefusalsJustified
  <1>1. AdmissionInv => RefusalsJustified
    BY DEF AdmissionInv, WindowOK, RefusalOK, RefusalsJustified
  <1> QED
    BY <1>1, InitAdmissionInv, NextAdmissionInv, PTL DEF AccessSpec

=============================================================================
