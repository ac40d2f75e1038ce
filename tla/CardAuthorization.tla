------------------------- MODULE CardAuthorization -------------------------
(***************************************************************************)
(* The authorization verifier (internal/authorization/service.go, served   *)
(* by cmd/authorization) beside the card workflows: it takes an advisory   *)
(* lock on the bank's transaction reference, returns the decision already  *)
(* recorded for it, or asks the vault whose card the credential is, reads  *)
(* that card without locking it, and records a decision.                   *)
(*                                                                         *)
(* The insert of the decision and its commit are one step: between them    *)
(* the transaction only makes others wait.  The foreign key on the card    *)
(* makes the insert wait for a workflow that has the card FOR UPDATE.      *)
(***************************************************************************)
EXTENDS CardCommands

CONSTANTS
  Verifiers,    \* handlers: one verification request each
  References    \* bank transaction references

VARIABLES
  due,          \* cards whose expires_at has passed
  decisions,    \* bank.authorization_verifications, by reference
  ver           \* the handlers

authVars == <<due, decisions, ver>>
allVars == <<vars, authVars>>

Codes == {"approved", "credential_invalid", "card_not_found", "card_ineligible"}
Decision == [code : Codes, card : Cards \cup {NoCard}]

\* None stands for a decision that is not there and for no reference.
ASSUME VerifierAssumption == None \notin Decision /\ None \notin References

\* presented is the card whose PAN and CVV the client sends, NoCard for a
\* pair that belongs to none; verdict is this request's own decision; retired
\* is a ghost: that card could not be used when the request arrived.
Verifier ==
  [pc : {"idle", "waiting", "asking", "reading", "recording", "answered"},
   ref : References \cup {None}, presented : Cards \cup {NoCard},
   verdict : Decision \cup {None}, retired : BOOLEAN,
   answer : Decision \cup {None}, error : {"none", "failed", "duplicate"}]

NoVerifier == [pc |-> "idle", ref |-> None, presented |-> NoCard, verdict |-> None,
               retired |-> FALSE, answer |-> None, error |-> "none"]

AuthTypeOK ==
  /\ due \subseteq Cards
  /\ decisions \in [References -> Decision \cup {None}]
  /\ ver \in [Verifiers -> Verifier]

AuthInit ==
  /\ Init
  /\ due = {}
  /\ decisions = [ref \in References |-> None]
  /\ ver = [v \in Verifiers |-> NoVerifier]

-----------------------------------------------------------------------------

\* Mutation of ReferenceLocked: no advisory lock is taken.
ReferenceNeverLocked(ref) == FALSE

\* Mutation of ReferenceLocked: the lock belongs to the connection, not to the
\* transaction, and outlives the request.
ReferenceLockedForSession(ref) ==
  \E v \in Verifiers : ver[v].pc \notin {"idle", "waiting"} /\ ver[v].ref = ref

\* pg_advisory_xact_lock, held until the transaction ends.
ReferenceLocked(ref) ==
  \E v \in Verifiers : ver[v].pc \in {"asking", "reading", "recording"} /\ ver[v].ref = ref

Retired(c) == c # NoCard /\ (card[c] \in {"closed", "expired"} \/ c \in due)

CardFallsDue(c) ==
  /\ card[c] # "absent"
  /\ due' = due \cup {c}
  /\ UNCHANGED <<vars, decisions, ver>>

Present(v, ref, c) ==
  /\ ver[v].pc = "idle"
  /\ ver' = [ver EXCEPT ![v].pc = "waiting", ![v].ref = ref, ![v].presented = c,
                        ![v].retired = Retired(c)]
  /\ UNCHANGED <<vars, due, decisions>>

Reply(v, a) == ver' = [ver EXCEPT ![v].pc = "answered", ![v].answer = a]
ReplyError(v, e) == ver' = [ver EXCEPT ![v].pc = "answered", ![v].error = e]

\* LockAuthorizationReference and the lookup of an earlier decision.
LockReference(v) ==
  LET known == decisions[ver[v].ref] IN
  /\ ver[v].pc = "waiting"
  /\ ~ReferenceLocked(ver[v].ref)
  /\ IF known # None THEN Reply(v, known) ELSE ver' = [ver EXCEPT ![v].pc = "asking"]
  /\ UNCHANGED <<vars, due, decisions>>

\* The vault's Verify: the lookup token must be known and not revoked.
AskVault(v) ==
  LET c == ver[v].presented
      valid == c # NoCard /\ vault[c] = "live"
  IN
  /\ ver[v].pc = "asking"
  /\ ver' = IF valid THEN [ver EXCEPT ![v].pc = "reading"]
            ELSE [ver EXCEPT ![v].pc = "recording",
                             ![v].verdict = [code |-> "credential_invalid", card |-> NoCard]]
  /\ UNCHANGED <<vars, due, decisions>>

\* Mutation of Eligible: expires_at is not looked at.
EligibleByStatus(c) == card[c] = "active"

Eligible(c) == card[c] = "active" /\ c \notin due

\* CardAuthorizationState, a plain SELECT, and the decision drawn from it.
ReadCard(v) ==
  LET c == ver[v].presented IN
  /\ ver[v].pc = "reading"
  /\ ver' = [ver EXCEPT ![v].pc = "recording", ![v].verdict =
        IF card[c] = "absent" THEN [code |-> "card_not_found", card |-> NoCard]
        ELSE [code |-> IF Eligible(c) THEN "approved" ELSE "card_ineligible", card |-> c]]
  /\ UNCHANGED <<vars, due, decisions>>

\* The foreign key of the decision waits for a writer of the card.
Insertable(v) == ver[v].verdict.card # NoCard => ~CardLocked(ver[v].verdict.card)

\* The insert, under UNIQUE (entity_id, bank_transaction_reference), and the
\* commit.
CreateAuthorizationVerification(v) ==
  /\ ver[v].pc = "recording" /\ Insertable(v)
  /\ LET ref == ver[v].ref  new == decisions[ref] = None IN
       /\ decisions' = IF new THEN [decisions EXCEPT ![ref] = ver[v].verdict] ELSE decisions
       /\ IF new THEN Reply(v, ver[v].verdict) ELSE ReplyError(v, "duplicate")
  /\ UNCHANGED <<vars, due>>

\* The vault or the database fails, or the client goes away: rolled back.
VerifyFails(v) ==
  /\ ver[v].pc \in {"asking", "reading", "recording"}
  /\ Fault
  /\ ReplyError(v, "failed")
  /\ UNCHANGED <<dbVars, vault, req, window, due, decisions>>

\* The decision is committed and the client is told of a failure.
VerifyUnacknowledged(v) ==
  /\ ver[v].pc = "recording" /\ Insertable(v)
  /\ decisions[ver[v].ref] = None
  /\ Fault
  /\ decisions' = [decisions EXCEPT ![ver[v].ref] = ver[v].verdict]
  /\ ReplyError(v, "failed")
  /\ UNCHANGED <<dbVars, vault, req, window, due>>

Verify(v) ==
  \/ LockReference(v) \/ AskVault(v) \/ ReadCard(v) \/ CreateAuthorizationVerification(v)

AuthNext ==
  \/ Next /\ UNCHANGED authVars
  \/ \E c \in Cards : CardFallsDue(c)
  \/ \E v \in Verifiers, ref \in References, c \in Cards \cup {NoCard} : Present(v, ref, c)
  \/ \E v \in Verifiers : Verify(v) \/ VerifyFails(v) \/ VerifyUnacknowledged(v)

AuthSpec == AuthInit /\ [][AuthNext]_allVars

-----------------------------------------------------------------------------
(* Properties *)

\* All clients that are told a decision for a reference are told the same one,
\* the one recorded, also when an earlier request for it was told of a failure
\* after its decision had been committed.  Concurrent requests for a reference
\* are serialised before the lookup, so none of them runs into the unique
\* constraint of the other's decision.
OneDecisionPerReference ==
  \A v \in Verifiers :
    /\ ver[v].answer # None => decisions[ver[v].ref] = ver[v].answer
    /\ ver[v].error # "duplicate"

\* An approval is earned, although the card is read without a lock: it names
\* a card that exists and has been active (a credential left behind by a failed
\* issuance, or not yet backed by a committed card, is declined), and a card
\* that was closed, expired or past its expiry time when the request arrived is
\* not approved, even if the executor has not expired it yet.
ApprovalIsEarned ==
  /\ \A v \in Verifiers :
       (ver[v].verdict # None /\ ver[v].retired) => ver[v].verdict.code # "approved"
  /\ \A ref \in References :
       (decisions[ref] # None /\ decisions[ref].code = "approved")
       => LET c == decisions[ref].card IN
          /\ card[c] \in {"active", "suspended", "closed", "expired"}
          /\ \/ c \in DOMAIN Standing
             \/ \E i \in DOMAIN trail[c] : trail[c][i][2] = "active"

VerifierWaits(v) ==
  \/ ver[v].pc = "waiting" /\ ReferenceLocked(ver[v].ref)
  \/ ver[v].pc = "recording" /\ ~Insertable(v)

\* Verifications do not wait for ever: requests for a reference wait for the
\* one that holds it, which goes on or waits for a card workflow that is under
\* way, and the waits of card workflows for each other end.  (Insertion and
\* commit of a decision are one step here.  In the database a card workflow may
\* wait for that commit, which itself waits for nobody.)
VerifiersCanProceed ==
  /\ WaitsEnd
  /\ \A v \in Verifiers : VerifierWaits(v) =>
       \E u \in Verifiers :
         /\ ver[u].ref = ver[v].ref
         /\ \/ ver[u].pc \notin {"idle", "answered"} /\ ~VerifierWaits(u)
            \/ /\ ver[u].pc = "recording"
               /\ \E r \in Requests : UnderWay(r) /\ ver[u].verdict.card \in req[r].locks
=============================================================================
