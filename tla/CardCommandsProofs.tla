------------------------- MODULE CardCommandsProofs -------------------------
(***************************************************************************)
(* The card workflows, and the verifier that runs beside them, proved for  *)
(* any sets of cards, requests, keys and bodies: CommandTakesEffectOnce,   *)
(* OneCardInPlace, TrailConnected, CredentialsAccounted and WaitsEnd of    *)
(* CardCommands, its implementation of AtomicCommand and, at the end,      *)
(* OneDecisionPerReference, ApprovalIsEarned and VerifiersCanProceed of    *)
(* CardAuthorization.                                                      *)
(***************************************************************************)
EXTENDS CardAuthorization, TLAPS

-----------------------------------------------------------------------------
(* The invariant *)

Running == {"claimed", "locked", "provisioning", "applying", "applied"}
Deciding == {"provisioning", "applying", "applied"}

\* The handler has locked the card that its command is about.
OnCard(h) == h.pc \in {"locked"} \cup Deciding /\ Action(h.id) # "issue"

\* The handler has chosen the card that it will create.
Creates(h) == h.pc \in Deciding /\ Action(h.id) \in Creations

\* What a handler knows of its own request.
LocalOK(h) ==
  /\ h.pc # "idle" => h.id \in Ids /\ h.body \in Bodies
  /\ h.answer # "none" => h.pc = "answered"
  /\ h.pc \in Running => h.open
  /\ h.pc \in {"idle", "claiming", "answered"} => ~h.open
  /\ ~h.open \/ h.pc = "claimed" => h.locks = {}
  /\ h.pc \in {"idle", "claiming", "claimed", "locked"} => h.new = NoCard /\ ~h.provisioned
  /\ h.pc = "locked" => Action(h.id) # "issue"
  /\ h.pc = "provisioning" => Action(h.id) \in Creations /\ ~h.provisioned
  /\ h.pc = "revoking" => h.new \in Cards
  /\ h.pc \in {"applying", "applied"} =>
       IF Action(h.id) \in Creations
         THEN h.provisioned
         ELSE h.new = NoCard /\ ~h.provisioned /\ Transition(h.status, Action(h.id)).valid
  /\ OnCard(h) => Subject(h.id) \in h.locks /\ h.status # "absent"
  /\ h.pc \in Deciding /\ Action(h.id) = "replace" => h.status \in {"active", "suspended"}
  /\ Creates(h) => h.new \in Cards
  /\ h.pc \in {"idle", "claiming"} \cup (Running \ {"applied"}) => h.old = "absent"
  /\ h.answer = "created" => h.result = h.new /\ h.new \in Cards

\* What it has read is still so.
ReadsOK(h) ==
  /\ OnCard(h) => h.status = card[Subject(h.id)]
  /\ h.pc = "applied" =>
       LET p == predecessor[Subject(h.id)] IN
       IF Action(h.id) = "activate" /\ h.status # "active" /\ p # NoCard
         THEN p \in h.locks /\ h.old = card[p]
         ELSE h.old = "absent"
  /\ h.pc \in Deciding /\ Action(h.id) = "replace" => ~ReplacementPending(Subject(h.id))
  /\ Creates(h) => card[h.new] = "absent"

\* The vault has the credential of the card it creates.
VaultOK(h) ==
  /\ h.pc = "provisioning" => vault[h.new] = "none"
  /\ Creates(h) /\ h.pc # "provisioning" => vault[h.new] = "live"
  /\ h.answer = "created" => vault[h.new] = "live" /\ card[h.new] # "absent"

\* The record of the id gives the answer of the handler.
Agrees(h) == Replayable(h.id) /\ records[h.id].body = h.body /\ records[h.id].result = h.result

\* Nothing was committed under the key of an open claim, and an answer of the
\* current window is that of the record.
KeyOK(h) ==
  /\ h.open => ~Replayable(h.id) /\ h.window = window[h.id]
  /\ h.answer \in Success => h.window <= window[h.id] /\ (h.window = window[h.id] => Agrees(h))

HandlersOK ==
  \A r \in Requests : LocalOK(req[r]) /\ ReadsOK(req[r]) /\ VaultOK(req[r]) /\ KeyOK(req[r])

\* Keys and cards are locked by one request, new cards belong to one.
Apart(h, g) ==
  /\ h.open /\ g.open => h.id # g.id
  /\ h.locks \cap g.locks = {}
  /\ h.new # NoCard => h.new # g.new

HandlersApart == \A r, q \in Requests : r # q => Apart(req[r], req[q])

SameAnswers ==
  \A r, q \in Requests :
    (/\ req[r].answer \in Success /\ req[q].answer \in Success
     /\ req[r].id = req[q].id /\ req[r].window = req[q].window)
    => req[r].body = req[q].body /\ req[r].result = req[q].result

AppliedWithRecord == \A id \in Ids : applied[id] = IF Replayable(id) THEN 1 ELSE 0

\* A card that is not there has no past, and one that was replaced was in use.
CardsOK ==
  \A c \in Cards :
    /\ card[c] = "absent" => trail[c] = <<>> /\ predecessor[c] = NoCard
    /\ predecessor[c] # NoCard => card[predecessor[c]] \in CardStates \ {"pending", "issued"}

\* A live credential without a card has a request that answers for it.
AnswersFor(h, c) == h.new = c /\ (h.pc # "answered" \/ h.answer = "lost" \/ h.leaked)
Attributed ==
  \A c \in Cards : vault[c] = "live" /\ card[c] = "absent" => \E r \in Requests : AnswersFor(req[r], c)

RowsInv == CardsOK /\ OneCardInPlace /\ TrailConnected

CommandInv ==
  TypeOK /\ HandlersOK /\ HandlersApart /\ SameAnswers /\ AppliedWithRecord /\ RowsInv /\ Attributed

-----------------------------------------------------------------------------
(* One handler moves *)

LEMMA IdFacts ==
  ASSUME NEW id \in Ids
  PROVE  /\ Action(id) \in Commands \cup Creations
         /\ Action(id) # "issue" => Subject(id) \in Cards
BY CardCommandsAssumption DEF Ids, Action, Subject

LEMMA HandlerSet ==
  ASSUME TypeOK, NEW r \in Requests, NEW g \in Handler, req' = [req EXCEPT ![r] = g]
  PROVE  /\ req' \in [Requests -> Handler] /\ req'[r] = g
         /\ \A q \in Requests : q # r => req'[q] = req[q]
BY DEF TypeOK

LEMMA ApartSymmetric ==
  ASSUME NEW h, NEW g, Apart(h, g)
  PROVE  Apart(g, h)
BY DEF Apart

\* The invariant is kept if the handler that moves and what it does to the
\* tables fit the others.
LEMMA Combine ==
  ASSUME CommandInv, NEW r \in Requests, NEW g \in Handler, req' = [req EXCEPT ![r] = g], TypeOK',
         \A q \in Requests : q # r => (ReadsOK(req[q]) /\ VaultOK(req[q]) /\ KeyOK(req[q]))',
         LocalOK(g), ReadsOK(g)', VaultOK(g)', KeyOK(g)',
         \A q \in Requests : q # r => Apart(g, req[q]),
         g.answer \in Success => (g.window = window[g.id] /\ Agrees(g))',
         AppliedWithRecord', RowsInv', Attributed'
  PROVE  CommandInv'
<1>1. req'[r] = g /\ \A q \in Requests : q # r => req'[q] = req[q]
  BY HandlerSet DEF CommandInv
<1>2. HandlersOK'
  <2>1. \A q \in Requests : LocalOK(req'[q])
    BY <1>1 DEF CommandInv, HandlersOK
  <2>2. \A q \in Requests : LocalOK(req[q])'
    BY <2>1 DEF LocalOK, OnCard, Creates
  <2>3. (ReadsOK(req[r]) /\ VaultOK(req[r]) /\ KeyOK(req[r]))'
    BY <1>1 DEF ReadsOK, VaultOK, KeyOK, Agrees, OnCard, Creates
  <2> QED
    BY <2>2, <2>3 DEF HandlersOK
<1>3. HandlersApart'
  <2>1. \A p, q \in Requests : p # q => Apart(req'[p], req'[q])
    BY <1>1, ApartSymmetric DEF CommandInv, HandlersApart
  <2> QED
    BY <2>1 DEF HandlersApart, Apart
<1>4. SameAnswers'
  <2>1. ASSUME NEW q \in Requests, g.answer \in Success, req'[q].answer \in Success,
               g.id = req'[q].id, g.window = req'[q].window
        PROVE  g.body = req'[q].body /\ g.result = req'[q].result
    <3>1. Agrees(g)' /\ g.window = window'[g.id]
      BY <2>1
    <3>2. KeyOK(req[q])' /\ req'[q].window = window'[req'[q].id]
      BY <1>2, <2>1, <3>1 DEF HandlersOK
    <3>3. Agrees(req[q])'
      BY <2>1, <3>2 DEF KeyOK
    <3> QED
      BY <2>1, <3>1, <3>3 DEF Agrees
  <2>2. SameAnswers
    BY DEF CommandInv
  <2> QED
    BY <1>1, <2>1, <2>2 DEF SameAnswers
<1> QED
  BY <1>2, <1>3, <1>4 DEF CommandInv

\* A step that commits nothing and does not call the vault.
LEMMA HandlerStep ==
  ASSUME CommandInv, NEW r \in Requests, NEW g \in Handler, req' = [req EXCEPT ![r] = g],
         UNCHANGED <<dbVars, vault, window>>, UNCHANGED faults \/ Fault,
         LocalOK(g), ReadsOK(g), VaultOK(g), KeyOK(g),
         \A q \in Requests : q # r => Apart(g, req[q]),
         g.answer \in Success => g.window = window[g.id] /\ Agrees(g),
         \A c \in Cards : vault[c] = "live" /\ card[c] = "absent" /\ AnswersFor(req[r], c)
                          => AnswersFor(g, c)
  PROVE  CommandInv'
<1>1. /\ req' \in [Requests -> Handler] /\ req'[r] = g
      /\ \A q \in Requests : q # r => req'[q] = req[q]
  BY HandlerSet DEF CommandInv
<1>2. TypeOK'
  <2>1. faults' \in 0..MaxFaults
    <3>1. faults \in 0..MaxFaults /\ MaxFaults \in Nat
      BY CardCommandsAssumption DEF CommandInv, TypeOK
    <3> QED
      BY <3>1 DEF Fault
  <2> QED
    BY <1>1, <2>1 DEF CommandInv, TypeOK, dbVars
<1>3. ASSUME NEW q \in Requests, q # r
      PROVE  (ReadsOK(req[q]) /\ VaultOK(req[q]) /\ KeyOK(req[q]))'
  <2>1. ReadsOK(req[q]) /\ VaultOK(req[q]) /\ KeyOK(req[q]) /\ req'[q] = req[q]
    BY <1>1, <1>3 DEF CommandInv, HandlersOK
  <2> QED
    BY <2>1 DEF ReadsOK, VaultOK, KeyOK, Agrees, Replayable, ReplacementPending, OnCard, Creates, dbVars
<1>4. ReadsOK(g)' /\ VaultOK(g)' /\ KeyOK(g)'
  BY DEF ReadsOK, VaultOK, KeyOK, Agrees, Replayable, ReplacementPending, OnCard, Creates, dbVars
<1>5. g.answer \in Success => (g.window = window[g.id] /\ Agrees(g))'
  BY DEF Agrees, Replayable, dbVars
<1>6. AppliedWithRecord' /\ RowsInv'
  BY DEF CommandInv, AppliedWithRecord, RowsInv, CardsOK, OneCardInPlace, TrailConnected, Replayable, dbVars
<1>7. Attributed'
  <2> SUFFICES ASSUME NEW c \in Cards, vault'[c] = "live", card'[c] = "absent"
               PROVE  \E q \in Requests : AnswersFor(req[q], c)'
    BY DEF Attributed
  <2>1. vault[c] = "live" /\ card[c] = "absent"
    BY DEF dbVars
  <2>2. PICK q \in Requests : AnswersFor(req[q], c)
    BY <2>1 DEF CommandInv, Attributed
  <2>3. AnswersFor(req'[q], c)
    BY <1>1, <2>1, <2>2
  <2> QED
    BY <2>3 DEF AnswersFor
<1> QED
  BY <1>2, <1>3, <1>4, <1>5, <1>6, <1>7, Combine

-----------------------------------------------------------------------------
(* Steps without effect on the tables *)

\* A handler gives up: it must not leave a credential that nobody knows of.
LEMMA AnswerStep ==
  ASSUME CommandInv, NEW r \in Requests, req[r].pc # "idle",
         NEW a \in {"conflict", "rejected", "failed", "lost"}, Answer(r, a, NoCard),
         UNCHANGED <<dbVars, vault, window>>, UNCHANGED faults \/ Fault,
         \A c \in Cards : vault[c] = "live" /\ card[c] = "absent" /\ req[r].new = c => a = "lost"
  PROVE  CommandInv'
<1> DEFINE old == req[r]
           new == [old EXCEPT !.pc = "answered", !.answer = a, !.result = NoCard, !.open = FALSE, !.locks = {}]
<1>1. TypeOK /\ old \in Handler /\ LocalOK(old)
  BY DEF CommandInv, TypeOK, HandlersOK
<1>2. req' = [req EXCEPT ![r] = new]
  BY <1>1 DEF TypeOK, Answer
<1>3. old.pc # "idle" /\ \A q \in Requests : q # r => Apart(old, req[q])
  BY DEF CommandInv, HandlersApart
<1>4. \A c \in Cards : vault[c] = "live" /\ card[c] = "absent" /\ old.new = c => a = "lost"
  OBVIOUS
<1> HIDE DEF old
<1>5. new \in Handler
  <2>1. a \in Answers /\ {} \in SUBSET Cards
    BY DEF Answers, Success
  <2> QED
    BY <1>1, <2>1 DEF Handler
<1>6. /\ new.pc = "answered" /\ new.answer = a /\ new.open = FALSE /\ new.locks = {}
      /\ new.id = old.id /\ new.body = old.body /\ new.new = old.new
  BY <1>1 DEF Handler
<1> HIDE DEF new
<1>7. LocalOK(new)
  BY <1>1, <1>3, <1>6 DEF LocalOK, OnCard, Creates, Running, Deciding
<1>8. ReadsOK(new) /\ VaultOK(new) /\ KeyOK(new) /\ new.answer \notin Success
  BY <1>6 DEF ReadsOK, VaultOK, KeyOK, OnCard, Creates, Deciding, Success
<1>9. \A q \in Requests : q # r => Apart(new, req[q])
  BY <1>3, <1>6 DEF Apart
<1>10. \A c \in Cards : vault[c] = "live" /\ card[c] = "absent" /\ AnswersFor(req[r], c)
                        => AnswersFor(new, c)
  BY <1>4, <1>6 DEF AnswersFor, old
<1> QED
  BY <1>2, <1>5, <1>7, <1>8, <1>9, <1>10, HandlerStep

LEMMA ReceiveStep ==
  ASSUME CommandInv, NEW r \in Requests, NEW id \in Ids, NEW body \in Bodies, Receive(r, id, body)
  PROVE  CommandInv'
<1> DEFINE old == req[r]
           new == [old EXCEPT !.pc = "claiming", !.id = id, !.body = body]
<1>1. TypeOK /\ old \in Handler /\ LocalOK(old) /\ old.pc = "idle"
  BY DEF CommandInv, TypeOK, HandlersOK, Receive
<1>2. req' = [req EXCEPT ![r] = new] /\ UNCHANGED <<dbVars, vault, window, faults>>
  BY <1>1 DEF TypeOK, Receive
<1>3. \A q \in Requests : q # r => Apart(old, req[q])
  BY DEF CommandInv, HandlersApart
<1>4. old.new = NoCard /\ ~old.open /\ old.answer = "none" /\ old.locks = {} /\ ~old.provisioned /\ old.old = "absent"
  BY <1>1 DEF LocalOK, Running
<1> HIDE DEF old
<1>5. new \in Handler
  BY <1>1 DEF Handler
<1>6. /\ new.pc = "claiming" /\ new.id = id /\ new.body = body
      /\ new.new = NoCard /\ new.open = old.open /\ new.answer = "none" /\ new.locks = {}
      /\ new.provisioned = old.provisioned /\ new.old = "absent"
  BY <1>1, <1>4 DEF Handler
<1> HIDE DEF new
<1>7. LocalOK(new)
  BY <1>4, <1>6 DEF LocalOK, OnCard, Creates, Running, Deciding
<1>8. ReadsOK(new) /\ VaultOK(new) /\ KeyOK(new) /\ new.answer \notin Success
  BY <1>4, <1>6 DEF ReadsOK, VaultOK, KeyOK, OnCard, Creates, Deciding, Success
<1>9. \A q \in Requests : q # r => Apart(new, req[q])
  BY <1>4, <1>6 DEF Apart
<1>10. \A c \in Cards : ~AnswersFor(req[r], c)
  BY <1>4, CardCommandsAssumption DEF AnswersFor, old
<1> QED
  BY <1>2, <1>5, <1>7, <1>8, <1>9, <1>10, HandlerStep

\* The key is free: nobody else has it, and nothing is recorded under it.
LEMMA ClaimedStep ==
  ASSUME CommandInv, NEW r \in Requests, req[r].pc = "claiming",
         ~KeyLocked(req[r].id), ~Replayable(req[r].id),
         req' = [req EXCEPT ![r].pc = "claimed", ![r].open = TRUE, ![r].window = window[req[r].id]],
         UNCHANGED <<dbVars, vault, window, faults>>
  PROVE  CommandInv'
<1> DEFINE old == req[r]
<1>1. TypeOK /\ old \in Handler /\ LocalOK(old) /\ old.pc = "claiming"
  BY DEF CommandInv, TypeOK, HandlersOK
<1>2. old.id \in Ids
  BY <1>1 DEF LocalOK
<1>3. window[old.id] \in Nat
  <2>1. window \in [Ids -> 0..MaxWindows] /\ MaxWindows \in Nat
    BY CardCommandsAssumption DEF CommandInv, TypeOK
  <2> QED
    BY <1>2, <2>1
<1>4. PICK n \in Nat : n = window[old.id]
  BY <1>3
<1> DEFINE new == [old EXCEPT !.pc = "claimed", !.open = TRUE, !.window = n]
<1>5. req' = [req EXCEPT ![r] = new]
  BY <1>1, <1>4 DEF TypeOK
<1>6. \A q \in Requests : req[q].open => req[q].id # old.id
  BY DEF KeyLocked
<1>7. /\ old.new = NoCard /\ old.answer = "none" /\ old.locks = {} /\ ~old.provisioned /\ old.old = "absent"
      /\ old.body \in Bodies /\ ~Replayable(old.id)
  BY <1>1 DEF LocalOK, Running
<1> HIDE DEF old
<1>8. new \in Handler
  BY <1>1 DEF Handler
<1>9. /\ new.pc = "claimed" /\ new.id = old.id /\ new.body = old.body /\ new.open /\ new.window = n
      /\ new.new = NoCard /\ new.answer = "none" /\ new.locks = {}
      /\ new.provisioned = old.provisioned /\ new.old = "absent"
  BY <1>1, <1>7 DEF Handler
<1> HIDE DEF new
<1>10. LocalOK(new)
  BY <1>2, <1>7, <1>9 DEF LocalOK, OnCard, Creates, Running, Deciding
<1>11. ReadsOK(new) /\ VaultOK(new) /\ KeyOK(new) /\ new.answer \notin Success
  BY <1>4, <1>7, <1>9 DEF ReadsOK, VaultOK, KeyOK, OnCard, Creates, Deciding, Success
<1>12. \A q \in Requests : q # r => Apart(new, req[q])
  BY <1>6, <1>9 DEF Apart
<1>13. \A c \in Cards : ~AnswersFor(req[r], c)
  BY <1>7, CardCommandsAssumption DEF AnswersFor, old
<1> QED
  BY <1>5, <1>8, <1>10, <1>11, <1>12, <1>13, HandlerStep

\* The answer of a live record is given again.
LEMMA ReplayStep ==
  ASSUME CommandInv, NEW r \in Requests, req[r].pc = "claiming",
         Replayable(req[r].id), records[req[r].id].body = req[r].body,
         req' = [req EXCEPT ![r].pc = "answered", ![r].window = window[req[r].id],
                            ![r].answer = "replayed", ![r].result = records[req[r].id].result],
         UNCHANGED <<dbVars, vault, window, faults>>
  PROVE  CommandInv'
<1> DEFINE old == req[r]
<1>1. TypeOK /\ old \in Handler /\ LocalOK(old) /\ old.pc = "claiming"
  BY DEF CommandInv, TypeOK, HandlersOK
<1>2. old.id \in Ids
  BY <1>1 DEF LocalOK
<1>3. window[old.id] \in Nat
  <2>1. window \in [Ids -> 0..MaxWindows] /\ MaxWindows \in Nat
    BY CardCommandsAssumption DEF CommandInv, TypeOK
  <2> QED
    BY <1>2, <2>1
<1>4. records[old.id].result \in Cards
  <2>1. records[old.id] \in Record
    BY <1>1, <1>2 DEF TypeOK, Replayable
  <2> QED
    BY <2>1 DEF Record
<1>5. PICK n \in Nat, c \in Cards : n = window[old.id] /\ c = records[old.id].result
  BY <1>3, <1>4
<1> DEFINE new == [old EXCEPT !.pc = "answered", !.window = n, !.answer = "replayed", !.result = c]
<1>6. req' = [req EXCEPT ![r] = new]
  BY <1>1, <1>5 DEF TypeOK
<1>7. /\ old.new = NoCard /\ ~old.open /\ old.locks = {} /\ ~old.provisioned /\ old.old = "absent"
      /\ old.body \in Bodies /\ Replayable(old.id) /\ records[old.id].body = old.body
  BY <1>1 DEF LocalOK, Running
<1> HIDE DEF old
<1>8. new \in Handler
  BY <1>1 DEF Handler, Answers, Success
<1>9. /\ new.pc = "answered" /\ new.id = old.id /\ new.body = old.body /\ new.open = old.open
      /\ new.window = n /\ new.result = c /\ new.new = NoCard /\ new.answer = "replayed" /\ new.locks = {}
  BY <1>1, <1>7 DEF Handler
<1> HIDE DEF new
<1>10. LocalOK(new)
  BY <1>2, <1>7, <1>9 DEF LocalOK, OnCard, Creates, Running, Deciding
<1>11. Agrees(new) /\ new.window = window[new.id]
  BY <1>5, <1>7, <1>9 DEF Agrees
<1>12. ReadsOK(new) /\ VaultOK(new) /\ KeyOK(new)
  BY <1>5, <1>7, <1>9, <1>11 DEF ReadsOK, VaultOK, KeyOK, OnCard, Creates, Deciding
<1>13. \A q \in Requests : q # r => Apart(new, req[q])
  BY <1>7, <1>9 DEF Apart
<1>14. \A d \in Cards : ~AnswersFor(req[r], d)
  BY <1>7, CardCommandsAssumption DEF AnswersFor, old
<1> QED
  BY <1>6, <1>8, <1>10, <1>11, <1>12, <1>13, <1>14, HandlerStep

\* A request that has no card of its own yet leaves no credential behind.
LEMMA NothingOwned ==
  ASSUME CommandInv, NEW r \in Requests, req[r].pc \in {"claiming", "claimed", "locked"}
  PROVE  \A c \in Cards : req[r].new # c
BY SMTT(30), CardCommandsAssumption DEF CommandInv, HandlersOK, LocalOK

LEMMA ClaimStep ==
  ASSUME CommandInv, NEW r \in Requests, ClaimIdempotency(r)
  PROVE  CommandInv'
<1>1. req[r].pc = "claiming" /\ ~KeyLocked(req[r].id) /\ UNCHANGED <<dbVars, vault, window, faults>>
  BY DEF ClaimIdempotency
<1>2. CASE Answer(r, "conflict", NoCard)
  BY <1>1, <1>2, NothingOwned, AnswerStep
<1> QED
  BY <1>1, <1>2, ReplayStep, ClaimedStep DEF ClaimIdempotency


\* A fresh card is nobody else's.
LEMMA NewCardStep ==
  ASSUME CommandInv, NEW r \in Requests, NEW c \in Cards, Fresh(c),
         \/ req[r].pc = "claimed" /\ Action(req[r].id) = "issue"
         \/ /\ req[r].pc = "locked" /\ Action(req[r].id) = "replace"
            /\ req[r].status \in {"active", "suspended"} /\ ~ReplacementPending(Subject(req[r].id)),
         req' = [req EXCEPT ![r].pc = "provisioning", ![r].new = c],
         UNCHANGED <<dbVars, vault, window, faults>>
  PROVE  CommandInv'
<1> DEFINE old == req[r]
           new == [old EXCEPT !.pc = "provisioning", !.new = c]
<1>1. TypeOK /\ old \in Handler /\ LocalOK(old) /\ ReadsOK(old) /\ KeyOK(old)
  BY DEF CommandInv, TypeOK, HandlersOK
<1>2. req' = [req EXCEPT ![r] = new]
  BY <1>1 DEF TypeOK
<1>3. /\ \A q \in Requests : q # r => Apart(old, req[q])
      /\ \A q \in Requests : req[q].new # c
      /\ vault[c] = "none" /\ card[c] = "absent"
  BY DEF CommandInv, HandlersApart, Fresh
<1>4. \/ old.pc = "claimed" /\ Action(old.id) = "issue"
      \/ /\ old.pc = "locked" /\ Action(old.id) = "replace"
         /\ old.status \in {"active", "suspended"} /\ ~ReplacementPending(Subject(old.id))
  OBVIOUS
<1>5. \A d \in Cards : ~AnswersFor(req[r], d)
  BY <1>4, NothingOwned DEF AnswersFor
<1> HIDE DEF old
<1>6. new \in Handler
  BY <1>1 DEF Handler
<1>7. /\ new.pc = "provisioning" /\ new.new = c /\ new.id = old.id /\ new.body = old.body
      /\ new.status = old.status /\ new.old = old.old /\ new.open = old.open /\ new.locks = old.locks
      /\ new.provisioned = old.provisioned /\ new.window = old.window /\ new.answer = old.answer
  BY <1>1 DEF Handler
<1> HIDE DEF new
<1>8. LocalOK(new) /\ new.answer \notin Success
  BY <1>1, <1>4, <1>7 DEF LocalOK, OnCard, Creates, Running, Deciding, Creations, Success
<1>9. ReadsOK(new) /\ VaultOK(new) /\ KeyOK(new)
  BY <1>1, <1>3, <1>4, <1>7, <1>8 DEF ReadsOK, VaultOK, KeyOK, OnCard, Creates, Deciding, LocalOK
<1>10. \A q \in Requests : q # r => Apart(new, req[q])
  BY <1>3, <1>7 DEF Apart
<1> QED
  BY <1>2, <1>5, <1>6, <1>8, <1>9, <1>10, HandlerStep

LEMMA IssueStep ==
  ASSUME CommandInv, NEW r \in Requests, IssueReferencesValid(r)
  PROVE  CommandInv'
<1>1. req[r].pc = "claimed" /\ Action(req[r].id) = "issue" /\ UNCHANGED <<dbVars, vault, window, faults>>
  BY DEF IssueReferencesValid
<1>2. CASE Answer(r, "rejected", NoCard)
  BY <1>1, <1>2, NothingOwned, AnswerStep
<1> QED
  BY <1>1, <1>2, NewCardStep DEF IssueReferencesValid

\* Only those who are open hold cards.
LEMMA Unlocked ==
  ASSUME CommandInv, NEW c \in Cards, ~CardLocked(c)
  PROVE  \A q \in Requests : c \notin req[q].locks
BY DEF CommandInv, HandlersOK, LocalOK, CardLocked

LEMMA LockStep ==
  ASSUME CommandInv, NEW r \in Requests, LockCard(r)
  PROVE  CommandInv'
<1> DEFINE old == req[r]
           c == Subject(old.id)
           s == card[c]
           new == [old EXCEPT !.pc = "locked", !.locks = {c}, !.status = s]
<1>1. TypeOK /\ old \in Handler /\ LocalOK(old) /\ KeyOK(old)
  BY DEF CommandInv, TypeOK, HandlersOK
<1>2. /\ old.pc = "claimed" /\ Action(old.id) # "issue" /\ UNCHANGED <<dbVars, vault, window, faults>>
  BY DEF LockCard
<1>3. old.id \in Ids /\ c \in Cards
  BY <1>1, <1>2, IdFacts DEF LocalOK
<1>4. CASE Answer(r, "rejected", NoCard)
  BY <1>2, <1>4, NothingOwned, AnswerStep
<1>5. CASE /\ card[c] # "absent" /\ ~CardLocked(c)
           /\ req' = [req EXCEPT ![r].pc = "locked", ![r].locks = {c}, ![r].status = card[c]]
  <2>1. req' = [req EXCEPT ![r] = new]
    BY <1>1, <1>5 DEF TypeOK
  <2>2. /\ \A q \in Requests : q # r => Apart(old, req[q])
        /\ \A q \in Requests : c \notin req[q].locks
    BY <1>3, <1>5, Unlocked DEF CommandInv, HandlersApart
  <2>3. s \in CardStates \cup {"absent"} /\ s # "absent" /\ s = card[c]
    BY <1>1, <1>3, <1>5 DEF TypeOK
  <2>4. \A d \in Cards : ~AnswersFor(req[r], d)
    BY <1>2, NothingOwned DEF AnswersFor
  <2>5. c = Subject(old.id)
    OBVIOUS
  <2> HIDE DEF old, c, s
  <2>6. new \in Handler
    BY <1>1, <1>3, <2>3 DEF Handler
  <2>7. /\ new.pc = "locked" /\ new.new = old.new /\ new.id = old.id /\ new.body = old.body
        /\ new.status = s /\ new.old = old.old /\ new.open = old.open /\ new.locks = {c}
        /\ new.provisioned = old.provisioned /\ new.window = old.window /\ new.answer = old.answer
    BY <1>1 DEF Handler
  <2> HIDE DEF new
  <2>8. LocalOK(new) /\ new.answer \notin Success
    BY <1>1, <1>2, <2>3, <2>5, <2>7 DEF LocalOK, OnCard, Creates, Running, Deciding, Success
  <2>9. ReadsOK(new) /\ VaultOK(new) /\ KeyOK(new)
    BY <1>1, <2>3, <2>5, <2>7, <2>8 DEF ReadsOK, VaultOK, KeyOK, OnCard, Creates, Deciding, LocalOK
  <2>10. \A q \in Requests : q # r => Apart(new, req[q])
    BY <2>2, <2>7 DEF Apart
  <2> QED
    BY <1>2, <2>1, <2>4, <2>6, <2>8, <2>9, <2>10, HandlerStep
<1> QED
  BY <1>4, <1>5 DEF LockCard

LEMMA JudgeStep ==
  ASSUME CommandInv, NEW r \in Requests, Judge(r)
  PROVE  CommandInv'
<1> DEFINE old == req[r]
           new == [old EXCEPT !.pc = "applying"]
<1>1. TypeOK /\ old \in Handler /\ LocalOK(old) /\ ReadsOK(old) /\ KeyOK(old)
  BY DEF CommandInv, TypeOK, HandlersOK
<1>2. /\ old.pc = "locked" /\ UNCHANGED <<dbVars, vault, window, faults>>
  BY DEF Judge
<1>3. CASE Answer(r, "rejected", NoCard)
  BY <1>2, <1>3, NothingOwned, AnswerStep
<1>4. CASE /\ Action(old.id) \in Commands /\ Transition(old.status, Action(old.id)).valid
           /\ req' = [req EXCEPT ![r].pc = "applying"]
  <2>1. req' = [req EXCEPT ![r] = new]
    BY <1>1, <1>4 DEF TypeOK
  <2>2. \A q \in Requests : q # r => Apart(old, req[q])
    BY DEF CommandInv, HandlersApart
  <2>3. Action(old.id) \notin Creations
    BY <1>4 DEF Commands, CardActions, Creations
  <2>4. \A d \in Cards : ~AnswersFor(req[r], d)
    BY <1>2, NothingOwned DEF AnswersFor
  <2>5. Transition(old.status, Action(old.id)).valid
    BY <1>4
  <2> HIDE DEF old
  <2>6. new \in Handler
    BY <1>1 DEF Handler
  <2>7. /\ new.pc = "applying" /\ new.new = old.new /\ new.id = old.id /\ new.body = old.body
        /\ new.status = old.status /\ new.old = old.old /\ new.open = old.open /\ new.locks = old.locks
        /\ new.provisioned = old.provisioned /\ new.window = old.window /\ new.answer = old.answer
    BY <1>1 DEF Handler
  <2> HIDE DEF new
  <2>8. LocalOK(new) /\ new.answer \notin Success
    BY <1>1, <1>2, <2>3, <2>5, <2>7 DEF LocalOK, OnCard, Creates, Running, Deciding, Success, Creations
  <2>9. ReadsOK(new) /\ VaultOK(new) /\ KeyOK(new)
    BY <1>1, <1>2, <2>3, <2>7, <2>8 DEF ReadsOK, VaultOK, KeyOK, OnCard, Creates, Deciding, LocalOK, Creations
  <2>10. \A q \in Requests : q # r => Apart(new, req[q])
    BY <2>2, <2>7 DEF Apart
  <2> QED
    BY <1>2, <2>1, <2>4, <2>6, <2>8, <2>9, <2>10, HandlerStep
<1>5. CASE /\ Action(old.id) = "replace" /\ old.status \in {"active", "suspended"}
           /\ ~ReplacementPending(Subject(old.id))
           /\ \E s \in Cards : Fresh(s) /\ req' = [req EXCEPT ![r].pc = "provisioning", ![r].new = s]
  BY <1>2, <1>5, NewCardStep
<1> QED
  BY <1>3, <1>4, <1>5 DEF Judge


\* The predecessor of the card is locked by nobody else, and stays as it was read.
LEMMA ApplyStep ==
  ASSUME CommandInv, NEW r \in Requests, Apply(r)
  PROVE  CommandInv'
<1> DEFINE old == req[r]
           p == IF Activates(r) THEN predecessor[Subject(old.id)] ELSE NoCard
<1>1. TypeOK /\ old \in Handler /\ LocalOK(old) /\ ReadsOK(old) /\ VaultOK(old) /\ KeyOK(old)
  BY DEF CommandInv, TypeOK, HandlersOK
<1>2. old.pc = "applying" /\ UNCHANGED <<dbVars, vault, window, faults>>
  BY DEF Apply
<1>3. \A q \in Requests : q # r => Apart(old, req[q])
  BY DEF CommandInv, HandlersApart
<1>4. Activates(r) <=> Action(old.id) = "activate" /\ old.status # "active"
  BY DEF Activates
<1>5. \A d \in Cards : AnswersFor(req[r], d) => old.new = d
  BY DEF AnswersFor
<1>6. CASE p = NoCard /\ req' = [req EXCEPT ![r].pc = "applied"]
  <2> DEFINE new == [old EXCEPT !.pc = "applied"]
  <2>1. req' = [req EXCEPT ![r] = new]
    BY <1>1, <1>6 DEF TypeOK
  <2>2. Action(old.id) = "activate" /\ old.status # "active" => predecessor[Subject(old.id)] = NoCard
    BY <1>4, <1>6
  <2> HIDE DEF old, p
  <2>3. new \in Handler
    BY <1>1 DEF Handler
  <2>4. /\ new.pc = "applied" /\ new.new = old.new /\ new.id = old.id /\ new.body = old.body
        /\ new.status = old.status /\ new.old = old.old /\ new.open = old.open /\ new.locks = old.locks
        /\ new.provisioned = old.provisioned /\ new.window = old.window /\ new.answer = old.answer
    BY <1>1 DEF Handler
  <2> HIDE DEF new
  <2>5. LocalOK(new) /\ new.answer \notin Success
    BY <1>1, <1>2, <2>4 DEF LocalOK, OnCard, Creates, Running, Deciding, Success, Creations
  <2>6. ReadsOK(new) /\ VaultOK(new) /\ KeyOK(new)
    BY <1>1, <1>2, <2>2, <2>4, <2>5 DEF ReadsOK, VaultOK, KeyOK, OnCard, Creates, Deciding, LocalOK, Running
  <2>7. \A q \in Requests : q # r => Apart(new, req[q])
    BY <1>3, <2>4 DEF Apart
  <2>8. \A d \in Cards : AnswersFor(req[r], d) => AnswersFor(new, d)
    BY <1>5, <2>4 DEF AnswersFor
  <2> QED
    BY <1>2, <2>1, <2>3, <2>5, <2>6, <2>7, <2>8, HandlerStep
<1>7. CASE /\ p # NoCard /\ ~CardLocked(p)
           /\ req' = [req EXCEPT ![r].pc = "applied", ![r].locks = @ \cup {p}, ![r].old = card[p]]
  <2>1. p \in Cards /\ Activates(r) /\ p = predecessor[Subject(old.id)]
    <3>1. Activates(r) /\ p = predecessor[Subject(old.id)]
      BY <1>7
    <3>2. Subject(old.id) \in Cards
      BY <1>1, <1>2, <1>4, <3>1, IdFacts DEF LocalOK
    <3> QED
      BY <1>1, <1>7, <3>1, <3>2 DEF TypeOK
  <2>2. PICK s \in CardStates \cup {"absent"} : s = card[p]
    BY <1>1, <2>1 DEF TypeOK
  <2>3. \A q \in Requests : p \notin req[q].locks
    BY <1>7, <2>1, Unlocked
  <2>4. PICK d \in Cards : d = p
    BY <2>1
  <2> DEFINE held == old.locks \cup {d}
             new == [old EXCEPT !.pc = "applied", !.locks = held, !.old = s]
  <2>5. req' = [req EXCEPT ![r] = new]
    BY <1>1, <1>7, <2>2, <2>4 DEF TypeOK
  <2>6. /\ Action(old.id) = "activate" /\ old.status # "active"
        /\ d = predecessor[Subject(old.id)] /\ s = card[d] /\ \A q \in Requests : d \notin req[q].locks
    BY <1>4, <2>1, <2>2, <2>3, <2>4
  <2> HIDE DEF old, p
  <2>7. held \in SUBSET Cards /\ d \in held /\ old.locks \subseteq held
    BY <1>1 DEF Handler
  <2>8. new \in Handler
    <3> HIDE DEF held
    <3> QED
      BY <1>1, <2>7 DEF Handler
  <2>9. /\ new.pc = "applied" /\ new.new = old.new /\ new.id = old.id /\ new.body = old.body
        /\ new.status = old.status /\ new.old = s /\ new.open = old.open /\ new.locks = held
        /\ new.provisioned = old.provisioned /\ new.window = old.window /\ new.answer = old.answer
    BY <1>1 DEF Handler
  <2> HIDE DEF new
  <2>10. \A q \in Requests : q # r => Apart(new, req[q])
    BY <1>3, <2>6, <2>9 DEF Apart
  <2> HIDE DEF held
  <2>11. LocalOK(new) /\ new.answer \notin Success
    BY <1>1, <1>2, <2>6, <2>7, <2>9 DEF LocalOK, OnCard, Creates, Running, Deciding, Success, Creations
  <2>12. ReadsOK(new) /\ VaultOK(new) /\ KeyOK(new)
    <3>1. ~Creates(new) /\ Action(new.id) # "replace" /\ new.answer = "none"
      BY <1>1, <1>2, <2>6, <2>9 DEF Creates, Creations, LocalOK
    <3>2. OnCard(old) /\ new.status = card[Subject(new.id)]
      BY <1>1, <1>2, <2>6, <2>9 DEF OnCard, Deciding, ReadsOK
    <3>3. ReadsOK(new)
      BY <2>6, <2>7, <2>9, <3>1, <3>2, CardCommandsAssumption DEF ReadsOK
    <3>4. VaultOK(new)
      BY <2>9, <3>1 DEF VaultOK
    <3>5. KeyOK(new)
      BY <1>1, <2>9, <3>1 DEF KeyOK, Success
    <3> QED
      BY <3>3, <3>4, <3>5
  <2>13. \A e \in Cards : AnswersFor(req[r], e) => AnswersFor(new, e)
    BY <1>5, <2>9 DEF AnswersFor
  <2> QED
    BY <1>2, <2>5, <2>8, <2>10, <2>11, <2>12, <2>13, HandlerStep
<1> QED
  BY <1>6, <1>7 DEF Apply

\* An error after the credential was provisioned goes on to revoke it.
LEMMA FailsStep ==
  ASSUME CommandInv, NEW r \in Requests, TransactionFails(r)
  PROVE  CommandInv'
<1> DEFINE old == req[r]
           new == [old EXCEPT !.pc = "revoking"]
<1>1. TypeOK /\ old \in Handler /\ LocalOK(old) /\ KeyOK(old)
  BY DEF CommandInv, TypeOK, HandlersOK
<1>2. /\ old.pc \in {"claimed", "locked", "applying", "applied"} /\ Fault /\ Fails(r)
      /\ UNCHANGED <<dbVars, vault, window>>
  BY DEF TransactionFails
<1>3. \A q \in Requests : q # r => Apart(old, req[q])
  BY DEF CommandInv, HandlersApart
<1>4. CASE ~old.provisioned
  <2>1. old.new = NoCard
    BY <1>1, <1>2, <1>4 DEF LocalOK
  <2>2. \A c \in Cards : old.new # c
    BY <2>1, CardCommandsAssumption
  <2> QED
    BY <1>2, <1>4, <2>2, AnswerStep DEF Fails
<1>5. CASE old.provisioned
  <2>1. req' = [req EXCEPT ![r] = new]
    BY <1>1, <1>2, <1>5 DEF TypeOK, Fails
  <2>2. \A d \in Cards : AnswersFor(req[r], d) => old.new = d
    BY DEF AnswersFor
  <2> HIDE DEF old
  <2>3. old.pc \in {"applying", "applied"} /\ old.new \in Cards
    BY <1>1, <1>2, <1>5 DEF LocalOK, Creates, Deciding
  <2>4. new \in Handler
    BY <1>1 DEF Handler
  <2>5. /\ new.pc = "revoking" /\ new.new = old.new /\ new.id = old.id /\ new.body = old.body
        /\ new.open = old.open /\ new.locks = old.locks
        /\ new.window = old.window /\ new.answer = old.answer
    BY <1>1 DEF Handler
  <2> HIDE DEF new
  <2>6. LocalOK(new) /\ new.answer \notin Success
    BY <1>1, <2>3, <2>5 DEF LocalOK, OnCard, Creates, Running, Deciding, Success
  <2>7. ReadsOK(new) /\ VaultOK(new) /\ KeyOK(new)
    BY <1>1, <2>3, <2>5, <2>6 DEF ReadsOK, VaultOK, KeyOK, OnCard, Creates, Deciding, LocalOK
  <2>8. \A q \in Requests : q # r => Apart(new, req[q])
    BY <1>3, <2>5 DEF Apart
  <2>9. \A d \in Cards : AnswersFor(req[r], d) => AnswersFor(new, d)
    BY <2>2, <2>5 DEF AnswersFor
  <2> QED
    BY <1>2, <2>1, <2>4, <2>6, <2>7, <2>8, <2>9, HandlerStep
<1> QED
  BY <1>4, <1>5

\* What a handler that ends in an error keeps.
LEMMA LeakSets ==
  ASSUME CommandInv, NEW r \in Requests, req[r].pc # "idle", NEW leak \in BOOLEAN,
         req' = [req EXCEPT ![r].pc = "answered", ![r].answer = "failed", ![r].open = FALSE,
                            ![r].locks = {}, ![r].leaked = leak]
  PROVE  \E g \in Handler : /\ req' = [req EXCEPT ![r] = g]
                            /\ LocalOK(g) /\ ReadsOK(g) /\ KeyOK(g) /\ g.answer = "failed"
                            /\ g.pc = "answered" /\ g.new = req[r].new /\ g.leaked = leak
                            /\ \A q \in Requests : q # r => Apart(g, req[q])
<1> DEFINE old == req[r]
           new == [old EXCEPT !.pc = "answered", !.answer = "failed", !.open = FALSE,
                              !.locks = {}, !.leaked = leak]
<1>1. TypeOK /\ old \in Handler /\ LocalOK(old)
  BY DEF CommandInv, TypeOK, HandlersOK
<1>2. req' = [req EXCEPT ![r] = new]
  BY <1>1 DEF TypeOK
<1>3. old.pc # "idle" /\ \A q \in Requests : q # r => Apart(old, req[q])
  BY DEF CommandInv, HandlersApart
<1> HIDE DEF old
<1>4. new \in Handler
  <2>1. "failed" \in Answers /\ {} \in SUBSET Cards
    BY DEF Answers
  <2> QED
    BY <1>1, <2>1 DEF Handler
<1>5. /\ new.pc = "answered" /\ new.answer = "failed" /\ new.open = FALSE /\ new.locks = {}
      /\ new.id = old.id /\ new.body = old.body /\ new.new = old.new /\ new.leaked = leak
  BY <1>1 DEF Handler
<1> HIDE DEF new
<1>6. LocalOK(new)
  BY <1>1, <1>3, <1>5 DEF LocalOK, OnCard, Creates, Running, Deciding
<1>7. ReadsOK(new) /\ KeyOK(new)
  BY <1>5 DEF ReadsOK, KeyOK, OnCard, Creates, Deciding, Success
<1>8. \A q \in Requests : q # r => Apart(new, req[q])
  BY <1>3, <1>5 DEF Apart
<1> QED
  BY <1>2, <1>4, <1>5, <1>6, <1>7, <1>8 DEF old

LEMMA RevokeFailsStep ==
  ASSUME CommandInv, NEW r \in Requests, RevokeFails(r)
  PROVE  CommandInv'
<1>1. /\ req[r].pc = "revoking" /\ Fault /\ UNCHANGED <<dbVars, vault, window>>
      /\ req' = [req EXCEPT ![r].pc = "answered", ![r].answer = "failed", ![r].open = FALSE,
                            ![r].locks = {}, ![r].leaked = TRUE]
  BY DEF RevokeFails
<1>2. PICK g \in Handler : /\ req' = [req EXCEPT ![r] = g]
                           /\ LocalOK(g) /\ ReadsOK(g) /\ KeyOK(g) /\ g.answer = "failed"
                           /\ g.pc = "answered" /\ g.new = req[r].new /\ g.leaked = TRUE
                           /\ \A q \in Requests : q # r => Apart(g, req[q])
  BY <1>1, LeakSets
<1>3. VaultOK(g) /\ g.answer \notin Success
  BY <1>2 DEF VaultOK, Creates, Deciding, Success
<1>4. \A c \in Cards : AnswersFor(req[r], c) => AnswersFor(g, c)
  BY <1>2 DEF AnswersFor
<1> QED
  BY <1>1, <1>2, <1>3, <1>4, HandlerStep

-----------------------------------------------------------------------------
(* Calls of the vault *)

\* They are about the card that the caller creates and that is its own.
LEMMA VaultStep ==
  ASSUME CommandInv, NEW r \in Requests, NEW g \in Handler, req' = [req EXCEPT ![r] = g],
         UNCHANGED <<dbVars, window>>, UNCHANGED faults \/ Fault,
         NEW c \in Cards, req[r].new = c, g.new = c, NEW v \in {"live", "revoked"},
         vault' = [vault EXCEPT ![c] = v],
         LocalOK(g), ReadsOK(g), VaultOK(g)', KeyOK(g), g.answer \notin Success,
         \A q \in Requests : q # r => Apart(g, req[q]),
         v = "live" => AnswersFor(g, c)
  PROVE  CommandInv'
<1>1. /\ req' \in [Requests -> Handler] /\ req'[r] = g
      /\ \A q \in Requests : q # r => req'[q] = req[q]
  BY HandlerSet DEF CommandInv
<1>2. TypeOK'
  <2>1. faults' \in 0..MaxFaults
    <3>1. faults \in 0..MaxFaults /\ MaxFaults \in Nat
      BY CardCommandsAssumption DEF CommandInv, TypeOK
    <3> QED
      BY <3>1 DEF Fault
  <2> QED
    BY <1>1, <2>1 DEF CommandInv, TypeOK, dbVars
<1>3. vault \in [Cards -> {"none", "live", "revoked"}] /\ \A d \in Cards : d # c => vault'[d] = vault[d]
  BY DEF CommandInv, TypeOK
<1>4. ASSUME NEW q \in Requests, q # r
      PROVE  (ReadsOK(req[q]) /\ VaultOK(req[q]) /\ KeyOK(req[q]))'
  <2>1. PICK h : h = req[q]
    OBVIOUS
  <2>2. ReadsOK(h) /\ VaultOK(h) /\ KeyOK(h) /\ LocalOK(h) /\ req'[q] = h
    BY <1>1, <1>4, <2>1 DEF CommandInv, HandlersOK
  <2>3. h.new # c
    BY <1>4, <2>1, CardCommandsAssumption DEF Apart
  <2>4. VaultOK(h)'
    <3>1. Creates(h) \/ h.answer = "created" => h.new \in Cards
      BY <2>2 DEF LocalOK
    <3>2. h.pc = "provisioning" => Creates(h)
      BY <2>2 DEF LocalOK, Creates, Deciding
    <3> QED
      BY <1>3, <2>2, <2>3, <3>1, <3>2 DEF VaultOK, Creates, dbVars
  <2>5. ReadsOK(h)' /\ KeyOK(h)'
    BY <2>2 DEF ReadsOK, KeyOK, Agrees, Replayable, ReplacementPending, OnCard, Creates, dbVars
  <2> QED
    BY <2>2, <2>4, <2>5 DEF ReadsOK, VaultOK, KeyOK, Agrees, OnCard, Creates
<1>5. ReadsOK(g)' /\ KeyOK(g)'
  BY DEF ReadsOK, KeyOK, Agrees, Replayable, ReplacementPending, OnCard, Creates, dbVars
<1>6. AppliedWithRecord' /\ RowsInv'
  BY DEF CommandInv, AppliedWithRecord, RowsInv, CardsOK, OneCardInPlace, TrailConnected, Replayable, dbVars
<1>7. Attributed'
  <2> SUFFICES ASSUME NEW d \in Cards, vault'[d] = "live", card'[d] = "absent"
               PROVE  \E q \in Requests : AnswersFor(req[q], d)'
    BY DEF Attributed
  <2>1. CASE d = c
    <3>1. v = "live"
      BY <1>3, <2>1 DEF CommandInv, TypeOK
    <3>2. AnswersFor(req[r], d)'
      BY <1>1, <2>1, <3>1 DEF AnswersFor
    <3> QED
      BY <3>2
  <2>2. CASE d # c
    <3>1. vault[d] = "live" /\ card[d] = "absent"
      BY <1>3, <2>2 DEF dbVars
    <3>2. PICK q \in Requests : AnswersFor(req[q], d)
      BY <3>1 DEF CommandInv, Attributed
    <3>3. q # r
      BY <2>2, <3>2 DEF AnswersFor
    <3>4. AnswersFor(req'[q], d)
      BY <1>1, <3>2, <3>3
    <3> QED
      BY <3>4 DEF AnswersFor
  <2> QED
    BY <2>1, <2>2
<1> QED
  BY <1>2, <1>4, <1>5, <1>6, <1>7, Combine


LEMMA ProvisionStep ==
  ASSUME CommandInv, NEW r \in Requests, Provision(r)
  PROVE  CommandInv'
<1> DEFINE old == req[r]
           new == [old EXCEPT !.pc = "applying", !.provisioned = TRUE]
<1>1. TypeOK /\ old \in Handler /\ LocalOK(old) /\ ReadsOK(old) /\ KeyOK(old) /\ old.pc = "provisioning"
  BY DEF CommandInv, TypeOK, HandlersOK, Provision
<1>2. /\ req' = [req EXCEPT ![r] = new] /\ UNCHANGED <<dbVars, window, faults>>
      /\ vault' = [vault EXCEPT ![old.new] = "live"]
  BY <1>1 DEF TypeOK, Provision
<1>3. \A q \in Requests : q # r => Apart(old, req[q])
  BY DEF CommandInv, HandlersApart
<1>4. PICK c \in Cards : c = old.new
  BY <1>1 DEF LocalOK, Creates, Deciding
<1>5. req[r].new = c
  BY <1>4
<1> HIDE DEF old
<1>6. new \in Handler
  BY <1>1 DEF Handler
<1>7. /\ new.pc = "applying" /\ new.provisioned /\ new.new = c /\ new.id = old.id /\ new.body = old.body
      /\ new.status = old.status /\ new.old = old.old /\ new.open = old.open /\ new.locks = old.locks
      /\ new.window = old.window /\ new.answer = old.answer
  BY <1>1, <1>4 DEF Handler
<1> HIDE DEF new
<1>8. LocalOK(new) /\ new.answer \notin Success
  BY <1>1, <1>7 DEF LocalOK, OnCard, Creates, Running, Deciding, Success
<1>9. ReadsOK(new) /\ KeyOK(new)
  BY <1>1, <1>4, <1>7, <1>8 DEF ReadsOK, KeyOK, OnCard, Creates, Deciding, LocalOK
<1>10. vault' = [vault EXCEPT ![c] = "live"] /\ vault'[c] = "live"
  BY <1>1, <1>2, <1>4 DEF TypeOK
<1>11. PICK g \in Handler : g = new
  BY <1>6
<1>12. VaultOK(g)'
  BY <1>1, <1>7, <1>10, <1>11 DEF VaultOK, LocalOK
<1>13. \A q \in Requests : q # r => Apart(g, req[q])
  BY <1>3, <1>4, <1>7, <1>11 DEF Apart
<1>14. AnswersFor(g, c)
  BY <1>7, <1>11 DEF AnswersFor
<1> QED
  BY <1>2, <1>5, <1>7, <1>8, <1>9, <1>10, <1>11, <1>12, <1>13, <1>14, VaultStep

LEMMA ProvisionFailsStep ==
  ASSUME CommandInv, NEW r \in Requests, ProvisionFails(r)
  PROVE  CommandInv'
<1>1. PICK effect \in BOOLEAN :
        /\ vault' = IF effect THEN [vault EXCEPT ![req[r].new] = "live"] ELSE vault
        /\ req' = [req EXCEPT ![r].pc = "answered", ![r].answer = "failed", ![r].open = FALSE,
                              ![r].locks = {}, ![r].leaked = effect]
  BY DEF ProvisionFails
<1>2. req[r].pc = "provisioning" /\ Fault /\ UNCHANGED <<dbVars, window>>
  BY DEF ProvisionFails
<1>3. LocalOK(req[r]) /\ VaultOK(req[r])
  BY DEF CommandInv, HandlersOK
<1>4. PICK g \in Handler : /\ req' = [req EXCEPT ![r] = g]
                           /\ LocalOK(g) /\ ReadsOK(g) /\ KeyOK(g) /\ g.answer = "failed"
                           /\ g.pc = "answered" /\ g.new = req[r].new /\ g.leaked = effect
                           /\ \A q \in Requests : q # r => Apart(g, req[q])
  BY <1>1, <1>2, LeakSets
<1>5. VaultOK(g) /\ VaultOK(g)' /\ g.answer \notin Success
  BY <1>4 DEF VaultOK, Creates, Deciding, Success
<1>6. PICK c \in Cards : c = req[r].new
  BY <1>2, <1>3 DEF LocalOK, Creates, Deciding
<1>7. CASE effect
  <2>1. AnswersFor(g, c) /\ vault' = [vault EXCEPT ![c] = "live"]
    BY <1>1, <1>4, <1>6, <1>7 DEF AnswersFor
  <2> QED
    BY <1>2, <1>4, <1>5, <1>6, <2>1, VaultStep
<1>8. CASE ~effect
  <2>1. UNCHANGED vault /\ vault[c] = "none"
    BY <1>1, <1>2, <1>3, <1>6, <1>8 DEF VaultOK
  <2>2. \A d \in Cards : ~(vault[d] = "live" /\ AnswersFor(req[r], d))
    BY <1>6, <2>1 DEF AnswersFor
  <2> QED
    BY <1>2, <1>4, <1>5, <2>1, <2>2, HandlerStep
<1> QED
  BY <1>7, <1>8

LEMMA RevokeStep ==
  ASSUME CommandInv, NEW r \in Requests, Revoke(r)
  PROVE  CommandInv'
<1> DEFINE old == req[r]
           new == [old EXCEPT !.pc = "answered", !.answer = "failed", !.result = NoCard, !.open = FALSE, !.locks = {}]
<1>1. TypeOK /\ old \in Handler /\ LocalOK(old) /\ old.pc = "revoking"
  BY DEF CommandInv, TypeOK, HandlersOK, Revoke
<1>2. /\ req' = [req EXCEPT ![r] = new] /\ UNCHANGED <<dbVars, window, faults>>
      /\ vault' = [vault EXCEPT ![old.new] = "revoked"]
  BY <1>1 DEF TypeOK, Revoke, Answer
<1>3. \A q \in Requests : q # r => Apart(old, req[q])
  BY DEF CommandInv, HandlersApart
<1>4. PICK c \in Cards : c = old.new
  BY <1>1 DEF LocalOK
<1>5. req[r].new = c
  BY <1>4
<1> HIDE DEF old
<1>6. new \in Handler
  <2>1. "failed" \in Answers /\ {} \in SUBSET Cards
    BY DEF Answers
  <2> QED
    BY <1>1, <2>1 DEF Handler
<1>7. /\ new.pc = "answered" /\ new.answer = "failed" /\ new.open = FALSE /\ new.locks = {}
      /\ new.id = old.id /\ new.body = old.body /\ new.new = c
  BY <1>1, <1>4 DEF Handler
<1> HIDE DEF new
<1>8. LocalOK(new)
  BY <1>1, <1>7 DEF LocalOK, OnCard, Creates, Running, Deciding
<1>9. ReadsOK(new) /\ KeyOK(new) /\ new.answer \notin Success
  BY <1>7 DEF ReadsOK, KeyOK, OnCard, Creates, Deciding, Success
<1>10. PICK g \in Handler : g = new
  BY <1>6
<1>11. VaultOK(g)'
  BY <1>7, <1>10 DEF VaultOK, Creates, Deciding
<1>12. \A q \in Requests : q # r => Apart(g, req[q])
  BY <1>3, <1>4, <1>7, <1>10 DEF Apart
<1> QED
  BY <1>2, <1>4, <1>5, <1>7, <1>8, <1>9, <1>10, <1>11, <1>12, VaultStep

-----------------------------------------------------------------------------
(* What a commit does to the cards, row by row *)

InUse == CardStates \ {"pending", "issued"}
OutOfUse == {"closed", "expired"}

Same(x) == card'[x] = card[x] /\ trail'[x] = trail[x] /\ predecessor'[x] = predecessor[x]

Moved(x, to) ==
  /\ card[x] \in CardStates \ OutOfUse /\ card'[x] = to
  /\ trail'[x] = Append(trail[x], <<card[x], to>>)
  /\ predecessor'[x] = predecessor[x]

Born(x) ==
  /\ card[x] = "absent" /\ card'[x] = "issued"
  /\ trail'[x] = Append(trail[x], <<"pending", "issued">>)

\* What a step may do to the row of a card.
Advances(x) == Same(x) \/ Born(x) \/ \E to \in InUse : Moved(x, to)

TablesTyped ==
  /\ card \in [Cards -> CardStates \cup {"absent"}]
  /\ predecessor \in [Cards -> Cards \cup {NoCard}]
  /\ trail \in [Cards -> Seq(CardStates \X CardStates)]

\* A history that ends in the status of its card goes on from there.
LEMMA TrailGrows ==
  ASSUME NEW t \in Seq(CardStates \X CardStates), NEW from \in CardStates, NEW to \in CardStates,
         \A i \in 1..(Len(t) - 1) : t[i][2] = t[i + 1][1],
         t # <<>> => t[Len(t)][2] = from,
         NEW u, u = Append(t, <<from, to>>)
  PROVE  /\ \A i \in 1..(Len(u) - 1) : u[i][2] = u[i + 1][1]
         /\ u # <<>> /\ u[Len(u)][2] = to
<1>1. /\ Len(u) = Len(t) + 1 /\ Len(t) \in Nat
      /\ \A i \in 1..Len(t) : u[i] = t[i]
      /\ u[Len(u)] = <<from, to>>
  OBVIOUS
<1>2. u # <<>> /\ u[Len(u)][2] = to
  BY <1>1
<1>3. ASSUME NEW i \in 1..(Len(u) - 1) PROVE u[i][2] = u[i + 1][1]
  <2>1. i \in 1..Len(t)
    BY <1>1, <1>3
  <2>2. CASE i < Len(t)
    <3>1. i \in 1..(Len(t) - 1) /\ i + 1 \in 1..Len(t)
      BY <1>1, <2>1, <2>2
    <3> QED
      BY <1>1, <2>1, <3>1
  <2>3. CASE i = Len(t)
    <3>1. t # <<>> /\ i + 1 = Len(u)
      BY <1>1, <2>1, <2>3
    <3>2. u[i][2] = from
      BY <1>1, <2>1, <2>3, <3>1
    <3>3. u[i + 1][1] = from
      BY <1>1, <3>1
    <3> QED
      BY <3>2, <3>3
  <2> QED
    BY <1>1, <2>1, <2>2, <2>3
<1> QED
  BY <1>2, <1>3

\* A card that comes into use takes the place of a card that goes out of it.
LEMMA RowsMove ==
  ASSUME TablesTyped, RowsInv, TablesTyped',
         \A x \in Cards :
           \/ Same(x)
           \/ \E to \in InUse :
                /\ Moved(x, to)
                /\ \/ to \in OutOfUse \/ card[x] \in {"active", "suspended"}
                   \/ predecessor[x] = NoCard \/ card'[predecessor[x]] \in OutOfUse
  PROVE  RowsInv'
<1>1. CardsOK /\ OneCardInPlace /\ TrailConnected
  BY DEF RowsInv
<1>2. \A x \in Cards : predecessor'[x] = predecessor[x]
  BY DEF Same, Moved
<1>3. \A x \in Cards : card[x] \in OutOfUse \cup {"absent"} => Same(x)
  BY DEF Moved, OutOfUse, CardStates
<1>4. \A x \in Cards : card'[x] # card[x] => card'[x] \in InUse
  BY DEF Same, Moved
<1>5. CardsOK'
  <2> SUFFICES ASSUME NEW c \in Cards
               PROVE  /\ card'[c] = "absent" => trail'[c] = <<>> /\ predecessor'[c] = NoCard
                      /\ predecessor'[c] # NoCard => card'[predecessor'[c]] \in InUse
    BY DEF CardsOK, InUse
  <2>1. card'[c] = "absent" => trail'[c] = <<>> /\ predecessor'[c] = NoCard
    <3>1. card'[c] = "absent" => card[c] = "absent"
      BY <1>4 DEF InUse, CardStates
    <3> QED
      BY <1>1, <1>3, <3>1 DEF CardsOK, Same
  <2>2. ASSUME predecessor'[c] # NoCard PROVE card'[predecessor'[c]] \in InUse
    <3>1. predecessor[c] \in Cards /\ predecessor'[c] = predecessor[c] /\ card[predecessor[c]] \in InUse
      BY <1>1, <1>2, <2>2 DEF TablesTyped, CardsOK, InUse
    <3> QED
      BY <1>4, <3>1
  <2> QED
    BY <2>1, <2>2
<1>6. OneCardInPlace'
  <2>1. ASSUME NEW s \in Cards, card'[s] = "issued" PROVE card[s] = "issued"
    BY <1>4, <2>1 DEF InUse
  <2>2. ASSUME NEW s \in Cards, predecessor'[s] # NoCard, card'[s] \in {"active", "suspended"}
        PROVE  card'[predecessor'[s]] \in OutOfUse
    <3>1. predecessor[s] # NoCard /\ predecessor'[s] = predecessor[s] /\ predecessor[s] \in Cards
      BY <1>2, <2>2 DEF TablesTyped
    <3>2. CASE card[s] \in {"active", "suspended"}
      <4>1. card[predecessor[s]] \in OutOfUse
        BY <1>1, <3>1, <3>2 DEF OneCardInPlace, OutOfUse
      <4> QED
        BY <1>3, <3>1, <4>1 DEF Same
    <3>3. CASE card[s] \notin {"active", "suspended"}
      <4>1. PICK to \in InUse : /\ Moved(s, to)
                                /\ to \in OutOfUse \/ card'[predecessor[s]] \in OutOfUse
        BY <2>2, <3>1, <3>3 DEF Same
      <4> QED
        BY <2>2, <3>1, <4>1 DEF Moved, OutOfUse
    <3> QED
      BY <3>2, <3>3
  <2> QED
    BY <1>1, <1>2, <2>1, <2>2 DEF OneCardInPlace, OutOfUse
<1>7. TrailConnected'
  <2> SUFFICES ASSUME NEW c \in Cards
               PROVE  /\ \A i \in 1..(Len(trail'[c]) - 1) : trail'[c][i][2] = trail'[c][i + 1][1]
                      /\ trail'[c] # <<>> => trail'[c][Len(trail'[c])][2] = card'[c]
    BY DEF TrailConnected
  <2>1. /\ \A i \in 1..(Len(trail[c]) - 1) : trail[c][i][2] = trail[c][i + 1][1]
        /\ trail[c] # <<>> => trail[c][Len(trail[c])][2] = card[c]
    BY <1>1 DEF TrailConnected
  <2>2. CASE Same(c)
    BY <2>1, <2>2 DEF Same
  <2>3. CASE \E to \in InUse : Moved(c, to)
    <3>1. PICK to \in InUse : Moved(c, to)
      BY <2>3
    <3>2. /\ card[c] \in CardStates /\ to \in CardStates /\ card'[c] = to
          /\ trail[c] \in Seq(CardStates \X CardStates)
          /\ trail'[c] = Append(trail[c], <<card[c], to>>)
      BY <3>1 DEF Moved, InUse, TablesTyped
    <3>3. PICK t \in Seq(CardStates \X CardStates), from \in CardStates : t = trail[c] /\ from = card[c]
      BY <3>2
    <3>4. PICK u : u = trail'[c]
      OBVIOUS
    <3>5. /\ \A i \in 1..(Len(u) - 1) : u[i][2] = u[i + 1][1]
          /\ u # <<>> /\ u[Len(u)][2] = to
      BY SMTT(30), <2>1, <3>2, <3>3, <3>4, TrailGrows
    <3> QED
      BY <3>2, <3>4, <3>5
  <2> QED
    BY <2>2, <2>3
<1> QED
  BY <1>5, <1>6, <1>7 DEF RowsInv

\* A new card is issued, for a card in use without an issued successor or for none.
LEMMA RowBorn ==
  ASSUME TablesTyped, RowsInv, TablesTyped', NEW n \in Cards, NEW p \in Cards \cup {NoCard},
         card[n] = "absent", card'[n] = "issued",
         trail'[n] = Append(trail[n], <<"pending", "issued">>), predecessor'[n] = p,
         \A x \in Cards : x # n => Same(x),
         p # NoCard => card[p] \in {"active", "suspended"} /\ ~ReplacementPending(p)
  PROVE  RowsInv'
<1>1. CardsOK /\ OneCardInPlace /\ TrailConnected
  BY DEF RowsInv
<1>2. trail[n] = <<>> /\ predecessor[n] = NoCard /\ \A x \in Cards : predecessor[x] # n
  BY <1>1, CardCommandsAssumption DEF CardsOK, CardStates
<1>3. CardsOK'
  <2> SUFFICES ASSUME NEW c \in Cards
               PROVE  /\ card'[c] = "absent" => trail'[c] = <<>> /\ predecessor'[c] = NoCard
                      /\ predecessor'[c] # NoCard => card'[predecessor'[c]] \in InUse
    BY DEF CardsOK, InUse
  <2>1. CASE c = n
    <3>1. p # NoCard => p # n /\ p \in Cards /\ card'[p] = card[p]
      BY DEF Same
    <3> QED
      BY <2>1, <3>1 DEF InUse, CardStates
  <2>2. CASE c # n
    <3>1. Same(c) /\ (predecessor[c] # NoCard => Same(predecessor[c]))
      BY <1>2, <2>2 DEF TablesTyped
    <3> QED
      BY <1>1, <3>1 DEF Same, CardsOK, InUse
  <2> QED
    BY <2>1, <2>2
<1>4. OneCardInPlace'
  <2>1. ASSUME NEW s \in Cards, NEW t \in Cards, predecessor'[s] # NoCard, predecessor'[s] = predecessor'[t],
               card'[s] = "issued", card'[t] = "issued"
        PROVE  s = t
    <3>1. ASSUME NEW x \in Cards, x # n, predecessor'[x] = p, card'[x] = "issued", p # NoCard
          PROVE  FALSE
      BY <3>1 DEF Same, ReplacementPending
    <3>2. CASE s # n /\ t # n
      BY <1>1, <2>1, <3>2 DEF Same, OneCardInPlace
    <3> QED
      BY <2>1, <3>1, <3>2
  <2>2. ASSUME NEW s \in Cards, predecessor'[s] # NoCard, card'[s] \in {"active", "suspended"}
        PROVE  card'[predecessor'[s]] \in OutOfUse
    <3>1. s # n
      BY <2>2
    <3>2. Same(s) /\ predecessor[s] # NoCard /\ Same(predecessor[s])
      BY <1>2, <2>2, <3>1 DEF TablesTyped, Same
    <3> QED
      BY <1>1, <2>2, <3>2 DEF Same, OneCardInPlace, OutOfUse
  <2> QED
    BY <2>1, <2>2 DEF OneCardInPlace, OutOfUse
<1>5. TrailConnected'
  <2> SUFFICES ASSUME NEW c \in Cards
               PROVE  /\ \A i \in 1..(Len(trail'[c]) - 1) : trail'[c][i][2] = trail'[c][i + 1][1]
                      /\ trail'[c] # <<>> => trail'[c][Len(trail'[c])][2] = card'[c]
    BY DEF TrailConnected
  <2>1. CASE c = n
    <3>1. "pending" \in CardStates /\ "issued" \in CardStates /\ <<>> \in Seq(CardStates \X CardStates)
      BY DEF CardStates
    <3>2. PICK t \in Seq(CardStates \X CardStates) : t = <<>> /\ trail'[c] = Append(t, <<"pending", "issued">>)
      BY <1>2, <2>1, <3>1
    <3> QED
      BY <2>1, <3>1, <3>2, TrailGrows
  <2>2. CASE c # n
    BY <1>1, <2>2 DEF Same, TrailConnected
  <2> QED
    BY <2>1, <2>2
<1> QED
  BY <1>3, <1>4, <1>5 DEF RowsInv

\* A handler goes on seeing what it has locked and what only it has.
LEMMA ReadsKept ==
  ASSUME TypeOK, CardsOK, NEW h, LocalOK(h), ReadsOK(h),
         \A x \in Cards : x \in h.locks /\ card[x] # "absent" => Same(x),
         Creates(h) => Same(h.new),
         \A x \in Cards : card'[x] = "issued" /\ predecessor'[x] \in h.locks
                          => card[x] = "issued" /\ predecessor[x] = predecessor'[x]
  PROVE  ReadsOK(h)'
<1> DEFINE c == Subject(h.id)
<1>1. ASSUME OnCard(h) PROVE c \in Cards /\ c \in h.locks /\ Same(c)
  <2>1. h.id \in Ids /\ Action(h.id) # "issue" /\ c \in h.locks /\ card[c] = h.status /\ h.status # "absent"
    BY <1>1 DEF LocalOK, OnCard, Deciding, ReadsOK
  <2> QED
    BY <2>1, IdFacts
<1>2. OnCard(h) => h.status = card'[c]
  BY <1>1 DEF ReadsOK, Same
<1>3. h.pc = "applied" =>
        IF Action(h.id) = "activate" /\ h.status # "active" /\ predecessor'[c] # NoCard
          THEN predecessor'[c] \in h.locks /\ h.old = card'[predecessor'[c]]
          ELSE h.old = "absent"
  <2>1. CASE h.pc = "applied" /\ Action(h.id) = "activate"
    <3>1. OnCard(h)
      BY <2>1 DEF OnCard, Deciding
    <3>2. c \in Cards /\ predecessor'[c] = predecessor[c]
      BY <1>1, <3>1 DEF Same
    <3>3. CASE h.status # "active" /\ predecessor[c] # NoCard
      <4>1. predecessor[c] \in h.locks /\ h.old = card[predecessor[c]]
        BY <2>1, <3>3 DEF ReadsOK
      <4>2. predecessor \in [Cards -> Cards \cup {NoCard}]
        BY DEF TypeOK
      <4>3. PICK p \in Cards : p = predecessor[c]
        BY <3>2, <3>3, <4>2
      <4>4. card[p] # "absent"
        BY <3>2, <3>3, <4>3 DEF CardsOK, CardStates
      <4>5. card'[p] = card[p]
        BY <4>1, <4>3, <4>4 DEF Same
      <4>6. predecessor'[c] = p /\ p \in h.locks /\ h.old = card'[p] /\ p # NoCard
        BY <3>2, <3>3, <4>1, <4>3, <4>5
      <4>7. predecessor'[c] \in h.locks /\ h.old = card'[predecessor'[c]]
        BY <4>6
      <4> QED
        BY <2>1, <3>3, <4>6, <4>7
    <3> QED
      BY <2>1, <3>2, <3>3 DEF ReadsOK
  <2> QED
    BY <2>1 DEF ReadsOK
<1>4. h.pc \in Deciding /\ Action(h.id) = "replace" => ~ReplacementPending(c)'
  <2>1. CASE h.pc \in Deciding /\ Action(h.id) = "replace"
    <3>1. OnCard(h) /\ ~ReplacementPending(c)
      BY <2>1 DEF OnCard, ReadsOK
    <3> QED
      BY <1>1, <3>1 DEF ReplacementPending
  <2> QED
    BY <2>1
<1>5. Creates(h) => card'[h.new] = "absent"
  BY DEF ReadsOK, Same
<1> QED
  BY <1>2, <1>3, <1>4, <1>5 DEF ReadsOK, OnCard, Creates


\* What others may rely on in a commit of handler h.
Published(h) ==
  /\ TablesTyped' /\ RowsInv'
  /\ \A x \in Cards : \/ Same(x)
                      \/ x \in h.locks /\ card[x] # "absent"
                      \/ Creates(h) /\ x = h.new
  /\ \A x \in Cards : card'[x] = "issued" =>
       \/ card[x] = "issued" /\ predecessor'[x] = predecessor[x]
       \/ Creates(h) /\ x = h.new /\ (predecessor'[x] = NoCard \/ predecessor'[x] \in h.locks)
  /\ \A x \in Cards : card'[x] = "absent" => card[x] = "absent" /\ ~(Creates(h) /\ x = h.new)
  /\ \A x \in Cards : Advances(x)

LEMMA CreationPublished ==
  ASSUME CommandInv, NEW r \in Requests, req[r].pc = "applied", CommitEffects(r),
         Action(req[r].id) \in Creations
  PROVE  Published(req[r])
<1> DEFINE h == req[r]
           n == h.new
           c == Subject(h.id)
           p == IF Action(h.id) = "replace" THEN c ELSE NoCard
<1>1. LocalOK(h) /\ ReadsOK(h) /\ TablesTyped /\ RowsInv
  BY DEF CommandInv, HandlersOK, TypeOK, TablesTyped
<1>2. Creates(h) /\ h.pc = "applied"
  BY DEF Creates, Deciding
<1>3. n \in Cards /\ card[n] = "absent" /\ trail[n] = <<>> /\ predecessor[n] = NoCard
  BY <1>1, <1>2 DEF LocalOK, ReadsOK, RowsInv, CardsOK
<1>4. /\ card' = [x \in Cards |-> IF x = n THEN "issued" ELSE card[x]]
      /\ trail' = [x \in Cards |-> IF x = n THEN Append(trail[x], <<"pending", "issued">>) ELSE trail[x]]
  BY DEF CommitEffects, Creations, Commands, CardActions
<1>5. predecessor' = IF Action(h.id) = "replace" THEN [predecessor EXCEPT ![n] = c] ELSE predecessor
  BY DEF CommitEffects
<1>6. ASSUME Action(h.id) = "replace"
      PROVE  c \in Cards /\ c \in h.locks /\ card[c] \in {"active", "suspended"} /\ ~ReplacementPending(c)
  <2>1. OnCard(h) /\ h.id \in Ids
    BY <1>1, <1>2, <1>6 DEF OnCard, Deciding, LocalOK
  <2> QED
    BY <1>1, <1>2, <1>6, <2>1, IdFacts DEF LocalOK, ReadsOK, Deciding
<1>7. /\ p \in Cards \cup {NoCard} /\ predecessor' = [predecessor EXCEPT ![n] = p]
      /\ p # NoCard => p \in h.locks /\ card[p] \in {"active", "suspended"} /\ ~ReplacementPending(p)
  <2>1. CASE Action(h.id) = "replace"
    BY <1>5, <1>6, <2>1
  <2>2. CASE Action(h.id) # "replace"
    BY <1>1, <1>3, <1>5, <2>2 DEF TablesTyped
  <2> QED
    BY <2>1, <2>2
<1> HIDE DEF h, n, p
<1>8. TablesTyped'
  <2>1. card' \in [Cards -> CardStates \cup {"absent"}]
    BY <1>1, <1>4 DEF TablesTyped, CardStates
  <2>2. predecessor' \in [Cards -> Cards \cup {NoCard}]
    BY <1>1, <1>7 DEF TablesTyped
  <2>3. <<"pending", "issued">> \in CardStates \X CardStates
    BY DEF CardStates
  <2>4. trail' \in [Cards -> Seq(CardStates \X CardStates)]
    BY <1>1, <1>4, <2>3 DEF TablesTyped
  <2> QED
    BY <2>1, <2>2, <2>4 DEF TablesTyped
<1>9. /\ card'[n] = "issued" /\ predecessor'[n] = p
      /\ trail'[n] = Append(trail[n], <<"pending", "issued">>)
      /\ \A x \in Cards : x # n => Same(x)
  BY <1>1, <1>3, <1>4, <1>7 DEF Same, TablesTyped
<1>10. RowsInv'
  <2>1. PICK b \in Cards \cup {NoCard}, m \in Cards : b = p /\ m = n
    BY <1>3, <1>7
  <2> QED
    BY <1>1, <1>3, <1>7, <1>8, <1>9, <2>1, RowBorn
<1>11. n = h.new
  BY DEF n
<1>12. \A x \in Cards : Advances(x)
  BY <1>3, <1>9 DEF Advances, Born
<1>13. Published(h)
  BY <1>2, <1>3, <1>7, <1>8, <1>9, <1>10, <1>11, <1>12 DEF Published, Same
<1> QED
  BY <1>13 DEF h

LEMMA CommandPublished ==
  ASSUME CommandInv, NEW r \in Requests, req[r].pc = "applied", CommitEffects(r),
         Action(req[r].id) \notin Creations
  PROVE  Published(req[r])
<1> DEFINE h == req[r]
           c == Subject(h.id)
           p == predecessor[c]
           to == TargetOf[Action(h.id)]
           retires == RetiresOld(r)
<1>1. LocalOK(h) /\ ReadsOK(h) /\ TablesTyped /\ RowsInv
  BY DEF CommandInv, HandlersOK, TypeOK, TablesTyped
<1>2. OnCard(h) /\ ~Creates(h) /\ h.id \in Ids /\ Action(h.id) \in Commands
  BY <1>1, IdFacts DEF OnCard, Deciding, Creates, Creations, LocalOK
<1>3. /\ c \in Cards /\ c \in h.locks /\ h.status = card[c] /\ card[c] \in CardStates
      /\ h.status \in SourcesOf[Action(h.id)] \/ h.status = to
  <2>1. c \in h.locks /\ h.status = card[c] /\ h.status # "absent" /\ Transition(h.status, Action(h.id)).valid
    BY <1>1, <1>2 DEF LocalOK, ReadsOK
  <2>2. c \in Cards
    BY <1>2, IdFacts DEF OnCard
  <2> QED
    BY <1>1, <2>1, <2>2 DEF TablesTyped, Transition
<1>4. predecessor' = predecessor
  BY <1>2 DEF CommitEffects, Creations
<1>5. CASE h.status = to
  <2>1. card' = [x \in Cards |-> card[x]] /\ trail' = [x \in Cards |-> trail[x]]
    BY <1>5 DEF CommitEffects
  <2>2. card' = card /\ trail' = trail
    BY <1>1, <2>1 DEF TablesTyped
  <2>3. TablesTyped' /\ RowsInv' /\ \A x \in Cards : Same(x)
    BY <1>1, <1>4, <2>2 DEF TablesTyped, RowsInv, CardsOK, OneCardInPlace, TrailConnected, Same
  <2> QED
    BY <1>2, <1>4, <2>2, <2>3 DEF Published, Advances
<1>6. CASE h.status # to
  <2>1. /\ card' = [x \in Cards |-> IF x = c THEN to ELSE IF retires /\ x = p THEN "closed" ELSE card[x]]
        /\ trail' = [x \in Cards |-> IF x = c THEN Append(trail[x], <<card[c], to>>)
                                     ELSE IF retires /\ x = p THEN Append(trail[x], <<h.old, "closed">>)
                                     ELSE trail[x]]
    BY <1>2, <1>3, <1>6 DEF CommitEffects
  <2>2. /\ to \in InUse /\ card[c] \in CardStates \ OutOfUse
        /\ to \in OutOfUse \/ card[c] \in {"active", "suspended"} \/ Action(h.id) = "activate"
    BY <1>2, <1>3, <1>6 DEF TargetOf, SourcesOf, Commands, CardActions, InUse, OutOfUse, CardStates
  <2>3. retires => p \in Cards /\ p \in h.locks /\ h.old = card[p] /\ card[p] \in {"active", "suspended"}
    <3>1. retires => Action(h.id) = "activate" /\ h.status # "active" /\ h.old \in {"active", "suspended"}
      BY DEF RetiresOld, Activates
    <3>2. p \in Cards \cup {NoCard}
      BY <1>1, <1>3 DEF TablesTyped
    <3> QED
      BY <1>1, <3>1, <3>2 DEF ReadsOK
  <2>4. Action(h.id) = "activate" /\ card[c] \notin {"active", "suspended"} /\ p # NoCard
        => p # c /\ (retires \/ card[p] \in OutOfUse)
    <3>1. CASE Action(h.id) = "activate" /\ card[c] \notin {"active", "suspended"} /\ p # NoCard
      <4>1. card[c] = "issued"
        BY <1>3, <1>6, <3>1 DEF TargetOf, SourcesOf
      <4>2. p \in Cards /\ card[p] \in InUse /\ h.old = card[p]
        BY <1>1, <1>3, <3>1 DEF TablesTyped, RowsInv, CardsOK, InUse, ReadsOK
      <4>3. p # c
        BY <4>1, <4>2 DEF InUse
      <4>4. retires \/ card[p] \in OutOfUse
        BY <1>3, <3>1, <4>1, <4>2 DEF RetiresOld, Activates, InUse, OutOfUse, CardStates
      <4> QED
        BY <4>3, <4>4
    <3> QED
      BY <3>1
  <2> HIDE DEF h, c, p, to, retires
  <2>5. \A x \in Cards : \/ Same(x)
                         \/ x = c /\ Moved(x, to)
                         \/ x = p /\ retires /\ Moved(x, "closed")
    BY <1>1, <1>4, <2>1, <2>2, <2>3 DEF TablesTyped, Same, Moved, OutOfUse, CardStates
  <2>6. TablesTyped'
    <3>1. card' \in [Cards -> CardStates \cup {"absent"}]
      BY <1>1, <2>1, <2>2 DEF TablesTyped, InUse, CardStates
    <3>2. trail' \in [Cards -> Seq(CardStates \X CardStates)]
      <4>1. <<card[c], to>> \in CardStates \X CardStates
        BY <2>2 DEF InUse
      <4>2. retires => <<h.old, "closed">> \in CardStates \X CardStates
        BY <2>3 DEF CardStates
      <4>3. ASSUME NEW x \in Cards PROVE trail'[x] \in Seq(CardStates \X CardStates)
        BY <1>1, <2>1, <4>1, <4>2 DEF TablesTyped
      <4> QED
        BY <2>1, <4>3
    <3> QED
      BY <1>1, <1>4, <3>1, <3>2 DEF TablesTyped
  <2>7. \/ to \in OutOfUse \/ card[c] \in {"active", "suspended"}
        \/ predecessor[c] = NoCard \/ card'[predecessor[c]] \in OutOfUse
    <3>1. p = predecessor[c] /\ p \in Cards \cup {NoCard}
      BY <1>1, <1>3 DEF TablesTyped, p
    <3>2. CASE Action(h.id) = "activate" /\ card[c] \notin {"active", "suspended"} /\ p # NoCard
      BY <2>1, <2>4, <3>1, <3>2 DEF OutOfUse
    <3> QED
      BY <2>2, <3>1, <3>2
  <2>8. RowsInv'
    <3>1. "closed" \in InUse /\ "closed" \in OutOfUse
      BY DEF InUse, OutOfUse, CardStates
    <3>2. \A x \in Cards :
            \/ Same(x)
            \/ \E t \in InUse :
                 /\ Moved(x, t)
                 /\ \/ t \in OutOfUse \/ card[x] \in {"active", "suspended"}
                    \/ predecessor[x] = NoCard \/ card'[predecessor[x]] \in OutOfUse
      BY <2>2, <2>5, <2>7, <3>1
    <3> QED
      BY <1>1, <2>6, <3>2, RowsMove
  <2>9. \A x \in Cards : Same(x) \/ (x \in h.locks /\ card[x] # "absent")
    <3>1. c \in h.locks /\ card[c] # "absent"
      BY <1>3 DEF CardStates
    <3>2. retires => p \in h.locks /\ card[p] # "absent"
      BY <2>3
    <3> QED
      BY <2>5, <3>1, <3>2
  <2>10. \A x \in Cards : card'[x] # card[x] => card'[x] \in InUse
    BY <2>2, <2>5 DEF Same, Moved, InUse, CardStates
  <2>11. \A x \in Cards : Advances(x)
    <3>1. "closed" \in InUse
      BY DEF InUse, CardStates
    <3> QED
      BY <2>2, <2>5, <3>1 DEF Advances
  <2>12. Published(h)
    BY <1>2, <1>4, <2>6, <2>8, <2>9, <2>10, <2>11 DEF Published, InUse, CardStates
  <2> QED
    BY <2>12 DEF h
<1> QED
  BY <1>5, <1>6


\* The record of the command and its count, under a key that only it has.
LEMMA CommitKeys ==
  ASSUME CommandInv, NEW r \in Requests, req[r].pc = "applied", CommitEffects(r)
  PROVE  /\ req[r].id \in Ids /\ req[r].window = window[req[r].id] /\ ~Replayable(req[r].id) /\ req[r].open
         /\ records' \in [Ids -> Record \cup {None}] /\ applied' \in [Ids -> Nat]
         /\ \A i \in Ids : i # req[r].id => records'[i] = records[i]
         /\ records'[req[r].id] # None /\ ~records'[req[r].id].lapsed
         /\ records'[req[r].id].body = req[r].body /\ records'[req[r].id].result = ResultOf(r)
         /\ AppliedWithRecord'
<1> DEFINE h == req[r]
           id == h.id
           new == [body |-> h.body, result |-> ResultOf(r), lapsed |-> FALSE]
<1>1. LocalOK(h) /\ KeyOK(h) /\ TypeOK /\ AppliedWithRecord
  BY DEF CommandInv, HandlersOK
<1>2. id \in Ids /\ h.body \in Bodies /\ h.open
  BY <1>1 DEF LocalOK, Running
<1>3. ~Replayable(id) /\ h.window = window[id]
  BY <1>1, <1>2 DEF KeyOK
<1>4. ResultOf(r) \in Cards
  <2>1. CASE Action(id) \in Creations
    BY <1>1, <2>1 DEF ResultOf, LocalOK, Creates, Deciding
  <2>2. CASE Action(id) \notin Creations
    BY <1>2, <2>2, IdFacts DEF ResultOf, Creations
  <2> QED
    BY <2>1, <2>2
<1>5. /\ new \in Record /\ ~new.lapsed /\ new.body = h.body /\ new.result = ResultOf(r)
  BY <1>2, <1>4 DEF Record
<1>6. new # None
  BY <1>5, AbsentAssumption
<1>7. records' = [records EXCEPT ![id] = new] /\ applied' = [applied EXCEPT ![id] = @ + 1]
  BY DEF CommitEffects
<1>8. records \in [Ids -> Record \cup {None}] /\ applied \in [Ids -> Nat]
  BY <1>1 DEF TypeOK
<1> HIDE DEF new
<1>9. /\ records' \in [Ids -> Record \cup {None}] /\ applied' \in [Ids -> Nat]
      /\ \A i \in Ids : i # id => records'[i] = records[i] /\ applied'[i] = applied[i]
      /\ records'[id] = new
  BY <1>2, <1>5, <1>7, <1>8
<1>10. AppliedWithRecord'
  <2>1. applied[id] = 0
    BY <1>1, <1>2, <1>3 DEF AppliedWithRecord
  <2>2. applied'[id] = 1
    BY <1>2, <1>7, <1>8, <2>1
  <2>3. ASSUME NEW i \in Ids PROVE applied'[i] = IF Replayable(i)' THEN 1 ELSE 0
    <3>1. CASE i = id
      BY <1>5, <1>6, <1>9, <2>2, <3>1 DEF Replayable
    <3>2. CASE i # id
      BY <1>1, <1>9, <3>2 DEF AppliedWithRecord, Replayable
    <3> QED
      BY <3>1, <3>2
  <2> QED
    BY <2>3 DEF AppliedWithRecord
<1> QED
  BY <1>2, <1>3, <1>5, <1>6, <1>9, <1>10

LEMMA CommitOthers ==
  ASSUME CommandInv, NEW r \in Requests, req[r].pc = "applied", CommitEffects(r),
         UNCHANGED <<vault, window>>, Published(req[r]),
         NEW q \in Requests, q # r, req'[q] = req[q]
  PROVE  (ReadsOK(req[q]) /\ VaultOK(req[q]) /\ KeyOK(req[q]))'
<1>1. PICK h : h = req[q]
  OBVIOUS
<1>2. PICK g : g = req[r]
  OBVIOUS
<1>3. /\ LocalOK(h) /\ ReadsOK(h) /\ VaultOK(h) /\ KeyOK(h) /\ req'[q] = h
      /\ LocalOK(g) /\ ReadsOK(g) /\ Apart(h, g) /\ Published(g) /\ TypeOK /\ CardsOK
  BY <1>1, <1>2 DEF CommandInv, HandlersOK, HandlersApart, RowsInv
<1>4. h.locks \cap g.locks = {} /\ (h.new # NoCard => h.new # g.new) /\ (h.open => h.id # g.id)
  BY <1>2, <1>3, CommitKeys DEF Apart
<1>5. Creates(g) => card[g.new] = "absent"
  BY <1>3 DEF ReadsOK
<1>6. ReadsOK(h)'
  <2>1. \A x \in Cards : x \in h.locks /\ card[x] # "absent" => Same(x)
    BY <1>3, <1>4, <1>5 DEF Published
  <2>2. ASSUME Creates(h) PROVE Same(h.new)
    <3>1. h.new \in Cards /\ card[h.new] = "absent" /\ h.new # g.new
      BY <1>3, <1>4, <2>2, CardCommandsAssumption DEF LocalOK, ReadsOK
    <3> QED
      BY <1>3, <3>1 DEF Published
  <2>3. NoCard \notin h.locks
    <3>1. h \in Handler
      BY <1>1, <1>3 DEF TypeOK
    <3>2. h.locks \subseteq Cards
      BY <3>1 DEF Handler
    <3> QED
      BY <3>2, CardCommandsAssumption
  <2>4. \A x \in Cards : card'[x] = "issued" /\ predecessor'[x] \in h.locks
                         => card[x] = "issued" /\ predecessor[x] = predecessor'[x]
    BY <1>3, <1>4, <2>3 DEF Published
  <2> QED
    BY <1>3, <2>1, <2>2, <2>4, ReadsKept
<1>7. VaultOK(h)'
  <2>1. h.answer = "created" => h.new \in Cards
    BY <1>3 DEF LocalOK
  <2>2. \A x \in Cards : card'[x] = "absent" => card[x] = "absent"
    BY <1>3 DEF Published
  <2> QED
    BY <1>3, <2>1, <2>2 DEF VaultOK, Creates
<1>8. KeyOK(h)'
  <2>1. /\ g.id \in Ids /\ ~Replayable(g.id)
        /\ \A i \in Ids : i # g.id => records'[i] = records[i]
    BY <1>2, CommitKeys
  <2>2. CASE h.pc = "idle"
    BY <1>3, <2>2 DEF KeyOK, LocalOK, Success
  <2>3. CASE h.pc # "idle" /\ h.id # g.id
    <3>1. h.id \in Ids /\ records'[h.id] = records[h.id]
      BY <1>3, <2>1, <2>3 DEF LocalOK
    <3> QED
      BY <1>3, <3>1 DEF KeyOK, Agrees, Replayable
  <2>4. CASE h.id = g.id
    <3>1. ~Agrees(h) /\ ~h.open
      BY <1>4, <2>1, <2>4 DEF Agrees
    <3> QED
      BY <1>3, <3>1 DEF KeyOK
  <2> QED
    BY <2>2, <2>3, <2>4
<1> QED
  BY <1>3, <1>6, <1>7, <1>8 DEF ReadsOK, VaultOK, KeyOK, Agrees, OnCard, Creates

\* A commit, whether its handler learns of it or not.
LEMMA CommitFits ==
  ASSUME CommandInv, NEW r \in Requests, NEW g \in Handler, req' = [req EXCEPT ![r] = g],
         req[r].pc = "applied", CommitEffects(r), UNCHANGED <<vault, window>>, UNCHANGED faults \/ Fault,
         LocalOK(g), g.pc \in {"answered", "revoking"}, ~g.open, g.locks = {},
         g.id = req[r].id, g.body = req[r].body, g.window = req[r].window, g.new = req[r].new,
         g.answer \in Success => g.result = ResultOf(r),
         g.answer = "created" => Action(g.id) \in Creations
  PROVE  CommandInv'
<1>1. Published(req[r])
  BY CreationPublished, CommandPublished
<1>2. /\ req[r].id \in Ids /\ req[r].window = window[req[r].id]
      /\ records' \in [Ids -> Record \cup {None}] /\ applied' \in [Ids -> Nat]
      /\ records'[req[r].id] # None /\ ~records'[req[r].id].lapsed
      /\ records'[req[r].id].body = req[r].body /\ records'[req[r].id].result = ResultOf(r)
      /\ AppliedWithRecord'
  BY CommitKeys
<1>3. /\ req' \in [Requests -> Handler] /\ req'[r] = g
      /\ \A q \in Requests : q # r => req'[q] = req[q]
  BY HandlerSet DEF CommandInv
<1>4. TypeOK'
  <2>1. faults' \in 0..MaxFaults
    <3>1. faults \in 0..MaxFaults /\ MaxFaults \in Nat
      BY CardCommandsAssumption DEF CommandInv, TypeOK
    <3> QED
      BY <3>1 DEF Fault
  <2>2. /\ card' \in [Cards -> CardStates \cup {"absent"}]
        /\ predecessor' \in [Cards -> Cards \cup {NoCard}]
        /\ trail' \in [Cards -> Seq(CardStates \X CardStates)]
    BY <1>1 DEF Published, TablesTyped
  <2>3. vault' \in [Cards -> {"none", "live", "revoked"}] /\ window' \in [Ids -> 0..MaxWindows]
    BY DEF CommandInv, TypeOK
  <2> QED
    BY <1>2, <1>3, <2>1, <2>2, <2>3 DEF TypeOK
<1>5. \A q \in Requests : q # r => (ReadsOK(req[q]) /\ VaultOK(req[q]) /\ KeyOK(req[q]))'
  BY <1>1, <1>3, CommitOthers
<1>6. ReadsOK(g)'
  BY DEF ReadsOK, OnCard, Creates, Deciding
<1>7. VaultOK(g)'
  <2>1. ASSUME g.answer = "created" PROVE vault[g.new] = "live" /\ card'[g.new] # "absent"
    <3>1. Creates(req[r]) /\ VaultOK(req[r]) /\ LocalOK(req[r])
      BY <2>1 DEF CommandInv, HandlersOK, Creates, Deciding
    <3>2. g.new \in Cards /\ vault[g.new] = "live"
      BY <3>1 DEF VaultOK, LocalOK
    <3> QED
      BY <1>1, <3>1, <3>2 DEF Published
  <2> QED
    BY <2>1 DEF VaultOK, Creates, Deciding
<1>8. g.answer \in Success => (g.window = window[g.id] /\ Agrees(g))'
  BY <1>2 DEF Agrees, Replayable
<1>9. KeyOK(g)'
  <2>1. window[g.id] \in Nat
    <3>1. window \in [Ids -> 0..MaxWindows] /\ MaxWindows \in Nat
      BY CardCommandsAssumption DEF CommandInv, TypeOK
    <3> QED
      BY <1>2, <3>1
  <2> QED
    BY <1>8, <2>1 DEF KeyOK
<1>10. \A q \in Requests : q # r => Apart(g, req[q])
  BY DEF CommandInv, HandlersApart, Apart
<1>11. Attributed'
  <2> SUFFICES ASSUME NEW c \in Cards, vault'[c] = "live", card'[c] = "absent"
               PROVE  \E q \in Requests : AnswersFor(req[q], c)'
    BY DEF Attributed
  <2>1. vault[c] = "live" /\ card[c] = "absent" /\ ~(Creates(req[r]) /\ c = req[r].new)
    BY <1>1 DEF Published
  <2>2. PICK q \in Requests : AnswersFor(req[q], c)
    BY <2>1 DEF CommandInv, Attributed
  <2>3. q # r
    <3>1. LocalOK(req[r])
      BY DEF CommandInv, HandlersOK
    <3>2. req[r].new # c
      BY <2>1, <3>1, CardCommandsAssumption DEF LocalOK, Creates, Deciding
    <3> QED
      BY <2>2, <3>2 DEF AnswersFor
  <2>4. AnswersFor(req'[q], c)
    BY <1>3, <2>2, <2>3
  <2> QED
    BY <2>4 DEF AnswersFor
<1>12. RowsInv'
  BY <1>1 DEF Published
<1> QED
  BY <1>2, <1>4, <1>5, <1>6, <1>7, <1>8, <1>9, <1>10, <1>11, <1>12, Combine


\* The handler's own end of a commit.
LEMMA CommitAnswers ==
  ASSUME CommandInv, NEW r \in Requests, req[r].pc = "applied", CommitEffects(r),
         UNCHANGED <<vault, window>>, UNCHANGED faults \/ Fault,
         NEW a \in {"created", "done", "failed"}, NEW c \in Cards \cup {NoCard}, Answer(r, a, c),
         a # "failed" => c = ResultOf(r),
         a = "created" => Action(req[r].id) \in Creations
  PROVE  CommandInv'
<1> DEFINE old == req[r]
           new == [old EXCEPT !.pc = "answered", !.answer = a, !.result = c, !.open = FALSE, !.locks = {}]
<1>1. TypeOK /\ old \in Handler /\ LocalOK(old) /\ old.pc = "applied"
  BY DEF CommandInv, TypeOK, HandlersOK
<1>2. req' = [req EXCEPT ![r] = new]
  BY <1>1 DEF TypeOK, Answer
<1>3. a = "created" => c = old.new /\ old.new \in Cards /\ Action(old.id) \in Creations
  BY <1>1 DEF ResultOf, LocalOK, Creates, Deciding
<1> HIDE DEF old
<1>4. new \in Handler
  <2>1. a \in Answers /\ {} \in SUBSET Cards
    BY DEF Answers, Success
  <2> QED
    BY <1>1, <2>1 DEF Handler
<1>5. /\ new.pc = "answered" /\ new.answer = a /\ new.result = c /\ new.open = FALSE /\ new.locks = {}
      /\ new.id = old.id /\ new.body = old.body /\ new.new = old.new /\ new.window = old.window
  BY <1>1 DEF Handler
<1> HIDE DEF new
<1>6. LocalOK(new)
  BY <1>1, <1>3, <1>5 DEF LocalOK, OnCard, Creates, Running, Deciding
<1>7. /\ new.id = req[r].id /\ new.body = req[r].body /\ new.new = req[r].new /\ new.window = req[r].window
      /\ new.answer \in Success => new.result = ResultOf(r)
      /\ new.answer = "created" => Action(new.id) \in Creations
  BY <1>3, <1>5 DEF old, Success
<1> QED
  BY <1>2, <1>4, <1>5, <1>6, <1>7, CommitFits

LEMMA CommitStep ==
  ASSUME CommandInv, NEW r \in Requests, Commit(r)
  PROVE  CommandInv'
<1>1. /\ req[r].pc = "applied" /\ CommitEffects(r) /\ UNCHANGED <<vault, window, faults>>
      /\ Answer(r, IF Action(req[r].id) \in Creations THEN "created" ELSE "done", ResultOf(r))
  BY DEF Commit
<1>2. ResultOf(r) \in Cards \cup {NoCard}
  <2>1. LocalOK(req[r])
    BY DEF CommandInv, HandlersOK
  <2>2. req[r].id \in Ids /\ (Action(req[r].id) \in Creations => req[r].new \in Cards)
    BY <1>1, <2>1 DEF LocalOK, Creates, Deciding
  <2> QED
    BY <2>2, IdFacts DEF ResultOf, Creations
<1>3. PICK c \in Cards \cup {NoCard} : c = ResultOf(r)
  BY <1>2
<1>4. CASE Action(req[r].id) \in Creations
  <2>1. Answer(r, "created", c)
    BY <1>1, <1>3, <1>4
  <2> QED
    BY <1>1, <1>3, <1>4, <2>1, CommitAnswers
<1>5. CASE Action(req[r].id) \notin Creations
  <2>1. Answer(r, "done", c)
    BY <1>1, <1>3, <1>5
  <2> QED
    BY <1>1, <1>3, <1>5, <2>1, CommitAnswers
<1> QED
  BY <1>4, <1>5

LEMMA UnacknowledgedStep ==
  ASSUME CommandInv, NEW r \in Requests, CommitUnacknowledged(r)
  PROVE  CommandInv'
<1> DEFINE old == req[r]
           new == [old EXCEPT !.pc = "revoking", !.open = FALSE, !.locks = {}]
<1>1. TypeOK /\ old \in Handler /\ LocalOK(old) /\ old.pc = "applied"
  BY DEF CommandInv, TypeOK, HandlersOK, CommitUnacknowledged
<1>2. CommitEffects(r) /\ Fault /\ UNCHANGED <<vault, window>>
  BY DEF CommitUnacknowledged
<1>3. CASE ~old.provisioned
  <2>1. Answer(r, "failed", NoCard)
    BY <1>3 DEF CommitUnacknowledged
  <2> QED
    BY <1>1, <1>2, <2>1, CommitAnswers
<1>4. CASE old.provisioned
  <2>1. req' = [req EXCEPT ![r] = new]
    BY <1>1, <1>4 DEF TypeOK, CommitUnacknowledged
  <2>2. old.new \in Cards /\ old.answer = "none"
    BY <1>1, <1>4 DEF LocalOK, Creates, Deciding
  <2> HIDE DEF old
  <2>3. new \in Handler
    <3>1. {} \in SUBSET Cards
      OBVIOUS
    <3> QED
      BY <1>1, <3>1 DEF Handler
  <2>4. /\ new.pc = "revoking" /\ new.answer = "none" /\ new.open = FALSE /\ new.locks = {}
        /\ new.id = old.id /\ new.body = old.body /\ new.new = old.new /\ new.window = old.window
    BY <1>1, <2>2 DEF Handler
  <2> HIDE DEF new
  <2>5. LocalOK(new) /\ new.answer \notin Success
    BY <1>1, <2>2, <2>4 DEF LocalOK, OnCard, Creates, Running, Deciding, Success
  <2>6. /\ new.id = req[r].id /\ new.body = req[r].body /\ new.new = req[r].new /\ new.window = req[r].window
        /\ req[r].pc = "applied"
    BY <1>1, <2>4 DEF old
  <2> QED
    BY <1>2, <2>1, <2>3, <2>4, <2>5, <2>6, CommitFits
<1> QED
  BY <1>3, <1>4

-----------------------------------------------------------------------------
(* The executor and the clock *)

\* A card that nobody has locked expires.
LEMMA ExpireStep ==
  ASSUME CommandInv, NEW c \in Cards, ExpireCard(c)
  PROVE  CommandInv'
<1>1. /\ card[c] \in SourcesOf["expire"] /\ ~CardLocked(c)
      /\ UNCHANGED <<predecessor, records, vault, req, applied, window, faults>>
  BY DEF ExpireCard
<1>2. TypeOK /\ TablesTyped /\ RowsInv
  BY DEF CommandInv, TypeOK, TablesTyped
<1>3. card[c] \in CardStates \ OutOfUse
  BY <1>1 DEF SourcesOf, CardStates, OutOfUse
<1>4. Moved(c, "expired") /\ \A x \in Cards : x # c => Same(x)
  BY <1>1, <1>2, <1>3 DEF ExpireCard, Moved, Same, TablesTyped
<1>5. TablesTyped'
  <2>1. card' \in [Cards -> CardStates \cup {"absent"}]
    BY <1>2 DEF ExpireCard, TablesTyped, CardStates
  <2>2. <<card[c], "expired">> \in CardStates \X CardStates
    BY <1>3 DEF CardStates
  <2>3. trail' \in [Cards -> Seq(CardStates \X CardStates)]
    <3>1. PICK e \in CardStates \X CardStates : e = <<card[c], "expired">>
      BY <2>2
    <3>2. trail' = [trail EXCEPT ![c] = Append(@, e)]
      BY <3>1 DEF ExpireCard
    <3>3. Append(trail[c], e) \in Seq(CardStates \X CardStates)
      BY <1>2 DEF TablesTyped
    <3> QED
      BY <1>2, <3>2, <3>3 DEF TablesTyped
  <2> QED
    BY <1>1, <1>2, <2>1, <2>3 DEF TablesTyped
<1>6. TypeOK'
  BY <1>1, <1>2, <1>5 DEF TypeOK, TablesTyped
<1>7. RowsInv'
  <2>1. "expired" \in InUse /\ "expired" \in OutOfUse
    BY DEF InUse, OutOfUse, CardStates
  <2> QED
    BY <1>2, <1>4, <1>5, <2>1, RowsMove
<1>8. ASSUME NEW q \in Requests
      PROVE  (LocalOK(req[q]) /\ ReadsOK(req[q]) /\ VaultOK(req[q]) /\ KeyOK(req[q]))'
  <2>1. PICK h : h = req[q]
    OBVIOUS
  <2>2. LocalOK(h) /\ ReadsOK(h) /\ VaultOK(h) /\ KeyOK(h) /\ req'[q] = h /\ CardsOK
    BY <1>1, <1>2, <2>1 DEF CommandInv, HandlersOK, RowsInv
  <2>3. c \notin h.locks
    BY <1>1, <2>1, Unlocked
  <2>4. Creates(h) => h.new \in Cards /\ card[h.new] = "absent"
    BY <2>2 DEF LocalOK, ReadsOK
  <2>5. /\ \A x \in Cards : x \in h.locks => Same(x)
        /\ Creates(h) => Same(h.new)
        /\ \A x \in Cards : card'[x] = "issued" => card[x] = "issued" /\ predecessor[x] = predecessor'[x]
    BY <1>3, <1>4, <2>3, <2>4 DEF Same, Moved, CardStates
  <2>6. ReadsOK(h)'
    BY <1>2, <2>2, <2>5, ReadsKept
  <2>7. VaultOK(h)'
    <3>1. h.answer = "created" => h.new \in Cards /\ card[h.new] # "absent"
      BY <2>2 DEF LocalOK, VaultOK
    <3>2. h.answer = "created" => card'[h.new] # "absent"
      BY <1>4, <3>1 DEF Same, Moved
    <3> QED
      BY <1>1, <2>2, <3>2 DEF VaultOK, Creates
  <2>8. KeyOK(h)'
    BY <1>1, <2>2 DEF KeyOK, Agrees, Replayable
  <2> QED
    BY <2>2, <2>6, <2>7, <2>8 DEF LocalOK, ReadsOK, VaultOK, KeyOK, Agrees, OnCard, Creates
<1>9. HandlersOK'
  BY <1>8 DEF HandlersOK
<1>10. HandlersApart' /\ SameAnswers' /\ AppliedWithRecord'
  BY <1>1 DEF CommandInv, HandlersApart, Apart, SameAnswers, AppliedWithRecord, Replayable
<1>11. Attributed'
  <2>1. \A x \in Cards : card'[x] = "absent" => card[x] = "absent"
    BY <1>4 DEF Same, Moved
  <2> QED
    BY <1>1, <2>1 DEF CommandInv, Attributed, AnswersFor
<1> QED
  BY <1>6, <1>7, <1>9, <1>10, <1>11 DEF CommandInv

\* A window that runs out: no claim is open beside a live record, and the
\* answers given in it are those of an earlier window.
LEMMA WindowStep ==
  ASSUME CommandInv, NEW id \in Ids, WindowCloses(id)
  PROVE  CommandInv'
<1>1. UNCHANGED <<card, predecessor, trail, vault, req, faults>> /\ Replayable(id)
  BY DEF WindowCloses
<1>2. /\ window \in [Ids -> 0..MaxWindows] /\ MaxWindows \in Nat
      /\ records \in [Ids -> Record \cup {None}] /\ applied \in [Ids -> Nat]
  BY CardCommandsAssumption DEF CommandInv, TypeOK
<1> DEFINE old == records[id]
           new == [old EXCEPT !.lapsed = TRUE]
<1>3. old \in Record
  BY <1>1, <1>2 DEF Replayable
<1>4. records' = [records EXCEPT ![id] = new]
  BY <1>2 DEF WindowCloses
<1>5. new \in Record /\ new.lapsed
  <2> HIDE DEF old
  <2> QED
    BY <1>3 DEF Record
<1> HIDE DEF new
<1>6. /\ records' \in [Ids -> Record \cup {None}] /\ records'[id].lapsed
      /\ \A i \in Ids : i # id => records'[i] = records[i]
  BY <1>2, <1>4, <1>5
<1>7. /\ window'[id] = window[id] + 1 /\ applied'[id] = 0
      /\ \A i \in Ids : i # id => window'[i] = window[i] /\ applied'[i] = applied[i]
  BY <1>2 DEF WindowCloses
<1>8. TypeOK'
  <2>1. window' \in [Ids -> 0..MaxWindows] /\ applied' \in [Ids -> Nat]
    BY <1>2 DEF WindowCloses
  <2> QED
    BY <1>1, <1>6, <2>1 DEF CommandInv, TypeOK
<1>9. ASSUME NEW q \in Requests PROVE KeyOK(req[q])'
  <2>1. PICK h : h = req[q]
    OBVIOUS
  <2>2. KeyOK(h) /\ LocalOK(h) /\ h \in Handler /\ req'[q] = h
    BY <1>1, <2>1 DEF CommandInv, HandlersOK, TypeOK
  <2>3. KeyOK(h)'
    <3>1. CASE h.pc = "idle"
      BY <2>2, <3>1 DEF KeyOK, LocalOK, Success
    <3>2. CASE h.pc # "idle" /\ h.id # id
      <4>1. h.id \in Ids /\ window'[h.id] = window[h.id] /\ records'[h.id] = records[h.id]
        BY <1>6, <1>7, <2>2, <3>2 DEF LocalOK
      <4> QED
        BY <2>2, <4>1 DEF KeyOK, Agrees, Replayable
    <3>3. CASE h.id = id
      <4>1. ~h.open
        BY <1>1, <2>2, <3>3 DEF KeyOK
      <4>2. window[id] \in Nat /\ h.window \in Nat
        BY <1>2, <2>2 DEF Handler
      <4>3. h.answer \in Success => h.window < window'[id]
        BY <1>7, <2>2, <3>3, <4>2 DEF KeyOK
      <4> QED
        BY <1>7, <3>3, <4>1, <4>2, <4>3 DEF KeyOK
    <3> QED
      BY <3>1, <3>2, <3>3
  <2> QED
    BY <2>2, <2>3 DEF KeyOK, Agrees
<1>10. HandlersOK'
  <2>1. \A q \in Requests : (LocalOK(req[q]) /\ ReadsOK(req[q]) /\ VaultOK(req[q]))'
    BY <1>1 DEF CommandInv, HandlersOK, LocalOK, ReadsOK, VaultOK, OnCard, Creates, ReplacementPending
  <2> QED
    BY <1>9, <2>1 DEF HandlersOK
<1>11. HandlersApart' /\ SameAnswers' /\ RowsInv' /\ Attributed'
  BY <1>1 DEF CommandInv, HandlersApart, Apart, SameAnswers, RowsInv, CardsOK, OneCardInPlace,
     TrailConnected, Attributed, AnswersFor
<1>12. AppliedWithRecord'
  <2>1. AppliedWithRecord
    BY DEF CommandInv
  <2>2. ASSUME NEW i \in Ids PROVE applied'[i] = IF Replayable(i)' THEN 1 ELSE 0
    <3>1. CASE i = id
      BY <1>6, <1>7, <3>1 DEF Replayable
    <3>2. CASE i # id
      BY <1>6, <1>7, <2>1, <3>2 DEF AppliedWithRecord, Replayable
    <3> QED
      BY <3>1, <3>2
  <2> QED
    BY <2>2 DEF AppliedWithRecord
<1> QED
  BY <1>8, <1>10, <1>11, <1>12 DEF CommandInv

LEMMA CrashStep ==
  ASSUME CommandInv, NEW r \in Requests, Crash(r)
  PROVE  CommandInv'
BY AnswerStep DEF Crash

-----------------------------------------------------------------------------
(* The theorems *)

\* Nothing has happened yet, and the cards that exist are in order.
LEMMA CommandInit == Init => CommandInv
<1> SUFFICES ASSUME Init PROVE CommandInv
  OBVIOUS
<1>1. /\ \A c \in Cards : card[c] = IF c \in DOMAIN Standing THEN Standing[c] ELSE "absent"
      /\ \A c \in Cards : predecessor[c] = IF c \in DOMAIN Succeeds THEN Succeeds[c] ELSE NoCard
      /\ \A c \in Cards : trail[c] = <<>>
      /\ \A c \in Cards : vault[c] = IF c \in DOMAIN Standing THEN "live" ELSE "none"
      /\ \A id \in Ids : records[id] = None /\ applied[id] = 0
      /\ \A r \in Requests : req[r] = Waiting
  BY DEF Init
<1>2. "absent" \notin CardStates
  BY DEF CardStates
<1>3. Waiting \in Handler
  BY DEF Waiting, Handler, Answers, Success
<1>4. TypeOK
  <2>1. \A c \in Cards : card[c] \in CardStates \cup {"absent"} /\ predecessor[c] \in Cards \cup {NoCard}
    BY <1>1, CardCommandsAssumption
  <2>2. card \in [Cards -> CardStates \cup {"absent"}] /\ predecessor \in [Cards -> Cards \cup {NoCard}]
    BY <2>1 DEF Init
  <2>3. trail \in [Cards -> Seq(CardStates \X CardStates)]
    BY DEF Init
  <2>4. window \in [Ids -> 0..MaxWindows] /\ applied \in [Ids -> Nat] /\ faults \in 0..MaxFaults
    BY CardCommandsAssumption DEF Init
  <2> QED
    BY <1>3, <2>2, <2>3, <2>4 DEF Init, TypeOK
<1>5. HandlersOK
  <2>1. LocalOK(Waiting)
    BY DEF LocalOK, OnCard, Creates, Running, Deciding, Waiting
  <2>2. ReadsOK(Waiting) /\ VaultOK(Waiting) /\ KeyOK(Waiting)
    BY DEF ReadsOK, VaultOK, KeyOK, OnCard, Creates, Deciding, Success, Waiting
  <2> QED
    BY <1>1, <2>1, <2>2 DEF HandlersOK
<1>6. HandlersApart /\ SameAnswers
  <2>1. Apart(Waiting, Waiting)
    BY DEF Apart, Waiting
  <2>2. Waiting.answer \notin Success
    BY DEF Waiting, Success
  <2> QED
    BY <1>1, <2>1, <2>2 DEF HandlersApart, SameAnswers
<1>7. AppliedWithRecord
  BY <1>1 DEF AppliedWithRecord, Replayable
<1>8. RowsInv
  <2>1. CardsOK
    BY <1>1, <1>2, CardCommandsAssumption DEF CardsOK
  <2>2. OneCardInPlace
    BY <1>1, <1>2, CardCommandsAssumption DEF OneCardInPlace
  <2>3. TrailConnected
    <3>1. \A c \in Cards : Len(trail[c]) = 0
      BY <1>1
    <3> QED
      BY <1>1, <3>1 DEF TrailConnected
  <2> QED
    BY <2>1, <2>2, <2>3 DEF RowsInv
<1>9. Attributed
  BY <1>1, <1>2, CardCommandsAssumption DEF Attributed
<1> QED
  BY <1>4, <1>5, <1>6, <1>7, <1>8, <1>9 DEF CommandInv

LEMMA CommandStep == CommandInv /\ [Next]_vars => CommandInv'
<1> SUFFICES ASSUME CommandInv, [Next]_vars PROVE CommandInv'
  OBVIOUS
<1>1. CASE UNCHANGED vars
  <2>1. /\ UNCHANGED <<card, predecessor, trail, records, applied>>
        /\ UNCHANGED <<vault, req, window, faults>>
    BY <1>1 DEF vars, dbVars
  <2>2. TypeOK' /\ HandlersApart' /\ SameAnswers' /\ AppliedWithRecord'
    BY <2>1 DEF CommandInv, TypeOK, HandlersApart, Apart, SameAnswers, AppliedWithRecord, Replayable
  <2>3. HandlersOK'
    BY <2>1 DEF CommandInv, HandlersOK, LocalOK, ReadsOK, VaultOK, KeyOK, Agrees, Replayable,
       ReplacementPending, OnCard, Creates
  <2>4. RowsInv' /\ Attributed'
    BY <2>1 DEF CommandInv, RowsInv, CardsOK, OneCardInPlace, TrailConnected, Attributed, AnswersFor
  <2> QED
    BY <2>2, <2>3, <2>4 DEF CommandInv
<1>2. CASE \E r \in Requests, id \in Ids, body \in Bodies : Receive(r, id, body)
  BY <1>2, ReceiveStep
<1>3. CASE \E r \in Requests : Step(r)
  BY <1>3, ClaimStep, IssueStep, LockStep, JudgeStep, ProvisionStep, ApplyStep, CommitStep,
     RevokeStep DEF Step
<1>4. CASE \E r \in Requests : Failure(r)
  BY <1>4, ProvisionFailsStep, UnacknowledgedStep, FailsStep, RevokeFailsStep, CrashStep DEF Failure
<1>5. CASE \E id \in Ids : WindowCloses(id)
  BY <1>5, WindowStep
<1>6. CASE \E c \in Cards : ExpireCard(c)
  BY <1>6, ExpireStep
<1> QED
  BY <1>1, <1>2, <1>3, <1>4, <1>5, <1>6 DEF Next

\* The workflows of the card service keep CommandInv: what a transaction has
\* read stays so while it holds its locks, the idempotency record gives every
\* answer of its window, and each credential has a card or a request.
THEOREM CommandInvariant == Spec => []CommandInv
BY CommandInit, CommandStep, PTL DEF Spec

\* A command sent any number of times under one Idempotency-Key takes effect
\* at most once in the key's replay window, and its answers agree.
THEOREM EffectOnce == Spec => []CommandTakesEffectOnce
<1>1. CommandInv => CommandTakesEffectOnce
  <2> SUFFICES ASSUME CommandInv PROVE CommandTakesEffectOnce
    OBVIOUS
  <2>1. \A id \in Ids : applied[id] <= 1
    BY DEF CommandInv, AppliedWithRecord
  <2> QED
    BY <2>1 DEF CommandInv, SameAnswers, CommandTakesEffectOnce
<1> QED
  BY <1>1, CommandInvariant, PTL

\* A card never has two issued successors, and closes with the activation of
\* the one that takes its place.
THEOREM SuccessorInPlace == Spec => []OneCardInPlace
<1>1. CommandInv => OneCardInPlace
  BY DEF CommandInv, RowsInv
<1> QED
  BY <1>1, CommandInvariant, PTL

\* card_status_history is the chain of a card's statuses up to the present one.
THEOREM ConnectedTrails == Spec => []TrailConnected
<1>1. CommandInv => TrailConnected
  BY DEF CommandInv, RowsInv
<1> QED
  BY <1>1, CommandInvariant, PTL

\* No disclosed credential is revoked or without its card, and a live one
\* without a card is that of a request under way, lost or failed at the vault.
THEOREM AccountedCredentials == Spec => []CredentialsAccounted
<1>1. CommandInv => CredentialsAccounted
  <2> SUFFICES ASSUME CommandInv PROVE CredentialsAccounted
    OBVIOUS
  <2>1. ASSUME NEW r \in Requests, req[r].answer = "created"
        PROVE  vault[req[r].result] = "live" /\ card[req[r].result] # "absent"
    <3>1. LocalOK(req[r]) /\ VaultOK(req[r])
      BY DEF CommandInv, HandlersOK
    <3> QED
      BY <2>1, <3>1 DEF LocalOK, VaultOK
  <2> QED
    BY <2>1 DEF CommandInv, Attributed, AnswersFor, CredentialsAccounted
<1> QED
  BY <1>1, CommandInvariant, PTL

-----------------------------------------------------------------------------
(* Waits *)

\* Before it has locked a predecessor, a handler has at most its own card.
BeforeLast == {"claimed", "locked", "provisioning", "applying"}
OwnLocks == \A r \in Requests : req[r].pc \in BeforeLast => req[r].locks \subseteq {Subject(req[r].id)}

\* A handler that does not move past the lock of its card keeps what it has.
LEMMA LocksKept ==
  ASSUME TypeOK, OwnLocks, NEW r \in Requests, NEW g, req' = [req EXCEPT ![r] = g],
         g.pc \in BeforeLast =>
           \/ req[r].pc \in BeforeLast /\ g.id = req[r].id /\ g.locks = req[r].locks
           \/ g.locks \subseteq {Subject(g.id)}
  PROVE  OwnLocks'
<1>1. req'[r] = g /\ \A q \in Requests : q # r => req'[q] = req[q]
  BY DEF TypeOK
<1> QED
  BY <1>1 DEF OwnLocks

LEMMA OwnLocksStep ==
  ASSUME CommandInv, OwnLocks, [Next]_vars
  PROVE  OwnLocks'
<1>1. TypeOK /\ \A r \in Requests : req[r] \in Handler /\ LocalOK(req[r])
  BY DEF CommandInv, HandlersOK, TypeOK
<1>2. CASE UNCHANGED req
  BY <1>2 DEF OwnLocks
<1>3. ASSUME NEW r \in Requests, \E a, c : Answer(r, a, c)
      PROVE  OwnLocks'
  <2>1. PICK a, c : Answer(r, a, c)
    BY <1>3
  <2> DEFINE g == [req[r] EXCEPT !.pc = "answered", !.answer = a, !.result = c, !.open = FALSE, !.locks = {}]
  <2>2. req' = [req EXCEPT ![r] = g]
    BY <1>1, <2>1 DEF Answer, TypeOK
  <2>3. g.pc = "answered"
    BY <1>1 DEF Handler
  <2> QED
    BY <1>1, <2>2, <2>3, LocksKept DEF BeforeLast

<1>4. ASSUME NEW r \in Requests, NEW id \in Ids, NEW body \in Bodies, Receive(r, id, body)
      PROVE  OwnLocks'
  <2> DEFINE g == [req[r] EXCEPT !.pc = "claiming", !.id = id, !.body = body]
  <2>1. req' = [req EXCEPT ![r] = g] /\ g.pc = "claiming"
    BY <1>1, <1>4 DEF Receive, TypeOK, Handler
  <2> QED
    BY <1>1, <2>1, LocksKept DEF BeforeLast
<1>5. ASSUME NEW r \in Requests, ClaimIdempotency(r)
      PROVE  OwnLocks'
  <2> DEFINE n == window[req[r].id]
             c == records[req[r].id].result
             g == [req[r] EXCEPT !.pc = "claimed", !.open = TRUE, !.window = n]
             h == [req[r] EXCEPT !.pc = "answered", !.window = n, !.answer = "replayed", !.result = c]
  <2>1. \/ Answer(r, "conflict", NoCard)
        \/ req' = [req EXCEPT ![r] = g]
        \/ req' = [req EXCEPT ![r] = h]
    BY <1>1, <1>5 DEF ClaimIdempotency, TypeOK
  <2>2. g.locks = {} /\ h.pc = "answered"
    BY <1>1, <1>5 DEF ClaimIdempotency, LocalOK, Handler
  <2> HIDE DEF g, h
  <2> QED
    BY <1>1, <1>3, <2>1, <2>2, LocksKept DEF BeforeLast
<1>6. ASSUME NEW r \in Requests, IssueReferencesValid(r) \/ Judge(r)
      PROVE  OwnLocks'
  <2>1. \/ Answer(r, "rejected", NoCard)
        \/ req' = [req EXCEPT ![r] = [req[r] EXCEPT !.pc = "applying"]]
        \/ \E s \in Cards : req' = [req EXCEPT ![r] = [req[r] EXCEPT !.pc = "provisioning", !.new = s]]
    BY <1>1, <1>6 DEF IssueReferencesValid, Judge, TypeOK
  <2>2. req[r].pc \in BeforeLast
    BY <1>6 DEF IssueReferencesValid, Judge, BeforeLast
  <2>3. \A s \in Cards : LET g == [req[r] EXCEPT !.pc = "provisioning", !.new = s]
                         IN  g.id = req[r].id /\ g.locks = req[r].locks
    BY <1>1 DEF Handler
  <2>4. LET g == [req[r] EXCEPT !.pc = "applying"] IN g.id = req[r].id /\ g.locks = req[r].locks
    BY <1>1 DEF Handler
  <2>5. CASE req' = [req EXCEPT ![r] = [req[r] EXCEPT !.pc = "applying"]]
    BY <1>1, <2>2, <2>4, <2>5, LocksKept
  <2>6. CASE \E s \in Cards : req' = [req EXCEPT ![r] = [req[r] EXCEPT !.pc = "provisioning", !.new = s]]
    BY <1>1, <2>2, <2>3, <2>6, LocksKept
  <2> QED
    BY <1>3, <2>1, <2>5, <2>6
<1>7. ASSUME NEW r \in Requests, LockCard(r)
      PROVE  OwnLocks'
  <2> DEFINE c == Subject(req[r].id)
             g == [req[r] EXCEPT !.pc = "locked", !.locks = {c}, !.status = card[c]]
  <2>1. Answer(r, "rejected", NoCard) \/ req' = [req EXCEPT ![r] = g]
    BY <1>1, <1>7 DEF LockCard, TypeOK
  <2>2. g.locks = {c} /\ g.id = req[r].id
    BY <1>1 DEF Handler
  <2> QED
    BY <1>1, <1>3, <2>1, <2>2, LocksKept
<1>8. ASSUME NEW r \in Requests, Provision(r)
      PROVE  OwnLocks'
  <2> DEFINE g == [req[r] EXCEPT !.pc = "applying", !.provisioned = TRUE]
  <2>1. req' = [req EXCEPT ![r] = g] /\ req[r].pc \in BeforeLast
    BY <1>1, <1>8 DEF Provision, TypeOK, BeforeLast
  <2>2. g.id = req[r].id /\ g.locks = req[r].locks
    BY <1>1 DEF Handler
  <2> QED
    BY <1>1, <2>1, <2>2, LocksKept
<1>9. ASSUME NEW r \in Requests, Apply(r)
      PROVE  OwnLocks'
  <2> DEFINE p == predecessor[Subject(req[r].id)]
             g == [req[r] EXCEPT !.pc = "applied"]
             h == [req[r] EXCEPT !.pc = "applied", !.locks = @ \cup {p}, !.old = card[p]]
  <2>1. req' = [req EXCEPT ![r] = g] \/ req' = [req EXCEPT ![r] = h]
    BY <1>1, <1>9 DEF Apply, TypeOK
  <2>2. g.pc = "applied" /\ h.pc = "applied"
    BY <1>1 DEF Handler
  <2> HIDE DEF g, h
  <2> QED
    BY <1>1, <2>1, <2>2, LocksKept DEF BeforeLast
<1>10. ASSUME NEW r \in Requests,
              \/ CommitUnacknowledged(r) \/ TransactionFails(r)
       PROVE  OwnLocks'
  <2> DEFINE g == [req[r] EXCEPT !.pc = "revoking", !.open = FALSE, !.locks = {}]
             h == [req[r] EXCEPT !.pc = "revoking"]
  <2>1. \/ Answer(r, "failed", NoCard)
        \/ req' = [req EXCEPT ![r] = g] \/ req' = [req EXCEPT ![r] = h]
    BY <1>1, <1>10 DEF CommitUnacknowledged, TransactionFails, Fails, TypeOK
  <2>2. g.pc = "revoking" /\ h.pc = "revoking"
    BY <1>1 DEF Handler
  <2> HIDE DEF g, h
  <2> QED
    BY <1>1, <1>3, <2>1, <2>2, LocksKept DEF BeforeLast
<1>11. ASSUME NEW r \in Requests, ProvisionFails(r) \/ RevokeFails(r)
       PROVE  OwnLocks'
  <2> DEFINE g(l) == [req[r] EXCEPT !.pc = "answered", !.answer = "failed", !.open = FALSE,
                                    !.locks = {}, !.leaked = l]
  <2>1. ASSUME RevokeFails(r) PROVE req' = [req EXCEPT ![r] = g(TRUE)]
    BY <1>1, <2>1 DEF RevokeFails, TypeOK
  <2>2. ASSUME ProvisionFails(r) PROVE \E l \in BOOLEAN : req' = [req EXCEPT ![r] = g(l)]
    BY <1>1, <2>2 DEF ProvisionFails, TypeOK
  <2>3. PICK l \in BOOLEAN : req' = [req EXCEPT ![r] = g(l)]
    BY <1>11, <2>1, <2>2
  <2>4. g(l).pc = "answered"
    BY <1>1 DEF Handler
  <2> QED
    BY <1>1, <2>3, <2>4, LocksKept DEF BeforeLast
<1>12. ASSUME NEW r \in Requests, Commit(r) \/ Revoke(r) \/ Crash(r)
       PROVE  OwnLocks'
  BY <1>3, <1>12 DEF Commit, Revoke, Crash
<1>13. ASSUME \/ \E id \in Ids : WindowCloses(id)
              \/ \E c \in Cards : ExpireCard(c)
              \/ UNCHANGED vars
       PROVE  UNCHANGED req
  BY <1>13 DEF WindowCloses, ExpireCard, vars
<1> QED
  BY <1>2, <1>4, <1>5, <1>6, <1>7, <1>8, <1>9, <1>10, <1>11, <1>12, <1>13 DEF Next, Step, Failure

\* Who waits has come no further than the lock that it waits for, and who is
\* waited for has passed it.
LEMMA Waiters ==
  ASSUME CommandInv, OwnLocks, NEW r \in Requests, NEW q \in Requests, WaitsFor(r, q)
  PROVE  /\ UnderWay(q)
         /\ req[r].pc = "claiming" => req[q].pc # "claiming"
         /\ req[r].pc = "claimed" => req[q].pc \notin {"claiming", "claimed"}
         /\ req[r].pc = "applying" => \A d \in Requests : ~WaitsFor(q, d)
         /\ req[r].pc \in {"claiming", "claimed", "applying"}
<1>1. LocalOK(req[r]) /\ LocalOK(req[q]) /\ ReadsOK(req[q]) /\ ReadsOK(req[r])
  BY DEF CommandInv, HandlersOK
<1>2. req[q].open /\ req[q].pc \notin {"idle", "claiming", "answered"}
  BY <1>1 DEF WaitsFor, LocalOK
<1>3. req[r].pc \in {"claiming", "claimed", "applying"}
  BY DEF WaitsFor
<1>4. req[r].pc = "claimed" => req[q].pc # "claimed"
  BY <1>1 DEF WaitsFor, LocalOK
<1>5. ASSUME req[r].pc = "applying", NEW d \in Requests, WaitsFor(q, d)
      PROVE  FALSE
  <2> DEFINE c == Subject(req[r].id)
             p == predecessor[c]
  <2>1. Activates(r) /\ p \in req[q].locks
    BY <1>5 DEF WaitsFor
  <2>2. c \in Cards /\ req[q].id \in Ids /\ req[q].locks \subseteq Cards
    <3>1. req[r].id \in Ids /\ req[q].id \in Ids
      BY <1>2, <1>5, <1>1 DEF LocalOK
    <3> QED
      BY <2>1, <3>1, IdFacts DEF Activates, CommandInv, TypeOK, Handler
  <2>3. req[q].pc = "applying" /\ Activates(q)
    BY <1>1, <1>2, <1>5, <2>1 DEF WaitsFor, LocalOK
  <2>4. p = Subject(req[q].id)
    BY <2>1, <2>3 DEF OwnLocks, BeforeLast
  <2>5. card[p] \in CardStates \ {"pending", "issued"}
    BY <2>1, <2>2, CardCommandsAssumption DEF CommandInv, RowsInv, CardsOK
  <2>6. req[q].status = card[p]
    BY <1>1, <2>3, <2>4 DEF ReadsOK, OnCard, Deciding, Activates
  <2>7. Transition(req[q].status, "activate").valid /\ req[q].status # "active"
    BY <1>1, <2>3 DEF LocalOK, Activates, Creations
  <2> QED
    BY <2>5, <2>6, <2>7 DEF Transition, TargetOf, SourcesOf
<1> QED
  BY <1>2, <1>3, <1>4, <1>5 DEF UnderWay

LEMMA WaitsAreShort == CommandInv /\ OwnLocks => WaitsEnd
<1> SUFFICES ASSUME CommandInv, OwnLocks PROVE WaitsEnd
  OBVIOUS
<1>1. ASSUME NEW r1 \in Requests, NEW r2 \in Requests, NEW r3 \in Requests, NEW r4 \in Requests,
             NEW r5 \in Requests,
             WaitsFor(r1, r2), WaitsFor(r2, r3), WaitsFor(r3, r4), WaitsFor(r4, r5)
      PROVE  FALSE
  <2>1. req[r1].pc \in {"claiming", "claimed"} /\ req[r2].pc \in {"claiming", "claimed"}
    BY <1>1, Waiters
  <2>2. req[r3].pc \in {"claiming", "claimed"}
    BY <1>1, Waiters
  <2> QED
    BY <1>1, <2>1, <2>2, Waiters
<1> QED
  BY <1>1, Waiters DEF WaitsEnd

\* Requests wait for one another in an order: whoever is waited for is under
\* way, and no four wait in a row, so that no circle of waits can form among
\* any number of requests.
THEOREM NoCircularWait == Spec => []WaitsEnd
<1>1. CommandInv /\ OwnLocks => WaitsEnd
  BY WaitsAreShort
<1>2. Init => OwnLocks
  BY DEF Init, OwnLocks, Waiting, BeforeLast
<1>3. CommandInv /\ OwnLocks /\ [Next]_vars => OwnLocks'
  BY OwnLocksStep
<1> QED
  BY <1>1, <1>2, <1>3, CommandInvariant, PTL DEF Spec

-----------------------------------------------------------------------------
(* The implementation of AtomicCommand *)

\* AtomicCommand has the lifecycle that the cards have.
LEMMA PromisedLifecycle ==
  /\ Promise!CardStates = CardStates /\ Promise!CardActions = CardActions
  /\ Promise!TargetOf = TargetOf /\ Promise!SourcesOf = SourcesOf
  /\ \A s, a : Promise!Transition(s, a).valid <=> Transition(s, a).valid
BY DEF CardStates, CardActions, TargetOf, SourcesOf, Transition, Promise!CardStates,
       Promise!CardActions, Promise!TargetOf, Promise!SourcesOf, Promise!Transition

LEMMA InitPromised == Init => Promise!Init
<1> SUFFICES ASSUME Init
             PROVE  Promise!Init
  OBVIOUS
<1>1. TypeOK
  BY CommandInit DEF CommandInv
<1>2. Outcomes = {}
  BY DEF Init, Outcomes, Replayable
<1>3. Reports = {}
  <2>1. \A r \in Requests : req[r].answer = "none"
    BY DEF Init, Waiting
  <2> QED
    BY <2>1 DEF Reports, Success
<1> QED
  BY <1>1, <1>2, <1>3, PromisedLifecycle DEF TypeOK, Promise!Init

\* Where no record changes and nobody is told of a success, nothing is seen.
LEMMA Unseen ==
  ASSUME NEW r \in Requests, \A q \in Requests : q # r => req'[q] = req[q],
         req[r].answer \notin Success, req'[r].answer \notin Success
  PROVE  Reports' = Reports
BY DEF Reports

LEMMA SameOutcomes ==
  ASSUME records' = records
  PROVE  Outcomes' = Outcomes
BY DEF Outcomes, Replayable

\* One more request is told of a success.
LEMMA OneReport ==
  ASSUME NEW r \in Requests, \A q \in Requests : q # r => req'[q] = req[q],
         req[r].answer \notin Success, req'[r].answer \in Success
  PROVE  LET of == [id |-> req'[r].id, body |-> req'[r].body, result |-> req'[r].result]
             t == [to |-> r, of |-> of]
         IN  /\ t \notin Reports /\ \A before \in Reports : before.to # r
             /\ Reports' = Reports \cup {t}
<1> DEFINE report(h, q) == [to |-> q, of |-> [id |-> h.id, body |-> h.body, result |-> h.result]]
           t == report(req'[r], r)
           tell == {q \in Requests : req[q].answer \in Success}
<1>1. Reports = {report(req[q], q) : q \in tell}
  BY DEF Reports
<1>2. Reports' = {report(req'[q], q) : q \in {q \in Requests : req'[q].answer \in Success}}
  BY DEF Reports
<1>3. {q \in Requests : req'[q].answer \in Success} = tell \cup {r} /\ r \notin tell
  OBVIOUS
<1>4. \A q \in tell : req'[q] = req[q] /\ q # r
  BY <1>3
<1>5. \A h, q : report(h, q).to = q
  OBVIOUS
<1> HIDE DEF report, tell
<1>6. \A before \in Reports : before.to # r
  BY <1>1, <1>4, <1>5
<1>7. Reports' = Reports \cup {t}
  BY <1>1, <1>2, <1>3, <1>4
<1>8. t.to = r
  BY <1>5
<1> QED
  BY <1>6, <1>7, <1>8 DEF report

\* Until it commits, replays or fails, a request has no answer.
LEMMA NotAnswered ==
  ASSUME CommandInv, NEW r \in Requests, req[r].pc # "answered"
  PROVE  req[r].answer = "none" /\ req[r].answer \notin Success
BY DEF CommandInv, HandlersOK, LocalOK, Success

\* A refusal is not seen.
LEMMA AnswerUnseen ==
  ASSUME CommandInv, NEW r \in Requests, req[r].pc # "answered",
         NEW a \in {"conflict", "rejected", "failed", "lost"}, Answer(r, a, NoCard)
  PROVE  Reports' = Reports
<1>1. req \in [Requests -> Handler] /\ req[r] \in Handler
  BY DEF CommandInv, TypeOK
<1>2. req'[r].answer = a /\ \A q \in Requests : q # r => req'[q] = req[q]
  BY <1>1 DEF Answer, Handler
<1> QED
  BY <1>2, NotAnswered, Unseen DEF Success

\* Nor is any other step of a handler that does not commit.
LEMMA StepUnseen ==
  ASSUME CommandInv, NEW r \in Requests,
         \/ \E id \in Ids, body \in Bodies : Receive(r, id, body)
         \/ IssueReferencesValid(r) \/ LockCard(r) \/ Judge(r) \/ Provision(r) \/ Apply(r) \/ Revoke(r)
         \/ ProvisionFails(r) \/ TransactionFails(r) \/ RevokeFails(r) \/ Crash(r)
  PROVE  UNCHANGED <<card, predecessor, Outcomes, Reports>>
<1>1. req \in [Requests -> Handler] /\ req[r] \in Handler
  BY DEF CommandInv, TypeOK
<1> DEFINE Quiet == req'[r].answer = req[r].answer \/ req'[r].answer \in {"rejected", "failed", "lost"}
           Alone == \A q \in Requests : q # r => req'[q] = req[q]
<1>2. card' = card /\ predecessor' = predecessor /\ records' = records /\ req[r].pc # "answered"
  BY DEF Receive, IssueReferencesValid, LockCard, Judge, Provision, Apply, Revoke, ProvisionFails,
         TransactionFails, RevokeFails, Crash, dbVars
<1>3. ASSUME NEW a, NEW c, Answer(r, a, c)
      PROVE  req'[r].answer = a /\ Alone
  BY <1>1, <1>3 DEF Answer, Handler
<1>4. ASSUME Fails(r)
      PROVE  Quiet /\ Alone
  <2>1. CASE req[r].provisioned
    BY <1>1, <1>4, <2>1 DEF Fails, Handler
  <2>2. CASE ~req[r].provisioned
    BY <1>3, <1>4, <2>2 DEF Fails
  <2> QED
    BY <2>1, <2>2
<1>5. ASSUME NEW id \in Ids, NEW body \in Bodies, Receive(r, id, body)
      PROVE  Quiet /\ Alone
  BY <1>1, <1>5 DEF Receive, Handler
<1>6. ASSUME IssueReferencesValid(r)
      PROVE  Quiet /\ Alone
  <2>1. CASE Answer(r, "rejected", NoCard)
    BY <1>3, <2>1
  <2>2. ASSUME NEW c \in Cards, req' = [req EXCEPT ![r].pc = "provisioning", ![r].new = c]
        PROVE  Quiet /\ Alone
    BY <1>1, <2>2 DEF Handler
  <2> QED
    BY <1>6, <2>1, <2>2 DEF IssueReferencesValid
<1>7. ASSUME LockCard(r)
      PROVE  Quiet /\ Alone
  <2>1. CASE Answer(r, "rejected", NoCard)
    BY <1>3, <2>1
  <2>2. CASE ~Answer(r, "rejected", NoCard)
    BY <1>1, <1>7, <2>2 DEF LockCard, Handler
  <2> QED
    BY <2>1, <2>2
<1>8. ASSUME Judge(r)
      PROVE  Quiet /\ Alone
  <2>1. CASE Answer(r, "rejected", NoCard)
    BY <1>3, <2>1
  <2>2. CASE req' = [req EXCEPT ![r].pc = "applying"]
    BY <1>1, <2>2 DEF Handler
  <2>3. ASSUME NEW s \in Cards, req' = [req EXCEPT ![r].pc = "provisioning", ![r].new = s]
        PROVE  Quiet /\ Alone
    BY <1>1, <2>3 DEF Handler
  <2> QED
    BY <1>8, <2>1, <2>2, <2>3 DEF Judge
<1>9. ASSUME Provision(r)
      PROVE  Quiet /\ Alone
  BY <1>1, <1>9 DEF Provision, Handler
<1>10. ASSUME Apply(r)
       PROVE  Quiet /\ Alone
  BY <1>1, <1>10 DEF Apply, Handler
<1>11. ASSUME Revoke(r) \/ Crash(r)
       PROVE  Quiet /\ Alone
  BY <1>3, <1>11 DEF Revoke, Crash
<1>12. ASSUME ProvisionFails(r)
       PROVE  Quiet /\ Alone
  <2>1. PICK effect \in BOOLEAN :
          req' = [req EXCEPT ![r].pc = "answered", ![r].answer = "failed", ![r].open = FALSE,
                             ![r].locks = {}, ![r].leaked = effect]
    BY <1>12 DEF ProvisionFails
  <2> QED
    BY <1>1, <2>1 DEF Handler
<1>13. ASSUME RevokeFails(r)
       PROVE  Quiet /\ Alone
  BY <1>1, <1>13 DEF RevokeFails, Handler
<1>14. ASSUME TransactionFails(r)
       PROVE  Quiet /\ Alone
  BY <1>4, <1>14 DEF TransactionFails
<1> HIDE DEF Quiet, Alone
<1>15. Quiet /\ Alone
  BY <1>5, <1>6, <1>7, <1>8, <1>9, <1>10, <1>11, <1>12, <1>13, <1>14
<1>16. Reports' = Reports
  BY <1>2, <1>15, NotAnswered, Unseen DEF Quiet, Alone, Success
<1> QED
  BY <1>2, <1>16, SameOutcomes

\* A claim replays what took effect under the key, to a request with its body.
LEMMA ClaimPromised ==
  ASSUME CommandInv, NEW r \in Requests, ClaimIdempotency(r)
  PROVE  Promise!Next \/ UNCHANGED <<card, predecessor, Outcomes, Reports>>
<1> DEFINE id == req[r].id
           o == [id |-> id, body |-> req[r].body, result |-> records[id].result]
           t == [to |-> r, of |-> o]
<1>1. req \in [Requests -> Handler] /\ req[r] \in Handler /\ req[r].pc = "claiming"
  BY DEF CommandInv, TypeOK, ClaimIdempotency
<1>2. UNCHANGED <<card, predecessor, Outcomes>>
  BY SameOutcomes DEF ClaimIdempotency, dbVars
<1>3. CASE Answer(r, "conflict", NoCard)
  BY <1>1, <1>2, <1>3, AnswerUnseen
<1>4. CASE req' = [req EXCEPT ![r].pc = "claimed", ![r].open = TRUE, ![r].window = window[id]]
  <2>1. req'[r].answer = req[r].answer /\ \A q \in Requests : q # r => req'[q] = req[q]
    BY <1>1, <1>4 DEF Handler
  <2> QED
    BY <1>1, <1>2, <2>1, NotAnswered, Unseen
<1>5. CASE /\ Replayable(id) /\ records[id].body = req[r].body
           /\ req' = [req EXCEPT ![r].pc = "answered", ![r].window = window[id],
                                 ![r].answer = "replayed", ![r].result = records[id].result]
  <2>1. /\ req'[r].answer = "replayed" /\ req'[r].id = id /\ req'[r].body = req[r].body
        /\ req'[r].result = records[id].result
        /\ \A q \in Requests : q # r => req'[q] = req[q]
    BY <1>1, <1>5 DEF Handler
  <2>2. id \in Ids /\ req[r].body \in Bodies /\ records[id].result \in Cards
    <3>1. id \in Ids /\ req[r].body \in Bodies /\ records \in [Ids -> Record \cup {None}]
      BY <1>1 DEF CommandInv, TypeOK, HandlersOK, LocalOK
    <3> QED
      BY <1>5, <3>1 DEF Replayable, Record
  <2>3. o \in Outcomes
    BY <1>5, <2>2 DEF Outcomes
  <2>4. /\ t \notin Reports /\ Reports' = Reports \cup {t}
        /\ \A before \in Reports : before.to # r
    <3>1. req[r].answer \notin Success /\ req'[r].answer \in Success
      BY <1>1, <2>1, NotAnswered DEF Success
    <3> QED
      BY <2>1, <3>1, OneReport
  <2>5. t \in Promise!Reports /\ t.to = r /\ t.of = o
    BY <2>2 DEF Promise!Reports, Promise!Outcomes
  <2> HIDE DEF t, o
  <2>6. Promise!Tell(t) /\ t \in Reports' \ Reports
    BY <1>2, <2>3, <2>4, <2>5 DEF Promise!Tell
  <2> QED
    BY <1>2, <2>6 DEF Promise!Next
<1> QED
  BY <1>3, <1>4, <1>5 DEF ClaimIdempotency

\* What a commit puts on record, under a key without an outcome.
LEMMA CommitRecorded ==
  ASSUME CommandInv, NEW r \in Requests, req[r].pc = "applied", CommitEffects(r)
  PROVE  LET o == [id |-> req[r].id, body |-> req[r].body, result |-> ResultOf(r)]
         IN  /\ o \in Promise!Outcomes /\ o \notin Outcomes
             /\ \A before \in Outcomes : before.id # req[r].id
             /\ Outcomes' = Outcomes \cup {o}
<1> DEFINE id == req[r].id
           o == [id |-> id, body |-> req[r].body, result |-> ResultOf(r)]
           entry(i, rec) == [id |-> i, body |-> rec.body, result |-> rec.result]
           live == {i \in Ids : Replayable(i)}
<1>1. /\ id \in Ids /\ ~Replayable(id)
      /\ records' \in [Ids -> Record \cup {None}]
      /\ \A i \in Ids : i # id => records'[i] = records[i]
      /\ records'[id] # None /\ ~records'[id].lapsed
      /\ records'[id].body = req[r].body /\ records'[id].result = ResultOf(r)
  BY CommitKeys
<1>2. Outcomes = {entry(i, records[i]) : i \in live}
  BY DEF Outcomes
<1>3. Outcomes' = {entry(i, records'[i]) : i \in live'}
  BY DEF Outcomes
<1>4. live' = live \cup {id} /\ id \notin live
  BY <1>1 DEF Replayable
<1>5. \A i \in live : records'[i] = records[i] /\ i # id
  BY <1>1, <1>4
<1>6. entry(id, records'[id]) = o
  BY <1>1
<1>7. \A i, rec : entry(i, rec).id = i
  OBVIOUS
<1>8. o \in Promise!Outcomes /\ o.id = id
  <2>1. records'[id].body \in Bodies /\ records'[id].result \in Cards
    BY <1>1 DEF Record
  <2> QED
    BY <1>1, <2>1 DEF Promise!Outcomes
<1> HIDE DEF entry, live, o
<1>9. \A before \in Outcomes : before.id # id
  BY <1>2, <1>5, <1>7
<1>10. Outcomes' = Outcomes \cup {o}
  BY <1>2, <1>3, <1>4, <1>5, <1>6
<1> QED
  BY <1>8, <1>9, <1>10 DEF o

\* A commit does to the cards what the command does to them at that moment.
LEMMA CommitIsCommand ==
  ASSUME CommandInv, NEW r \in Requests, req[r].pc = "applied", CommitEffects(r)
  PROVE  Promise!Command(req[r].id, ResultOf(r))
<1> DEFINE h == req[r]
           c == Subject(h.id)
<1>1. LocalOK(h) /\ ReadsOK(h) /\ TablesTyped /\ RowsInv /\ h.id \in Ids
  BY DEF CommandInv, HandlersOK, TypeOK, TablesTyped, LocalOK
<1>2. h.id[1] = Action(h.id) /\ h.id[2] = c
  BY DEF Action, Subject
<1>3. ASSUME Action(h.id) \in Creations
      PROVE  /\ h.new \in Cards /\ card[h.new] = "absent" /\ predecessor[h.new] = NoCard
             /\ ResultOf(r) = h.new /\ card' = [card EXCEPT ![h.new] = "issued"]
  <2>1. Creates(h)
    BY <1>3 DEF Creates, Deciding
  <2>2. h.new \in Cards /\ card[h.new] = "absent" /\ predecessor[h.new] = NoCard
    BY <1>1, <2>1 DEF LocalOK, ReadsOK, RowsInv, CardsOK
  <2>3. card' = [x \in Cards |-> IF x = h.new THEN "issued" ELSE card[x]]
    BY <1>3 DEF CommitEffects, Creations, Commands, CardActions
  <2> QED
    BY <1>1, <1>3, <2>2, <2>3 DEF TablesTyped, ResultOf
<1>4. CASE Action(h.id) = "issue"
  <2>1. predecessor' = predecessor
    BY <1>4 DEF CommitEffects
  <2>2. Action(h.id) \in Creations
    BY <1>4 DEF Creations
  <2>3. predecessor' = [predecessor EXCEPT ![h.new] = NoCard]
    BY <1>1, <1>3, <2>1, <2>2 DEF TablesTyped
  <2>4. Promise!Create(ResultOf(r), NoCard)
    BY <1>3, <2>2, <2>3 DEF Promise!Create
  <2> QED
    BY <1>2, <1>4, <2>4 DEF Promise!Command
<1>5. CASE Action(h.id) = "replace"
  <2>1. Action(h.id) \in Creations /\ OnCard(h) /\ h.pc \in Deciding
    BY <1>5 DEF Creations, OnCard, Deciding
  <2>2. card[c] \in {"active", "suspended"} /\ ~ReplacementPending(c)
    BY <1>1, <1>5, <2>1 DEF LocalOK, ReadsOK
  <2>3. Promise!Replaceable(c)
    BY <2>2 DEF Promise!Replaceable, ReplacementPending
  <2>4. predecessor' = [predecessor EXCEPT ![h.new] = c]
    BY <1>5 DEF CommitEffects
  <2>5. Promise!Create(ResultOf(r), c)
    BY <1>3, <2>1, <2>4 DEF Promise!Create
  <2> QED
    BY <1>2, <1>5, <2>3, <2>5 DEF Promise!Command
<1>6. CASE Action(h.id) \notin Creations
  <2> DEFINE action == Action(h.id)
             to == TargetOf[action]
             p == predecessor[c]
             retires == action = "activate" /\ p # NoCard /\ card[p] \in {"active", "suspended"}
  <2>1. OnCard(h) /\ action \in Commands /\ action \in CardActions /\ ResultOf(r) = c
    BY <1>1, <1>6, IdFacts DEF OnCard, Deciding, Creations, Commands, ResultOf
  <2>2. h.status = card[c] /\ Transition(h.status, action).valid
    BY <1>1, <1>6, <2>1 DEF LocalOK, ReadsOK
  <2>3. predecessor' = predecessor
    BY <1>6 DEF CommitEffects, Creations
  <2>4. card' = [x \in Cards |-> IF h.status # to /\ x = c THEN to
                                 ELSE IF h.status # to /\ RetiresOld(r) /\ x = p THEN "closed"
                                 ELSE card[x]]
    BY <1>6, <2>1 DEF CommitEffects
  <2>5. h.status # to => (RetiresOld(r) <=> retires)
    <3>1. h.old = IF action = "activate" /\ h.status # "active" /\ p # NoCard THEN card[p] ELSE "absent"
      BY <1>1 DEF ReadsOK
    <3>2. action = "activate" => to = "active"
      BY DEF TargetOf
    <3> QED
      BY <3>1, <3>2 DEF RetiresOld, Activates
  <2> HIDE DEF to, p, retires, action, c, h
  <2>6. card' = IF card[c] = to THEN card
                ELSE [x \in Cards |-> IF x = c THEN to ELSE IF retires /\ x = p THEN "closed" ELSE card[x]]
    BY <1>1, <2>2, <2>4, <2>5 DEF TablesTyped
  <2>7. Promise!Move(c, action)
    BY <2>2, <2>3, <2>6, PromisedLifecycle DEF Promise!Move, to, p, retires
  <2> QED
    BY <1>2, <2>1, <2>7, PromisedLifecycle DEF Promise!Command, action, h
<1> QED
  BY <1>4, <1>5, <1>6 DEF Creations

\* A commit is the command, and its answer, if there is one, tells of it.
LEMMA CommitPromised ==
  ASSUME CommandInv, NEW r \in Requests, Commit(r) \/ CommitUnacknowledged(r)
  PROVE  Promise!Next
<1> DEFINE o == [id |-> req[r].id, body |-> req[r].body, result |-> ResultOf(r)]
           t == [to |-> r, of |-> o]
<1>1. req[r].pc = "applied" /\ CommitEffects(r) /\ req \in [Requests -> Handler] /\ req[r] \in Handler
  BY DEF Commit, CommitUnacknowledged, CommandInv, TypeOK
<1>2. /\ o \in Promise!Outcomes /\ o \notin Outcomes /\ Outcomes' = Outcomes \cup {o}
      /\ \A before \in Outcomes : before.id # req[r].id
  BY <1>1, CommitRecorded
<1>3. o.id = req[r].id /\ o.result = ResultOf(r) /\ t.to = r /\ t.of = o
  OBVIOUS
<1>4. Promise!Command(req[r].id, ResultOf(r))
  BY <1>1, CommitIsCommand
<1>5. req[r].answer \notin Success
  BY <1>1, NotAnswered
<1>6. CASE Commit(r)
  <2>1. PICK a \in {"created", "done"} : Answer(r, a, ResultOf(r))
    BY <1>6 DEF Commit
  <2>2. /\ req'[r].answer = a /\ req'[r].id = req[r].id /\ req'[r].body = req[r].body
        /\ req'[r].result = ResultOf(r)
        /\ \A q \in Requests : q # r => req'[q] = req[q]
    BY <1>1, <2>1 DEF Answer, Handler
  <2>3. /\ t \notin Reports /\ Reports' = Reports \cup {t}
        /\ \A before \in Reports : before.to # r
    <3>1. req'[r].answer \in Success
      BY <2>2 DEF Success
    <3> QED
      BY <1>5, <2>2, <3>1, OneReport
  <2>4. t \in Promise!Reports
    BY <1>2 DEF Promise!Reports
  <2> HIDE DEF t, o
  <2>5. Promise!TakeEffect(o) /\ o \in Outcomes' \ Outcomes
    BY <1>2, <1>3, <1>4 DEF Promise!TakeEffect
  <2>6. Promise!Tell(t) /\ t \in Reports' \ Reports
    BY <1>2, <1>3, <2>3, <2>4 DEF Promise!Tell
  <2> QED
    BY <1>3, <2>5, <2>6 DEF Promise!Next
<1>7. CASE CommitUnacknowledged(r)
  <2>1. Reports' = Reports
    <3>1. CASE req[r].provisioned
      <4>1. req'[r].answer = req[r].answer /\ \A q \in Requests : q # r => req'[q] = req[q]
        BY <1>1, <1>7, <3>1 DEF CommitUnacknowledged, Handler
      <4> QED
        BY <1>5, <4>1, Unseen
    <3>2. CASE ~req[r].provisioned
      <4>1. Answer(r, "failed", NoCard)
        BY <1>7, <3>2 DEF CommitUnacknowledged
      <4> QED
        BY <1>1, <4>1, AnswerUnseen
    <3> QED
      BY <3>1, <3>2
  <2> HIDE DEF t, o
  <2>2. Promise!TakeEffect(o) /\ o \in Outcomes' \ Outcomes
    BY <1>2, <1>3, <1>4 DEF Promise!TakeEffect
  <2> QED
    BY <2>1, <2>2 DEF Promise!Next
<1> QED
  BY <1>6, <1>7

\* A key whose replay window closes is forgotten.
LEMMA WindowPromised ==
  ASSUME CommandInv, NEW id \in Ids, WindowCloses(id)
  PROVE  Promise!Next
<1> DEFINE entry(i, rec) == [id |-> i, body |-> rec.body, result |-> rec.result]
           live == {i \in Ids : Replayable(i)}
           o == entry(id, records[id])
<1>1. records \in [Ids -> Record \cup {None}] /\ records[id] \in Record
  BY DEF CommandInv, TypeOK, WindowCloses, Replayable
<1>2. /\ records' = [records EXCEPT ![id] = [records[id] EXCEPT !.lapsed = TRUE]]
      /\ UNCHANGED <<card, predecessor, req>> /\ Replayable(id)
  BY DEF WindowCloses
<1>3. records'[id].lapsed /\ \A i \in Ids : i # id => records'[i] = records[i]
  BY <1>1, <1>2 DEF Record
<1>4. Outcomes = {entry(i, records[i]) : i \in live}
  BY DEF Outcomes
<1>5. Outcomes' = {entry(i, records'[i]) : i \in live'}
  BY DEF Outcomes
<1>6. live' = live \ {id} /\ id \in live
  BY <1>2, <1>3 DEF Replayable
<1>7. \A i \in live' : records'[i] = records[i]
  BY <1>3, <1>6
<1>8. \A i, rec : entry(i, rec).id = i
  OBVIOUS
<1>9. Reports' = Reports
  BY <1>2 DEF Reports
<1> HIDE DEF entry, live
<1>10. Outcomes' = Outcomes \ {o} /\ o \in Outcomes
  BY <1>4, <1>5, <1>6, <1>7, <1>8
<1> QED
  BY <1>2, <1>9, <1>10 DEF Promise!Next, Promise!Forget

LEMMA ExpirePromised ==
  ASSUME CommandInv, NEW c \in Cards, ExpireCard(c)
  PROVE  Promise!Next
<1>1. Outcomes' = Outcomes
  BY SameOutcomes DEF ExpireCard
<1>2. Reports' = Reports
  BY DEF ExpireCard, Reports
<1> QED
  BY <1>1, <1>2, PromisedLifecycle DEF ExpireCard, Promise!Next, Promise!Expire

LEMMA NextPromised ==
  CommandInv /\ [Next]_vars => [Promise!Next]_(Promise!promised)
<1> SUFFICES ASSUME CommandInv, [Next]_vars
             PROVE  Promise!Next \/ UNCHANGED <<card, predecessor, Outcomes, Reports>>
  BY DEF Promise!promised
<1>1. CASE UNCHANGED vars
  BY <1>1, SameOutcomes DEF vars, dbVars, Reports
<1>2. ASSUME NEW r \in Requests, NEW id \in Ids, NEW body \in Bodies, Receive(r, id, body)
      PROVE  UNCHANGED <<card, predecessor, Outcomes, Reports>>
  BY <1>2, StepUnseen
<1>3. ASSUME NEW r \in Requests, Step(r) \/ Failure(r)
      PROVE  Promise!Next \/ UNCHANGED <<card, predecessor, Outcomes, Reports>>
  BY <1>3, StepUnseen, ClaimPromised, CommitPromised DEF Step, Failure
<1>4. ASSUME NEW id \in Ids, WindowCloses(id)
      PROVE  Promise!Next
  BY <1>4, WindowPromised
<1>5. ASSUME NEW c \in Cards, ExpireCard(c)
      PROVE  Promise!Next
  BY <1>5, ExpirePromised
<1> QED
  BY <1>1, <1>2, <1>3, <1>4, <1>5 DEF Next

\* The card commands implement AtomicCommand: behind transactions, row locks,
\* remote calls, lost acknowledgements, crashes and retries, every command takes
\* effect in one step, judged on the cards of that step and once per key, and
\* every success that is answered is that of the command that took effect.
THEOREM CommandRefinement == Spec => ImplementsAtomicCommand
<1>1. Init => Promise!Init
  BY InitPromised
<1>2. CommandInv /\ [Next]_vars => [Promise!Next]_(Promise!promised)
  BY NextPromised
<1> QED
  BY <1>1, <1>2, CommandInvariant, PTL DEF Spec, ImplementsAtomicCommand, Promise!Spec

-----------------------------------------------------------------------------
(* The verifier beside the workflows *)

Holding == {"asking", "reading", "recording"}

\* The card has been active, and has not come back to life.
Earned(c) ==
  /\ c \in Cards /\ card[c] \in InUse
  /\ c \in DOMAIN Standing \/ \E i \in DOMAIN trail[c] : trail[c][i][2] = "active"

\* A card that was created here has a history.
Recorded == \A c \in Cards : card[c] # "absent" /\ c \notin DOMAIN Standing => trail[c] # <<>>

\* What a verification knows: that nothing is decided while it has its
\* reference, and that the card was not out of use from the beginning.
VerifierOK(h) ==
  /\ h.pc # "idle" => h.ref \in References
  /\ h.pc = "reading" => h.presented \in Cards
  /\ h.pc \in {"idle", "waiting", "asking", "reading"} => h.verdict = None
  /\ h.pc = "recording" => h.verdict \in Decision
  /\ h.pc # "answered" => h.answer = None /\ h.error = "none"
  /\ h.error # "duplicate"
  /\ h.pc \in Holding => decisions[h.ref] = None
  /\ h.answer # None => decisions[h.ref] = h.answer
  /\ h.retired => h.presented \in Cards /\ Retired(h.presented)
  /\ h.verdict # None /\ h.verdict.code = "approved" => ~h.retired /\ Earned(h.verdict.card)

OneHolder ==
  \A v, w \in Verifiers :
    v # w /\ ver[v].pc \in Holding /\ ver[w].pc \in Holding => ver[v].ref # ver[w].ref

DecisionsEarned ==
  \A ref \in References :
    decisions[ref] # None /\ decisions[ref].code = "approved" => Earned(decisions[ref].card)

AuthInv ==
  /\ CommandInv /\ AuthTypeOK /\ Recorded
  /\ \A v \in Verifiers : VerifierOK(ver[v])
  /\ OneHolder /\ DecisionsEarned

\* Every step of the workflows moves the rows forward.
LEMMA RowsAdvance ==
  ASSUME CommandInv, [Next]_vars
  PROVE  \A x \in Cards : Advances(x)
<1>1. CASE UNCHANGED dbVars
  BY <1>1 DEF dbVars, Advances, Same
<1>2. ASSUME NEW r \in Requests, req[r].pc = "applied", CommitEffects(r)
      PROVE  \A x \in Cards : Advances(x)
  BY <1>2, CreationPublished, CommandPublished DEF Published
<1>3. ASSUME NEW c \in Cards, ExpireCard(c)
      PROVE  \A x \in Cards : Advances(x)
  <2>1. card[c] \in CardStates \ OutOfUse /\ "expired" \in InUse /\ TablesTyped
    BY <1>3 DEF ExpireCard, SourcesOf, CardStates, OutOfUse, InUse, CommandInv, TypeOK, TablesTyped
  <2>2. Moved(c, "expired") /\ \A x \in Cards : x # c => Same(x)
    BY <1>3, <2>1 DEF ExpireCard, Moved, Same, TablesTyped
  <2> QED
    BY <2>1, <2>2 DEF Advances
<1>4. ASSUME NEW id \in Ids, WindowCloses(id)
      PROVE  \A x \in Cards : Advances(x)
  BY SMTT(30), <1>4 DEF WindowCloses, Advances, Same
<1>5. ASSUME NEW r \in Requests, Step(r) \/ Failure(r)
      PROVE  UNCHANGED dbVars \/ (req[r].pc = "applied" /\ CommitEffects(r))
  BY <1>5 DEF Step, Failure, ClaimIdempotency, IssueReferencesValid, LockCard, Judge, Provision, Apply,
     Commit, Revoke, ProvisionFails, CommitUnacknowledged, TransactionFails, RevokeFails, Crash
<1>6. CASE UNCHANGED vars
  BY <1>1, <1>6 DEF vars
<1>7. ASSUME NEW r \in Requests, NEW id \in Ids, NEW body \in Bodies, Receive(r, id, body)
      PROVE  UNCHANGED dbVars
  BY <1>7 DEF Receive
<1> QED
  BY <1>1, <1>2, <1>3, <1>4, <1>5, <1>6, <1>7 DEF Next

\* Cards that have been active stay so recorded, and those out of use stay out.
LEMMA HistoryGoesOn ==
  ASSUME CommandInv, CommandInv', Recorded, \A x \in Cards : Advances(x)
  PROVE  /\ Recorded'
         /\ \A c : Earned(c) => Earned(c)'
         /\ \A c \in Cards : card[c] \in OutOfUse => card'[c] \in OutOfUse
<1>1. TablesTyped /\ TablesTyped'
  BY DEF CommandInv, TypeOK, TablesTyped
<1>2. ASSUME NEW c \in Cards
      PROVE  \/ trail'[c] = trail[c] /\ card'[c] = card[c]
             \/ \E e \in CardStates \X CardStates : trail'[c] = Append(trail[c], e)
  <2>1. CASE Same(c)
    BY <2>1 DEF Same
  <2>2. CASE Born(c)
    <3>1. <<"pending", "issued">> \in CardStates \X CardStates
      BY DEF CardStates
    <3> QED
      BY <2>2, <3>1 DEF Born
  <2>3. ASSUME NEW to \in InUse, Moved(c, to) PROVE \E e \in CardStates \X CardStates : trail'[c] = Append(trail[c], e)
    <3>1. <<card[c], to>> \in CardStates \X CardStates
      BY <2>3 DEF Moved, InUse
    <3> QED
      BY <2>3, <3>1 DEF Moved
  <2> QED
    BY <2>1, <2>2, <2>3 DEF Advances
<1>3. Recorded'
  <2> SUFFICES ASSUME NEW c \in Cards, card'[c] # "absent", c \notin DOMAIN Standing
               PROVE  trail'[c] # <<>>
    BY DEF Recorded
  <2>1. CASE trail'[c] = trail[c] /\ card'[c] = card[c]
    BY <2>1 DEF Recorded
  <2>2. ASSUME NEW e \in CardStates \X CardStates, trail'[c] = Append(trail[c], e)
        PROVE  trail'[c] # <<>>
    <3>1. trail[c] \in Seq(CardStates \X CardStates)
      BY <1>1 DEF TablesTyped
    <3> QED
      BY <2>2, <3>1
  <2> QED
    BY <1>2, <2>1, <2>2
<1>4. ASSUME NEW c, Earned(c) PROVE Earned(c)'
  <2>1. c \in Cards /\ card[c] \in InUse
    BY <1>4 DEF Earned
  <2>2. card'[c] \in InUse
    BY <2>1 DEF Advances, Same, Born, Moved, InUse, CardStates
  <2>3. ASSUME NEW i \in DOMAIN trail[c], trail[c][i][2] = "active"
        PROVE  \E j \in DOMAIN trail'[c] : trail'[c][j][2] = "active"
    <3>1. CASE trail'[c] = trail[c]
      BY <2>3, <3>1
    <3>2. ASSUME NEW e \in CardStates \X CardStates, trail'[c] = Append(trail[c], e)
          PROVE  i \in DOMAIN trail'[c] /\ trail'[c][i] = trail[c][i]
      <4>1. PICK t \in Seq(CardStates \X CardStates) : t = trail[c]
        BY <1>1, <2>1 DEF TablesTyped
      <4>2. i \in 1..Len(t)
        BY <4>1
      <4>3. i \in DOMAIN Append(t, e) /\ Append(t, e)[i] = t[i]
        BY <4>2
      <4> QED
        BY <3>2, <4>1, <4>3
    <3> QED
      BY <1>2, <2>1, <2>3, <3>1, <3>2
  <2> QED
    BY <1>4, <2>1, <2>2, <2>3 DEF Earned
<1>5. ASSUME NEW c \in Cards, card[c] \in OutOfUse PROVE card'[c] \in OutOfUse
  <2>1. Same(c) \/ Born(c) \/ \E to \in InUse : Moved(c, to)
    BY DEF Advances
  <2>2. ~Born(c) /\ \A to \in InUse : ~Moved(c, to)
    BY <1>5 DEF Born, Moved, OutOfUse
  <2> QED
    BY <1>5, <2>1, <2>2 DEF Same
<1> QED
  BY <1>3, <1>4, <1>5

\* A verifier that does not move loses nothing by what others do.
LEMMA VerifierKept ==
  ASSUME NEW h, VerifierOK(h), due \subseteq due',
         \A c : Earned(c) => Earned(c)',
         \A c \in Cards : card[c] \in OutOfUse => card'[c] \in OutOfUse,
         h.pc # "idle" => decisions'[h.ref] = decisions[h.ref]
                          \/ (decisions[h.ref] = None /\ h.pc \notin Holding)
  PROVE  VerifierOK(h)'
<1>1. h.answer # None => decisions'[h.ref] = h.answer
  BY DEF VerifierOK
<1>2. h.pc \in Holding => decisions'[h.ref] = None
  BY DEF VerifierOK, Holding
<1>3. h.retired => h.presented \in Cards /\ Retired(h.presented)'
  BY DEF VerifierOK, Retired, OutOfUse
<1>4. h.verdict # None /\ h.verdict.code = "approved" => ~h.retired /\ Earned(h.verdict.card)'
  BY DEF VerifierOK
<1> QED
  BY <1>1, <1>2, <1>3, <1>4 DEF VerifierOK

LEMMA DecisionsKept ==
  ASSUME DecisionsEarned, UNCHANGED decisions, \A c : Earned(c) => Earned(c)'
  PROVE  DecisionsEarned'
BY DEF DecisionsEarned

\* A step that leaves the verifications alone.
LEMMA ElsewhereStep ==
  ASSUME AuthInv, CommandInv', \A x \in Cards : Advances(x), UNCHANGED <<decisions, ver>>,
         due \subseteq due', due' \subseteq Cards
  PROVE  AuthInv'
<1>1. CommandInv /\ Recorded /\ DecisionsEarned /\ AuthTypeOK
  BY DEF AuthInv
<1>2. /\ Recorded' /\ \A c : Earned(c) => Earned(c)'
      /\ \A c \in Cards : card[c] \in OutOfUse => card'[c] \in OutOfUse
  BY <1>1, HistoryGoesOn
<1>3. ASSUME NEW v \in Verifiers PROVE VerifierOK(ver[v])'
  <2>1. PICK h : h = ver[v]
    OBVIOUS
  <2>2. VerifierOK(h) /\ ver'[v] = h
    BY <2>1 DEF AuthInv
  <2>3. VerifierOK(h)'
    BY <1>2, <2>2, VerifierKept
  <2> QED
    BY <2>2, <2>3 DEF VerifierOK
<1>4. DecisionsEarned'
  BY <1>1, <1>2, DecisionsKept
<1>5. AuthTypeOK' /\ OneHolder'
  BY <1>1 DEF AuthInv, AuthTypeOK, OneHolder
<1> QED
  BY <1>2, <1>3, <1>4, <1>5 DEF AuthInv

\* A verification moves; it may record a decision for the reference it holds.
LEMMA VerifierStep ==
  ASSUME AuthInv, NEW v \in Verifiers, NEW g \in Verifier, ver' = [ver EXCEPT ![v] = g],
         UNCHANGED <<dbVars, vault, req, window, due>>, UNCHANGED faults \/ Fault,
         decisions' \in [References -> Decision \cup {None}],
         \A ref \in References :
           \/ decisions'[ref] = decisions[ref]
           \/ /\ ver[v].pc = "recording" /\ ver[v].ref = ref /\ decisions[ref] = None
              /\ decisions'[ref] = ver[v].verdict,
         VerifierOK(g)',
         g.pc \in Holding => /\ g.ref = ver[v].ref
                             /\ ver[v].pc \in Holding \/ ~ReferenceLocked(g.ref)
  PROVE  AuthInv'
<1>1. CommandInv /\ AuthTypeOK /\ Recorded /\ OneHolder /\ DecisionsEarned
  BY DEF AuthInv
<1>2. CommandInv'
  <2>1. UNCHANGED <<card, predecessor, trail, records, applied>> /\ UNCHANGED <<vault, req, window>>
    BY DEF dbVars
  <2>2. faults' \in 0..MaxFaults
    <3>1. faults \in 0..MaxFaults /\ MaxFaults \in Nat
      BY <1>1, CardCommandsAssumption DEF CommandInv, TypeOK
    <3> QED
      BY <3>1 DEF Fault
  <2>3. TypeOK' /\ HandlersApart' /\ SameAnswers' /\ AppliedWithRecord'
    BY <1>1, <2>1, <2>2 DEF CommandInv, TypeOK, HandlersApart, Apart, SameAnswers, AppliedWithRecord, Replayable
  <2>4. HandlersOK'
    BY <1>1, <2>1 DEF CommandInv, HandlersOK, LocalOK, ReadsOK, VaultOK, KeyOK, Agrees, Replayable,
       ReplacementPending, OnCard, Creates
  <2>5. RowsInv' /\ Attributed'
    BY <1>1, <2>1 DEF CommandInv, RowsInv, CardsOK, OneCardInPlace, TrailConnected, Attributed, AnswersFor
  <2> QED
    BY <2>3, <2>4, <2>5 DEF CommandInv
<1>3. \A x \in Cards : Advances(x)
  BY DEF dbVars, Advances, Same
<1>4. /\ Recorded' /\ \A c : Earned(c) => Earned(c)'
      /\ \A c \in Cards : card[c] \in OutOfUse => card'[c] \in OutOfUse
  BY <1>1, <1>2, <1>3, HistoryGoesOn
<1>5. /\ ver' \in [Verifiers -> Verifier] /\ ver'[v] = g
      /\ \A w \in Verifiers : w # v => ver'[w] = ver[w]
  BY <1>1 DEF AuthTypeOK
<1>6. AuthTypeOK'
  BY <1>1, <1>5 DEF AuthTypeOK
<1>7. ASSUME NEW w \in Verifiers PROVE VerifierOK(ver[w])'
  <2>1. CASE w = v
    BY <1>5, <2>1 DEF VerifierOK
  <2>2. CASE w # v
    <3>1. PICK h : h = ver[w]
      OBVIOUS
    <3>2. VerifierOK(h) /\ ver'[w] = h
      BY <1>5, <2>2, <3>1 DEF AuthInv
    <3>3. h.pc # "idle" => h.ref \in References
      BY <3>2 DEF VerifierOK
    <3>4. ver[v].pc = "recording" /\ h.pc \in Holding => ver[v].ref # h.ref
      BY <1>1, <2>2, <3>1 DEF OneHolder, Holding
    <3>5. h.pc # "idle" => decisions'[h.ref] = decisions[h.ref]
                           \/ (decisions[h.ref] = None /\ h.pc \notin Holding)
      BY <3>3, <3>4
    <3>6. VerifierOK(h)'
      BY <1>4, <3>2, <3>5, VerifierKept
    <3> QED
      BY <3>2, <3>6 DEF VerifierOK
  <2> QED
    BY <2>1, <2>2
<1>8. OneHolder'
  <2>1. ASSUME NEW w \in Verifiers, w # v, g.pc \in Holding, ver[w].pc \in Holding
        PROVE  g.ref # ver[w].ref
    BY <1>1, <2>1 DEF OneHolder, ReferenceLocked, Holding
  <2> QED
    BY <1>1, <1>5, <2>1 DEF OneHolder
<1>9. DecisionsEarned'
  <2>1. ASSUME NEW ref \in References, NEW d, d = decisions'[ref], d # None, d.code = "approved"
        PROVE  Earned(d.card)'
    <3>1. Earned(d.card)
      <4>1. CASE decisions'[ref] = decisions[ref]
        BY <1>1, <2>1, <4>1 DEF DecisionsEarned
      <4>2. CASE decisions'[ref] = ver[v].verdict
        <5>1. VerifierOK(ver[v])
          BY DEF AuthInv
        <5> QED
          BY <2>1, <4>2, <5>1 DEF VerifierOK
      <4> QED
        BY <4>1, <4>2
    <3> QED
      BY <1>4, <3>1
  <2> QED
    BY <2>1 DEF DecisionsEarned, Earned
<1> QED
  BY <1>2, <1>4, <1>6, <1>7, <1>8, <1>9 DEF AuthInv

LEMMA PresentStep ==
  ASSUME AuthInv, NEW v \in Verifiers, NEW ref \in References, NEW c \in Cards \cup {NoCard},
         Present(v, ref, c)
  PROVE  AuthInv'
<1>1. PICK gone \in BOOLEAN : gone = Retired(c)
  BY DEF Retired
<1> DEFINE old == ver[v]
           new == [old EXCEPT !.pc = "waiting", !.ref = ref, !.presented = c, !.retired = gone]
<1>2. AuthTypeOK /\ old \in Verifier /\ VerifierOK(old) /\ old.pc = "idle"
  BY DEF AuthInv, AuthTypeOK, Present
<1>3. ver' = [ver EXCEPT ![v] = new] /\ UNCHANGED <<vars, due, decisions>>
  BY <1>1, <1>2 DEF Present, AuthTypeOK
<1> HIDE DEF old
<1>4. new \in Verifier
  BY <1>2 DEF Verifier
<1>5. /\ new.pc = "waiting" /\ new.ref = ref /\ new.presented = c /\ new.retired = gone
      /\ new.verdict = old.verdict /\ new.answer = old.answer /\ new.error = old.error
  BY <1>2 DEF Verifier
<1>6. PICK g \in Verifier : g = new
  BY <1>4
<1> HIDE DEF new
<1>7. gone => c \in Cards /\ Retired(c)'
  BY <1>1, <1>3 DEF Retired, vars, dbVars
<1>8. /\ g.pc = "waiting" /\ g.ref = ref /\ g.presented = c /\ g.retired = gone
      /\ g.verdict = None /\ g.answer = None /\ g.error = "none"
  BY <1>2, <1>5, <1>6 DEF VerifierOK
<1>9. VerifierOK(g)'
  BY <1>7, <1>8 DEF VerifierOK, Holding
<1>10. UNCHANGED <<dbVars, vault, req, window, due, faults>> /\ UNCHANGED decisions
  BY <1>3 DEF vars
<1> QED
  BY <1>2, <1>3, <1>6, <1>8, <1>9, <1>10, VerifierStep DEF AuthTypeOK, Holding

\* A request is answered, with an earlier decision or with its own, or fails.
LEMMA ReplyStep ==
  ASSUME AuthInv, NEW v \in Verifiers, ver[v].pc # "idle",
         NEW a \in Decision \cup {None}, NEW e \in {"none", "failed"},
         ver' = [ver EXCEPT ![v] = [@ EXCEPT !.pc = "answered", !.answer = a, !.error = e]],
         UNCHANGED <<dbVars, vault, req, window, due>>, UNCHANGED faults \/ Fault,
         decisions' \in [References -> Decision \cup {None}],
         \A ref \in References :
           \/ decisions'[ref] = decisions[ref]
           \/ /\ ver[v].pc = "recording" /\ ver[v].ref = ref /\ decisions[ref] = None
              /\ decisions'[ref] = ver[v].verdict,
         a # None => decisions'[ver[v].ref] = a
  PROVE  AuthInv'
<1> DEFINE old == ver[v]
           new == [old EXCEPT !.pc = "answered", !.answer = a, !.error = e]
<1>1. AuthTypeOK /\ old \in Verifier /\ VerifierOK(old) /\ old.pc # "idle"
  BY DEF AuthInv, AuthTypeOK
<1>2. ver' = [ver EXCEPT ![v] = new]
  BY <1>1 DEF AuthTypeOK
<1>3. a # None => decisions'[old.ref] = a
  OBVIOUS
<1> HIDE DEF old
<1>4. new \in Verifier
  BY <1>1 DEF Verifier
<1>5. /\ new.pc = "answered" /\ new.ref = old.ref /\ new.presented = old.presented
      /\ new.retired = old.retired /\ new.verdict = old.verdict /\ new.answer = a /\ new.error = e
  BY <1>1 DEF Verifier
<1>6. PICK g \in Verifier, h \in Verifier : g = new /\ h = old
  BY <1>1, <1>4
<1> HIDE DEF new
<1>7. UNCHANGED <<card, trail, due>>
  BY DEF dbVars
<1>8. /\ g.pc = "answered" /\ g.ref = h.ref /\ g.presented = h.presented
      /\ g.retired = h.retired /\ g.verdict = h.verdict /\ g.answer = a /\ g.error = e
  BY <1>5, <1>6
<1>9. VerifierOK(g)'
  BY <1>1, <1>3, <1>6, <1>7, <1>8 DEF VerifierOK, Holding, Retired, Earned
<1> QED
  BY <1>2, <1>6, <1>8, <1>9, VerifierStep DEF Holding

\* A request goes on under its reference.
LEMMA GoOnStep ==
  ASSUME AuthInv, NEW v \in Verifiers, NEW pc \in Holding, NEW verdict \in Decision \cup {None},
         ver' = [ver EXCEPT ![v] = [@ EXCEPT !.pc = pc, !.verdict = verdict]],
         UNCHANGED <<vars, due, decisions>>,
         ver[v].pc \in {"waiting", "asking", "reading"},
         ver[v].pc = "waiting" => ~ReferenceLocked(ver[v].ref) /\ decisions[ver[v].ref] = None,
         verdict = None <=> pc # "recording",
         pc = "reading" => ver[v].presented \in Cards,
         verdict # None /\ verdict.code = "approved"
           => ~Retired(ver[v].presented) /\ Earned(verdict.card)
  PROVE  AuthInv'
<1> DEFINE old == ver[v]
           new == [old EXCEPT !.pc = pc, !.verdict = verdict]
<1>1. AuthTypeOK /\ old \in Verifier /\ VerifierOK(old) /\ old.pc \in {"waiting", "asking", "reading"}
  BY DEF AuthInv, AuthTypeOK
<1>2. ver' = [ver EXCEPT ![v] = new]
  BY <1>1 DEF AuthTypeOK
<1>3. /\ pc = "reading" => old.presented \in Cards
      /\ verdict # None /\ verdict.code = "approved" => ~Retired(old.presented)
      /\ decisions[old.ref] = None
      /\ old.pc \in Holding \/ ~ReferenceLocked(old.ref)
  BY <1>1 DEF VerifierOK, Holding
<1> HIDE DEF old
<1>4. new \in Verifier
  BY <1>1 DEF Verifier, Holding
<1>5. /\ new.pc = pc /\ new.ref = old.ref /\ new.presented = old.presented
      /\ new.retired = old.retired /\ new.verdict = verdict /\ new.answer = old.answer /\ new.error = old.error
  BY <1>1 DEF Verifier
<1>6. PICK g \in Verifier, h \in Verifier : g = new /\ h = old
  BY <1>1, <1>4
<1> HIDE DEF new
<1>7. UNCHANGED <<card, trail, due, decisions>>
  BY DEF vars, dbVars
<1>8. /\ g.pc = pc /\ g.ref = h.ref /\ g.presented = h.presented
      /\ g.retired = h.retired /\ g.verdict = verdict /\ g.answer = h.answer /\ g.error = h.error
  BY <1>5, <1>6
<1>9. VerifierOK(g)'
  BY <1>1, <1>3, <1>6, <1>7, <1>8, VerifierAssumption DEF VerifierOK, Holding, Retired, Earned
<1>10. UNCHANGED <<dbVars, vault, req, window, due, faults>> /\ UNCHANGED decisions
  BY DEF vars
<1>11. g.ref = ver[v].ref /\ (ver[v].pc \in Holding \/ ~ReferenceLocked(g.ref))
  BY <1>3, <1>6, <1>8 DEF old
<1> QED
  BY <1>1, <1>2, <1>6, <1>9, <1>10, <1>11, VerifierStep DEF AuthTypeOK

\* A request that is not answered has no answer and no error.
LEMMA Unanswered ==
  ASSUME AuthInv, NEW v \in Verifiers, ver[v].pc # "answered", ver[v].pc # "idle"
  PROVE  /\ AuthTypeOK /\ ver[v] \in Verifier /\ ver[v].ref \in References
         /\ ver[v].answer = None /\ ver[v].error = "none"
BY DEF AuthInv, AuthTypeOK, VerifierOK

LEMMA Replies ==
  ASSUME AuthInv, NEW v \in Verifiers, ver[v].pc # "answered", ver[v].pc # "idle", NEW a, Reply(v, a)
  PROVE  ver' = [ver EXCEPT ![v] = [@ EXCEPT !.pc = "answered", !.answer = a, !.error = "none"]]
<1>1. PICK h : h = ver[v]
  OBVIOUS
<1>2. h \in Verifier /\ h.error = "none" /\ ver \in [Verifiers -> Verifier]
  BY <1>1, Unanswered DEF AuthTypeOK
<1>3. [h EXCEPT !.pc = "answered", !.answer = a] = [h EXCEPT !.pc = "answered", !.answer = a, !.error = "none"]
  BY <1>2 DEF Verifier
<1>4. ver' = [ver EXCEPT ![v] = [h EXCEPT !.pc = "answered", !.answer = a]]
  BY <1>1, <1>2 DEF Reply
<1> QED
  BY <1>1, <1>2, <1>3, <1>4

LEMMA ReplyErrors ==
  ASSUME AuthInv, NEW v \in Verifiers, ver[v].pc # "answered", ver[v].pc # "idle", NEW e, ReplyError(v, e)
  PROVE  ver' = [ver EXCEPT ![v] = [@ EXCEPT !.pc = "answered", !.answer = None, !.error = e]]
<1>1. PICK h : h = ver[v]
  OBVIOUS
<1>2. h \in Verifier /\ h.answer = None /\ ver \in [Verifiers -> Verifier]
  BY <1>1, Unanswered DEF AuthTypeOK
<1>3. [h EXCEPT !.pc = "answered", !.error = e] = [h EXCEPT !.pc = "answered", !.answer = None, !.error = e]
  BY <1>2 DEF Verifier
<1>4. ver' = [ver EXCEPT ![v] = [h EXCEPT !.pc = "answered", !.error = e]]
  BY <1>1, <1>2 DEF ReplyError
<1> QED
  BY <1>1, <1>2, <1>3, <1>4

LEMMA LockReferenceStep ==
  ASSUME AuthInv, NEW v \in Verifiers, LockReference(v)
  PROVE  AuthInv'
<1>1. PICK ref : ref = ver[v].ref
  OBVIOUS
<1>2. /\ ver[v].pc = "waiting" /\ ~ReferenceLocked(ref) /\ UNCHANGED <<vars, due, decisions>>
      /\ IF decisions[ref] # None THEN Reply(v, decisions[ref]) ELSE ver' = [ver EXCEPT ![v].pc = "asking"]
  BY <1>1 DEF LockReference
<1>3. AuthTypeOK /\ ref \in References /\ ver[v] \in Verifier /\ VerifierOK(ver[v])
  BY <1>1, <1>2, Unanswered DEF AuthInv, AuthTypeOK
<1>4. CASE decisions[ref] # None
  <2>1. PICK a \in Decision \cup {None} : a = decisions[ref]
    BY <1>3 DEF AuthTypeOK
  <2>2. ver' = [ver EXCEPT ![v] = [@ EXCEPT !.pc = "answered", !.answer = a, !.error = "none"]]
    BY <1>2, <1>4, <2>1, Replies
  <2>3. UNCHANGED <<dbVars, vault, req, window, due, faults>> /\ UNCHANGED decisions
    BY <1>2 DEF vars
  <2> QED
    BY <1>1, <1>2, <1>3, <2>1, <2>2, <2>3, ReplyStep DEF AuthTypeOK
<1>5. CASE decisions[ref] = None
  <2>1. ver[v].verdict = None
    BY <1>2, <1>3 DEF VerifierOK
  <2>2. ver' = [ver EXCEPT ![v] = [@ EXCEPT !.pc = "asking", !.verdict = None]]
    <3>1. [ver[v] EXCEPT !.pc = "asking"] = [ver[v] EXCEPT !.pc = "asking", !.verdict = None]
      BY <1>3, <2>1 DEF Verifier
    <3> QED
      BY <1>2, <1>3, <1>5, <3>1 DEF AuthTypeOK
  <2> QED
    BY <1>1, <1>2, <1>5, <2>2, GoOnStep DEF Holding
<1> QED
  BY <1>4, <1>5

LEMMA AskVaultStep ==
  ASSUME AuthInv, NEW v \in Verifiers, AskVault(v)
  PROVE  AuthInv'
<1> DEFINE c == ver[v].presented
           invalid == [code |-> "credential_invalid", card |-> NoCard]
<1>1. /\ ver[v].pc = "asking" /\ UNCHANGED <<vars, due, decisions>>
      /\ ver' = IF c # NoCard /\ vault[c] = "live"
                  THEN [ver EXCEPT ![v].pc = "reading"]
                  ELSE [ver EXCEPT ![v].pc = "recording", ![v].verdict = invalid]
  BY DEF AskVault
<1>2. AuthTypeOK /\ ver[v] \in Verifier /\ VerifierOK(ver[v])
  BY DEF AuthInv, AuthTypeOK
<1>3. CASE c # NoCard /\ vault[c] = "live"
  <2>1. c \in Cards
    BY <1>2, <1>3 DEF Verifier
  <2>2. ver[v].verdict = None
    BY <1>1, <1>2 DEF VerifierOK
  <2>3. ver' = [ver EXCEPT ![v] = [@ EXCEPT !.pc = "reading", !.verdict = None]]
    <3>1. [ver[v] EXCEPT !.pc = "reading"] = [ver[v] EXCEPT !.pc = "reading", !.verdict = None]
      BY <1>2, <2>2 DEF Verifier
    <3> QED
      BY <1>1, <1>2, <1>3, <3>1 DEF AuthTypeOK
  <2> QED
    BY <1>1, <2>1, <2>3, GoOnStep DEF Holding
<1>4. CASE ~(c # NoCard /\ vault[c] = "live")
  <2>1. invalid \in Decision /\ invalid.code # "approved"
    BY DEF Decision, Codes
  <2>2. PICK d \in Decision : d = invalid
    BY <2>1
  <2>3. ver' = [ver EXCEPT ![v] = [@ EXCEPT !.pc = "recording", !.verdict = d]]
    BY <1>1, <1>2, <1>4, <2>2 DEF AuthTypeOK
  <2> QED
    BY <1>1, <2>1, <2>2, <2>3, GoOnStep, VerifierAssumption DEF Holding
<1> QED
  BY <1>3, <1>4

\* The decision is drawn from one look at the card: an active card has been
\* active, and it was not out of use before.
LEMMA ReadCardStep ==
  ASSUME AuthInv, NEW v \in Verifiers, ReadCard(v)
  PROVE  AuthInv'
<1> DEFINE c == ver[v].presented
           verdict == IF card[c] = "absent" THEN [code |-> "card_not_found", card |-> NoCard]
                      ELSE [code |-> IF Eligible(c) THEN "approved" ELSE "card_ineligible", card |-> c]
<1>1. /\ ver[v].pc = "reading" /\ UNCHANGED <<vars, due, decisions>>
      /\ ver' = [ver EXCEPT ![v].pc = "recording", ![v].verdict = verdict]
  BY DEF ReadCard
<1>2. AuthTypeOK /\ ver[v] \in Verifier /\ c \in Cards /\ CommandInv /\ Recorded
  BY <1>1 DEF AuthInv, AuthTypeOK, VerifierOK
<1>3. verdict \in Decision
  BY <1>2 DEF Decision, Codes
<1>4. ASSUME verdict.code = "approved" PROVE ~Retired(c) /\ Earned(verdict.card)
  <2>1. card[c] = "active" /\ c \notin due /\ verdict.card = c
    BY <1>4 DEF Eligible
  <2>2. c \in DOMAIN Standing \/ \E i \in DOMAIN trail[c] : trail[c][i][2] = "active"
    <3>1. CASE c \notin DOMAIN Standing
      <4>1. trail[c] # <<>> /\ trail[c] \in Seq(CardStates \X CardStates)
        BY <1>2, <2>1, <3>1 DEF Recorded, CommandInv, TypeOK
      <4>2. Len(trail[c]) \in DOMAIN trail[c]
        BY <4>1
      <4>3. trail[c][Len(trail[c])][2] = "active"
        BY <1>2, <2>1, <4>1 DEF CommandInv, RowsInv, TrailConnected
      <4> QED
        BY <4>2, <4>3
    <3> QED
      BY <3>1
  <2> QED
    BY <1>2, <2>1, <2>2 DEF Retired, Earned, InUse, CardStates
<1>5. PICK d \in Decision : d = verdict
  BY <1>3
<1>6. ver' = [ver EXCEPT ![v] = [@ EXCEPT !.pc = "recording", !.verdict = d]]
  BY <1>1, <1>2, <1>5 DEF AuthTypeOK
<1>7. d.code = "approved" => ~Retired(ver[v].presented) /\ Earned(d.card)
  BY <1>4, <1>5
<1> HIDE DEF verdict
<1> QED
  BY <1>1, <1>6, <1>7, GoOnStep, VerifierAssumption DEF Holding

\* Nobody has decided the reference that the request holds.
LEMMA RecordStep ==
  ASSUME AuthInv, NEW v \in Verifiers,
         CreateAuthorizationVerification(v) \/ VerifyUnacknowledged(v)
  PROVE  AuthInv'
<1>1. PICK ref, d : ref = ver[v].ref /\ d = ver[v].verdict
  OBVIOUS
<1>2. ver[v].pc = "recording" /\ AuthTypeOK /\ VerifierOK(ver[v])
  BY DEF CreateAuthorizationVerification, VerifyUnacknowledged, AuthInv
<1>3. ref \in References /\ d \in Decision /\ decisions[ref] = None
  BY <1>1, <1>2 DEF VerifierOK, Holding
<1>4. /\ decisions' = [decisions EXCEPT ![ref] = d] /\ UNCHANGED <<dbVars, vault, req, window, due>>
      /\ (Reply(v, d) /\ UNCHANGED faults) \/ (ReplyError(v, "failed") /\ Fault)
  BY <1>1, <1>2, <1>3 DEF CreateAuthorizationVerification, VerifyUnacknowledged, vars
<1>5. /\ decisions' \in [References -> Decision \cup {None}] /\ decisions'[ref] = d
      /\ \A x \in References : x # ref => decisions'[x] = decisions[x]
  BY <1>2, <1>3, <1>4 DEF AuthTypeOK
<1>6. \A x \in References :
        \/ decisions'[x] = decisions[x]
        \/ /\ ver[v].pc = "recording" /\ ver[v].ref = x /\ decisions[x] = None
           /\ decisions'[x] = ver[v].verdict
  BY <1>1, <1>2, <1>3, <1>5
<1>7. CASE Reply(v, d) /\ UNCHANGED faults
  <2>1. ver' = [ver EXCEPT ![v] = [@ EXCEPT !.pc = "answered", !.answer = d, !.error = "none"]]
    BY <1>2, <1>7, Replies
  <2> QED
    BY <1>1, <1>2, <1>3, <1>4, <1>5, <1>6, <1>7, <2>1, ReplyStep
<1>8. CASE ReplyError(v, "failed") /\ Fault
  <2>1. ver' = [ver EXCEPT ![v] = [@ EXCEPT !.pc = "answered", !.answer = None, !.error = "failed"]]
    BY <1>2, <1>8, ReplyErrors
  <2> QED
    BY <1>2, <1>4, <1>5, <1>6, <1>8, <2>1, ReplyStep
<1> QED
  BY <1>4, <1>7, <1>8

LEMMA VerifyFailsStep ==
  ASSUME AuthInv, NEW v \in Verifiers, VerifyFails(v)
  PROVE  AuthInv'
<1>1. /\ ver[v].pc \in Holding /\ Fault /\ ReplyError(v, "failed")
      /\ UNCHANGED <<dbVars, vault, req, window, due>> /\ UNCHANGED decisions
  BY DEF VerifyFails, Holding
<1>2. ver' = [ver EXCEPT ![v] = [@ EXCEPT !.pc = "answered", !.answer = None, !.error = "failed"]]
  BY <1>1, ReplyErrors DEF Holding
<1>3. decisions' \in [References -> Decision \cup {None}] /\ ver[v].pc # "idle"
  BY <1>1 DEF AuthInv, AuthTypeOK, Holding
<1> QED
  BY <1>1, <1>2, <1>3, ReplyStep

LEMMA AuthStart == AuthInit => AuthInv
<1> SUFFICES ASSUME AuthInit PROVE AuthInv
  OBVIOUS
<1>1. CommandInv
  BY CommandInit DEF AuthInit
<1>2. NoVerifier \in Verifier
  BY DEF NoVerifier, Verifier
<1>3. AuthTypeOK
  BY <1>2 DEF AuthInit, AuthTypeOK
<1>4. Recorded
  BY DEF AuthInit, Init, Recorded
<1>5. VerifierOK(NoVerifier) /\ NoVerifier.pc \notin Holding
  BY DEF VerifierOK, NoVerifier, Holding
<1>6. \A v \in Verifiers : ver[v] = NoVerifier
  BY DEF AuthInit
<1>7. DecisionsEarned
  BY DEF AuthInit, DecisionsEarned
<1> QED
  BY <1>1, <1>3, <1>4, <1>5, <1>6, <1>7 DEF AuthInv, OneHolder

LEMMA AuthStep == AuthInv /\ [AuthNext]_allVars => AuthInv'
<1> SUFFICES ASSUME AuthInv, [AuthNext]_allVars PROVE AuthInv'
  OBVIOUS
<1>1. CommandInv /\ AuthTypeOK
  BY DEF AuthInv
<1>2. CASE [Next]_vars /\ UNCHANGED authVars
  <2>1. CommandInv' /\ \A x \in Cards : Advances(x)
    BY <1>1, <1>2, CommandStep, RowsAdvance
  <2> QED
    BY <1>1, <1>2, <2>1, ElsewhereStep DEF authVars, AuthTypeOK
<1>3. ASSUME NEW c \in Cards, CardFallsDue(c) PROVE AuthInv'
  <2>1. UNCHANGED vars /\ due' = due \cup {c} /\ UNCHANGED <<decisions, ver>>
    BY <1>3 DEF CardFallsDue
  <2>2. CommandInv' /\ \A x \in Cards : Advances(x)
    BY <1>1, <2>1, CommandStep, RowsAdvance
  <2> QED
    BY <1>1, <2>1, <2>2, ElsewhereStep DEF AuthTypeOK
<1>4. ASSUME NEW v \in Verifiers, NEW ref \in References, NEW c \in Cards \cup {NoCard}, Present(v, ref, c)
      PROVE  AuthInv'
  BY <1>4, PresentStep
<1>5. ASSUME NEW v \in Verifiers, Verify(v) \/ VerifyFails(v) \/ VerifyUnacknowledged(v)
      PROVE  AuthInv'
  BY <1>5, LockReferenceStep, AskVaultStep, ReadCardStep, RecordStep, VerifyFailsStep DEF Verify
<1> QED
  BY <1>2, <1>3, <1>4, <1>5 DEF AuthNext, allVars

\* The verifier and the workflows beside it keep AuthInv: while a request has
\* its reference nothing is decided under it, and what it has seen of the card
\* is outdated only in the direction of cards going out of use.
THEOREM VerifierInvariant == AuthSpec => []AuthInv
BY AuthStart, AuthStep, PTL DEF AuthSpec

\* Whoever is told a decision for a bank transaction reference is told the one
\* that is recorded, and nobody runs into the unique constraint.
THEOREM OneDecision == AuthSpec => []OneDecisionPerReference
<1>1. AuthInv => OneDecisionPerReference
  BY DEF AuthInv, VerifierOK, OneDecisionPerReference
<1> QED
  BY <1>1, VerifierInvariant, PTL

\* An approval names a card that has been active, and none that was out of use
\* when the request arrived, although the verifier reads the card unlocked.
THEOREM EarnedApprovals == AuthSpec => []ApprovalIsEarned
<1>1. AuthInv => ApprovalIsEarned
  <2> SUFFICES ASSUME AuthInv PROVE ApprovalIsEarned
    OBVIOUS
  <2>1. \A v \in Verifiers : ver[v].verdict # None /\ ver[v].retired => ver[v].verdict.code # "approved"
    BY DEF AuthInv, VerifierOK
  <2>2. ASSUME NEW ref \in References, NEW c, decisions[ref] # None, decisions[ref].code = "approved",
               c = decisions[ref].card
        PROVE  /\ card[c] \in {"active", "suspended", "closed", "expired"}
               /\ c \in DOMAIN Standing \/ \E i \in DOMAIN trail[c] : trail[c][i][2] = "active"
    <3>1. Earned(c)
      BY <2>2 DEF AuthInv, DecisionsEarned
    <3> QED
      BY <3>1 DEF Earned, InUse, CardStates
  <2> QED
    BY <2>1, <2>2 DEF ApprovalIsEarned
<1> QED
  BY <1>1, VerifierInvariant, PTL

\* The verifier changes nothing of what the workflows hold.
LEMMA OwnLocksBeside ==
  ASSUME AuthInv, OwnLocks, [AuthNext]_allVars
  PROVE  OwnLocks'
<1>1. [Next]_vars \/ UNCHANGED req
  BY DEF AuthNext, allVars, vars, CardFallsDue, Present, Verify, LockReference, AskVault, ReadCard,
         CreateAuthorizationVerification, VerifyFails, VerifyUnacknowledged
<1>2. CASE [Next]_vars
  BY <1>2, OwnLocksStep DEF AuthInv
<1>3. CASE UNCHANGED req
  BY <1>3 DEF OwnLocks
<1> QED
  BY <1>1, <1>2, <1>3

\* A verification waits for the holder of its reference and this one at most
\* for a card workflow under way; the waits of workflows end.
THEOREM VerificationsProceed == AuthSpec => []VerifiersCanProceed
<1>1. CommandInv /\ OwnLocks => WaitsEnd
  BY WaitsAreShort
<1>2. ASSUME AuthInv, NEW u \in Verifiers, ver[u].pc = "recording", VerifierWaits(u)
      PROVE  \E r \in Requests : UnderWay(r) /\ ver[u].verdict.card \in req[r].locks
  <2>1. PICK r \in Requests : req[r].open /\ ver[u].verdict.card \in req[r].locks
    BY <1>2 DEF VerifierWaits, Insertable, CardLocked
  <2>2. LocalOK(req[r])
    BY <1>2 DEF AuthInv, CommandInv, HandlersOK
  <2> QED
    BY <2>1, <2>2 DEF UnderWay, LocalOK
<1>3. ASSUME AuthInv, NEW v \in Verifiers, VerifierWaits(v)
      PROVE  \E u \in Verifiers :
               /\ ver[u].ref = ver[v].ref
               /\ \/ ver[u].pc \notin {"idle", "answered"} /\ ~VerifierWaits(u)
                  \/ /\ ver[u].pc = "recording"
                     /\ \E r \in Requests : UnderWay(r) /\ ver[u].verdict.card \in req[r].locks
  <2>1. CASE ver[v].pc = "recording"
    BY <1>2, <1>3, <2>1
  <2>2. CASE ver[v].pc = "waiting" /\ ReferenceLocked(ver[v].ref)
    <3>1. PICK u \in Verifiers : ver[u].pc \in Holding /\ ver[u].ref = ver[v].ref
      BY <2>2 DEF ReferenceLocked, Holding
    <3>2. CASE VerifierWaits(u)
      <4>1. ver[u].pc = "recording"
        BY <3>1, <3>2 DEF VerifierWaits, Holding
      <4> QED
        BY <1>2, <1>3, <3>1, <3>2, <4>1
    <3> QED
      BY <3>1, <3>2 DEF Holding
  <2> QED
    BY <1>3, <2>1, <2>2 DEF VerifierWaits
<1>4. AuthInv /\ OwnLocks => VerifiersCanProceed
  BY <1>1, <1>3 DEF AuthInv, VerifiersCanProceed
<1>5. AuthInit => OwnLocks
  BY DEF AuthInit, Init, OwnLocks, Waiting, BeforeLast
<1>6. AuthInv /\ OwnLocks /\ [AuthNext]_allVars => OwnLocks'
  BY OwnLocksBeside
<1> QED
  BY <1>4, <1>5, <1>6, VerifierInvariant, PTL DEF AuthSpec
=============================================================================
