--------------------------- MODULE AtomicCommand ---------------------------
(***************************************************************************)
(* What the card commands promise their callers, with no transactions, no  *)
(* locks and no retries: a command takes effect in a single step, judged   *)
(* on the cards as they are at that step, and not again for as long as its *)
(* key is remembered; whoever is told of a success under a key is told of  *)
(* the one command that took effect under it.  An activation closes the    *)
(* card that is replaced in the same step.  A command may also take effect *)
(* and nobody be told, or fail without a trace.  CardCommands is shown to  *)
(* implement this module.                                                  *)
(***************************************************************************)
EXTENDS CardLifecycle

CONSTANTS Cards, NoCard, Requests, Bodies,
          Ids   \* <<action, card, key>>, the card being NoCard for "issue"

\* What took effect, and what somebody was told.
Outcomes == [id : Ids, body : Bodies, result : Cards]
Reports == [to : Requests, of : Outcomes]

VARIABLES
  card,         \* status of each card, or "absent"
  predecessor,  \* the card that a card replaces
  outcomes,     \* what took effect under the keys that are remembered
  reports       \* the successes that requests were told of

promised == <<card, predecessor, outcomes, reports>>

Init ==
  /\ card \in [Cards -> CardStates \cup {"absent"}]
  /\ predecessor \in [Cards -> Cards \cup {NoCard}]
  /\ outcomes = {} /\ reports = {}

-----------------------------------------------------------------------------

\* A new card, in place of p or of none.
Create(c, p) ==
  /\ card[c] = "absent"
  /\ card' = [card EXCEPT ![c] = "issued"]
  /\ predecessor' = [predecessor EXCEPT ![c] = p]

Replaceable(c) ==
  /\ card[c] \in {"active", "suspended"}
  /\ ~\E s \in Cards : predecessor[s] = c /\ card[s] = "issued"

\* A card goes where the action aims, and retires the one it replaces.
Move(c, action) ==
  LET p == predecessor[c]
      retires == action = "activate" /\ p # NoCard /\ card[p] \in {"active", "suspended"}
  IN
  /\ Transition(card[c], action).valid
  /\ card' = IF card[c] = TargetOf[action] THEN card
             ELSE [x \in Cards |-> IF x = c THEN TargetOf[action]
                                   ELSE IF retires /\ x = p THEN "closed" ELSE card[x]]
  /\ UNCHANGED predecessor

\* A command has a card for its result.
Command(id, c) ==
  \/ id[1] = "issue" /\ Create(c, NoCard)
  \/ id[1] = "replace" /\ Replaceable(id[2]) /\ Create(c, id[2])
  \/ id[1] \in CardActions /\ c = id[2] /\ Move(c, id[1])

TakeEffect(o) ==
  /\ o \in Outcomes /\ \A before \in outcomes : before.id # o.id
  /\ Command(o.id, o.result)
  /\ outcomes' = outcomes \cup {o}

\* A request is told of what took effect under its key.
Tell(t) ==
  /\ t \in Reports /\ \A before \in reports : before.to # t.to
  /\ t.of \in outcomes'
  /\ reports' = reports \cup {t}

Forget(o) ==
  /\ outcomes' = outcomes \ {o}
  /\ UNCHANGED <<card, predecessor, reports>>

Expire(c) ==
  /\ card[c] \in SourcesOf["expire"]
  /\ card' = [card EXCEPT ![c] = "expired"]
  /\ UNCHANGED <<predecessor, outcomes, reports>>

Next ==
  \/ \E o \in outcomes' \ outcomes :
       /\ TakeEffect(o)
       /\ UNCHANGED reports \/ \E t \in reports' \ reports : Tell(t) /\ t.of = o
  \/ \E t \in reports' \ reports : Tell(t) /\ UNCHANGED <<card, predecessor, outcomes>>
  \/ \E o \in outcomes : Forget(o)
  \/ \E c \in Cards : Expire(c)

Spec == Init /\ [][Next]_promised

=============================================================================
