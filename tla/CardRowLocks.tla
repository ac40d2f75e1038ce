---------------------------- MODULE CardRowLocks ----------------------------
(***************************************************************************)
(* The card commands beside the execution of a batch, at the level of      *)
(* single row locks, and the history of a card as it is read.              *)
(*                                                                         *)
(* ApplyBatch (internal/repository/shard/executor_store.go) locks the      *)
(* cards of its batch one after the other in the order of their ids.  A    *)
(* command locks its card, and an activation then the predecessor.  Rows   *)
(* of the history carry now(), the time at which their transaction began,  *)
(* which is before it waited for any lock; they are listed by that time    *)
(* (internal/repository/shard/reader.go).  The clock moves with each       *)
(* transaction that begins.                                                *)
(***************************************************************************)
EXTENDS CardCommands, Pages

CONSTANTS
  RankOf,    \* the UUID of a card, as a number that orders like it
  Batch,     \* the cards of the batch
  Target     \* its target status

VARIABLES
  clock,
  began,     \* when the transaction of a request began
  stamps,    \* created_at of the entries of trail
  worker     \* the executor's transaction: its locks and when it began

lockVars == <<clock, began, stamps, worker>>
rowVars == <<vars, lockVars>>

RowInit ==
  /\ Init
  /\ clock = 0
  /\ began = [r \in Requests |-> 0]
  /\ stamps = [c \in Cards |-> <<>>]
  /\ worker = [pc |-> "idle", locks |-> {}, began |-> 0]

\* The card that ApplyBatch locks next.
NextLock == CHOOSE c \in Batch \ worker.locks :
              \A d \in Batch \ worker.locks : RankOf[c] <= RankOf[d]

\* Entries appended to trail in this step are of a transaction begun at time t.
Stamped(t) ==
  stamps' = [c \in Cards |-> IF Len(trail'[c]) > Len(trail[c]) THEN Append(stamps[c], t)
                                                                ELSE stamps[c]]

\* A step of a request or of the expiry of a card, neither of which takes a
\* row that the batch has locked.
CommandStep ==
  /\ Next
  /\ \A r \in Requests : (req'[r].locks \ req[r].locks) \cap worker.locks = {}
  /\ \A c \in worker.locks : card'[c] = card[c]
  /\ LET moving == {r \in Requests : req'[r].pc # req[r].pc}
         begins == {r \in moving : req'[r].pc = "claiming"}
         time == IF moving = {} THEN clock + 1 ELSE began[CHOOSE r \in moving : TRUE]
     IN
     /\ clock' = IF moving = {} \/ begins # {} THEN clock + 1 ELSE clock
     /\ began' = [r \in Requests |-> IF r \in begins THEN clock' ELSE began[r]]
     /\ Stamped(time)
  /\ UNCHANGED worker

BeginBatch ==
  /\ worker.pc = "idle"
  /\ clock' = clock + 1
  /\ worker' = [pc |-> "locking", locks |-> {}, began |-> clock']
  /\ UNCHANGED <<vars, began, stamps>>

LockNextCard ==
  /\ worker.pc = "locking" /\ worker.locks # Batch
  /\ ~CardLocked(NextLock)
  /\ worker' = [worker EXCEPT !.locks = @ \cup {NextLock}]
  /\ UNCHANGED <<vars, clock, began, stamps>>

\* All cards are locked: every one is moved that is not at the target, or none.
ApplyBatch ==
  LET moved == {c \in Batch : card[c] # Target} IN
  /\ worker.pc = "locking" /\ worker.locks = Batch
  /\ worker' = [worker EXCEPT !.pc = "done", !.locks = {}]
  /\ IF \A c \in moved : CanTransition(card[c], Target)
       THEN /\ card' = [c \in Cards |-> IF c \in moved THEN Target ELSE card[c]]
            /\ trail' = [c \in Cards |-> IF c \in moved THEN Append(trail[c], <<card[c], Target>>)
                                                        ELSE trail[c]]
       ELSE UNCHANGED <<card, trail>>
  /\ Stamped(worker.began)
  /\ UNCHANGED <<predecessor, records, applied, vault, req, window, faults, clock, began>>

\* The card that an open request waits for.
Awaited(r) ==
  IF req[r].pc = "claimed" /\ Action(req[r].id) # "issue" THEN {Subject(req[r].id)}
  ELSE IF req[r].pc = "applying" /\ Activates(r) THEN {predecessor[Subject(req[r].id)]} \ {NoCard}
  ELSE {}

\* The batch and r wait for each other.
Deadlocked(r) ==
  /\ worker.pc = "locking" /\ worker.locks # Batch
  /\ req[r].open /\ NextLock \in req[r].locks /\ Awaited(r) \cap worker.locks # {}

\* PostgreSQL aborts one of the two: the batch is requeued (40P01 is
\* transient), the request answered with an error.
DeadlockDetected(r) ==
  /\ Deadlocked(r)
  /\ \/ /\ Fault     \* bounds the retries
        /\ worker' = [worker EXCEPT !.pc = "idle", !.locks = {}]
        /\ UNCHANGED <<dbVars, vault, req, window>>
     \/ /\ Fails(r)
        /\ UNCHANGED <<dbVars, vault, window, faults, worker>>
  /\ UNCHANGED <<clock, began, stamps>>

RowNext ==
  \/ CommandStep
  \/ BeginBatch \/ LockNextCard \/ ApplyBatch
  \/ \E r \in Requests : DeadlockDetected(r)

RowSpec == RowInit /\ [][RowNext]_rowVars

-----------------------------------------------------------------------------
(* Properties *)

\* The deterministic order in which a batch locks its cards keeps it out of
\* deadlocks.  (An activation locks the successor first, whatever the ids.)
NoDeadlock == \A r \in Requests : ~Deadlocked(r)

\* CardStatusHistory, newest first.
CardStatusHistory(c) ==
  Listed({[created |-> stamps[c][i], id |-> i, entry |-> trail[c][i]] : i \in DOMAIN trail[c]})

\* Read from the oldest entry to the newest, the history of a card leads from
\* each status to the next.  (A command that waited for the card is listed
\* before the one it waited for.)
HistoryReadsInOrder ==
  \A c \in Cards : LET list == CardStatusHistory(c) IN
    \A i \in 1..(Len(list) - 1) : list[i].entry[1] = list[i + 1].entry[2]
=============================================================================
