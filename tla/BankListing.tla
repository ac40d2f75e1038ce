---------------------------- MODULE BankListing ----------------------------
(***************************************************************************)
(* The directory of banks, ListBanks of internal/bank/service.go, paged by *)
(* an operator while banks are provisioned (BankProvisioning).  The list   *)
(* is in the order of the routes' created_at, which the control database   *)
(* gave them, and shows the entities' created_at, which the shard did; a   *)
(* page continues after the latter.  A bank without entity is passed over. *)
(*                                                                         *)
(* A time is given to a row when the transaction that inserts it begins;   *)
(* the two databases are on one clock here, and no two times are the same. *)
(* The reads of routes and entities are one step.  A bank is its UUID, as  *)
(* a number that orders like it.                                           *)
(***************************************************************************)
EXTENDS BankProvisioning, Pages

CONSTANT PageSizes   \* page_size of a request, chosen for each page

VARIABLES
  clock,      \* the time
  began,      \* when the current transaction of a request began
  routeAt,    \* created_at of bank_routing_entries
  entityAt,   \* created_at of bank.entities
  walk        \* the operator: the last cursor and the banks given so far

listVars == <<clock, began, routeAt, entityAt, walk>>
listingVars == <<vars, listVars>>

ListingInit ==
  /\ Init
  /\ clock = 0
  /\ began = [r \in Requests |-> 0]
  /\ routeAt = [b \in Banks |-> 0] /\ entityAt = [b \in Banks |-> 0]
  /\ walk = [pc |-> "idle", cursor |-> None, due |-> {}, given |-> <<>>]

Existing == {b \in Banks : route[b] # "none" /\ entity[b] # None}

\* Banks of the routing store, and the entity of each.
ListBanks ==
  LET routes == Listed({[created |-> routeAt[b], id |-> b, bank |-> b] : b \in Existing})
  IN  [i \in 1..Len(routes) |-> [routes[i] EXCEPT !.created = entityAt[routes[i].bank]]]

\* A step of a request.  A transaction begins with the claim and with the
\* provisioning of the entity; the row it inserts carries that time.
ProvisioningStep ==
  /\ Next
  /\ LET begins == {r \in Requests : req'[r].pc \in {"claiming", "shard"} /\ req'[r].pc # req[r].pc}
         inserter == CHOOSE r \in Requests : req'[r] # req[r]
     IN
     /\ clock' = IF begins = {} THEN clock ELSE clock + 1
     /\ began' = [r \in Requests |-> IF r \in begins THEN clock' ELSE began[r]]
     /\ routeAt' = [b \in Banks |->
           IF route[b] = "none" /\ route'[b] # "none" THEN began[inserter] ELSE routeAt[b]]
     /\ entityAt' = [b \in Banks |->
           IF entity[b] = None /\ entity'[b] # None THEN began[inserter] ELSE entityAt[b]]
  /\ UNCHANGED walk

Collection(limit) ==
  LET first == walk.pc = "idle"
      answer == PageOf(ListBanks, "banks", walk.cursor, first, limit)
  IN
  /\ walk.pc # "done"
  /\ walk' = [pc |-> IF answer.next = {} THEN "done" ELSE "walking",
              cursor |-> IF answer.next = {} THEN None ELSE CHOOSE c \in answer.next : TRUE,
              due |-> IF first THEN Existing ELSE walk.due,
              given |-> walk.given \o answer.page]
  /\ UNCHANGED <<vars, clock, began, routeAt, entityAt>>

ListingNext ==
  \/ ProvisioningStep
  \/ \E limit \in PageSizes : Collection(limit)

ListingSpec == ListingInit /\ [][ListingNext]_listingVars

-----------------------------------------------------------------------------
(* Properties *)

\* An operator who follows next_cursor to its end is given every bank that was
\* there at the first page.  (Banks whose entities were created in another
\* order than their routes are passed over, or given again and again.)
BankPagesComplete ==
  walk.pc = "done" =>
    walk.due \subseteq {walk.given[i].bank : i \in 1..Len(walk.given)}
=============================================================================
