--------------------------- MODULE CatalogListing ---------------------------
(***************************************************************************)
(* A client pages through the products, clients or accounts of a bank (GET *)
(* on internal/server/resource.go, internal/catalog ListReference) while   *)
(* the requests of ReferenceCatalog create and patch them.                 *)
(*                                                                         *)
(* created_at is DEFAULT now(), the time at which the creating transaction *)
(* began: rows become visible in the order of the commits, which need not  *)
(* be that of their times, and two rows may have the same time.  No column *)
(* of the order changes afterwards and no row is deleted.                  *)
(***************************************************************************)
EXTENDS ReferenceCatalog, Pages

CONSTANTS
  IdOf,       \* the UUID of a row, as a number that orders like it
  PageSizes,  \* page_size of a request, chosen for each page
  MaxTime     \* bound: the clock's last value

ASSUME ListingAssumption ==
  /\ IsFiniteSet(Rows) /\ IdOf \in [Rows -> Nat]
  /\ \A x, y \in Rows : IdOf[x] = IdOf[y] => x = y
  /\ PageSizes \subseteq Nat \ {0} /\ MaxTime \in Nat \ {0}

VARIABLES
  clock,     \* the database's
  began,     \* when the transaction of a request began
  created,   \* created_at of a row
  walk       \* the client: its last cursor and what it was given

listVars == <<clock, began, created, walk>>
listingVars == <<vars, listVars>>

Kinds == {"product", "client", "account"}

Committed(kind) ==
  {row \in Rows : /\ row[1] = kind
                  /\ CASE kind = "product" -> product[row[2]] # None
                       [] kind = "client" -> client[row[2]] # None
                       [] kind = "account" -> account[row[2]] # None}

\* ListReference: the rows of a kind in the order of the query.
ListReference(kind) ==
  Listed({[created |-> created[row], id |-> IdOf[row], row |-> row] : row \in Committed(kind)})

ListingInit ==
  /\ Init
  /\ clock = 1
  /\ began = [r \in Requests |-> 1]
  /\ created = [row \in Rows |-> 1]
  /\ walk = [pc |-> "idle", cursor |-> None, due |-> {}, given |-> <<>>]

Tick ==
  /\ clock < MaxTime /\ clock' = clock + 1
  /\ UNCHANGED <<vars, began, created, walk>>

\* A step of a request: its transaction begins when it starts to claim its
\* key, and a row that it commits carries that time.
CatalogStep ==
  /\ Next
  /\ began' = [r \in Requests |->
        IF req'[r].pc = "claiming" /\ req[r].pc # "claiming" THEN clock ELSE began[r]]
  /\ created' = [row \in Rows |->
        LET by == {r \in Requests : /\ req[r].pc = "applied" /\ req[r].row = row
                                    /\ req[r].work.verb = "create"}
        IN  IF by # {} /\ row \notin Committed(row[1]) /\ row \in Committed(row[1])'
              THEN began[CHOOSE r \in by : TRUE] ELSE created[row]]
  /\ UNCHANGED <<clock, walk>>

\* A page of the collection.  (One asked for with the cursor of another
\* collection is refused and changes nothing.)
Collection(kind, limit) ==
  LET first == walk.pc = "idle"
      answer == PageOf(ListReference(kind), kind, walk.cursor, first, limit)
  IN
  /\ first \/ (walk.pc = "walking" /\ Serves(walk.cursor, kind))
  /\ walk' = [pc |-> IF answer.next = {} THEN "done" ELSE "walking",
              cursor |-> IF answer.next = {} THEN None ELSE CHOOSE c \in answer.next : TRUE,
              due |-> IF first THEN Committed(kind) ELSE walk.due,
              given |-> walk.given \o answer.page]
  /\ UNCHANGED <<vars, clock, began, created>>

ListingNext ==
  \/ CatalogStep
  \/ Tick
  \/ \E kind \in Kinds, limit \in PageSizes : Collection(kind, limit)

ListingSpec == ListingInit /\ [][ListingNext]_listingVars

-----------------------------------------------------------------------------
(* Properties *)

\* A client that follows next_cursor to its end, with whatever page sizes, is
\* given every row that was there at its first page, and no row twice, while
\* rows are committed with times before and after those it has passed.
PagesComplete ==
  /\ \A i, j \in 1..Len(walk.given) : i < j => Above(walk.given[i], walk.given[j])
  /\ walk.pc = "done" => walk.due \subseteq {walk.given[i].row : i \in 1..Len(walk.given)}
=============================================================================
