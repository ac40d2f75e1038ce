------------------------------- MODULE Pages -------------------------------
(***************************************************************************)
(* Pages of a collection, internal/server/resource.go.  Every list request *)
(* reads the whole collection again, in the order of its query, and cuts   *)
(* one page out of it.  A page continues after the last element of the one *)
(* before, which the client hands back in a signed cursor: the walk skips  *)
(* elements until one is below the cursor's creation time and id.          *)
(*                                                                         *)
(* An element is a record with created (its created_at) and id (its UUID,  *)
(* as a number that orders like it); data is the sequence the query gave.  *)
(* A cursor names the collection it belongs to: kind, bank and the filters *)
(* of the request are one value here.  Parsing and signing are left out.   *)
(***************************************************************************)
EXTENDS Naturals, Sequences, FiniteSets

\* ORDER BY created_at DESC, id DESC: an element comes after those above it.
Above(x, y) == x.created > y.created \/ (x.created = y.created /\ x.id > y.id)
Place(elements, x) == Cardinality({y \in elements : Above(y, x)}) + 1
Listed(elements) ==
  [i \in 1..Cardinality(elements) |-> CHOOSE x \in elements : Place(elements, x) = i]

\* cursorDecode: a cursor serves only the collection it was made for.
Serves(cursor, collection) == cursor.collection = collection

\* Mutation of StartOf: the walk stops at the first earlier element and passes
\* over those that were created at the cursor's time.
StartOfEarlier(data, cursor, first) ==
  IF first THEN 1
  ELSE CHOOSE i \in 1..Len(data) + 1 :
         /\ i <= Len(data) => data[i].created < cursor.created
         /\ \A j \in 1..i - 1 : ~(data[j].created < cursor.created)

\* The first page starts at the first element; another one where the walk
\* stops, past the end if it does not.
StartOf(data, cursor, first) ==
  IF first THEN 1
  ELSE CHOOSE i \in 1..Len(data) + 1 :
         /\ i <= Len(data) => Above(cursor, data[i])
         /\ \A j \in 1..i - 1 : ~Above(cursor, data[j])

\* collection: a page and next_cursor, made of its last element if there is
\* more to come.
PageOf(data, collection, cursor, first, limit) ==
  LET start == StartOf(data, cursor, first)
      end == IF start + limit - 1 > Len(data) THEN Len(data) ELSE start + limit - 1
      last == data[end]
  IN  [page |-> SubSeq(data, start, end),
       next |-> IF start <= end /\ end < Len(data)
                  THEN {[collection |-> collection, created |-> last.created, id |-> last.id]}
                  ELSE {}]
=============================================================================
