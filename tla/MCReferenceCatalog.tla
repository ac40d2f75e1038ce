------------------------ MODULE MCReferenceCatalog ------------------------
(***************************************************************************)
(* Small instances of ReferenceCatalog and CatalogListing for TLC.         *)
(***************************************************************************)
EXTENDS CatalogListing, TLC

CONSTANTS p1, p2, k1, k2, k3, a1, a2, x, y, z

\* A product, two clients and an account of the first.
OneOfEach ==
  [product |-> p1 :> [status |-> "active", configuration |-> x, version |-> 1] @@ p2 :> None,
   client |-> k1 :> x @@ k2 :> x @@ k3 :> None,
   account |-> a1 :> k1 @@ a2 :> None]

Work(verb, kind, ref, value) == [verb |-> verb, kind |-> kind, ref |-> ref, value |-> value]
Columns(status, configuration) == [status |-> status, configuration |-> configuration]
Issue(c, a, p) == Work("create", "card", None, [client |-> c, account |-> a, product |-> p])

Everything ==
  {Work("create", "product", p2, Columns("active", x)),
   Work("patch", "product", p1, Columns(None, y)),
   Work("patch", "product", p1, Columns("inactive", z)),
   Work("create", "client", k3, x), Work("patch", "client", k3, y),
   Work("create", "account", a2, k3), Work("create", "account", a2, k1),
   Work("patch", "account", a1, k2), Work("patch", "account", a2, k2),
   Issue(k1, a1, p1), Issue(k1, a2, p2)}

\* New rows come before and between those there are.
Uuids ==
  <<"product", p1>> :> 1 @@ <<"product", p2>> :> 2
  @@ <<"client", k1>> :> 3 @@ <<"client", k2>> :> 5 @@ <<"client", k3>> :> 4
  @@ <<"account", a1>> :> 7 @@ <<"account", a2>> :> 6

Interchangeable == Permutations(Requests) \cup Permutations(Keys)
=============================================================================
