----------------------------- MODULE MCWorkspace -----------------------------
(***************************************************************************)
(* A sound document, one that the engine refuses, and a page that may have  *)
(* been used before.                                                        *)
(***************************************************************************)
EXTENDS Workspace

Card(id, load) == [id |-> id, load |-> load]
Edge(from, to) == [from |-> from, to |-> to]
Chain == [nodes |-> <<Card("a", 1), Card("b", None)>>, edges |-> <<Edge("a", "b")>>]
Round == [nodes |-> <<Card("a", None), Card("b", None)>>,
          edges |-> <<Edge("a", "b"), Edge("b", "a")>>]

MCDocuments == {Chain, Round}
MCKept == {None, Chain}
MCLoadValue == {-1, 2}
=============================================================================
