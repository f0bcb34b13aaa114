-------------------------------- MODULE Library --------------------------------
(***************************************************************************)
(* Operators that several modules share, written without recursion so that  *)
(* LibraryProofs can say what they are known for.                           *)
(***************************************************************************)
EXTENDS Naturals, FiniteSets

(***************************************************************************)
(* The elements of a sequence that stand at given places, in their order:   *)
(* what a loop that appends the ones to keep leaves (slices.DeleteFunc,     *)
(* Array.filter).  SelectSeq says the same by recursion; this says at which *)
(* place each element stood.                                                *)
(***************************************************************************)
Rank(k, at) == Cardinality({j \in at : j <= k})
Nth(r, at) == CHOOSE k \in at : Rank(k, at) = r
Filtered(s, at) == [r \in 1 .. Cardinality(at) |-> s[Nth(r, at)]]

(***************************************************************************)
(* What a search along edges finds (reaches of terraform/infer, closesCycle *)
(* of the canvas): the nodes that are in every set that holds the start and *)
(* is closed under the edges, each of which has a from and a to.            *)
(***************************************************************************)
Ends(E) == {e.from : e \in E} \cup {e.to : e \in E}
Closed(E, S) == \A e \in E : e.from \in S => e.to \in S
Reaches(E, a, b) == \A S \in SUBSET (Ends(E) \cup {a}) : a \in S /\ Closed(E, S) => b \in S
=============================================================================
