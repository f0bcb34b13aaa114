------------------------------ MODULE Settling ------------------------------
(***************************************************************************)
(* What propagation promises, without saying how: nodes settle one at a     *)
(* time, each only after every node that sends it load.  Any order that     *)
(* does so is allowed; a graph with a cycle can never settle entirely.      *)
(***************************************************************************)
CONSTANT Id
VARIABLES
  feeds,     \* the pairs <<from, to>> along which load flows
  settled    \* nodes whose demand is final and passed on

Feeders(n) == {m \in Id : <<m, n>> \in feeds}

SInit == settled = {}

Settle(n) ==
  /\ n \notin settled
  /\ Feeders(n) \subseteq settled
  /\ settled' = settled \cup {n}
  /\ UNCHANGED feeds

SNext == \E n \in Id : Settle(n)
SSpec == SInit /\ [][SNext]_<<feeds, settled>>
=============================================================================
