------------------------------- MODULE Ledger -------------------------------
(***************************************************************************)
(* What merging promises about Terraform's addresses: one that it has seen  *)
(* is never forgotten; when an import ends, those Terraform declared are    *)
(* live and the rest are stale; only people take an address out.            *)
(***************************************************************************)
CONSTANT Address

VARIABLES
  recorded,   \* addresses the declaration has a node for
  live,       \* those of them that are not stale
  importing,  \* an import is under way
  declared    \* what Terraform declares in it, nothing between imports

lvars == <<recorded, live, importing, declared>>

LInit ==
  /\ recorded \in SUBSET Address
  /\ live \in SUBSET recorded
  /\ importing = FALSE
  /\ declared = {}

Open ==
  /\ ~ importing
  /\ importing' = TRUE
  /\ declared' \in SUBSET Address
  /\ UNCHANGED <<recorded, live>>

Bring ==
  /\ importing
  /\ \E a \in declared : recorded' = recorded \cup {a} /\ live' = live \cup {a}
  /\ UNCHANGED <<importing, declared>>

Leave ==
  /\ importing
  /\ live' = live \cap declared
  /\ UNCHANGED <<recorded, importing, declared>>

Close ==
  /\ importing
  /\ live = declared
  /\ importing' = FALSE
  /\ declared' = {}
  /\ UNCHANGED <<recorded, live>>

TakeOut ==
  /\ ~ importing
  /\ \E a \in recorded : recorded' = recorded \ {a} /\ live' = live \ {a}
  /\ UNCHANGED <<importing, declared>>

LNext == Open \/ Bring \/ Leave \/ Close \/ TakeOut
LSpec == LInit /\ [][LNext]_lvars
=============================================================================
