------------------------------- MODULE Billing -------------------------------
(***************************************************************************)
(* meter/billing.go and meter/share.go: what a quantity costs by the rules  *)
(* of its price, and how a price that is billed on a whole account's usage  *)
(* is billed once and shared out over the lines that read it.               *)
(*                                                                         *)
(* A price that has no tiers is one tier from zero.  Quantities and money   *)
(* are whole numbers of a unit fine enough that no division here rounds.    *)
(***************************************************************************)
EXTENDS Integers, Sequences, Library, SequencesExt, FiniteSetsExt

CONSTANTS
  None,       \* a value that is not known
  Missing,    \* no value for the region at all
  PriceIds,   \* the ids of the price book, in order
  PriceBook   \* id -> [unit, rules, pooled, once, included, tiers]

Priced(id) == id \in DOMAIN PriceBook
Tiers(id) == PriceBook[id].tiers
Unknown == [error |-> "none", usd |-> None, verified |-> TRUE]
Failed(why) == [error |-> why, usd |-> None, verified |-> FALSE]

(***************************************************************************)
(* firstPaid: a free grant is zero-priced tiers before the first paid one,  *)
(* and is billed at that one's price.                                       *)
(***************************************************************************)
Granted(tiers) ==
  LET stops == {j \in DOMAIN tiers : tiers[j].price # 0}
      first == Min(stops)
  IN  IF stops = {} \/ tiers[first].price \in {None, Missing} THEN 1 ELSE first

PriceOf(tiers, j) ==
  IF j < Granted(tiers) THEN tiers[Granted(tiers)].price ELSE tiers[j].price

Upto(tiers, j, quantity) ==
  IF j = Len(tiers) THEN quantity ELSE Min({quantity, tiers[j + 1].from})

\* The part of the quantity that falls in tier j, less the included units.
InTier(tiers, j, quantity, included) ==
  Max({0, Upto(tiers, j, quantity) - Max({tiers[j].from, included})})

NotOffered(tiers, j, part) == tiers[j].price = None /\ tiers[j].verified /\ part > 0

(***************************************************************************)
(* Bill: the tiers in turn, the first that cannot be read ends it.  Every   *)
(* tier counts for Verified, one without quantity too.                      *)
(***************************************************************************)
Bill(id, quantity, included) ==
  IF ~ Priced(id) THEN Failed("missing")
  ELSE LET tiers == Tiers(id)
           part(j) == InTier(tiers, j, quantity, included)
           bad == {j \in DOMAIN tiers :
                     tiers[j].price = Missing \/ NotOffered(tiers, j, part(j))}
           used == {j \in DOMAIN tiers : part(j) > 0}
       IN  IF bad # {}
           THEN Failed(IF tiers[Min(bad)].price = Missing THEN "missing" ELSE "notOffered")
           ELSE [error |-> "none",
                 usd |-> IF \E j \in used : PriceOf(tiers, j) = None THEN None
                         ELSE MapThenSumSet(LAMBDA j : part(j) * PriceOf(tiers, j), used),
                 verified |-> \A j \in DOMAIN tiers : tiers[j].verified]

-----------------------------------------------------------------------------
(***************************************************************************)
(* tiersOf: a tiered table's rows are sorted by where they start, and the   *)
(* first starts at zero; no row is asked to start after the one before it.  *)
(***************************************************************************)
Ascending(tiers) ==
  /\ tiers[1].from = 0
  /\ \A j \in 1 .. Len(tiers) - 1 : tiers[j].from <= tiers[j + 1].from

(***************************************************************************)
(* The bill written unit by unit, to hold Bill against: unit u of a         *)
(* quantity falls in the last tier that starts before it, unless the plan   *)
(* includes it, and a free grant costs what the first paid tier does, when  *)
(* that is known.  A tier without any price for the region, or a unit in    *)
(* one the region is known not to offer, leaves the quantity unsold.        *)
(***************************************************************************)
TierOf(tiers, u) == Max({j \in DOMAIN tiers : tiers[j].from < u})
PaidTiers(tiers) == {j \in DOMAIN tiers : tiers[j].price # 0}

PriceOfUnit(id, u, included) ==
  LET tiers == Tiers(id)
      mine == TierOf(tiers, u)
      paid == PaidTiers(tiers)
  IN  IF u <= included THEN 0
      ELSE IF paid # {} /\ mine < Min(paid) /\ tiers[Min(paid)].price # None
           THEN tiers[Min(paid)].price ELSE tiers[mine].price

Sold(id, quantity, included) ==
  LET tiers == Tiers(id)
  IN  /\ \A j \in DOMAIN tiers : tiers[j].price # Missing
      /\ \A u \in 1 .. quantity : included < u =>
           LET t == tiers[TierOf(tiers, u)] IN t.price = None => ~ t.verified

UnitByUnit(id, quantity, included) ==
  IF ~ Sold(id, quantity, included) THEN None
  ELSE IF \E u \in 1 .. quantity : PriceOfUnit(id, u, included) = None THEN None
  ELSE MapThenSumSet(LAMBDA u : PriceOfUnit(id, u, included), 1 .. quantity)

-----------------------------------------------------------------------------
(***************************************************************************)
(* A cost line: [node, price, quantity, usd, pooled].  A pool is the lines  *)
(* that read one pooled price (the region in its key is the declaration's,  *)
(* the same for all of them).                                               *)
(***************************************************************************)
MembersOf(lines, id) == {l \in DOMAIN lines : lines[l].pooled /\ lines[l].price = id}
PoolIds(lines) == Filtered(PriceIds, {j \in DOMAIN PriceIds : MembersOf(lines, PriceIds[j]) # {}})

Used(lines, members) == MapThenSumSet(LAMBDA l : lines[l].quantity, members)
PoolQuantity(lines, id) ==
  LET members == MembersOf(lines, id)
  IN  IF PriceBook[id].once THEN Max({lines[l].quantity : l \in members} \cup {0})
      ELSE Used(lines, members)

\* Mutant: the whole of the units included is given to every line.
PoolBillPerLine(lines, id) ==
  Bill(id, PoolQuantity(lines, id),
       PriceBook[id].included * Cardinality(MembersOf(lines, id)))

PoolBill(lines, id) == Bill(id, PoolQuantity(lines, id), PriceBook[id].included)

(***************************************************************************)
(* shareOut: by quantity, or equally when none of the lines has any.        *)
(***************************************************************************)
ShareOf(lines, members, l, usd) ==
  IF usd = None THEN None
  ELSE IF Used(lines, members) > 0
       THEN (usd * lines[l].quantity) \div Used(lines, members)
       ELSE usd \div Cardinality(members)

ShareOut(lines, id, usd) ==
  LET members == MembersOf(lines, id)
  IN  [l \in DOMAIN lines |->
        IF l \in members THEN [lines[l] EXCEPT !.usd = ShareOf(lines, members, l, usd)]
        ELSE lines[l]]

\* Share: every pool of the lines.  A bill reads quantities only, so the
\* pools are told apart by their lines whatever their order.
Share(lines) ==
  [l \in DOMAIN lines |->
    IF lines[l].pooled
    THEN ShareOut(lines, lines[l].price, PoolBill(lines, lines[l].price).usd)[l]
    ELSE lines[l]]
=============================================================================
