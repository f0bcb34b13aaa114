----------------------------- MODULE Reconcile -----------------------------
(***************************************************************************)
(* reconcile: a declaration's reading next to the account's bill, service   *)
(* by service and, when the bill says so, price by usage type.              *)
(*                                                                         *)
(* A name on a bill is a sequence of words and a price's id of segments; a  *)
(* usage type is what a price's filter can tell it by once the region in it *)
(* is set aside.  Money is whole; a price without money is None.            *)
(***************************************************************************)
EXTENDS Integers, Sequences, FiniteSets, FiniteSetsExt, SequencesExt

CONSTANTS
  None,
  Codes,   \* the billing service codes, in order
  Names,   \* code -> its names on a bill, patterns in which * is any text
  Synced,  \* price id -> [service, filter]: how the book says it syncs
  Short    \* segments too short to tell a service by, punctuation apart

Sum(seq, f(_)) == FoldLeft(LAMBDA n, x : n + f(x), 0, seq)

-----------------------------------------------------------------------------
(***************************************************************************)
(* ParseCostExplorer: the groups of every period summed by service, and by  *)
(* usage type when the export was grouped by both.                          *)
(***************************************************************************)
Firsts(seq, key(_)) ==
  FoldLeft(LAMBDA ks, x : IF key(x) \in Range(ks) THEN ks ELSE Append(ks, key(x)), <<>>, seq)
Charge(g) == g.usd

Both(g) == <<g.service, g.usage>>
Service(g) == g.service
Lines(groups) ==
  FoldLeft(LAMBDA ls, s : Append(ls, [service |-> s, usd |-> Sum(SelectSeq(groups, LAMBDA g : g.service = s), Charge)]),
           <<>>, Firsts(groups, Service))
Usages(groups) ==
  FoldLeft(LAMBDA us, k : Append(us, [service |-> k[1], usage |-> k[2],
                                      usd |-> Sum(SelectSeq(groups, LAMBDA g : Both(g) = k), Charge)]),
           <<>>, Firsts(groups, Both))
Summed(groups, byUsage) == [lines |-> Lines(groups), usage |-> IF byUsage THEN Usages(groups) ELSE <<>>]
ParseBill(export) == Summed(FlattenSeq(export.periods), export.byUsage)

-----------------------------------------------------------------------------
\* matches and codeOf: the first code, in order, with a name the service's fits.
RECURSIVE Matches(_, _)
Matches(pattern, s) ==
  IF pattern = <<>> THEN s = <<>>
  ELSE IF Head(pattern) = "*" THEN \E k \in 0..Len(s) : Matches(Tail(pattern), SubSeq(s, k + 1, Len(s)))
  ELSE s # <<>> /\ Head(s) = Head(pattern) /\ Matches(Tail(pattern), Tail(s))

FirstOr(s) == IF s = <<>> THEN None ELSE Head(s)
CodeOf(service) == FirstOr(SelectSeq(Codes, LAMBDA c : \E n \in Names[c] : Matches(n, service)))

\* syncFor: the price's own entry, or the table it is a row of.
OfRow(sync, rest) == IF sync.filter = {"{row}"} THEN [sync EXCEPT !.filter = {Head(rest)}] ELSE sync
Longest(price, tables) ==
  IF tables = {} THEN None ELSE OfRow(Synced[SubSeq(price, 1, Max(tables))], SubSeq(price, Max(tables) + 1, Len(price)))
SyncFor(price) == Longest(price, {k \in 1..Len(price) : SubSeq(price, 1, k) \in DOMAIN Synced})
CodeIn(sync) == IF sync = None THEN None ELSE sync.service
ServiceCode(price) == CodeIn(SyncFor(price))

\* Mutant: a pattern is counted next to the nodes it rolls up.
NodeResultsAll(res) == res.nodes \o res.groups
NodeResults(res) == SelectSeq(res.nodes, LAMBDA n : ~ n.rolledUp) \o res.groups

LinesOf(n) == [i \in DOMAIN n.costs |-> [node |-> n.id, price |-> n.costs[i].price, usd |-> n.costs[i].usd]]
PricedLines(res) ==
  SelectSeq(FoldLeft(LAMBDA ls, n : ls \o LinesOf(n), <<>>, NodeResults(res)), LAMBDA c : c.usd # None)

-----------------------------------------------------------------------------
\* narrow: the services a segment of the price's id names, unless every one carries it.
OrAll(named, services) == IF named = {} THEN services ELSE named
Narrow(services, price) ==
  LET hits(seg) == {s \in services : seg \in Range(s)}
  IN  OrAll(IF Cardinality(services) > 1
            THEN UNION {hits(seg) : seg \in {x \in Range(price) \ Short : hits(x) # services}} ELSE {}, services)

(***************************************************************************)
(* compareUsage: each price next to the usage types its filter names within *)
(* its service, and the usage types of covered services nothing reads.      *)
(***************************************************************************)
RowOf(lines, price, read) ==
  [price |-> price, bill |-> Sum(read, Charge), reads |-> {Both(u) : u \in Range(read)},
   declared |-> Sum(SelectSeq(lines, LAMBDA c : c.price = price), Charge)]
ReadBy(bill, sync, named) == SelectSeq(bill.usage, LAMBDA u : u.service \in named /\ u.usage \in sync.filter)
UsageRow(bill, lines, price, sync) ==
  RowOf(lines, price,
        ReadBy(bill, sync, Narrow({u.service : u \in {x \in Range(bill.usage) : CodeOf(x.service) = sync.service}}, price)))

Filtered(sync) == sync # None /\ sync.filter # {}
Unfiltered(sync) == sync # None /\ ~ Filtered(sync)
Price(c) == c.price
Unread(us, nodes, read, unfiltered) ==
  FoldLeft(LAMBDA rest, u :
             IF CodeOf(u.service) \in {c \in DOMAIN nodes : nodes[c] # {}} /\ Both(u) \notin read
             THEN Append(rest, [usage |-> Both(u), usd |-> u.usd, note |-> CodeOf(u.service) \in unfiltered]) ELSE rest,
           <<>>, us)
ByPrice(bill, lines, nodes, rows) ==
  [rows |-> rows,
   unread |-> Unread(bill.usage, nodes, UNION {r.reads : r \in Range(rows)},
                     {sync.service : sync \in {x \in {SyncFor(c.price) : c \in Range(lines)} : Unfiltered(x)}})]
CompareUsage(bill, lines, nodes) ==
  IF bill.usage = <<>> THEN [rows |-> <<>>, unread |-> <<>>]
  ELSE ByPrice(bill, lines, nodes,
         FoldLeft(LAMBDA rows, price : Append(rows, UsageRow(bill, lines, price, SyncFor(price))), <<>>,
                  Firsts(SelectSeq(lines, LAMBDA c : Filtered(SyncFor(c.price))), Price)))

(***************************************************************************)
(* Compare.  A service is covered when a node stands for it, billed or not; *)
(* what is billed for the others is outside, known to the catalog or not.   *)
(***************************************************************************)
IsTax(l) == l.service = <<"Tax">>

ServiceRow(code, placed, billed) ==
  [service |-> code, bill |-> Sum(billed, Charge), declared |-> Sum(placed, Charge), nodes |-> {c.node : c \in Range(placed)},
   billed |-> IF Len(billed) > 1 THEN {l.service : l \in Range(billed)} ELSE {}, seen |-> placed # <<>> \/ billed # <<>>]
ServiceRows(bill, lines) ==
  SelectSeq(FoldLeft(LAMBDA rows, code :
                       Append(rows, ServiceRow(code, SelectSeq(lines, LAMBDA c : ServiceCode(c.price) = code),
                                         SelectSeq(bill.lines, LAMBDA l : ~ IsTax(l) /\ CodeOf(l.service) = code))),
                     <<>>, Codes), LAMBDA row : row.seen)
BillOf(row) == row.bill
Covered(row) == row.nodes # {}
Known(row) == ~ Covered(row)

Report(bill, lines, rows, known, strange, usage) ==
  [bill |-> Sum(bill.lines, Charge), tax |-> Sum(SelectSeq(bill.lines, IsTax), Charge),
   covered |-> Sum(rows, BillOf), outside |-> Sum(known, BillOf) + Sum(strange, Charge),
   declared |-> Sum(lines, Charge), rows |-> rows, outsideRows |-> Range(known) \cup Range(strange),
   unmapped |-> SelectSeq(lines, LAMBDA c : ServiceCode(c.price) = None),
   usageRows |-> usage.rows, unread |-> usage.unread]
Compared(bill, lines, rows) ==
  Report(bill, lines, SelectSeq(rows, Covered), SelectSeq(rows, Known),
         SelectSeq(bill.lines, LAMBDA l : ~ IsTax(l) /\ CodeOf(l.service) = None),
         CompareUsage(bill, lines, [code \in Range(Codes) |-> UNION {row.nodes : row \in {x \in Range(rows) : x.service = code}}]))
WithLines(bill, lines) == Compared(bill, lines, ServiceRows(bill, lines))
Compare(res, bill) == WithLines(bill, PricedLines(res))
=============================================================================
