---------------------------- MODULE MCReadings -----------------------------
(***************************************************************************)
(* Small declarations: every sequence of up to MaxEdges edges over three    *)
(* nodes, every set of as many over four, every way one part of a           *)
(* declaration is refused; and a small book, with every way a price is      *)
(* billed, scouters that read it alone and together, and every small graph  *)
(* of nodes with those types.  The nodes of the first graphs read nothing.  *)
(***************************************************************************)
EXTENDS Readings, FiniteSetsExt, SequencesExt

MaxEdges == 4

Node(id, load, traffic, kinds) ==
  [id |-> id, group |-> None, instances |-> 0,
   load |-> load, traffic |-> traffic, kinds |-> kinds]

Work(kind, perUnit, kb) == [kind |-> kind, perUnit |-> perUnit, kb |-> kb]

\* The j-th edge's work: the default, a sized multiple, two ops, a zero.
WorkOf(j) ==
  CASE j = 1 -> [ops |-> <<>>, short |-> Work(None, 2, 1)]
    [] j = 2 -> [ops |-> <<>>, short |-> Blank]
    [] j = 3 -> [ops |-> <<Work("read", 1, None), Work(None, 3, 4), Work("read", 2, 1)>>,
                 short |-> Blank]
    [] OTHER -> [ops |-> <<Work(None, 0, None), Work(None, None, 1)>>, short |-> Blank]

Edge(from, to, w) == [from |-> from, to |-> to, ops |-> w.ops, short |-> w.short]

Sources == <<Node("a", 1, None, None), Node("b", None, 2, <<"read", "write">>),
           Node("c", None, Unreadable, <<"read">>)>>
WithFourth == Append(Sources, Node("d", 3, None, <<"write">>))
Reversed == Reverse(Sources)

Three == {"a", "b", "c"}
Pairs == Three \X Three
Loopless == {p \in Pairs : p[1] # p[2]}
Shapes == UNION {[1 .. m -> Loopless] : m \in 0 .. MaxEdges}
          \cup UNION {[1 .. m -> Pairs] : m \in 1 .. 2}
FourShapes == {SetToSeq(s) : s \in kSubset(MaxEdges, {p \in Id \X Id : p[1] # p[2]})}

Over(nodes, s) ==
  [groups |-> <<>>, nodes |-> nodes,
   edges |-> [j \in 1 .. Len(s) |-> Edge(s[j][1], s[j][2], WorkOf(j))]]
Graphs == {Over(nodes, s) : s \in Shapes, nodes \in {Sources, Reversed}}
          \cup {Over(nodes, s) : s \in FourShapes, nodes \in {WithFourth, Reverse(WithFourth)}}

Base == [groups |-> <<"g">>, nodes |-> [Sources EXCEPT ![1].group = "g"],
         edges |-> <<Edge("a", "b", WorkOf(2))>>]
WithEdge(w) == [Base EXCEPT !.edges = Append(@, Edge("b", "c", w))]

Faulty == {
  Base,
  [Base EXCEPT !.groups = <<None>>],
  [Base EXCEPT !.groups = <<"g", "g">>],
  [Base EXCEPT !.groups = <<>>],
  [Base EXCEPT !.nodes[1].id = None],
  [Base EXCEPT !.nodes[2].id = "a"],
  [Base EXCEPT !.nodes[3].id = "a"],
  [Base EXCEPT !.nodes[2].instances = -1],
  [Base EXCEPT !.nodes[2].instances = -2],
  [Base EXCEPT !.nodes[1].load = -1],
  [Base EXCEPT !.nodes[2].traffic = -1],
  [Base EXCEPT !.nodes[1].traffic = 1],
  [Base EXCEPT !.nodes = SubSeq(@, 1, 1)],
  WithEdge([ops |-> <<Blank>>, short |-> Work(None, 2, None)]),
  WithEdge([ops |-> <<>>, short |-> Work("write", 2, None)]),
  WithEdge([ops |-> <<>>, short |-> Work("read", -1, None)]),
  WithEdge([ops |-> <<>>, short |-> Work("read", 1, -1)]) }

Propagating == Graphs \cup Faulty

-----------------------------------------------------------------------------
(***************************************************************************)
(* A second definition of demand: over every route of edges, not step by    *)
(* step.  A route's multiple is the product of what its edges bring per     *)
(* unit; a node's throughput is the sum over the routes that end at it.     *)
(***************************************************************************)
Multiple(e) == MapThenSumSet(LAMBDA k : PerUnit(e, k, FALSE), Kind)
RoutesTo(n) ==
  {r \in UNION {[1 .. m -> Edges] : m \in 1 .. Cardinality(known) - 1} :
     /\ To(r[Len(r)]) = n
     /\ \A j \in 1 .. Len(r) - 1 : To(r[j]) = From(r[j + 1])}
Brings(n) == IF NodeOf(n).load = None THEN 0 ELSE NodeOf(n).load
RouteLoad(r) == FoldLeft(LAMBDA x, e : x * Multiple(e), Brings(From(r[1])), r)
Throughput(n) == Brings(n) + MapThenSumSet(RouteLoad, RoutesTo(n))

(***************************************************************************)
(* The load that arrives at a node is the sum over every route to it of the *)
(* load that enters there times the route's multiples, whatever order the   *)
(* nodes were taken in and however many edges join two of them; and only    *)
(* operations that say their size reach a node with one: "the sizes of what *)
(* it received stay with it" (graph.go, propagate).                         *)
(***************************************************************************)
LoadOverRoutes ==
  Propagated =>
    \A n \in known :
      /\ Total(demand[n]) = Throughput(n)
      /\ \A k \in Kind :
           demand[n][k].sized =
             MapThenSumSet(LAMBDA e : Throughput(From(e)) * PerUnit(e, k, TRUE), Incoming(n))

-----------------------------------------------------------------------------
G == 27720   \* money of one unit: divides by every quantity up to 12

Tier(from, price, verified) == [from |-> from, price |-> price, verified |-> verified]
Price(tiers) == [unit |-> "request", rules |-> FALSE, pooled |-> FALSE, once |-> FALSE,
                 included |-> 0, tiers |-> tiers]
Ruled(tiers) == [Price(tiers) EXCEPT !.rules = TRUE]
Shared(tiers) == [Ruled(tiers) EXCEPT !.pooled = TRUE]

MCPriceBook ==
  "bundle"  :> [Ruled(<<Tier(0, G, TRUE), Tier(4, 2 * G, TRUE)>>) EXCEPT !.included = 2] @@
  "fee"     :> [Shared(<<Tier(0, 5 * G, TRUE)>>) EXCEPT !.once = TRUE] @@
  "away"    :> Price(<<Tier(0, Missing, FALSE)>>) @@
  "gb"      :> [Price(<<Tier(0, G, TRUE)>>) EXCEPT !.unit = "GB"] @@
  "plan"    :> [Shared(<<Tier(0, G, TRUE), Tier(6, 3 * G, TRUE)>>) EXCEPT !.included = 3] @@
  "reach"   :> Shared(<<Tier(0, G, TRUE), Tier(3, None, TRUE)>>) @@
  "tiers"   :> Ruled(<<Tier(0, 0, TRUE), Tier(2, 3 * G, TRUE), Tier(4, G, FALSE)>>) @@
  "unknown" :> Price(<<Tier(0, None, FALSE)>>) @@
  "unsold"  :> Price(<<Tier(0, None, TRUE)>>) @@
  "vague"   :> Shared(<<Tier(0, G, TRUE), Tier(3, None, FALSE)>>)
MCPriceIds == <<"away", "bundle", "fee", "gb", "plan", "reach", "tiers",
                "unknown", "unsold", "vague">>

Line(price, times, fixed) ==
  [price |-> price, unit |-> "request", kind |-> "request", times |-> times, fixed |-> fixed]
Lim(quota) == [quota |-> quota, kind |-> "request"]
Scout(reads, limits, sla) == [lines |-> reads, limits |-> limits, sla |-> sla]

MCScouters ==
  "entry" :> Scout(<<>>, <<>>, None) @@
  "fn"    :> Scout(<<Line("plan", 1, 0), Line("tiers", 1, 0), Line("bundle", 1, 1)>>,
                   <<Lim("concurrency"), Lim("memory")>>, "good") @@
  "db"    :> Scout(<<Line("plan", 2, 0), Line("reach", 1, 0), Line("fee", 0, 1)>>,
                   <<Lim("reads")>>, "vague") @@
  "queue" :> Scout(<<Line("vague", 1, 0), Line("fee", 0, 2), Line("unknown", 1, 0)>>,
                   <<Lim("nosuch")>>, "unwritten") @@
  "odd"   :> Scout(<<Line("gone", 1, 0), Line("gb", 1, 0), Line("away", 1, 0),
                     Line("unsold", 0, 0), Line("reach", 0, 1), Line("vague", 1, 0)>>,
                   <<>>, None) @@
  "vpc"   :> Scout(<<[Line("plan", 1, 0) EXCEPT !.kind = "transfer"],
                     [Line("reach", 1, 0) EXCEPT !.kind = "transfer"]>>, <<>>, None)

ScoutedTypings ==
  {[nodes |-> "a" :> x @@ "b" :> y @@ "c" :> z, groups |-> "g" :> "vpc" @@ "b" :> "vpc"] :
     x \in {"entry", "fn"}, y \in {"fn", "db", "odd"}, z \in {"db", "queue"}}
Entries == [nodes |-> [n \in Id |-> "entry"], groups |-> [g \in Group |-> None]]
MCTypings == ScoutedTypings \cup {Entries}

MCQuotaBook == "concurrency" :> [value |-> 8, verified |-> TRUE] @@
               "memory" :> [value |-> None, verified |-> FALSE] @@
               "reads" :> [value |-> 2, verified |-> FALSE]
MCApplied == "concurrency" :> 3 @@ "retired" :> 5
MCSLABook == "good" :> [value |-> 3, verified |-> TRUE] @@
             "vague" :> [value |-> None, verified |-> FALSE]
MCLatencies == "a" :> 1 @@ "b" :> 4 @@ "c" :> None @@ "d" :> 2

Made(id, load, traffic, group, instances) ==
  [id |-> id, group |-> group, instances |-> instances, load |-> load,
   traffic |-> traffic, kinds |-> None]
Default == [kind |-> None, perUnit |-> None, kb |-> None]
Arrow(from, to, op) == [from |-> from, to |-> to, ops |-> <<>>, short |-> op]

PricedGraphs ==
  {[groups |-> <<"g">>,
    nodes |-> <<Made("a", 4, None, None, 0), Made("b", None, None, "g", k),
                Made("c", l.load, l.traffic, "g", 0)>>,
    edges |-> SetToSeq(es)] :
     k \in {UnknownInstances, 2},
     l \in {[load |-> None, traffic |-> None], [load |-> None, traffic |-> Unreadable],
            [load |-> 2, traffic |-> None]},
     es \in SUBSET {Arrow("a", "b", Default), Arrow("a", "c", Default),
                    Arrow("a", "b", [Default EXCEPT !.perUnit = 0]),
                    Arrow("b", "c", [kind |-> None, perUnit |-> 1, kb |-> 1])}}

MCDeclarations == PricedGraphs \cup Propagating

\* Only in the graphs that are read does the first node bring in 4.
MCInit ==
  /\ ReadingBegins
  /\ types = Entries <=> decl.nodes[1].load # 4
MCSpec == MCInit /\ [][RunNext]_runvars

-----------------------------------------------------------------------------
\* Every reading a node or group makes: of one resource, and how many there are.
Uses ==
  UNION {
    LET r == results[k]
        isNode == k <= Len(line)
        n == IF isNode THEN Max({1, NodeOf(r.id).instances}) ELSE 1
        reads == IF r.type \in DOMAIN Scouters THEN Scouters[r.type].lines ELSE <<>>
        work(kind) == IF isNode THEN demand[r.id][kind].monthly
                      ELSE IF kind = "transfer" THEN Crossing(r.id) ELSE 0
    IN  {[node |-> k, price |-> reads[j].price, count |-> n,
          quantity |-> reads[j].times * (work(reads[j].kind) \div n) + reads[j].fixed] :
           j \in {h \in DOMAIN reads : /\ Priced(reads[h].price)
                                       /\ PriceBook[reads[h].price].unit = reads[h].unit}}
    : k \in DOMAIN results }

Rule(id) == PriceBook[id]
Separate == {u \in Uses : ~ Rule(u.price).pooled}
Pooling(id) == {u \in Uses : u.price = id /\ Sold(id, u.quantity, 0)}
Known0(usd) == IF usd = None THEN 0 ELSE usd

Whole(id) ==
  LET us == Pooling(id)
  IN  IF Rule(id).once THEN Max({u.quantity : u \in us} \cup {0})
      ELSE MapThenSumSet(LAMBDA u : u.quantity * u.count, us)

(***************************************************************************)
(* The monthly total bills every unit once: what each resource reads alone  *)
(* by its own rules, and what a pool's resources read together by the       *)
(* pool's, its included units given once, its fee paid once (meter.Pool:    *)
(* "its tiers are counted and its included units given once, over every     *)
(* line that reads it").  A result's share adds up to its pool's bill.      *)
(***************************************************************************)
TotalBillsEveryUnitOnce ==
  stage = "returned" =>
    total.usd =
      MapThenSumSet(LAMBDA u : u.count * Known0(UnitByUnit(u.price, u.quantity,
                                                          Rule(u.price).included)), Separate)
      + MapThenSumSet(LAMBDA id : Known0(UnitByUnit(id, Whole(id), Rule(id).included)),
                      {id \in DOMAIN PriceBook : Rule(id).pooled})

=============================================================================
