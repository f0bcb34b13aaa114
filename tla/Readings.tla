------------------------------ MODULE Readings ------------------------------
(***************************************************************************)
(* engine/engine.go, Run, once the load is propagated: every node is read   *)
(* by its type's scouter with the demand that reached it, the groups with   *)
(* what crosses inside them, the pools of all of them are billed once, the  *)
(* lines are summed, and the paths from load to sink are listed.            *)
(*                                                                         *)
(* A scouter is what it reads of a node's demand: lines priced by id and    *)
(* limits against quotas by id.  Error texts are the thing that is wrong    *)
(* and the id it is about.                                                  *)
(***************************************************************************)
EXTENDS Propagation, Library, SequencesExt, FiniteSetsExt

CONSTANTS
  Missing,    \* a price without a value for the region
  PriceIds,   \* the ids of the price book, in order
  PriceBook,  \* the price book, see Billing
  Scouters,   \* type -> [lines, limits, sla], what its scouter reads
  Typings,    \* the types a declaration may give: [nodes, groups]
  Entry,      \* EntryType: the type of a pure load source
  Latencies,  \* id -> its latency assumption, or None
  QuotaBook,  \* quota id -> [value, verified], as published
  SLABook,    \* SLA id -> [value, verified]
  Applied,    \* quota id -> the account's value (Spec.Quotas)
  MaxPaths    \* the bound on the paths listed

INSTANCE Billing

(***************************************************************************)
(* Finite books and scouters of whole numbers; a tier's price may be not    *)
(* known or missing, and a price has one tier at least (see Billing).       *)
(***************************************************************************)
ASSUME ReadingsAssumption ==
  /\ IsFiniteSet(Kind)
  /\ PriceIds \in Seq(DOMAIN PriceBook) /\ DOMAIN PriceBook = {PriceIds[j] : j \in DOMAIN PriceIds}
  /\ \A j, k \in DOMAIN PriceIds : PriceIds[j] = PriceIds[k] => j = k
  /\ \A id \in DOMAIN PriceBook :
       /\ PriceBook[id].included \in Int
       /\ {PriceBook[id].rules, PriceBook[id].pooled, PriceBook[id].once} \subseteq BOOLEAN
       /\ PriceBook[id].tiers \in
            Seq([from : Int, price : Int \cup {None, Missing}, verified : BOOLEAN]) \ {<<>>}
       /\ Ascending(PriceBook[id].tiers)
  /\ \A type \in DOMAIN Scouters :
       LET reads == Scouters[type].lines
       IN  /\ Len(reads) \in Nat /\ DOMAIN reads = 1 .. Len(reads)
           /\ \A j \in DOMAIN reads :
                reads[j].kind \in Kind /\ reads[j].times \in Int /\ reads[j].fixed \in Int
  /\ MaxPaths \in Nat

VARIABLES
  types,      \* the type of each node and group
  stage,      \* where Run is
  step,       \* the node, group or pool its loop is at
  results,    \* NodeResults: nodes in order, then groups
  lines,      \* their cost lines, one sequence
  unverified, \* reader.unverified
  pools,      \* meter.Share's pools, with their bill
  total,      \* [usd, unpriced]
  todo,       \* trails that paths has still to walk
  paths       \* res.Paths

rest == <<types, stage, step, results, lines, unverified, pools, total, todo, paths>>
runvars == <<allvars, rest>>

Advance(next) == stage' = next /\ step' = 1

-----------------------------------------------------------------------------
(***************************************************************************)
(* withApplied: the account's values over the published ones, for the       *)
(* quotas a book defines.                                                   *)
(***************************************************************************)
Quotas == [q \in DOMAIN QuotaBook |->
             IF q \in DOMAIN Applied
             THEN [value |-> Applied[q], verified |-> TRUE, from |-> "account"]
             ELSE [value |-> QuotaBook[q].value, verified |-> QuotaBook[q].verified,
                   from |-> "quota"]]
QuotaWarnings == DOMAIN Applied \ DOMAIN QuotaBook

Start ==
  /\ stage = "run"
  /\ Propagated
  /\ Advance("nodes")
  /\ UNCHANGED <<types, results, lines, unverified, pools, total, todo, paths>>

Count(n) == Max({1, n.instances})
Amount(r, d, k) == r.times * (d[r.kind].monthly \div k) + r.fixed

Plain(id) ==
  LET t == Tiers(id)[1]
  IN  IF ~ Priced(id) THEN Failed("missing")
      ELSE IF t.price = Missing THEN Failed("missing")
      ELSE IF t.price = None /\ t.verified THEN Failed("notOffered")
      ELSE [error |-> "none", usd |-> t.price, verified |-> t.verified]

Rules(id) == Priced(id) /\ PriceBook[id].rules
Pooled(id) == Rules(id) /\ PriceBook[id].pooled
Once(id) == Priced(id) /\ PriceBook[id].once

\* Cost and billed: what one reading of quantity q is priced at, alone.
Alone(r, q) ==
  IF Priced(r.price) /\ PriceBook[r.price].unit # r.unit THEN Failed("unit")
  ELSE IF Rules(r.price)
  THEN Bill(r.price, q, IF Pooled(r.price) THEN 0 ELSE PriceBook[r.price].included)
  ELSE LET p == Plain(r.price) IN [p EXCEPT !.usd = IF @ = None THEN None ELSE @ * q]

Times(cost, k) ==
  IF Once(cost.price) THEN cost
  ELSE [cost EXCEPT !.quantity = @ * k, !.usd = IF @ = None THEN None ELSE @ * k]

RefTo(id, v) == [id |-> id, verified |-> v.verified, known |-> v.value # None]

Reading(id, place, type, d, k) ==
  LET reads == Scouters[type].lines
      alone == [j \in DOMAIN reads |-> Alone(reads[j], Amount(reads[j], d, k))]
      good == {j \in DOMAIN reads : alone[j].error = "none"}
      cost(j) == [node |-> id, of |-> place, price |-> reads[j].price, usd |-> alone[j].usd,
                  quantity |-> Amount(reads[j], d, k), pooled |-> Pooled(reads[j].price)]
      shared == Share(Filtered([j \in DOMAIN reads |-> cost(j)], good))
  IN  [lines |-> [l \in DOMAIN shared |-> Times(shared[l], k)],
       errors |-> {<<alone[j].error, reads[j].price>> : j \in DOMAIN reads \ good},
       refs |-> {[id |-> reads[j].price, verified |-> alone[j].verified,
                  known |-> alone[j].usd # None] : j \in good}]

\* Limit: the demand one of them makes against a quota a book defines.
Limited(type, d, k) ==
  LET limits == Scouters[type].limits
      read == SelectSeq(limits, LAMBDA m : m.quota \in DOMAIN Quotas)
  IN  [limits |-> [j \in DOMAIN read |->
         [quota |-> read[j].quota, capacity |-> Quotas[read[j].quota].value,
          from |-> Quotas[read[j].quota].from, demand |-> d[read[j].kind].monthly \div k]],
       errors |-> {<<"missing", limits[j].quota>> :
                     j \in {h \in DOMAIN limits : limits[h].quota \notin DOMAIN Quotas}},
       refs |-> {RefTo(read[j].quota, Quotas[read[j].quota]) : j \in DOMAIN read}]

\* sla: what a book says of the type's SLA, nothing when it has no entry.
Promised(type) ==
  LET id == Scouters[type].sla
  IN  IF id \in DOMAIN SLABook
      THEN [value |-> SLABook[id].value, refs |-> {RefTo(id, SLABook[id])}]
      ELSE [value |-> None, refs |-> {}]

Noted(refs) == {u \in refs : ~ u.verified \/ ~ u.known}

NoReading(id, type, trouble) ==
  [id |-> id, type |-> type, errors |-> trouble, limits |-> <<>>,
   latency |-> None, sla |-> None, usd |-> 0]

Read(id, type, d, k, latency, trouble) ==
  IF type \notin DOMAIN Scouters
  THEN /\ results' = Append(results, NoReading(id, type, trouble))
       /\ UNCHANGED <<lines, unverified>>
  ELSE LET r == Reading(id, Len(results) + 1, type, d, k)
           m == Limited(type, d, k)
           p == Promised(type)
       IN  /\ results' = Append(results,
                [NoReading(id, type, trouble) EXCEPT
                   !.errors = r.errors \cup m.errors \cup @, !.limits = m.limits,
                   !.latency = latency, !.sla = p.value])
           /\ lines' = lines \o r.lines
           /\ unverified' = unverified \cup Noted(r.refs \cup m.refs \cup p.refs)

Trouble(n) == IF n.traffic = Unreadable THEN {<<"traffic", n.id>>} ELSE {}

ReadNode ==
  /\ stage = "nodes"
  /\ step <= Len(line)
  /\ LET n == NodeOf(line[step])
     IN  Read(n.id, types.nodes[n.id], demand[n.id], Count(n), Latencies[n.id], Trouble(n))
  /\ step' = step + 1
  /\ UNCHANGED <<types, stage, pools, total, todo, paths>>

NodesRead ==
  /\ stage = "nodes"
  /\ step > Len(line)
  /\ Advance("groups")
  /\ UNCHANGED <<types, results, lines, unverified, pools, total, todo, paths>>

-----------------------------------------------------------------------------
(***************************************************************************)
(* readGroups: a group with a type, and with sized work crossing between    *)
(* two of its nodes, is read with that volume.                              *)
(***************************************************************************)
Transfer == "transfer"   \* GroupKind
Sized(e) ==
  LET ops == Operations(decl.edges[e])
  IN  SumFunctionOnSet([j \in DOMAIN ops |-> Factor(ops[j]) * ops[j].kb],
                       {j \in DOMAIN ops : ops[j].kb # None})

Within(g) == {e \in Edges : NodeOf(From(e)).group = g /\ NodeOf(To(e)).group = g}
Crossing(g) == MapThenSumSet(LAMBDA e : Total(demand[From(e)]) * Sized(e), Within(g))
Crossed(volume) ==
  [k \in Kind |-> IF k = Transfer THEN [monthly |-> volume, sized |-> 0] ELSE NoLoad]

ReadGroup ==
  /\ stage = "groups"
  /\ step <= Len(decl.groups)
  /\ LET g == decl.groups[step]
     IN  IF types.groups[g] = None \/ Crossing(g) = 0
         THEN UNCHANGED <<results, lines, unverified>>
         ELSE Read(g, types.groups[g], Crossed(Crossing(g)), 1, None, {})
  /\ step' = step + 1
  /\ UNCHANGED <<types, stage, pools, total, todo, paths>>

GroupsRead ==
  /\ stage = "groups"
  /\ step > Len(decl.groups)
  /\ Advance("pools")
  /\ UNCHANGED <<types, results, lines, unverified, pools, total, todo, paths>>

-----------------------------------------------------------------------------
(***************************************************************************)
(* sharePools: the pools in the order of their keys; then a pool that could *)
(* not be billed is blamed on the nodes sharing it.                         *)
(***************************************************************************)
SharePool ==
  /\ stage = "pools"
  /\ step <= Len(PoolIds(lines))
  /\ LET id == PoolIds(lines)[step]
         bill == PoolBill(lines, id)
     IN  /\ lines' = ShareOut(lines, id, bill.usd)
         /\ pools' = Append(pools, [price |-> id, error |-> bill.error, usd |-> bill.usd,
                                    quantity |-> PoolQuantity(lines, id)])
  /\ step' = step + 1
  /\ UNCHANGED <<types, stage, results, unverified, total, todo, paths>>

PoolsShared ==
  /\ stage = "pools"
  /\ step > Len(PoolIds(lines))
  /\ Advance("blame")
  /\ UNCHANGED <<types, results, lines, unverified, pools, total, todo, paths>>

\* byID: of results with one id, the last.
Found(id) == Max({k \in DOMAIN results : results[k].id = id})

\* Mutant: the first node sharing the pool is blamed alone.
SharingFirst(p) == {Found(lines[Min(MembersOf(lines, p.price))].node)}

Sharing(p) == {Found(lines[l].node) : l \in MembersOf(lines, p.price)}

Blame ==
  /\ stage = "blame"
  /\ step <= Len(pools)
  /\ LET p == pools[step]
     IN  results' = IF p.error = "none" THEN results
                    ELSE [k \in DOMAIN results |->
                           IF k \in Sharing(p)
                           THEN [results[k] EXCEPT !.errors = @ \cup {<<p.error, p.price>>}]
                           ELSE results[k]]
  /\ step' = step + 1
  /\ UNCHANGED <<types, stage, lines, unverified, pools, total, todo, paths>>

(***************************************************************************)
(* sumCosts, and the nodes that paths then walks from.                      *)
(***************************************************************************)
PricedLines == {l \in DOMAIN lines : lines[l].usd # None}
Usd(of) == MapThenSumSet(LAMBDA l : lines[l].usd, of)
Roots == Filtered(line, {j \in DOMAIN line : NodeOf(line[j]).load # None})

SumCosts ==
  /\ stage = "blame"
  /\ step > Len(pools)
  /\ results' = [k \in DOMAIN results |->
                   [results[k] EXCEPT !.usd = Usd({l \in PricedLines : lines[l].of = k})]]
  /\ total' = [usd |-> Usd(PricedLines), unpriced |-> Cardinality(DOMAIN lines \ PricedLines)]
  /\ todo' = [j \in DOMAIN Roots |-> <<Roots[j]>>]
  /\ Advance("paths")
  /\ UNCHANGED <<types, lines, unverified, pools, paths>>

-----------------------------------------------------------------------------
(***************************************************************************)
(* paths: a depth-first walk from every node that brings in load, to the    *)
(* nodes that send nothing on.  Parallel edges are walked once, and at the  *)
(* bound what is left is dropped.                                           *)
(***************************************************************************)
Targets == [e \in Edges |-> To(e)]

\* Mutant: parallel edges are each walked.
HopsAll(n) == Filtered(Targets, Outgoing(n))

Hops(n) ==
  Filtered(Targets, {e \in Outgoing(n) : \A f \in Outgoing(n) : To(f) = To(e) => e <= f})

Result(id) == results[CHOOSE k \in DOMAIN results : results[k].id = id /\ k <= Len(line)]

\* composePath: the entry that starts a path is its caller, not a hop.
Compose(trail) ==
  LET hops == {j \in DOMAIN trail : j # 1 \/ types.nodes[trail[j]] # Entry}
      slow == {j \in hops : Result(trail[j]).latency # None}
      sure == {j \in hops : Result(trail[j]).sla # None}
  IN  [nodes |-> trail,
       latency |-> MapThenSumSet(LAMBDA j : Result(trail[j]).latency, slow),
       availability |-> FoldSet(LAMBDA j, a : a * Result(trail[j]).sla, 1, sure),
       missingLatency |-> {trail[j] : j \in hops \ slow},
       missingSLA |-> {trail[j] : j \in hops \ sure}]

Walk ==
  /\ stage = "paths"
  /\ todo # <<>>
  /\ LET trail == Head(todo)
         next == Hops(Last(trail))
     IN  IF Len(paths) >= MaxPaths THEN todo' = Tail(todo) /\ paths' = paths
         ELSE IF next = <<>>
         THEN todo' = Tail(todo) /\ paths' = Append(paths, Compose(trail))
         ELSE /\ todo' = [j \in DOMAIN next |-> Append(trail, next[j])] \o Tail(todo)
              /\ paths' = paths
  /\ UNCHANGED <<types, stage, step, results, lines, unverified, pools, total>>

Cut == Len(paths) >= MaxPaths   \* the warning that there are more paths

Walked ==
  /\ stage = "paths"
  /\ todo = <<>>
  /\ stage' = "returned"
  /\ UNCHANGED <<types, step, results, lines, unverified, pools, total, todo, paths>>

-----------------------------------------------------------------------------
ReadingBegins ==
  /\ Begin
  /\ types \in Typings
  /\ stage = "run"
  /\ step = 1
  /\ results = <<>>
  /\ lines = <<>>
  /\ unverified = {}
  /\ pools = <<>>
  /\ total = [usd |-> 0, unpriced |-> 0]
  /\ todo = <<>>
  /\ paths = <<>>

ReadAll ==
  \/ Start \/ ReadNode \/ NodesRead \/ ReadGroup \/ GroupsRead
  \/ SharePool \/ PoolsShared \/ Blame \/ SumCosts \/ Walk \/ Walked

Returned == stage = "returned" \/ pc = "refused"
RunNext ==
  \/ (Build /\ UNCHANGED <<flow, rest>>)
  \/ ((Take \/ Push) /\ UNCHANGED rest)
  \/ (ReadAll /\ UNCHANGED allvars)
  \/ (Returned /\ UNCHANGED runvars)

RunSpec == ReadingBegins /\ [][RunNext]_runvars

-----------------------------------------------------------------------------
(***************************************************************************)
(* A line without a price is never silent: its node says what is wrong with *)
(* that price, or the price is listed among the unverified ones ("nil when  *)
(* the price is not known", meter.Cost; "a pool that cannot be billed puts  *)
(* its error on each node sharing it", sharePools).                         *)
(***************************************************************************)
Explained(l) ==
  \/ \E e \in results[lines[l].of].errors : e[2] = lines[l].price
  \/ \E u \in unverified : u.id = lines[l].price

Apart == \A g \in DOMAIN decl.groups : \A k \in DOMAIN decl.nodes : decl.groups[g] # decl.nodes[k].id

UnpricedExplained ==
  stage = "returned" /\ Apart => \A l \in DOMAIN lines \ PricedLines : Explained(l)

(***************************************************************************)
(* "paths lists every path from a node that brings in load to a sink, up to *)
(* MaxPaths" (paths.go): a route begins where load comes in, follows edges  *)
(* and ends at a node that sends nothing on.  Each is listed once, and a    *)
(* list shorter than the bound is all of them.                              *)
(***************************************************************************)
Follows(m, n) == \E e \in Outgoing(m) : To(e) = n
IsRoute(r) ==
  /\ \E j \in DOMAIN Roots : r[1] = Roots[j]
  /\ \A j \in 1 .. Len(r) - 1 : Follows(r[j], r[j + 1])
  /\ Outgoing(Last(r)) = {}
AllRoutes == {r \in SeqOf(known, Len(line)) : r # <<>> /\ IsRoute(r)}

ListedTrails == [j \in DOMAIN paths |-> paths[j].nodes]
PathsComplete ==
  stage = "returned" =>
    /\ IsInjective(ListedTrails)
    /\ {ListedTrails[j] : j \in DOMAIN ListedTrails} \subseteq AllRoutes
    /\ Len(paths) <= MaxPaths
    /\ Len(paths) < MaxPaths => {ListedTrails[j] : j \in DOMAIN ListedTrails} = AllRoutes
=============================================================================
