----------------------------- MODULE MCPatterns -----------------------------
(***************************************************************************)
(* Small registries and declarations for Patterns, and the declaration a    *)
(* reader would write by hand instead: every pattern opened at once, its    *)
(* edges and load drawn to the nodes that stand at its inlet and outlet.    *)
(***************************************************************************)
EXTENDS Patterns, FiniteSets, FiniteSetsExt

Inside(name, type, load, group) ==
  [id |-> <<name>>, type |-> type, load |-> load, traffic |-> None,
   group |-> group, complete |-> TRUE]
Arrow(a, b) == [from |-> <<a>>, to |-> <<b>>]

(***************************************************************************)
(* A chain with an outlet, a sink whose inlet brings load of its own, one   *)
(* pattern inside another (by its inlet and by its outlet), two levels, and *)
(* a pattern that contains itself.                                          *)
(***************************************************************************)
MCRegistry ==
  "api"   :> [nodes |-> <<Inside("door", "leaf", None, None), Inside("fn", "leaf", None, "g"),
                          Inside("table", "leaf", None, None)>>,
              edges |-> <<Arrow("door", "fn"), Arrow("fn", "table")>>,
              in |-> <<"door">>, out |-> <<"fn">>] @@
  "sink"  :> [nodes |-> <<Inside("store", "leaf", 3, None)>>, edges |-> <<>>,
              in |-> <<"store">>, out |-> None] @@
  "outer" :> [nodes |-> <<Inside("front", "api", None, None), Inside("back", "sink", 5, None)>>,
              edges |-> <<Arrow("front", "back")>>,
              in |-> <<"front">>, out |-> <<"front">>] @@
  "deep"  :> [nodes |-> <<Inside("wrap", "outer", None, None)>>, edges |-> <<>>,
              in |-> <<"wrap">>, out |-> <<"wrap">>] @@
  "loop"  :> [nodes |-> <<Inside("again", "loop", None, None)>>, edges |-> <<>>,
              in |-> <<"again">>, out |-> None]

Types == DOMAIN MCRegistry \cup {"leaf"}

Nodes(name) ==
  {[id |-> <<name>>, type |-> t, load |-> l, traffic |-> None, group |-> g, complete |-> c] :
     t \in Types, l \in {None, 2}, g \in {None, "h"}, c \in BOOLEAN}
Users == Inside("users", "leaf", 7, None)

MCDeclarations ==
  {[nodes |-> <<Users, x, y>>, edges |-> SetToSeq(es), groups |-> {"g", "h"},
    quotas |-> {}, scenarios |-> {}] :
     x \in Nodes("x"), y \in {n \in Nodes("y") : n.load = None /\ n.group = "h" /\ n.complete},
     es \in SUBSET {Arrow("users", "x"), Arrow("x", "y"), Arrow("users", "y")}}

-----------------------------------------------------------------------------
RECURSIVE NestsDeeper(_, _), OpenedIn(_, _), OpenedOut(_, _), Opened(_)

\* A node of type t needs more than n passes.
NestsDeeper(t, n) ==
  /\ t \in DOMAIN Registry
  /\ \/ n = 0
     \/ \E k \in DOMAIN Registry[t].nodes : NestsDeeper(Registry[t].nodes[k].type, n - 1)

NodeNamed(nodes, id) == nodes[CHOOSE k \in DOMAIN nodes : nodes[k].id = id]

OpenedIn(n, prefix) ==
  IF ~ IsPattern(n) THEN prefix \o n.id
  ELSE OpenedIn(NodeNamed(Fragment(n).nodes, Fragment(n).in), prefix \o n.id)

OpenedOut(n, prefix) ==
  IF ~ IsPattern(n) THEN prefix \o n.id
  ELSE OpenedOut(NodeNamed(Fragment(n).nodes, Fragment(n).out), prefix \o n.id)

Drawn(nodes, edges, prefix) ==
  {<<OpenedOut(NodeNamed(nodes, edges[k].from), prefix),
     OpenedIn(NodeNamed(nodes, edges[k].to), prefix)>> : k \in DOMAIN edges}

\* The nodes and edges that stand for one node, and the load that enters each.
Opened(n) ==
  IF ~ IsPattern(n)
  THEN [leaves |-> {<<n.id, n.group>>}, edges |-> {}, loads |-> {<<n.id, n.id, n.load>>}]
  ELSE LET f == Fragment(n)
           ks == DOMAIN f.nodes
           at == [k \in ks |-> Opened([f.nodes[k] EXCEPT
                    !.id = n.id \o @, !.group = IF @ = None THEN n.group ELSE @])]
       IN  [leaves |-> UNION {at[k].leaves : k \in ks},
            edges |-> Drawn(f.nodes, f.edges, n.id) \cup UNION {at[k].edges : k \in ks},
            loads |-> UNION {at[k].loads : k \in ks} \cup {<<OpenedIn(n, <<>>), n.id, n.load>>}]

ByHand ==
  LET ns == declared.nodes
      at == [k \in DOMAIN ns |-> Opened(ns[k])]
  IN  [leaves |-> UNION {at[k].leaves : k \in DOMAIN ns},
       edges |-> Drawn(ns, declared.edges, <<>>) \cup UNION {at[k].edges : k \in DOMAIN ns},
       loads |-> UNION {at[k].loads : k \in DOMAIN ns}]

Brought(loads, id) == MapThenSumSet(LAMBDA l : l[3], {l \in loads : l[1] = id /\ l[3] # None})

(***************************************************************************)
(* "A pattern is placed as one node and reads exactly like the nodes it     *)
(* expands into" (docs/architecture.md): the passes together give the       *)
(* nodes, edges, groups and load of the declaration written by hand; and it *)
(* is refused as too deep exactly when some pattern in it nests more than   *)
(* maxDepth levels ("patterns nest deeper than %d levels").                 *)
(***************************************************************************)
TooDeep == \E k \in DOMAIN declared.nodes : NestsDeeper(declared.nodes[k].type, MaxDepth)
ExpandsToNodesByHand ==
  /\ outcome = "deep" => TooDeep
  /\ outcome = "expanded" =>
    LET hand == ByHand
        id(k) == spec.nodes[k].id
    IN  /\ ~ TooDeep
        /\ {<<id(k), spec.nodes[k].group>> : k \in DOMAIN spec.nodes} = hand.leaves
        /\ {<<spec.edges[k].from, spec.edges[k].to>> : k \in DOMAIN spec.edges} = hand.edges
        /\ \A k \in DOMAIN spec.nodes : Sum(0, spec.nodes[k].load) = Brought(hand.loads, id(k))

(***************************************************************************)
(* A pattern's result sums each node it stands for once, however its        *)
(* patterns nest: "the outer one owns the inner one's members too"          *)
(* (pattern.go, Expansion.add).                                             *)
(***************************************************************************)
RollupSumsEachOnce ==
  outcome = "rolled" =>
    \A k \in DOMAIN rollups :
      rollups[k].usd = Cardinality({id \in Read : IsStrictPrefix(rollups[k].id, id)})

-----------------------------------------------------------------------------
(***************************************************************************)
(* What an account and its people wrote beside the nodes.                   *)
(***************************************************************************)
Annotated ==
  {[nodes |-> <<Users, [Inside("x", t, None, None) EXCEPT !.traffic = 4]>>,
    edges |-> <<Arrow("users", "x")>>, groups |-> {}, quotas |-> {"concurrency"},
    scenarios |-> {}] : t \in Types \ {"loop"}}

(***************************************************************************)
(* "A pattern is placed as one node and reads exactly like the nodes it     *)
(* expands into" (docs/architecture.md:45), and an account's quotas are     *)
(* what "headroom then reads" (docs/books.md): what the engine is given     *)
(* still has the quotas and all the traffic that was written.               *)
(***************************************************************************)
ReadsWhatWasWritten ==
  outcome = "expanded" =>
    /\ spec.quotas = declared.quotas
    /\ (\E k \in DOMAIN declared.nodes : declared.nodes[k].traffic # None)
         => (\E k \in DOMAIN spec.nodes : spec.nodes[k].traffic # None)
=============================================================================
