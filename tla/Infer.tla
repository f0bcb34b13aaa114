-------------------------------- MODULE Infer --------------------------------
(***************************************************************************)
(* terraform/infer: evaluated Terraform resources become the nodes and      *)
(* edges of a declaration.  What a provider says of its types is Rules, by  *)
(* the source's names; an attribute path and the paths below it are one     *)
(* Path.  A node is named by its address, a stub by its key; ids, fields,   *)
(* schedules and groups are left out.                                       *)
(***************************************************************************)
EXTENDS Naturals, FiniteSets, FiniteSetsExt, Library

CONSTANTS
  Rules,    \* NodeTypes, Links, Aliases, ... of type Rules in infer.go
  Inputs,   \* what can be imported: [resources, hints, stubs]
  Paths,    \* attribute paths
  Name,     \* every address, stub key and UsersID
  Users,    \* UsersID
  Self,     \* Link.To of the link itself
  None

\* owned: a data source reads what is managed elsewhere.
Owned(inp, a) ==
  LET at == inp.resources IN
  a \in DOMAIN at /\ at[a].type \in Rules.NodeTypes /\ ~ at[a].data

Signatures ==
  UNION {UNION {{v.signature : v \in inp.resources[a].variants} : a \in DOMAIN inp.resources} : inp \in Inputs}

(***************************************************************************)
(* An instance counts for one at least; hints join nodes (Source, RBAC),    *)
(* and a stub, called by a node, has a key that is no address.  A part has  *)
(* an id that nothing else has (partID).                                    *)
(***************************************************************************)
ASSUME InferAssumption ==
  /\ Users \in Name
  /\ Name \cap [of : Name, signature : Signatures, instances : Nat] = {}
  /\ \A inp \in Inputs :
       /\ DOMAIN inp.resources \subseteq Name \ {Users}
       /\ \A a \in DOMAIN inp.resources :
            /\ IsFiniteSet(inp.resources[a].variants)
            /\ \A v \in inp.resources[a].variants : v.instances \in Nat \ {0}
       /\ \A h \in inp.hints : Owned(inp, h.from) /\ Owned(inp, h.to)
       /\ \A s \in inp.stubs : Owned(inp, s.from) /\ s.to \in Name \ (DOMAIN inp.resources \cup {Users})

VARIABLES
  input,    \* resources: address -> [type, data, refs, variants]; the edges
            \* of the edge sources; the stubs and the calls to them
  phase,    \* "edges", "cycles", "variants", "built"
  nodes,
  declared,             \* the pairs a link resource joins
  todo, kept, dropped,  \* edges [from, to, kind]
  edges     \* the edges of the declaration: [from, to, kinds, share]

vars == <<input, phase, nodes, declared, todo, kept, dropped, edges>>

Resources == DOMAIN input.resources
Of(a) == input.resources[a]
IsNode(a) == Owned(input, a)
Mentioned(a) == a \in Resources /\ Of(a).type \in Rules.Mentioned

-----------------------------------------------------------------------------
\* The path a reference to a is followed through, if any.
Through(a) ==
  LET t == Of(a).type IN
  IF t \in DOMAIN Rules.Forward THEN Rules.Forward[t]
  ELSE IF ~ IsNode(a) /\ t \in DOMAIN Rules.Aliases THEN Rules.Aliases[t]
  ELSE None

Hops ==
  UNION {[from : {a}, to : Of(a).refs[Through(a)]] : a \in {b \in Resources : Through(b) # None}}

\* targets, targetsAt: through aliases, and on to what a node forwards to.
Targets(ref) == {a \in Resources : IsNode(a) /\ ref \in Resources /\ Reaches(Hops, ref, a)}
TargetsAt(a, path) == UNION {Targets(ref) : ref \in Of(a).refs[path]}
LinkEnds(a, path) == IF path = Self THEN {b \in {a} : IsNode(b)} ELSE TargetsAt(a, path)

-----------------------------------------------------------------------------
\* edgeSet.add: no self edges, and none to what is only mentioned.
Calls(froms, tos, kind) ==
  {e \in [from : froms, to : tos, kind : {kind}] : e.from # e.to /\ ~ Mentioned(e.to)}

CarriesAt(a, path) ==
  LET t == Of(a).type IN
  t \in DOMAIN Rules.Carriers /\ Rules.Carriers[t].via = None /\ Rules.Carriers[t].path = path

RefEdges ==
  UNION {UNION {Calls({a}, TargetsAt(a, path), None) :
                  path \in {p \in Paths \ Rules.IgnoreRefs : ~ CarriesAt(a, p)}} :
           a \in {b \in Resources : IsNode(b) /\ Of(b).type \notin Rules.Passive}}

SourceEdges ==
  UNION {Calls({e.from}, {e.to}, e.kind) : e \in input.hints \cup input.stubs}

\* What a carrier carries: at its own path, or at that of a resource that names it as its owner.
CarriedAt(a, c) == {b \in TargetsAt(a, c.path) : Of(b).type \in c.types}
Payload(a) ==
  LET c == Rules.Carriers[Of(a).type] IN
  IF ~ IsNode(a) \/ Of(a).type \notin DOMAIN Rules.Carriers THEN {}
  ELSE IF c.via = None THEN CarriedAt(a, c)
  ELSE UNION {CarriedAt(v, c) : v \in {r \in Resources : Of(r).type = c.via /\ a \in TargetsAt(r, c.owner)}}

CarriedEdges(E) == UNION {Calls({e.from}, IF e.to \in Resources THEN Payload(e.to) ELSE {}, None) : e \in E}

\* linkEdges: a link that is a node itself sits in between.
LinkTargets(a, l) ==
  IF IsNode(a) /\ l.from # Self THEN {a} ELSE UNION {LinkEnds(a, path) : path \in l.to}
LinkEdges ==
  UNION {UNION {Calls(LinkEnds(a, l.from), LinkTargets(a, l), None) :
                  a \in {b \in Resources : Of(b).type = l.type}} : l \in Rules.Links}

Declared(e) == <<e.from, e.to>> \in declared

\* dropKindless: an edge without a kind goes when the pair has one with.
Kinded(E, e) == e.kind = None => \A f \in E : f.from = e.from /\ f.to = e.to => f.kind = None

Edges ==
  LET read == RefEdges \cup SourceEdges
      all == read \cup CarriedEdges(read) \cup LinkEdges
  IN {e \in all : Kinded(all, e)}

-----------------------------------------------------------------------------
\* frontDoors: those nothing calls, and what aliases of front doors expose.
Doors(E) ==
  {a \in Resources : /\ IsNode(a) /\ Of(a).type \in Rules.FrontDoors
                     /\ \A e \in E : e.to # a}
    \cup UNION {TargetsAt(a, Rules.FrontDoorAliases[Of(a).type]) :
                  a \in {b \in Resources : Of(b).type \in DOMAIN Rules.FrontDoorAliases}}

OwnNodes == {a \in Resources : IsNode(a)} \cup {s.to : s \in input.stubs}

\* Build, up to breakCycles.
Gather ==
  /\ phase = "edges"
  /\ declared' = {<<l.from, l.to>> : l \in LinkEdges}
  /\ LET E == Edges
         doors == Doors(E)
     IN /\ todo' = E \cup [from : {Users}, to : doors, kind : {None}]
        /\ nodes' = OwnNodes \cup {u \in {Users} : doors # {}}
  /\ phase' = "cycles"
  /\ UNCHANGED <<input, kept, dropped, edges>>

\* Mutant: in whatever order the edges were found.
MayPlaceAny(e) == TRUE

\* Declared edges go first; among them, and among the others, any order.
MayPlace(e) == Declared(e) \/ \A d \in todo : ~ Declared(d)

\* Mutant: a declared edge is kept without a look.
PlaceDeclared(e) ==
  /\ phase = "cycles" /\ e \in todo /\ MayPlace(e)
  /\ todo' = todo \ {e}
  /\ IF ~ Declared(e) /\ Reaches(kept, e.to, e.from)
     THEN dropped' = dropped \cup {e} /\ UNCHANGED kept
     ELSE kept' = kept \cup {e} /\ UNCHANGED dropped
  /\ UNCHANGED <<input, phase, nodes, declared, edges>>

\* breakCycles: an edge that closes a cycle is dropped.
Place(e) ==
  /\ phase = "cycles" /\ e \in todo /\ MayPlace(e)
  /\ todo' = todo \ {e}
  /\ IF Reaches(kept, e.to, e.from)
     THEN dropped' = dropped \cup {e} /\ UNCHANGED kept
     ELSE kept' = kept \cup {e} /\ UNCHANGED dropped
  /\ UNCHANGED <<input, phase, nodes, declared, edges>>

\* oneEdgePerPair
Folded ==
  {[from |-> k.from, to |-> k.to, kinds |-> {e.kind : e \in {f \in kept : f.from = k.from /\ f.to = k.to}}] : k \in kept}

CyclesBroken ==
  /\ phase = "cycles" /\ todo = {}
  /\ phase' = "variants"
  /\ edges' = {[from |-> e.from, to |-> e.to, kinds |-> e.kinds, share |-> <<1, 1>>] : e \in Folded}
  /\ UNCHANGED <<input, nodes, declared, todo, kept, dropped>>

-----------------------------------------------------------------------------
(***************************************************************************)
(* splitVariants: one node for each way the scouter reads the instances of  *)
(* a resource.  A part is the resource, its signature and its instances.    *)
(***************************************************************************)
Count(V) == MapThenSumSet(LAMBDA v : v.instances, V)

Parts(a) ==
  LET V == IF a \in Resources THEN Of(a).variants ELSE {}
      Sigs == {v.signature : v \in V}
  IN IF Cardinality(Sigs) < 2 THEN {a}
     ELSE {[of |-> a, signature |-> s, instances |-> Count({v \in V : v.signature = s})] : s \in Sigs}

\* Mutant: every part takes in what the node took in.
SharedWhole(e, a, p) == [e EXCEPT !.to = p]

\* rewire, shared: a part takes in the share of its instances.
Shared(e, a, p) ==
  [e EXCEPT !.to = p, !.share = <<p.instances, Count(Parts(a))>>]

Split(a) ==
  LET parts == Parts(a) IN
  /\ phase = "variants" /\ a \in nodes /\ parts # {a}
  /\ nodes' = (nodes \ {a}) \cup parts
  /\ edges' = {e \in edges : a \notin {e.from, e.to}}
       \cup {[e EXCEPT !.from = p] : e \in {x \in edges : x.from = a}, p \in parts}
       \cup {Shared(e, a, p) : e \in {x \in edges : x.to = a}, p \in parts}
  /\ UNCHANGED <<input, phase, declared, todo, kept, dropped>>

Built ==
  /\ phase = "variants" /\ \A a \in nodes : a \in Name => Parts(a) = {a}
  /\ phase' = "built"
  /\ UNCHANGED <<input, nodes, declared, todo, kept, dropped, edges>>

Init ==
  /\ input \in Inputs
  /\ phase = "edges"
  /\ nodes = {} /\ declared = {} /\ todo = {} /\ kept = {} /\ dropped = {} /\ edges = {}

Next ==
  \/ Gather \/ CyclesBroken \/ Built
  \/ \E e \in todo : Place(e)
  \/ \E a \in nodes : a \in Name /\ Split(a)

Spec == Init /\ [][Next]_vars

-----------------------------------------------------------------------------
(***************************************************************************)
(* The engine refuses cyclic graphs and edges without a node: whatever      *)
(* references, permissions and links say, no edge that is kept can be got   *)
(* back round (breakCycles), nor can an edge between parts (splitVariants), *)
(* and each of those has its two nodes.                                     *)
(***************************************************************************)
NoCycle(E) == \A e \in E : ~ Reaches(E, e.to, e.from)
Known(E) == \A e \in E : {e.from, e.to} \subseteq nodes

NoCycleKept == NoCycle(kept) /\ NoCycle(edges) /\ Known(edges)

(***************************************************************************)
(* A cycle is broken on an inferred edge: one that Terraform declares is    *)
(* dropped only when declared edges alone lead back, and no edge is dropped *)
(* without need.                                                           *)
(***************************************************************************)
DeclaredFirst ==
  \A e \in dropped :
    LET stay == IF Declared(e) THEN {k \in kept : Declared(k)} ELSE kept
    IN Reaches(stay, e.to, e.from)

(***************************************************************************)
(* splitVariants: what entered a node enters its parts, in all as much, and *)
(* of the same kinds, from every part of the caller.                        *)
(***************************************************************************)
SharesAddUp ==
  phase = "built" =>
    /\ \A k \in Folded : \A p \in Parts(k.from) :
         LET into == {e \in edges : e.from = p /\ e.to \in Parts(k.to)} IN
         /\ {e.to : e \in into} = Parts(k.to)
         /\ \A e \in into :
              e.kinds = k.kinds /\ MapThenSumSet(LAMBDA f : f.share[1], into) = e.share[2]
    /\ \A e \in edges : \E k \in Folded : e.from \in Parts(k.from) /\ e.to \in Parts(k.to)
=============================================================================
