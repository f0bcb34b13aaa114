----------------------------- MODULE InferProofs -----------------------------
(***************************************************************************)
(* breakCycles, for every rule set and every configuration: no cycle is     *)
(* kept, and one is broken on an inferred edge where there is one.  Neither *)
(* needs the types of anything: reaches is a matter of closed sets.         *)
(***************************************************************************)
EXTENDS Infer, LibraryProofs, TLAPS

-----------------------------------------------------------------------------
(***************************************************************************)
(* breakCycles: an edge that is kept closes no cycle with those kept before.*)
(***************************************************************************)
LEMMA PlacedApart == Spec => []NoCycle(kept)
<1>1. Init => NoCycle(kept)
  BY DEF Init, NoCycle
<1>2. NoCycle(kept) /\ [Next]_vars => NoCycle(kept)'
  <2> SUFFICES ASSUME NoCycle(kept), [Next]_vars PROVE NoCycle(kept)'
    OBVIOUS
  <2>1. ASSUME NEW e \in todo, Place(e) PROVE NoCycle(kept)'
    <3>1. CASE Reaches(kept, e.to, e.from)
      BY <2>1, <3>1 DEF Place, NoCycle
    <3>2. CASE ~ Reaches(kept, e.to, e.from)
      <4>1. kept' = kept \cup {e}
        BY <2>1, <3>2 DEF Place
      <4> QED BY <3>2, <4>1, PlacedWithoutCycle DEF NoCycle
    <3> QED BY <3>1, <3>2
  <2>2. ASSUME UNCHANGED kept PROVE NoCycle(kept)'
    BY <2>2 DEF NoCycle
  <2>3. Gather \/ CyclesBroken \/ Built \/ UNCHANGED vars => UNCHANGED kept
    BY DEF Gather, CyclesBroken, Built, vars
  <2>4. ASSUME NEW a, Split(a) PROVE UNCHANGED kept
    BY <2>4 DEF Split
  <2> QED BY <2>1, <2>2, <2>3, <2>4 DEF Next
<1> QED BY <1>1, <1>2, PTL DEF Spec

-----------------------------------------------------------------------------
(***************************************************************************)
(* Declared edges are placed first: while one waits, all that is kept was   *)
(* declared.  Nothing is placed before the edges are found.                 *)
(***************************************************************************)
InTurn == (\E d \in todo : Declared(d)) => \A k \in kept : Declared(k)
Fresh == phase = "edges" => kept = {} /\ dropped = {}
DInv == DeclaredFirst /\ InTurn /\ Fresh

LEMMA PlaceKeeps ==
  ASSUME DInv, NEW e \in todo, Place(e)
  PROVE  DInv'
<1> DEFINE Before(f) == IF Declared(f) THEN {k \in kept : Declared(k)} ELSE kept
           After(f) == IF Declared(f) THEN {k \in kept' : Declared(k)} ELSE kept'
<1>1. \A f : Declared(f)' <=> Declared(f)
  BY DEF Place, Declared
<1>2. InTurn'
  <2>1. todo' \subseteq todo /\ kept' \subseteq kept \cup {e}
    BY DEF Place
  <2>2. Declared(e) \/ \A d \in todo : ~ Declared(d)
    BY DEF Place, MayPlace
  <2> QED BY <1>1, <2>1, <2>2 DEF DInv, InTurn
<1>3. Fresh'
  BY DEF Place, Fresh
<1>4. DeclaredFirst'
  <2> SUFFICES ASSUME NEW f \in dropped' PROVE Reaches(After(f), f.to, f.from)
    BY <1>1 DEF DeclaredFirst
  <2>1. Before(f) \subseteq After(f)
    BY DEF Place
  <2>2. Reaches(Before(f), f.to, f.from)
    <3>1. CASE f \in dropped
      BY <3>1 DEF DInv, DeclaredFirst
    <3>2. CASE f \notin dropped
      <4>1. f = e /\ Reaches(kept, f.to, f.from)
        BY <3>2 DEF Place
      <4>2. Before(f) = kept
        BY <4>1 DEF DInv, InTurn
      <4> QED BY <4>1, <4>2
    <3> QED BY <3>1, <3>2
  <2> HIDE DEF Before, After
  <2> QED BY <2>1, <2>2, ReachesMore
<1> QED BY <1>2, <1>3, <1>4 DEF DInv

(***************************************************************************)
(* A declared edge is dropped only when declared edges alone lead back, and *)
(* any other only when the edges kept do (breakCycles).                     *)
(***************************************************************************)
THEOREM DeclaredEdgesFirst == Spec => []DeclaredFirst
<1>1. Init => DInv
  BY DEF Init, DInv, DeclaredFirst, InTurn, Fresh
<1>2. DInv /\ [Next]_vars => DInv'
  <2> SUFFICES ASSUME DInv, [Next]_vars PROVE DInv'
    OBVIOUS
  <2>1. ASSUME NEW e \in todo, Place(e) PROVE DInv'
    BY <2>1, PlaceKeeps
  <2>2. ASSUME Gather PROVE DInv'
    <3>1. kept' = {} /\ dropped' = {}
      BY <2>2 DEF Gather, DInv, Fresh
    <3> QED BY <3>1 DEF DInv, DeclaredFirst, InTurn, Fresh
  <2>3. ASSUME UNCHANGED <<declared, todo, kept, dropped>>, phase' = "edges" => phase = "edges" PROVE DInv'
    <3>1. \A f : Declared(f)' <=> Declared(f)
      BY <2>3 DEF Declared
    <3>2. InTurn' /\ Fresh'
      BY <2>3, <3>1 DEF DInv, InTurn, Fresh
    <3>3. DeclaredFirst'
      BY <2>3, <3>1 DEF DInv, DeclaredFirst
    <3> QED BY <3>2, <3>3 DEF DInv
  <2>4. CASE CyclesBroken \/ Built \/ UNCHANGED vars
    <3>1. UNCHANGED <<declared, todo, kept, dropped>> /\ (phase' = "edges" => phase = "edges")
      BY <2>4 DEF CyclesBroken, Built, vars
    <3> QED BY <2>3, <3>1
  <2>5. ASSUME NEW a, Split(a) PROVE DInv'
    <3>1. UNCHANGED <<declared, todo, kept, dropped>> /\ (phase' = "edges" => phase = "edges")
      BY <2>5 DEF Split
    <3> QED BY <2>3, <3>1
  <2> QED BY <2>1, <2>2, <2>4, <2>5 DEF Next
<1>3. DInv => DeclaredFirst
  BY DEF DInv
<1> QED BY <1>1, <1>2, <1>3, PTL DEF Spec

-----------------------------------------------------------------------------
(***************************************************************************)
(* The parts of a resource: how many, and what they take in together.       *)
(***************************************************************************)
Weights(V) == [v \in V |-> v.instances]
Takes(E) == [e \in E |-> e.share[1]]

LEMMA CountIs ==
  ASSUME NEW V, IsFiniteSet(V)
  PROVE  \E g : Adds(g, Weights(V), V) /\ Count(V) = g[V]
<1> DEFINE P(g) == g = [s \in SUBSET V |-> IF s = {} THEN 0
                                   ELSE (CHOOSE x \in s : TRUE).instances + g[s \ {CHOOSE x \in s : TRUE}]]
           h == CHOOSE g : P(g)
<1>1. ASSUME NEW g  PROVE P(g) <=> Adds(g, Weights(V), V)
  <2>1. \A s \in SUBSET V : s # {} => Weights(V)[Pick(s)] = (CHOOSE x \in s : TRUE).instances
    BY DEF Weights, Pick
  <2> QED BY <2>1 DEF Adds, Pick
<1>2. Count(V) = h[V]
  BY DEF Count, MapThenSumSet, MapThenFoldSet
<1> HIDE DEF P
<1>3. \E g : P(g)
  BY <1>1, SumExists
<1>4. P(h)
  BY <1>3
<1> QED BY <1>1, <1>2, <1>4

LEMMA SharesAre ==
  ASSUME NEW E, IsFiniteSet(E)
  PROVE  \E g : Adds(g, Takes(E), E) /\ MapThenSumSet(LAMBDA f : f.share[1], E) = g[E]
<1> DEFINE P(g) == g = [s \in SUBSET E |-> IF s = {} THEN 0
                                   ELSE (CHOOSE x \in s : TRUE).share[1] + g[s \ {CHOOSE x \in s : TRUE}]]
           h == CHOOSE g : P(g)
<1>1. ASSUME NEW g  PROVE P(g) <=> Adds(g, Takes(E), E)
  <2>1. \A s \in SUBSET E : s # {} => Takes(E)[Pick(s)] = (CHOOSE x \in s : TRUE).share[1]
    BY DEF Takes, Pick
  <2> QED BY <2>1 DEF Adds, Pick
<1>2. MapThenSumSet(LAMBDA f : f.share[1], E) = h[E]
  BY DEF MapThenSumSet, MapThenFoldSet
<1> HIDE DEF P
<1>3. \E g : P(g)
  BY <1>1, SumExists
<1>4. P(h)
  BY <1>3
<1> QED BY <1>1, <1>2, <1>4

LEMMA Counted ==
  ASSUME NEW V, IsFiniteSet(V), \A v \in V : v.instances \in Nat
  PROVE  Count(V) \in Nat
<1>1. PICK g : Adds(g, Weights(V), V) /\ Count(V) = g[V]
  BY CountIs
<1>2. \A v \in V : Weights(V)[v] \in Nat
  BY DEF Weights
<1> QED BY <1>1, <1>2, SumTyped

IsPart(p) == p \in [of : Name, signature : Signatures, instances : Nat]
WholeOf(p) == IF p \in Name THEN p ELSE p.of

LEMMA PartsTyped ==
  ASSUME input \in Inputs, NEW a \in Name
  PROVE  /\ IsFiniteSet(Parts(a))
         /\ Parts(a) = {a} \/ \A p \in Parts(a) : IsPart(p) /\ p.of = a
         /\ \A p \in Parts(a) : WholeOf(p) = a
         /\ \A p \in Parts(a) : p \in Name => Parts(a) = {a}
<1> DEFINE V == IF a \in Resources THEN Of(a).variants ELSE {}
           Sigs == {v.signature : v \in V}
           With(s) == {v \in V : v.signature = s}
           part(s) == [of |-> a, signature |-> s, instances |-> Count(With(s))]
<1>1. IsFiniteSet(V) /\ \A v \in V : v.instances \in Nat
  BY InferAssumption, FS_EmptySet DEF Resources, Of
<1>2. \A s \in Sigs : s \in Signatures
  BY DEF Signatures, Resources, Of
<1>3. Parts(a) = IF Cardinality(Sigs) < 2 THEN {a} ELSE {part(s) : s \in Sigs}
  BY DEF Parts
<1>4. IsFiniteSet(Sigs) /\ IsFiniteSet({a})
  <2> DEFINE sig == [v \in V |-> v.signature]
  <2>1. sig \in Surjection(V, Sigs)
    BY DEF Surjection
  <2> HIDE DEF sig, V
  <2>2. IsFiniteSet(Sigs)
    BY <1>1, <2>1, FS_Surjection
  <2> QED BY <2>2, FS_Singleton
<1>5. ASSUME NEW s \in Sigs  PROVE IsPart(part(s)) /\ part(s).of = a /\ part(s) \notin Name
  <2>1. With(s) \in SUBSET V
    OBVIOUS
  <2> HIDE DEF V
  <2>2. IsFiniteSet(With(s)) /\ \A v \in With(s) : v.instances \in Nat
    BY <1>1, <2>1, FS_Subset
  <2>3. Count(With(s)) \in Nat
    BY <2>2, Counted
  <2>4. IsPart(part(s)) /\ part(s).of = a
    BY <1>2, <2>3 DEF IsPart
  <2> QED BY <2>4, InferAssumption DEF IsPart
<1>6. CASE Parts(a) = {a}
  BY <1>4, <1>6 DEF WholeOf
<1>7. CASE Parts(a) # {a}
  <2> DEFINE all == [s \in Sigs |-> part(s)]
  <2> HIDE DEF V
  <2>1. Parts(a) = {part(s) : s \in Sigs}
    BY <1>3, <1>7
  <2>2. all \in Surjection(Sigs, Parts(a))
    BY <2>1 DEF Surjection
  <2>3. IsFiniteSet(Parts(a))
    BY <1>4, <2>2, FS_Surjection
  <2> HIDE DEF part
  <2>4. \A p \in Parts(a) : IsPart(p) /\ p.of = a /\ p \notin Name
    BY <1>5, <2>1
  <2> QED BY <2>3, <2>4 DEF WholeOf
<1> QED BY <1>6, <1>7

-----------------------------------------------------------------------------
(***************************************************************************)
(* What is gathered joins nodes: the configuration's own and the stubs.     *)
(***************************************************************************)
Joins(E) == \A e \in E : e.from \in OwnNodes /\ e.to \in OwnNodes

LEMMA CallsJoin ==
  ASSUME NEW A, NEW B, NEW kind, A \subseteq OwnNodes, B \subseteq OwnNodes
  PROVE  Joins(Calls(A, B, kind))
BY DEF Joins, Calls

LEMMA EndsOwn ==
  /\ \A ref : Targets(ref) \subseteq OwnNodes
  /\ \A a, path : TargetsAt(a, path) \subseteq OwnNodes
  /\ \A a, path : LinkEnds(a, path) \subseteq OwnNodes
<1>1. ASSUME NEW ref  PROVE Targets(ref) \subseteq OwnNodes
  BY DEF Targets, OwnNodes
<1>2. ASSUME NEW a, NEW path  PROVE TargetsAt(a, path) \subseteq OwnNodes
  BY <1>1 DEF TargetsAt
<1>3. ASSUME NEW a, NEW path  PROVE LinkEnds(a, path) \subseteq OwnNodes
  <2>1. CASE path = Self
    BY <2>1 DEF LinkEnds, OwnNodes, IsNode, Owned, Resources
  <2>2. CASE path # Self
    BY <1>2, <2>2 DEF LinkEnds
  <2> QED BY <2>1, <2>2
<1> QED BY <1>1, <1>2, <1>3

LEMMA RefsJoin == Joins(RefEdges)
<1> SUFFICES ASSUME NEW e \in RefEdges PROVE e.from \in OwnNodes /\ e.to \in OwnNodes
  BY DEF Joins
<1>1. PICK a \in Resources, path \in Paths : IsNode(a) /\ e \in Calls({a}, TargetsAt(a, path), None)
  BY DEF RefEdges
<1>2. {a} \subseteq OwnNodes
  BY <1>1 DEF OwnNodes
<1> QED BY <1>1, <1>2, CallsJoin, EndsOwn DEF Joins

LEMMA SourcesJoin == input \in Inputs => Joins(SourceEdges)
<1> SUFFICES ASSUME input \in Inputs, NEW e \in SourceEdges PROVE e.from \in OwnNodes /\ e.to \in OwnNodes
  BY DEF Joins
<1>1. PICK h \in input.hints \cup input.stubs : e \in Calls({h.from}, {h.to}, h.kind)
  BY DEF SourceEdges
<1>2. h.from \in OwnNodes /\ h.to \in OwnNodes
  BY InferAssumption DEF OwnNodes, IsNode, Owned, Resources
<1>3. Joins(Calls({h.from}, {h.to}, h.kind))
  BY <1>2, CallsJoin
<1> QED BY <1>1, <1>3 DEF Joins

LEMMA CarriedJoin ==
  ASSUME NEW E, Joins(E)  PROVE Joins(CarriedEdges(E))
<1> SUFFICES ASSUME NEW e \in CarriedEdges(E) PROVE e.from \in OwnNodes /\ e.to \in OwnNodes
  BY DEF Joins
<1>1. PICK f \in E : e \in Calls({f.from}, IF f.to \in Resources THEN Payload(f.to) ELSE {}, None)
  BY DEF CarriedEdges
<1>2. ASSUME NEW a, NEW c  PROVE CarriedAt(a, c) \subseteq OwnNodes
  BY EndsOwn DEF CarriedAt
<1>3. ASSUME NEW a  PROVE Payload(a) \subseteq OwnNodes
  BY <1>2 DEF Payload
<1>4. {f.from} \subseteq OwnNodes /\ (IF f.to \in Resources THEN Payload(f.to) ELSE {}) \subseteq OwnNodes
  BY <1>3 DEF Joins
<1>5. Joins(Calls({f.from}, IF f.to \in Resources THEN Payload(f.to) ELSE {}, None))
  BY <1>4, CallsJoin
<1> QED BY <1>1, <1>5 DEF Joins

LEMMA LinksJoin == Joins(LinkEdges)
<1> SUFFICES ASSUME NEW e \in LinkEdges PROVE e.from \in OwnNodes /\ e.to \in OwnNodes
  BY DEF Joins
<1>1. PICK l \in Rules.Links, a \in Resources : e \in Calls(LinkEnds(a, l.from), LinkTargets(a, l), None)
  BY DEF LinkEdges
<1>2. LinkTargets(a, l) \subseteq OwnNodes
  <2>1. CASE IsNode(a) /\ l.from # Self
    BY <2>1 DEF LinkTargets, OwnNodes
  <2>2. CASE ~ (IsNode(a) /\ l.from # Self)
    BY <2>2, EndsOwn DEF LinkTargets
  <2> QED BY <2>1, <2>2
<1>3. Joins(Calls(LinkEnds(a, l.from), LinkTargets(a, l), None))
  BY <1>2, EndsOwn, CallsJoin
<1> QED BY <1>1, <1>3 DEF Joins

LEMMA GatheredKnown ==
  ASSUME input \in Inputs, Gather
  PROVE  Known(todo)' /\ nodes' \subseteq Name
<1> DEFINE read == RefEdges \cup SourceEdges
           doors == Doors(Edges)
<1>1. Joins(read)
  BY RefsJoin, SourcesJoin DEF Joins
<1> HIDE DEF read
<1>2. Joins(CarriedEdges(read)) /\ Joins(LinkEdges)
  BY <1>1, CarriedJoin, LinksJoin
<1>3. Joins(Edges)
  BY <1>1, <1>2 DEF Edges, Joins, read
<1>4. doors \subseteq OwnNodes
  BY EndsOwn DEF Doors, OwnNodes
<1> HIDE DEF doors
<1>5. /\ todo' = Edges \cup [from : {Users}, to : doors, kind : {None}]
      /\ nodes' = OwnNodes \cup {u \in {Users} : doors # {}}
  BY DEF Gather, doors
<1>6. OwnNodes \subseteq Name
  BY InferAssumption DEF OwnNodes, Resources
<1>7. nodes' \subseteq Name
  BY <1>5, <1>6, InferAssumption
<1>8. \A e \in todo' : {e.from, e.to} \subseteq nodes'
  BY <1>3, <1>4, <1>5 DEF Joins
<1> QED BY <1>7, <1>8 DEF Known

-----------------------------------------------------------------------------
(***************************************************************************)
(* splitVariants, at any time: the edges are those that were folded, from   *)
(* each part of the caller to each part of the callee, as far as the two    *)
(* are split.                                                               *)
(***************************************************************************)
Now(a) == IF a \in nodes THEN {a} ELSE Parts(a)
Piece(k, p, q) ==
  [from |-> p, to |-> q, kinds |-> k.kinds,
   share |-> IF q = k.to THEN <<1, 1>> ELSE <<q.instances, Count(Parts(k.to))>>]
Drawn(x) == \E k \in Folded : \E p \in Now(k.from), q \in Now(k.to) : x = Piece(k, p, q)

Standing(a) == a \in Name /\ Now(a) \subseteq nodes
Whole ==
  /\ \A k \in kept : Standing(k.from) /\ Standing(k.to)
  /\ \A x : x \in edges <=> Drawn(x)

SInv ==
  /\ input \in Inputs
  /\ phase \in {"edges", "cycles", "variants", "built"}
  /\ phase = "edges" => kept = {} /\ edges = {}
  /\ phase = "cycles" => nodes \subseteq Name /\ Known(todo \cup kept) /\ edges = {}
  /\ phase \in {"variants", "built"} => Whole
  /\ phase = "built" => \A a \in nodes : a \in Name => Parts(a) = {a}

LEMMA FoldedFrom ==
  ASSUME NEW k \in Folded
  PROVE  /\ \E e \in kept : e.from = k.from /\ e.to = k.to
         /\ k = [from |-> k.from, to |-> k.to, kinds |-> k.kinds]
         /\ \A j \in Folded : j.from = k.from /\ j.to = k.to => j = k
<1>1. PICK e \in kept :
        k = [from |-> e.from, to |-> e.to,
             kinds |-> {f.kind : f \in {g \in kept : g.from = e.from /\ g.to = e.to}}]
  BY DEF Folded
<1>2. ASSUME NEW j \in Folded, j.from = k.from, j.to = k.to  PROVE j = k
  <2>1. PICK d \in kept :
          j = [from |-> d.from, to |-> d.to,
               kinds |-> {f.kind : f \in {g \in kept : g.from = d.from /\ g.to = d.to}}]
    BY DEF Folded
  <2>2. d.from = e.from /\ d.to = e.to
    BY <1>1, <1>2, <2>1
  <2> QED BY <1>1, <2>1, <2>2
<1> QED BY <1>1, <1>2

LEMMA NoSelf ==
  ASSUME NoCycle(kept), NEW k \in Folded  PROVE k.from # k.to
<1>1. PICK e \in kept : e.from = k.from /\ e.to = k.to
  BY FoldedFrom
<1>2. ~ Reaches(kept, e.to, e.from)
  BY DEF NoCycle
<1> QED BY <1>1, <1>2 DEF Reaches

LEMMA NowWhole ==
  ASSUME input \in Inputs, NEW a \in Name, NEW p \in Now(a)
  PROVE  WholeOf(p) = a /\ (p \in Name => p = a)
<1>1. CASE a \in nodes
  BY <1>1 DEF Now, WholeOf
<1>2. CASE a \notin nodes
  BY <1>2, PartsTyped DEF Now
<1> QED BY <1>1, <1>2

LEMMA SharedIs ==
  ASSUME NEW e, NEW f, NEW t, NEW c, e = [from |-> f, to |-> t, kinds |-> c, share |-> <<1, 1>>],
         NEW a, NEW q
  PROVE  Shared(e, a, q)
           = [from |-> f, to |-> q, kinds |-> c, share |-> <<q.instances, Count(Parts(a))>>]
<1> DEFINE n == Count(Parts(a))
<1>1. Shared(e, a, q) = [e EXCEPT !.to = q, !.share = <<q.instances, n>>]
  BY DEF Shared
<1> HIDE DEF n
<1>2. Shared(e, a, q) = [from |-> f, to |-> q, kinds |-> c, share |-> <<q.instances, n>>]
  BY <1>1
<1> QED BY <1>2 DEF n

LEMMA SplitKeeps ==
  ASSUME SInv, NoCycle(kept), NEW a \in nodes, a \in Name, Split(a)
  PROVE  SInv'
<1> DEFINE parts == Parts(a)
<1>1. /\ phase = "variants" /\ phase' = "variants" /\ Whole /\ parts # {a}
      /\ nodes' = (nodes \ {a}) \cup parts
      /\ input \in Inputs /\ input' = input /\ kept' = kept
  BY DEF SInv, Split
<1>2. \A p \in parts : p \notin Name /\ WholeOf(p) = a
  BY <1>1, PartsTyped
<1>3. Folded' = Folded /\ (\A b : Parts(b)' = Parts(b)) /\ \A k, p, q : Piece(k, p, q)' = Piece(k, p, q)
  <2>1. Folded' = Folded
    BY <1>1 DEF Folded
  <2>2. ASSUME NEW b  PROVE Parts(b)' = Parts(b)
    BY <1>1 DEF Parts, Resources, Of
  <2> QED BY <2>1, <2>2 DEF Piece
<1>4. Now(a) = {a} /\ Now(a)' = parts
  BY <1>1, <1>2, <1>3 DEF Now
<1>5. ASSUME NEW b \in Name, b # a  PROVE Now(b)' = Now(b)
  BY <1>1, <1>2, <1>3, <1>5 DEF Now
<1>6. ASSUME NEW k \in Folded
      PROVE  k.from \in Name /\ k.to \in Name /\ k.from # k.to
  BY <1>1, FoldedFrom, NoSelf DEF Whole, Standing
<1>7. ASSUME NEW b, Standing(b)  PROVE Standing(b)'
  <2>1. CASE b = a
    BY <1>1, <1>4, <1>7, <2>1 DEF Standing
  <2>2. CASE b # a
    <3>1. a \notin Now(b)
      BY <1>1, <1>7, <2>2, NowWhole DEF Standing
    <3> QED BY <1>1, <1>5, <1>7, <2>2, <3>1 DEF Standing
  <2> QED BY <2>1, <2>2
<1>8. edges' = {e \in edges : a \notin {e.from, e.to}}
         \cup {[e EXCEPT !.from = p] : e \in {x \in edges : x.from = a}, p \in parts}
         \cup {Shared(e, a, p) : e \in {x \in edges : x.to = a}, p \in parts}
  BY DEF Split
<1> HIDE DEF parts
<1>9. ASSUME NEW x \in edges'  PROVE Drawn(x)'
  <2>1. CASE x \in edges /\ a \notin {x.from, x.to}
    <3>1. PICK k, p, q : k \in Folded /\ p \in Now(k.from) /\ q \in Now(k.to) /\ x = Piece(k, p, q)
      BY <1>1, <2>1 DEF Whole, Drawn
    <3>2. k.from # a /\ k.to # a
      BY <1>4, <2>1, <3>1 DEF Piece
    <3>3. p \in Now(k.from)' /\ q \in Now(k.to)' /\ k \in Folded'
      BY <1>3, <1>5, <1>6, <3>1, <3>2
    <3> QED BY <1>3, <3>1, <3>3 DEF Drawn
  <2>2. ASSUME NEW e \in edges, NEW r \in parts, e.from = a, x = [e EXCEPT !.from = r]
        PROVE  Drawn(x)'
    <3>1. PICK k, p, q : k \in Folded /\ p \in Now(k.from) /\ q \in Now(k.to) /\ e = Piece(k, p, q)
      BY <1>1, <2>2 DEF Whole, Drawn
    <3>2. k.from = a /\ k.to # a
      BY <1>1, <1>6, <2>2, <3>1, NowWhole DEF Piece
    <3>3. r \in Now(k.from)' /\ q \in Now(k.to)' /\ k \in Folded'
      BY <1>3, <1>4, <1>5, <1>6, <3>1, <3>2
    <3>4. x = Piece(k, r, q)
      BY <2>2, <3>1 DEF Piece
    <3> QED BY <1>3, <3>3, <3>4 DEF Drawn
  <2>3. ASSUME NEW e \in edges, NEW r \in parts, e.to = a, x = Shared(e, a, r)
        PROVE  Drawn(x)'
    <3>1. PICK k, p, q : k \in Folded /\ p \in Now(k.from) /\ q \in Now(k.to) /\ e = Piece(k, p, q)
      BY <1>1, <2>3 DEF Whole, Drawn
    <3>2. k.to = a /\ k.from # a
      BY <1>1, <1>6, <2>3, <3>1, NowWhole DEF Piece
    <3>3. p \in Now(k.from)' /\ r \in Now(k.to)' /\ k \in Folded' /\ r # k.to
      BY <1>2, <1>3, <1>4, <1>5, <1>6, <3>1, <3>2
    <3>4. x = Piece(k, p, r)
      BY <2>3, <3>1, <3>2, <3>3 DEF Piece, Shared
    <3> QED BY <1>3, <3>3, <3>4 DEF Drawn
  <2> QED BY <1>8, <1>9, <2>1, <2>2, <2>3
<1>10. ASSUME NEW x, Drawn(x)'  PROVE x \in edges'
  <2>1. PICK k, p, q : k \in Folded /\ p \in Now(k.from)' /\ q \in Now(k.to)' /\ x = Piece(k, p, q)
    BY <1>3, <1>10 DEF Drawn
  <2>2. CASE k.from = a
    <3>1. p \in parts /\ a \in Now(k.from) /\ q \in Now(k.to)
      BY <1>4, <1>5, <1>6, <2>1, <2>2
    <3>2. Piece(k, a, q) \in edges
      BY <1>1, <2>1, <3>1 DEF Whole, Drawn
    <3>3. x = [Piece(k, a, q) EXCEPT !.from = p] /\ Piece(k, a, q).from = a
      BY <2>1 DEF Piece
    <3> QED BY <1>8, <3>1, <3>2, <3>3
  <2>3. CASE k.to = a
    <3>1. q \in parts /\ a \in Now(k.to) /\ p \in Now(k.from) /\ q # k.to
      BY <1>2, <1>4, <1>5, <1>6, <2>1, <2>3
    <3>2. Piece(k, p, a) \in edges
      BY <1>1, <2>1, <3>1 DEF Whole, Drawn
    <3>3. x = Shared(Piece(k, p, a), a, q) /\ Piece(k, p, a).to = a
      <4>1. x = [from |-> p, to |-> q, kinds |-> k.kinds, share |-> <<q.instances, Count(Parts(a))>>]
        BY <2>1, <2>3, <3>1 DEF Piece
      <4>2. Piece(k, p, a) = [from |-> p, to |-> a, kinds |-> k.kinds, share |-> <<1, 1>>]
        BY <2>3 DEF Piece
      <4>3. Piece(k, p, a).to = a
        BY <4>2
      <4>4. Shared(Piece(k, p, a), a, q)
              = [from |-> p, to |-> q, kinds |-> k.kinds, share |-> <<q.instances, Count(Parts(a))>>]
        BY <4>2, SharedIs
      <4> QED BY <4>1, <4>3, <4>4
    <3> QED BY <1>8, <3>1, <3>2, <3>3
  <2>4. CASE k.from # a /\ k.to # a
    <3>1. p \in Now(k.from) /\ q \in Now(k.to)
      BY <1>5, <1>6, <2>1, <2>4
    <3>2. x \in edges
      BY <1>1, <2>1, <3>1 DEF Whole, Drawn
    <3>3. p # a /\ q # a
      BY <1>1, <1>6, <2>1, <2>4, <3>1, NowWhole
    <3>4. x.from = p /\ x.to = q
      BY <2>1 DEF Piece
    <3> QED BY <1>8, <3>2, <3>3, <3>4
  <2> QED BY <2>2, <2>3, <2>4
<1>11. Whole'
  BY <1>1, <1>7, <1>9, <1>10 DEF Whole
<1> QED BY <1>1, <1>11 DEF SInv

LEMMA FoldKeeps ==
  ASSUME SInv, CyclesBroken
  PROVE  SInv'
<1>1. /\ phase = "cycles" /\ phase' = "variants" /\ nodes \subseteq Name /\ Known(kept)
      /\ edges' = {[from |-> e.from, to |-> e.to, kinds |-> e.kinds, share |-> <<1, 1>>] : e \in Folded}
      /\ UNCHANGED <<input, nodes, kept>> /\ input \in Inputs
  BY DEF SInv, CyclesBroken, Known
<1>2. /\ Folded' = Folded
      /\ \A b \in nodes : b \in Name /\ Now(b)' = {b} /\ b \in nodes'
  BY <1>1 DEF Folded, Now
<1>3. \A k \in kept : Standing(k.from)' /\ Standing(k.to)'
  BY <1>1, <1>2 DEF Known, Standing
<1>4. ASSUME NEW k \in Folded
      PROVE  /\ Now(k.from)' = {k.from} /\ Now(k.to)' = {k.to}
             /\ Piece(k, k.from, k.to)' =
                  [from |-> k.from, to |-> k.to, kinds |-> k.kinds, share |-> <<1, 1>>]
  BY <1>1, <1>2, FoldedFrom DEF Known, Piece
<1>5. ASSUME NEW x  PROVE x \in edges' <=> Drawn(x)'
  <2>1. ASSUME x \in edges'  PROVE Drawn(x)'
    <3>1. PICK k \in Folded : x = Piece(k, k.from, k.to)'
      BY <1>1, <1>4, <2>1
    <3> QED BY <1>2, <1>4, <3>1 DEF Drawn
  <2>2. ASSUME Drawn(x)'  PROVE x \in edges'
    <3>1. PICK k \in Folded' : \E p \in Now(k.from)', q \in Now(k.to)' : x = Piece(k, p, q)'
      BY <2>2 DEF Drawn
    <3>2. PICK p, q : p \in Now(k.from)' /\ q \in Now(k.to)' /\ x = Piece(k, p, q)'
      BY <3>1
    <3>3. k \in Folded /\ p = k.from /\ q = k.to
      BY <1>2, <1>4, <3>2
    <3>4. x = [from |-> k.from, to |-> k.to, kinds |-> k.kinds, share |-> <<1, 1>>]
      BY <1>4, <3>2, <3>3
    <3> QED BY <1>1, <3>3, <3>4
  <2> QED BY <2>1, <2>2
<1> QED BY <1>1, <1>3, <1>5 DEF SInv, Whole

LEMMA StillWhole ==
  ASSUME SInv, UNCHANGED <<input, nodes, kept, edges>>
  PROVE  Whole => Whole'
<1>1. Folded' = Folded /\ (\A b : Now(b)' = Now(b)) /\ (\A b : Standing(b)' <=> Standing(b))
  <2>1. ASSUME NEW b  PROVE Now(b)' = Now(b)
    BY DEF Now, Parts, Resources, Of
  <2> QED BY <2>1 DEF Folded, Standing
<1>2. \A k, p, q : Piece(k, p, q)' = Piece(k, p, q)
  BY DEF Piece, Parts, Resources, Of
<1>3. \A x : Drawn(x)' <=> Drawn(x)
  BY <1>1, <1>2 DEF Drawn
<1> QED BY <1>1, <1>3 DEF Whole

LEMMA SInvStep ==
  ASSUME SInv, NoCycle(kept), [Next]_vars
  PROVE  SInv'
<1>1. CASE Gather
  <2>1. phase = "edges" /\ phase' = "cycles" /\ kept' = {} /\ edges' = {} /\ input' \in Inputs
    BY <1>1 DEF Gather, SInv
  <2>2. Known(todo)' /\ nodes' \subseteq Name
    BY <1>1, GatheredKnown DEF SInv
  <2> QED BY <2>1, <2>2 DEF SInv, Known
<1>2. ASSUME NEW e \in todo, Place(e)  PROVE SInv'
  <2>1. /\ phase = "cycles" /\ phase' = "cycles" /\ UNCHANGED <<input, nodes, edges>>
        /\ todo' \cup kept' \subseteq todo \cup kept
    BY <1>2 DEF Place
  <2> QED BY <2>1 DEF SInv, Known
<1>3. CASE Built
  <2>1. phase' = "built" /\ phase = "variants" /\ UNCHANGED <<input, nodes, kept, edges>>
    BY <1>3 DEF Built
  <2>2. \A a \in nodes' : a \in Name => Parts(a)' = {a}
    <3>1. \A a : Parts(a)' = Parts(a)
      BY <2>1 DEF Parts, Resources, Of
    <3>2. nodes' = nodes /\ \A a \in nodes : a \in Name => Parts(a) = {a}
      BY <1>3, <2>1 DEF Built
    <3> QED BY <3>1, <3>2
  <2> QED BY <2>1, <2>2, StillWhole DEF SInv
<1>4. CASE UNCHANGED vars
  <2>1. UNCHANGED <<input, phase, nodes, todo, kept, edges>>
    BY <1>4 DEF vars
  <2>2. \A a : Parts(a)' = Parts(a)
    BY <2>1 DEF Parts, Resources, Of
  <2> QED BY <2>1, <2>2, StillWhole DEF SInv, Known
<1> QED BY <1>1, <1>2, <1>3, <1>4, FoldKeeps, SplitKeeps DEF Next

LEMMA SInvHolds == Spec => []SInv
<1>1. Init => SInv
  BY DEF Init, SInv
<1> QED BY <1>1, SInvStep, PlacedApart, PTL DEF Spec

-----------------------------------------------------------------------------
(***************************************************************************)
(* The parts of a declaration have no cycle that the whole has not.         *)
(***************************************************************************)
LEMMA PiecesApart ==
  ASSUME SInv, NoCycle(kept), Whole
  PROVE  NoCycle(edges) /\ Known(edges)
<1>1. ASSUME NEW x \in edges
      PROVE  \E e \in kept : /\ WholeOf(x.from) = e.from /\ WholeOf(x.to) = e.to
                             /\ x.from \in nodes /\ x.to \in nodes
  <2>1. PICK k, p, q : k \in Folded /\ p \in Now(k.from) /\ q \in Now(k.to) /\ x = Piece(k, p, q)
    BY DEF Whole, Drawn
  <2>2. PICK e \in kept : e.from = k.from /\ e.to = k.to
    BY <2>1, FoldedFrom
  <2>3. Standing(k.from) /\ Standing(k.to)
    BY <2>2 DEF Whole
  <2>4. WholeOf(p) = k.from /\ WholeOf(q) = k.to /\ p \in nodes /\ q \in nodes
    BY <2>1, <2>3, NowWhole DEF Standing, SInv
  <2> QED BY <2>1, <2>2, <2>4 DEF Piece
<1>2. ASSUME NEW x \in edges  PROVE ~ Reaches(edges, x.to, x.from)
  <2>1. PICK e \in kept : WholeOf(x.from) = e.from /\ WholeOf(x.to) = e.to
    BY <1>1
  <2>2. PICK S : e.to \in S /\ Closed(kept, S) /\ e.from \notin S
    BY Escape DEF NoCycle
  <2> DEFINE U == {y \in Ends(edges) : WholeOf(y) \in S}
  <2>3. x.to \in U /\ x.from \notin U
    BY <2>1, <2>2 DEF Ends
  <2>4. Closed(edges, U)
    <3> SUFFICES ASSUME NEW f \in edges, f.from \in U PROVE f.to \in U
      BY DEF Closed
    <3>1. PICK d \in kept : WholeOf(f.from) = d.from /\ WholeOf(f.to) = d.to
      BY <1>1
    <3>2. f.to \in Ends(edges)
      BY DEF Ends
    <3> QED BY <2>2, <3>1, <3>2 DEF Closed
  <2> HIDE DEF U
  <2> QED BY <2>3, <2>4, Unreached
<1> QED BY <1>1, <1>2 DEF NoCycle, Known

(***************************************************************************)
(* Every configuration imports without a cycle among the edges kept         *)
(* (breakCycles), and none comes back when nodes are split; every edge has  *)
(* its nodes: the engine accepts the declaration's graph.                   *)
(***************************************************************************)
THEOREM NoCycles == Spec => []NoCycleKept
<1>1. SInv /\ NoCycle(kept) => NoCycleKept
  <2> SUFFICES ASSUME SInv, NoCycle(kept) PROVE NoCycle(edges) /\ Known(edges)
    BY DEF NoCycleKept
  <2>1. CASE edges = {}
    BY <2>1 DEF NoCycle, Known
  <2>2. CASE Whole
    BY <2>2, PiecesApart
  <2> QED BY <2>1, <2>2 DEF SInv
<1> QED BY <1>1, SInvHolds, PlacedApart, PTL

-----------------------------------------------------------------------------
(***************************************************************************)
(* What enters a node enters its parts.                                     *)
(***************************************************************************)
LEMMA SharesSum ==
  ASSUME NEW k, NEW p, NEW R, Parts(k.to) = R, IsFiniteSet(R), k.to \notin R,
         \A q \in R : q.instances \in Nat,
         NEW into, into = {Piece(k, p, q) : q \in R}
  PROVE  MapThenSumSet(LAMBDA f : f.share[1], into) = Count(R)
<1> DEFINE b == [q \in R |-> Piece(k, p, q)]
           sum == MapThenSumSet(LAMBDA f : f.share[1], into)
<1>1. /\ b \in [R -> into] /\ b \in Surjection(R, into)
      /\ into = {b[q] : q \in R}
  BY DEF Surjection
<1>2. ASSUME NEW q \in R
      PROVE  b[q] \in into /\ b[q].to = q /\ b[q].share[1] = q.instances
  <2>1. Piece(k, p, q) = [from |-> p, to |-> q, kinds |-> k.kinds, share |-> <<q.instances, Count(R)>>]
    BY DEF Piece
  <2> QED BY <2>1
<1> HIDE DEF b
<1>3. \A x, y \in R : b[x] = b[y] => x = y
  BY <1>2
<1>4. \A q \in R : Takes(into)[b[q]] = Weights(R)[q]
  BY <1>2 DEF Takes, Weights
<1>5. \A f \in into : Takes(into)[f] \in Nat
  <2>1. \A q \in R : Weights(R)[q] \in Nat
    BY DEF Weights
  <2> QED BY <1>1, <1>4, <2>1
<1>6. IsFiniteSet(into)
  BY <1>1, FS_Surjection
<1>7. PICK g : Adds(g, Weights(R), R) /\ Count(R) = g[R]
  BY CountIs
<1>8. PICK h : Adds(h, Takes(into), into) /\ sum = h[into]
  BY <1>6, SharesAre
<1> HIDE DEF sum
<1>9. g[R] = h[into]
  <2> DEFINE w == Weights(R)
             u == Takes(into)
  <2>1. /\ \A f \in into : u[f] \in Nat
        /\ \A q \in R : u[b[q]] = w[q]
        /\ Adds(g, w, R) /\ Adds(h, u, into)
        /\ IsFiniteSet(R) /\ IsFiniteSet(into)
    BY <1>4, <1>5, <1>6, <1>7, <1>8
  <2>2. Renames(b, R, into)
    BY <1>1, <1>3 DEF Renames
  <2> HIDE DEF w, u
  <2> QED BY <2>1, <2>2, SumMoves
<1>10. sum = Count(R)
  BY <1>7, <1>8, <1>9
<1> QED BY <1>10 DEF sum

LEMMA OneShare ==
  ASSUME NEW x, x.share = <<1, 1>>
  PROVE  MapThenSumSet(LAMBDA f : f.share[1], {x}) = 1
<1>1. IsFiniteSet({x}) /\ {x} \in SUBSET {x} /\ {} \in SUBSET {x}
  BY FS_Singleton
<1>2. PICK h : Adds(h, Takes({x}), {x}) /\ MapThenSumSet(LAMBDA f : f.share[1], {x}) = h[{x}]
  BY <1>1, SharesAre
<1>3. Takes({x})[x] = 1
  BY DEF Takes
<1>4. h[{x}] = 1 + h[{x} \ {x}]
  BY <1>1, <1>2, <1>3, SumTakes
<1>5. {x} \ {x} = {} /\ h[{}] = 0
  BY <1>1, <1>2 DEF Adds
<1> QED BY <1>2, <1>4, <1>5

(***************************************************************************)
(* splitVariants shares out what entered a node, no more and no less, to    *)
(* every part from every part of the caller, whatever the order of nodes.   *)
(***************************************************************************)
THEOREM PartsShareAll == Spec => []SharesAddUp
<1>1. SInv => SharesAddUp
  <2> SUFFICES ASSUME SInv, phase = "built" PROVE SharesAddUp
    BY DEF SharesAddUp
  <2>1. Whole /\ input \in Inputs /\ \A a \in nodes : a \in Name => Parts(a) = {a}
    BY DEF SInv
  <2>2. ASSUME NEW k \in Folded
        PROVE  /\ k.from \in Name /\ k.to \in Name
               /\ Now(k.from) = Parts(k.from) /\ Now(k.to) = Parts(k.to)
    BY <2>1, FoldedFrom DEF Whole, Standing, Now
  <2>3. ASSUME NEW e \in edges
        PROVE  \E k \in Folded : e.from \in Parts(k.from) /\ e.to \in Parts(k.to)
    <3>1. PICK k, p, q : k \in Folded /\ p \in Now(k.from) /\ q \in Now(k.to) /\ e = Piece(k, p, q)
      BY <2>1 DEF Whole, Drawn
    <3> QED BY <2>2, <3>1 DEF Piece
  <2>4. ASSUME NEW k \in Folded, NEW p \in Parts(k.from)
        PROVE  LET into == {e \in edges : e.from = p /\ e.to \in Parts(k.to)} IN
               /\ {e.to : e \in into} = Parts(k.to)
               /\ \A e \in into :
                    e.kinds = k.kinds /\ MapThenSumSet(LAMBDA f : f.share[1], into) = e.share[2]
    <3> DEFINE into == {e \in edges : e.from = p /\ e.to \in Parts(k.to)}
               R == Parts(k.to)
    <3>1. into = {Piece(k, p, q) : q \in R}
      <4>1. ASSUME NEW q \in R  PROVE Piece(k, p, q) \in into
        <5>1. Drawn(Piece(k, p, q))
          BY <2>2 DEF Drawn
        <5> QED BY <2>1, <5>1 DEF Whole, Piece
      <4>2. ASSUME NEW e \in into  PROVE e = Piece(k, p, e.to)
        <5>1. PICK j, r, q : j \in Folded /\ r \in Now(j.from) /\ q \in Now(j.to) /\ e = Piece(j, r, q)
          BY <2>1 DEF Whole, Drawn
        <5>2. r = p /\ q = e.to
          BY <5>1 DEF Piece
        <5>3. WholeOf(p) = j.from /\ WholeOf(p) = k.from /\ WholeOf(q) = j.to /\ WholeOf(q) = k.to
          BY <2>1, <2>2, <5>1, <5>2, PartsTyped
        <5>4. j = k
          BY <5>1, <5>3, FoldedFrom
        <5> QED BY <5>1, <5>2, <5>4
      <4> QED BY <4>1, <4>2
    <3>2. \A q : Piece(k, p, q).to = q /\ Piece(k, p, q).kinds = k.kinds
      BY DEF Piece
    <3>3. {e.to : e \in into} = R
      BY <3>1, <3>2
    <3>4. ASSUME NEW e \in into
          PROVE  e.kinds = k.kinds /\ MapThenSumSet(LAMBDA f : f.share[1], into) = e.share[2]
      <4>1. PICK q \in R : e = Piece(k, p, q)
        BY <3>1
      <4>2. IsFiniteSet(R)
        BY <2>1, <2>2, PartsTyped
      <4>3. CASE R = {k.to}
        <5>1. into = {e} /\ e.share = <<1, 1>>
          BY <3>1, <4>1, <4>3 DEF Piece
        <5>2. MapThenSumSet(LAMBDA f : f.share[1], into) = 1
          BY <5>1, OneShare
        <5> QED BY <3>2, <4>1, <5>1, <5>2
      <4>4. CASE R # {k.to}
        <5>1. k.to \notin R /\ \A r \in R : r.instances \in Nat
          BY <2>1, <2>2, <4>4, PartsTyped DEF IsPart
        <5>2. MapThenSumSet(LAMBDA f : f.share[1], into) = Count(R)
          <6>1. R = Parts(k.to)
            OBVIOUS
          <6> HIDE DEF into, R
          <6> QED BY <3>1, <4>2, <5>1, <6>1, SharesSum
        <5>3. e.share[2] = Count(R)
          BY <4>1, <5>1 DEF Piece
        <5> QED BY <3>2, <4>1, <5>2, <5>3
      <4> QED BY <4>3, <4>4
    <3> QED BY <3>3, <3>4
  <2> QED BY <2>3, <2>4 DEF SharesAddUp
<1> QED BY <1>1, SInvHolds, PTL
=============================================================================
