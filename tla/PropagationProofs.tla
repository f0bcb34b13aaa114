-------------------------- MODULE PropagationProofs --------------------------
(***************************************************************************)
(* Proofs about Graph and Propagation, for every set of declarations.       *)
(*                                                                         *)
(* The inductive invariant says what each phase of buildGraph has done so   *)
(* far: which ids are known, which edges are counted in an in-degree, and   *)
(* which ids the line holds.                                                *)
(***************************************************************************)
EXTENDS Propagation, FiniteSetTheorems, TLAPS

Ids(m) == {decl.nodes[k].id : k \in 1 .. m}
Distinct(m) == \A j, k \in 1 .. m : decl.nodes[j].id = decl.nodes[k].id => j = k

\* sort has started, or ended in an error of its own
Sorting == pc \in {"sort", "ordered"} \/ refusal = "cycle"

KnownIds ==
  /\ pc \in {"traffic", "groups"} => known = {}
  /\ pc = "nodes" => i <= Len(decl.nodes) + 1 /\ known = Ids(i - 1) /\ Distinct(i - 1)
  /\ pc \in {"edges", "queue"} \/ Sorting =>
       known = Ids(Len(decl.nodes)) /\ Distinct(Len(decl.nodes))

EndsKnown(m) == \A e \in 1 .. m : From(e) \in known /\ To(e) \in known
KnownEnds ==
  /\ pc = "edges" => i <= Len(decl.edges) + 1 /\ EndsKnown(i - 1)
  /\ pc = "queue" \/ Sorting => EndsKnown(Len(decl.edges))

Counts(n, S) == indegree[n] = Cardinality(Incoming(n) \cap S)
Counted ==
  /\ pc \in {"traffic", "groups", "nodes"} => \A n \in Id : Counts(n, {})
  /\ pc = "edges" => \A n \in Id : Counts(n, 1 .. i - 1)
  /\ pc = "queue" \/ Sorting => \A n \in Id : Counts(n, Edges \ relaxed)

InLine(n) == \E k \in 1 .. Len(line) : line[k] = n
Queued ==
  /\ ~ Sorting /\ pc # "queue" => line = <<>>
  /\ ~ Sorting => popped = 0 /\ relaxed = {}
  /\ pc = "queue" =>
       /\ i <= Len(decl.nodes) + 1
       /\ \A n \in Id : InLine(n) <=> n \in Ids(i - 1) /\ indegree[n] = 0
  /\ Sorting => \A n \in Id : InLine(n) <=> n \in known /\ indegree[n] = 0

Relaxation ==
  /\ \A e \in relaxed : \E j \in 1 .. popped : line[j] = From(e)
  /\ \A j \in 1 .. popped - 1 : Outgoing(line[j]) \subseteq relaxed

Refusal ==
  /\ refusal # "none" => pc = "refused"
  /\ refusal = "cycle" => popped = Len(line) /\ Unrelaxed = {} /\ popped # Len(decl.nodes)

GInv ==
  /\ GraphTypeOK /\ KnownIds /\ KnownEnds /\ Counted /\ Queued /\ Relaxation
  /\ Refusal /\ ForwardOrder

-----------------------------------------------------------------------------
(***************************************************************************)
(* Facts about the declaration that every step below rests on.              *)
(***************************************************************************)
LEMMA DeclType ==
  ASSUME GraphTypeOK
  PROVE  /\ decl = [groups |-> decl.groups, nodes |-> decl.nodes, edges |-> decl.edges]
         /\ Len(decl.nodes) \in Nat /\ Len(decl.edges) \in Nat /\ Len(line) \in Nat
         /\ decl.nodes \in Seq(NodeDecl) /\ decl.edges \in Seq(EdgeDecl)
         /\ \A k \in 1 .. Len(decl.nodes) : decl.nodes[k] \in NodeDecl
         /\ \A e \in Edges : From(e) \in Id /\ To(e) \in Id
         /\ Edges \subseteq Nat /\ IsFiniteSet(Edges)
<1>0. decl \in Declaration
  BY DEF GraphTypeOK
<1>3. decl.nodes \in Seq(NodeDecl) /\ decl.edges \in Seq(EdgeDecl)
  BY <1>0 DEF Declaration
<1>1. Len(decl.edges) \in Nat
  BY <1>3
<1>2. IsFiniteSet(Edges)
  BY <1>1, FS_Interval DEF Edges
<1>4. /\ Len(decl.nodes) \in Nat /\ \A k \in 1 .. Len(decl.nodes) : decl.nodes[k] \in NodeDecl
      /\ \A e \in Edges : decl.edges[e] \in EdgeDecl
  BY <1>3 DEF Edges
<1>5. \A e \in Edges : From(e) \in Id /\ To(e) \in Id
  BY <1>4 DEF From, To, EdgeDecl
<1>6. decl = [groups |-> decl.groups, nodes |-> decl.nodes, edges |-> decl.edges]
  BY <1>0 DEF Declaration
<1>7. Len(line) \in Nat
  BY DEF GraphTypeOK
<1>8. Edges \subseteq Nat
  BY <1>1 DEF Edges
<1>. QED
  BY <1>1, <1>2, <1>3, <1>4, <1>5, <1>6, <1>7, <1>8

LEMMA InitGInv == Init => GInv
<1>. SUFFICES ASSUME Init PROVE GInv
  OBVIOUS
<1>1. GraphTypeOK
  BY GraphAssumption DEF Init, GraphTypeOK
<1>2. \A n \in Id : Counts(n, {})
  BY FS_EmptySet DEF Init, Counts
<1>3. pc = "traffic" /\ known = {} /\ line = <<>> /\ popped = 0 /\ relaxed = {}
      /\ refusal = "none" /\ ~ Sorting
  BY DEF Init, Sorting
<1>4. KnownIds /\ KnownEnds /\ Counted
  BY <1>2, <1>3 DEF KnownIds, KnownEnds, Counted
<1>5. Queued /\ Relaxation /\ Refusal
  BY <1>3 DEF Queued, Relaxation, Refusal
<1>6. ForwardOrder
  BY <1>3 DEF ForwardOrder
<1>. QED
  BY <1>1, <1>4, <1>5, <1>6 DEF GInv

(***************************************************************************)
(* An error leaves everything as it is but where buildGraph stands; only    *)
(* the one after the sort says anything of the ids in line.                 *)
(***************************************************************************)
LEMMA RefuseKeeps ==
  ASSUME GInv, NEW why \in {"both", "groups", "nodes", "edges"}, Refuse(why),
         pc \in {"traffic", "groups", "nodes", "edges"}
  PROVE  GInv'
<1>1. GraphTypeOK'
  BY DEF GInv, GraphTypeOK, Refuse, Edges
<1>2. ~ Sorting /\ ~ Sorting' /\ pc' = "refused" /\ refusal' = why
  BY DEF GInv, Refusal, Refuse, Sorting
<1>3. line = <<>> /\ line' = <<>> /\ popped' = 0 /\ relaxed' = {}
  BY <1>2 DEF GInv, Queued, Refuse
<1>4. KnownIds' /\ KnownEnds' /\ Counted'
  BY <1>2 DEF KnownIds, KnownEnds, Counted
<1>5. Queued' /\ Relaxation' /\ Refusal'
  BY <1>2, <1>3 DEF Queued, Relaxation, Refusal
<1>6. ForwardOrder'
  BY <1>3 DEF ForwardOrder
<1>. QED
  BY <1>1, <1>4, <1>5, <1>6 DEF GInv

(***************************************************************************)
(* resolveTraffic rewrites loads only: the ids and the edges stay.          *)
(***************************************************************************)
LEMMA ResolveKeeps ==
  ASSUME GInv, ResolveTraffic
  PROVE  GInv'
<1>1. pc = "traffic" /\ ~ Sorting /\ known = {} /\ line = <<>> /\ popped = 0 /\ relaxed = {}
      /\ refusal = "none"
  BY DEF GInv, Refusal, Queued, KnownIds, Sorting, ResolveTraffic
<1>2. CASE Refuse("both")
  BY <1>1, <1>2, RefuseKeeps
<1>3. CASE decl' # decl \/ pc' = "groups"
  <2>1. decl' = [decl EXCEPT !.nodes = [k \in 1 .. Len(decl.nodes) |-> Resolved(decl.nodes[k])]]
        /\ pc' = "groups" /\ UNCHANGED <<i, known, indegree, line, popped, relaxed, refusal>>
    BY <1>3 DEF ResolveTraffic, Refuse
  <2>2. \A n \in NodeDecl : Resolved(n) \in NodeDecl
    <3>. SUFFICES ASSUME NEW n \in NodeDecl PROVE Resolved(n) \in NodeDecl
      OBVIOUS
    <3>1. CASE n.traffic \in {None, Unreadable}
      BY <3>1 DEF Resolved
    <3>2. CASE n.traffic \notin {None, Unreadable}
      <4>1. n.traffic \in Int
        BY <3>2 DEF NodeDecl
      <4>2. Resolved(n) = [n EXCEPT !.load = n.traffic]
        BY <3>2 DEF Resolved
      <4>. QED
        BY <4>1, <4>2 DEF NodeDecl
    <3>. QED
      BY <3>1, <3>2
  <2>3. decl'.nodes \in Seq(NodeDecl) /\ decl'.edges = decl.edges /\ decl'.groups = decl.groups
    <3>1. decl'.nodes = [k \in 1 .. Len(decl.nodes) |-> Resolved(decl.nodes[k])]
          /\ decl'.edges = decl.edges /\ decl'.groups = decl.groups
      BY <2>1, DeclType DEF GInv
    <3>2. [k \in 1 .. Len(decl.nodes) |-> Resolved(decl.nodes[k])] \in Seq(NodeDecl)
      BY <2>2, DeclType DEF GInv
    <3>. QED
      BY <3>1, <3>2
  <2>4. decl' \in Declaration
    <3>1. decl' = [groups |-> decl'.groups, nodes |-> decl'.nodes, edges |-> decl'.edges]
      BY <2>1, DeclType DEF GInv
    <3>2. decl.groups \in Seq(Group \cup {None}) /\ decl.edges \in Seq(EdgeDecl)
      BY DEF GInv, GraphTypeOK, Declaration
    <3>. QED
      BY <2>3, <3>1, <3>2 DEF Declaration
  <2>5. Edges' = Edges /\ \A n \in Id : Incoming(n)' = Incoming(n)
    BY <2>3 DEF Edges, Incoming, To
  <2>6. GraphTypeOK'
    BY <2>1, <2>4, <2>5 DEF GInv, GraphTypeOK
  <2>7. Counted'
    BY <1>1, <2>1, <2>5 DEF GInv, Counted, Counts, Sorting
  <2>8. ~ Sorting'
    BY <1>1, <2>1 DEF Sorting
  <2>9. KnownIds' /\ KnownEnds' /\ Queued' /\ Relaxation' /\ Refusal' /\ ForwardOrder'
    BY <1>1, <2>1, <2>8 DEF KnownIds, KnownEnds, Queued, Relaxation, Refusal, ForwardOrder
  <2>. QED
    BY <2>6, <2>7, <2>9 DEF GInv
<1>. QED
  BY <1>2, <1>3 DEF ResolveTraffic

(***************************************************************************)
(* Before the queue starts: what each phase adds to the ids, the ends of    *)
(* edges and the in-degrees.                                                *)
(***************************************************************************)
LEMMA Unqueued ==
  ASSUME GInv, pc \in {"groups", "nodes", "edges"}
  PROVE  ~ Sorting /\ line = <<>> /\ popped = 0 /\ relaxed = {} /\ refusal = "none"
BY DEF GInv, Refusal, Queued, Sorting

LEMMA StillUnqueued ==
  ASSUME GInv, pc \in {"groups", "nodes", "edges"}, pc' \in {"nodes", "edges", "queue"},
         UNCHANGED <<decl, line, popped, relaxed, refusal>>
  PROVE  /\ Relaxation' /\ Refusal' /\ ForwardOrder' /\ ~ Sorting'
         /\ pc' # "queue" => Queued'
BY Unqueued DEF Relaxation, Refusal, ForwardOrder, Sorting, Queued

LEMMA GroupsKeep ==
  ASSUME GInv, GroupIDs
  PROVE  GInv'
<1>1. CASE Refuse("groups")
  BY <1>1, RefuseKeeps DEF GroupIDs
<1>2. CASE Goto("nodes")
  <2>1. pc = "groups" /\ pc' = "nodes" /\ i' = 1
        /\ UNCHANGED <<decl, known, indegree, line, popped, relaxed, refusal>>
    BY <1>2 DEF GroupIDs, Goto
  <2>2. GraphTypeOK'
    BY <2>1 DEF GInv, GraphTypeOK, Edges
  <2>3. KnownIds' /\ KnownEnds'
    BY <2>1, StillUnqueued, DeclType DEF GInv, KnownIds, KnownEnds, Ids, Distinct, Sorting
  <2>4. Counted'
    BY <2>1, StillUnqueued DEF GInv, Counted, Counts, Incoming, Edges, To
  <2>. QED
    BY <2>1, <2>2, <2>3, <2>4, StillUnqueued DEF GInv
<1>. QED
  BY <1>1, <1>2 DEF GroupIDs

LEMMA AddNodeKeeps ==
  ASSUME GInv, AddNode
  PROVE  GInv'
<1>1. CASE Refuse("nodes")
  BY <1>1, RefuseKeeps DEF AddNode
<1>2. CASE NodeOK(decl.nodes[i]) /\ i' = i + 1
  <2> DEFINE n == decl.nodes[i].id
  <2>1. pc = "nodes" /\ pc' = "nodes" /\ i <= Len(decl.nodes) /\ known' = known \cup {n}
        /\ n # None /\ n \notin known
        /\ UNCHANGED <<decl, indegree, line, popped, relaxed, refusal>>
    BY <1>2 DEF AddNode, NodeOK, Refuse
  <2>2. i \in 1 .. Len(decl.nodes) /\ n \in Id
    BY <2>1, DeclType DEF GInv, GraphTypeOK, NodeDecl
  <2>3. GraphTypeOK'
    BY <1>2, <2>1, <2>2 DEF GInv, GraphTypeOK, Edges
  <2>4. Ids(i) = Ids(i - 1) \cup {n} /\ known = Ids(i - 1)
    BY <2>1, <2>2 DEF GInv, KnownIds, Ids
  <2>5. Distinct(i)
    BY <2>1, <2>2, <2>4 DEF GInv, KnownIds, Distinct, Ids
  <2>6. KnownIds'
    <3>1. i' - 1 = i /\ i' <= Len(decl.nodes) + 1 /\ decl' = decl
      BY <1>2, <2>1, <2>2, DeclType DEF GInv
    <3>2. Ids(i - 1)' = Ids(i)
      BY <3>1 DEF Ids
    <3>3. Distinct(i - 1)'
      BY <2>5, <3>1 DEF Distinct
    <3>. QED
      BY <2>1, <2>4, <3>1, <3>2, <3>3, StillUnqueued DEF KnownIds
  <2>7. KnownEnds' /\ Counted'
    BY <2>1, StillUnqueued DEF GInv, Counted, Counts, Incoming, Edges, To, KnownEnds
  <2>. QED
    BY <2>1, <2>3, <2>6, <2>7, StillUnqueued DEF GInv
<1>. QED
  BY <1>1, <1>2 DEF AddNode

LEMMA NodesAddedKeeps ==
  ASSUME GInv, NodesAdded
  PROVE  GInv'
<1>1. pc = "nodes" /\ pc' = "edges" /\ i > Len(decl.nodes) /\ i' = 1
      /\ UNCHANGED <<decl, known, indegree, line, popped, relaxed, refusal>>
  BY DEF NodesAdded, Goto
<1>2. i - 1 = Len(decl.nodes)
  BY <1>1, DeclType DEF GInv, KnownIds, GraphTypeOK
<1>3. GraphTypeOK'
  BY <1>1 DEF GInv, GraphTypeOK, Edges
<1>4. KnownIds'
  BY <1>1, <1>2, StillUnqueued DEF GInv, KnownIds, Ids, Distinct
<1>5. KnownEnds'
  BY <1>1, StillUnqueued, DeclType DEF GInv, KnownEnds, EndsKnown
<1>6. Counted'
  <2>1. 1 .. 0 = {}
    OBVIOUS
  <2>2. \A n \in Id : Counts(n, {})
    BY <1>1 DEF GInv, Counted
  <2>3. \A n \in Id : Counts(n, 1 .. i - 1)'
    BY <1>1, <2>1, <2>2 DEF Counts, Incoming, Edges, To
  <2>. QED
    BY <1>1, <2>3, StillUnqueued DEF Counted
<1>. QED
  BY <1>1, <1>3, <1>4, <1>5, <1>6, StillUnqueued DEF GInv

(***************************************************************************)
(* A counted edge raises its target's in-degree by one: the edges counted   *)
(* so far are the i - 1 before it, and it is not among them.                *)
(***************************************************************************)
LEMMA CountsType ==
  ASSUME GInv, NEW n \in Id, NEW X
  PROVE  IsFiniteSet(Incoming(n) \cap X)
<1>1. Incoming(n) \cap X \in SUBSET Edges
  BY DEF Incoming
<1>. QED
  BY <1>1, DeclType, FS_Subset DEF GInv

LEMMA AddEdgeKeeps ==
  ASSUME GInv, AddEdge
  PROVE  GInv'
<1>1. CASE Refuse("edges")
  BY <1>1, RefuseKeeps DEF AddEdge
<1>2. CASE EdgeOK(decl.edges[i]) /\ i' = i + 1
  <2>1. pc = "edges" /\ pc' = "edges" /\ i <= Len(decl.edges)
        /\ indegree' = [indegree EXCEPT ![To(i)] = @ + 1]
        /\ UNCHANGED <<decl, known, line, popped, relaxed, refusal>>
    BY <1>2 DEF AddEdge, Refuse
  <2>2. i \in Edges /\ i \in Nat /\ To(i) \in Id
    BY <2>1, DeclType DEF GInv, GraphTypeOK, Edges
  <2>3. GraphTypeOK'
    BY <1>2, <2>1, <2>2 DEF GInv, GraphTypeOK, Edges
  <2>4. KnownIds'
    BY <2>1, StillUnqueued DEF GInv, KnownIds, Ids, Distinct
  <2>5. KnownEnds'
    <3>1. From(i) \in known /\ To(i) \in known /\ EndsKnown(i - 1)
      BY <1>2, <2>1 DEF EdgeOK, From, To, GInv, KnownEnds
    <3>2. EndsKnown(i)
      BY <2>2, <3>1 DEF EndsKnown
    <3>3. i' - 1 = i /\ i' <= Len(decl.edges) + 1
      BY <1>2, <2>1, <2>2, DeclType DEF GInv
    <3>4. EndsKnown(i - 1)'
      BY <2>1, <3>2, <3>3 DEF EndsKnown, From, To
    <3>. QED
      BY <2>1, <3>3, <3>4, StillUnqueued DEF KnownEnds
  <2>6. Counted'
    <3>1. ASSUME NEW n \in Id
          PROVE  Counts(n, 1 .. i - 1)'
      <4> DEFINE old == Incoming(n) \cap (1 .. i - 1)
      <4>1. indegree[n] = Cardinality(old)
        BY <2>1 DEF GInv, Counted, Counts
      <4>2. IsFiniteSet(old)
        BY CountsType
      <4>3. i \notin old
        BY <2>2
      <4>4. (Incoming(n) \cap (1 .. i - 1))' = IF n = To(i) THEN old \cup {i} ELSE old
        BY <1>2, <2>1, <2>2 DEF Incoming, Edges, To
      <4>5. Cardinality(old \cup {i}) = Cardinality(old) + 1
        BY <4>2, <4>3, FS_AddElement
      <4>6. CASE n = To(i)
        <5>1. indegree'[n] = indegree[n] + 1
          BY <2>1, <4>6 DEF GInv, GraphTypeOK
        <5>. QED
          BY <4>1, <4>4, <4>5, <4>6, <5>1 DEF Counts
      <4>7. CASE n # To(i)
        <5>1. indegree'[n] = indegree[n]
          BY <2>1, <4>7 DEF GInv, GraphTypeOK
        <5>. QED
          BY <4>1, <4>4, <4>7, <5>1 DEF Counts
      <4>. QED
        BY <4>6, <4>7
    <3>. QED
      BY <2>1, <3>1, StillUnqueued DEF Counted
  <2>. QED
    BY <2>1, <2>3, <2>4, <2>5, <2>6, StillUnqueued DEF GInv
<1>. QED
  BY <1>1, <1>2 DEF AddEdge

LEMMA EdgesAddedKeeps ==
  ASSUME GInv, EdgesAdded
  PROVE  GInv'
<1>1. pc = "edges" /\ pc' = "queue" /\ i > Len(decl.edges) /\ i' = 1
      /\ UNCHANGED <<decl, known, indegree, line, popped, relaxed, refusal>>
  BY DEF EdgesAdded, Goto
<1>2. i - 1 = Len(decl.edges) /\ 1 .. i - 1 = Edges \ relaxed
  BY <1>1, DeclType, Unqueued DEF GInv, KnownEnds, GraphTypeOK, Edges
<1>3. GraphTypeOK'
  BY <1>1 DEF GInv, GraphTypeOK, Edges
<1>4. KnownIds'
  BY <1>1, StillUnqueued DEF GInv, KnownIds, Ids, Distinct
<1>5. KnownEnds'
  BY <1>1, <1>2, StillUnqueued DEF GInv, KnownEnds, EndsKnown, From, To
<1>6. Counted'
  <2>1. \A n \in Id : Counts(n, Edges \ relaxed)
    BY <1>1, <1>2 DEF GInv, Counted
  <2>2. \A n \in Id : Counts(n, Edges \ relaxed)'
    BY <1>1, <2>1 DEF Counts, Incoming, Edges, To
  <2>. QED
    BY <1>1, <2>2, StillUnqueued DEF Counted
<1>7. Queued'
  <2>1. 1 <= Len(decl.nodes) + 1 /\ Ids(0) = {}
    BY DeclType DEF GInv, Ids
  <2>2. line' = <<>> /\ popped' = 0 /\ relaxed' = {}
    BY <1>1, Unqueued
  <2>3. Ids(i - 1)' = {}
    BY <1>1 DEF Ids
  <2>. QED
    BY <1>1, <2>1, <2>2, <2>3, StillUnqueued DEF Queued, InLine
<1>. QED
  BY <1>1, <1>3, <1>4, <1>5, <1>6, <1>7, StillUnqueued DEF GInv

-----------------------------------------------------------------------------
(***************************************************************************)
(* The queue.  An id joins it when no edge into it is left, so the sources  *)
(* of all of them are already in the order.                                 *)
(***************************************************************************)
LEMMA NoneLeft ==
  ASSUME GInv, NEW n \in Id, NEW X, Counts(n, X), indegree[n] = 0
  PROVE  Incoming(n) \cap X = {}
BY CountsType, FS_EmptySet DEF Counts

LEMMA Joins ==
  ASSUME GInv, NEW n \in Id, line' = Append(line, n)
  PROVE  /\ line' \in Seq(Id) /\ Len(line') = Len(line) + 1 /\ line'[Len(line) + 1] = n
         /\ \A k \in 1 .. Len(line) : line'[k] = line[k]
         /\ \A m : InLine(m)' <=> InLine(m) \/ m = n
<1>1. line \in Seq(Id) /\ Len(line) \in Nat
  BY DeclType DEF GInv, GraphTypeOK
<1>2. /\ line' \in Seq(Id) /\ Len(line') = Len(line) + 1 /\ line'[Len(line) + 1] = n
      /\ \A k \in 1 .. Len(line) : line'[k] = line[k]
  BY <1>1
<1>. QED
  BY <1>1, <1>2 DEF InLine

LEMMA JoinsForward ==
  ASSUME GInv, NEW n \in Id, line' = Append(line, n), ~ InLine(n), popped' = popped,
         decl' = decl, \A e \in Incoming(n) : \E j \in 1 .. popped : line[j] = From(e)
  PROVE  ForwardOrder'
<1>1. Len(line) \in Nat /\ popped \in Nat /\ popped <= Len(line)
  BY DeclType DEF GInv, GraphTypeOK
<1>2. ASSUME NEW j \in 1 .. Len(line) + 1, NEW k \in 1 .. Len(line) + 1, line'[j] = line'[k]
      PROVE  j = k
  BY <1>1, <1>2, Joins DEF GInv, ForwardOrder, InLine
<1>3. ASSUME NEW k \in 1 .. Len(line) + 1, NEW e \in Incoming(line'[k])
      PROVE  \E j \in 1 .. k - 1 : j <= popped /\ line'[j] = From(e)
  <2>1. CASE k = Len(line) + 1
    <3>1. PICK j \in 1 .. popped : line[j] = From(e)
      BY <2>1, Joins
    <3>. QED
      BY <1>1, <2>1, <3>1, Joins
  <2>2. CASE k \in 1 .. Len(line)
    <3>1. PICK j \in 1 .. k - 1 : j <= popped /\ line[j] = From(e)
      BY <2>2, Joins DEF GInv, ForwardOrder
    <3>. QED
      BY <1>1, <2>2, <3>1, Joins
  <2>. QED
    BY <1>1, <2>1, <2>2
<1>4. \A n_1 : Incoming(n_1)' = Incoming(n_1)
  BY DEF Incoming, Edges, To
<1>5. \A e : From(e)' = From(e)
  BY DEF From
<1>. QED
  BY <1>2, <1>3, <1>4, <1>5, Joins DEF ForwardOrder

LEMMA StartQueueKeeps ==
  ASSUME GInv, StartQueue
  PROVE  GInv'
<1>1. pc = "queue" /\ popped = 0 /\ relaxed = {} /\ refusal = "none" /\ ~ Sorting
      /\ UNCHANGED <<decl, known, indegree, popped, relaxed, refusal>>
  BY DEF StartQueue, GInv, Queued, Refusal, Sorting
<1>2. known = Ids(Len(decl.nodes)) /\ Distinct(Len(decl.nodes)) /\ EndsKnown(Len(decl.edges))
      /\ (\A n \in Id : Counts(n, Edges \ relaxed)) /\ i <= Len(decl.nodes) + 1 /\ i \in Nat
      /\ Len(decl.nodes) \in Nat
  BY <1>1, DeclType DEF GInv, KnownIds, KnownEnds, Counted, Queued, GraphTypeOK
<1>3. known' = Ids(Len(decl.nodes))' /\ Distinct(Len(decl.nodes))' /\ EndsKnown(Len(decl.edges))'
      /\ \A n \in Id : Counts(n, Edges \ relaxed)'
  BY <1>1, <1>2 DEF Ids, Distinct, EndsKnown, Counts, Incoming, Edges, From, To
<1>4. CASE i <= Len(decl.nodes)
  <2> DEFINE n == decl.nodes[i].id
  <2>1. i' = i + 1 /\ pc' = "queue" /\ line' = IF indegree[n] = 0 THEN Append(line, n) ELSE line
    BY <1>1, <1>4 DEF StartQueue
  <2>2. i \in 1 .. Len(decl.nodes) /\ n \in Id /\ n \notin Ids(i - 1)
        /\ Ids(i) = Ids(i - 1) \cup {n}
    <3>1. i \in 1 .. Len(decl.nodes)
      BY <1>2, <1>4 DEF GInv, GraphTypeOK
    <3>2. n \in known
      BY <1>2, <3>1 DEF Ids
    <3>3. n \in Id
      BY <3>2 DEF GInv, GraphTypeOK
    <3>4. n \notin Ids(i - 1)
      BY <1>2, <3>1 DEF Ids, Distinct
    <3>5. Ids(i) = Ids(i - 1) \cup {n}
      BY <1>2, <3>1 DEF Ids
    <3>. QED
      BY <3>1, <3>3, <3>4, <3>5
  <2>3. ~ InLine(n) /\ \A m \in Id : InLine(m) <=> m \in Ids(i - 1) /\ indegree[m] = 0
    BY <1>1, <2>2 DEF GInv, Queued
  <2>4. \A m \in Id : InLine(m)' <=> m \in Ids(i) /\ indegree[m] = 0
    <3>1. CASE indegree[n] = 0
      BY <2>1, <2>2, <2>3, <3>1, Joins
    <3>2. CASE indegree[n] # 0
      BY <2>1, <2>2, <2>3, <3>2 DEF InLine
    <3>. QED
      BY <3>1, <3>2
  <2>5. ForwardOrder'
    <3>1. CASE indegree[n] = 0
      <4>1. Incoming(n) \cap (Edges \ relaxed) = {}
        BY <1>2, <2>2, <3>1, NoneLeft
      <4>2. Incoming(n) = {}
        BY <1>1, <4>1 DEF Incoming
      <4>. QED
        BY <1>1, <2>1, <2>2, <2>3, <3>1, <4>2, JoinsForward
    <3>2. CASE indegree[n] # 0
      BY <1>1, <2>1, <3>2 DEF GInv, ForwardOrder, Incoming, Edges, From, To
    <3>. QED
      BY <3>1, <3>2
  <2>6. GraphTypeOK'
    BY <1>1, <1>2, <2>1, <2>2, Joins DEF GInv, GraphTypeOK, Edges
  <2>7. ~ Sorting'
    BY <1>1, <2>1 DEF Sorting
  <2>8. KnownIds' /\ KnownEnds' /\ Counted' /\ Relaxation' /\ Refusal'
    BY <1>1, <1>3, <2>1, <2>7 DEF KnownIds, KnownEnds, Counted, Relaxation, Refusal
  <2>9. Queued'
    <3>1. i' <= Len(decl.nodes) + 1 /\ i' - 1 = i
      BY <2>1, <2>2, <1>2
    <3>2. Ids(i - 1)' = Ids(i)
      BY <1>1, <3>1 DEF Ids
    <3>. QED
      BY <1>1, <2>1, <2>4, <2>7, <3>1, <3>2 DEF Queued
  <2>. QED
    BY <2>5, <2>6, <2>8, <2>9 DEF GInv
<1>5. CASE i > Len(decl.nodes)
  <2>1. pc' = "sort" /\ UNCHANGED <<line, i>>
    BY <1>2, <1>5 DEF StartQueue
  <2>2. i - 1 = Len(decl.nodes)
    BY <1>2, <1>5
  <2>3. \A m \in Id : InLine(m)' <=> m \in known /\ indegree[m] = 0
    BY <1>1, <1>2, <2>1, <2>2 DEF GInv, Queued, InLine
  <2>4. GraphTypeOK'
    BY <1>1, <2>1 DEF GInv, GraphTypeOK, Edges
  <2>5. KnownIds' /\ KnownEnds' /\ Counted'
    BY <1>1, <1>3, <2>1 DEF KnownIds, KnownEnds, Counted
  <2>6. Queued' /\ Refusal' /\ Relaxation'
    BY <1>1, <2>1, <2>3 DEF Queued, Sorting, Refusal, Relaxation
  <2>7. ForwardOrder'
    BY <1>1, <2>1 DEF GInv, ForwardOrder, Incoming, Edges, From, To
  <2>. QED
    BY <2>4, <2>5, <2>6, <2>7 DEF GInv
<1>. QED
  BY <1>2, <1>4, <1>5

(***************************************************************************)
(* The sort.  What holds while it runs, in one place.                       *)
(***************************************************************************)
LEMMA WhileSorting ==
  ASSUME GInv, pc = "sort"
  PROVE  /\ Sorting /\ refusal = "none"
         /\ known = Ids(Len(decl.nodes)) /\ Distinct(Len(decl.nodes))
         /\ EndsKnown(Len(decl.edges))
         /\ \A n \in Id : Counts(n, Edges \ relaxed)
         /\ \A n \in Id : InLine(n) <=> n \in known /\ indegree[n] = 0
BY DEF GInv, Sorting, Refusal, KnownIds, KnownEnds, Counted, Queued

LEMMA RelaxKeeps ==
  ASSUME GInv, Relax
  PROVE  GInv'
<1>1. pc = "sort" /\ UNCHANGED <<decl, pc, i, known, popped, refusal>>
  BY DEF Relax
<1>2. PICK e \in Unrelaxed :
        /\ indegree' = [indegree EXCEPT ![To(e)] = @ - 1]
        /\ line' = IF indegree[To(e)] = 1 THEN Append(line, To(e)) ELSE line
        /\ relaxed' = relaxed \cup {e}
  BY DEF Relax
<1> DEFINE t == To(e)
<1>3. popped \in 1 .. Len(line) /\ e \in Edges /\ e \notin relaxed /\ From(e) = line[popped]
      /\ t \in Id
  BY <1>2, DeclType DEF Unrelaxed, Outgoing, GInv, GraphTypeOK
<1>4. t \in known
  BY <1>1, <1>3, WhileSorting DEF EndsKnown, Edges
<1>5. Edges' = Edges /\ (\A n : Incoming(n)' = Incoming(n)) /\ (\A n : Outgoing(n)' = Outgoing(n))
      /\ (\A f : From(f)' = From(f) /\ To(f)' = To(f))
  BY <1>1 DEF Edges, Incoming, Outgoing, From, To
<1>6. ASSUME NEW n \in Id
      PROVE  /\ Counts(n, Edges \ relaxed)'
             /\ indegree'[n] \in Nat
             /\ n = t => indegree[n] # 0
             /\ n # t => indegree'[n] = indegree[n]
  <2> DEFINE old == Incoming(n) \cap (Edges \ relaxed)
  <2>1. indegree[n] = Cardinality(old) /\ IsFiniteSet(old) /\ indegree[n] \in Nat
    BY <1>1, WhileSorting, CountsType DEF Counts, GInv, GraphTypeOK
  <2>2. (Incoming(n) \cap (Edges \ relaxed))' = old \ {e}
    BY <1>2, <1>5
  <2>3. CASE n = t
    <3>1. e \in old
      BY <1>3, <2>3 DEF Incoming
    <3>2. Cardinality(old \ {e}) = Cardinality(old) - 1 /\ Cardinality(old) # 0
      BY <2>1, <3>1, FS_RemoveElement, FS_EmptySet
    <3>3. indegree'[n] = indegree[n] - 1
      BY <1>2, <2>3 DEF GInv, GraphTypeOK
    <3>4. indegree'[n] = Cardinality(old \ {e}) /\ indegree'[n] \in Nat /\ indegree[n] # 0
      BY <2>1, <3>2, <3>3
    <3>5. Counts(n, Edges \ relaxed)'
      BY <2>2, <3>4 DEF Counts
    <3>. QED
      BY <2>3, <3>4, <3>5
  <2>4. CASE n # t
    <3>1. e \notin old
      BY <2>4 DEF Incoming
    <3>2. indegree'[n] = indegree[n]
      BY <1>2, <2>4 DEF GInv, GraphTypeOK
    <3>. QED
      BY <2>1, <2>2, <2>4, <3>1, <3>2 DEF Counts
  <2>. QED
    BY <2>3, <2>4
<1>7. indegree' \in [Id -> Nat] /\ indegree'[t] = indegree[t] - 1
  BY <1>2, <1>3, <1>6 DEF GInv, GraphTypeOK
<1>8. ~ InLine(t)
  BY <1>1, <1>3, <1>6, WhileSorting
<1>9. \A n \in Id : InLine(n)' <=> n \in known /\ indegree'[n] = 0
  <2>1. CASE indegree[t] = 1
    <3>1. indegree'[t] = 0 /\ \A n \in Id : n # t => indegree'[n] = indegree[n]
      BY <1>6, <1>7, <2>1
    <3>. QED
      BY <1>1, <1>2, <1>3, <1>4, <2>1, <3>1, Joins, WhileSorting
  <2>2. CASE indegree[t] # 1
    <3>1. indegree'[t] # 0 /\ \A n \in Id : n # t => indegree'[n] = indegree[n]
      BY <1>3, <1>6, <1>7, <2>2 DEF GInv, GraphTypeOK
    <3>2. line' = line
      BY <1>2, <2>2
    <3>3. \A n \in Id : InLine(n)' <=> InLine(n)
      BY <3>2 DEF InLine
    <3>. QED
      BY <1>1, <1>3, <1>8, <3>1, <3>3, WhileSorting
  <2>. QED
    BY <2>1, <2>2
<1>10. \A f \in relaxed' : \E j \in 1 .. popped : line[j] = From(f)
  BY <1>2, <1>3 DEF GInv, Relaxation
<1>11. \A j \in 1 .. popped : line'[j] = line[j]
  BY <1>2, <1>3, Joins, DeclType DEF GInv
<1>12. GraphTypeOK'
  <2>1. line' \in Seq(Id) /\ popped \in 0 .. Len(line')
    BY <1>2, <1>3, Joins, DeclType DEF GInv, GraphTypeOK
  <2>. QED
    BY <1>1, <1>2, <1>3, <1>5, <1>7, <2>1 DEF GInv, GraphTypeOK
<1>13. ForwardOrder'
  <2>1. CASE indegree[t] = 1
    <3>1. indegree'[t] = 0
      BY <1>7, <2>1
    <3>2. \A n \in Id : indegree'[n] = Cardinality(Incoming(n) \cap (Edges \ relaxed'))
      BY <1>5, <1>6 DEF Counts
    <3>3. Cardinality(Incoming(t) \cap (Edges \ relaxed')) = 0
      BY <1>3, <3>1, <3>2
    <3>4. Incoming(t) \cap (Edges \ relaxed') = {}
      BY <1>3, <3>3, CountsType, FS_EmptySet
    <3>5. Incoming(t) \subseteq relaxed'
      BY <3>4 DEF Incoming
    <3>. QED
      BY <1>1, <1>2, <1>3, <1>8, <1>10, <2>1, <3>5, JoinsForward
  <2>2. CASE indegree[t] # 1
    BY ZenonT(60), <1>1, <1>2, <1>5, <2>2 DEF GInv, ForwardOrder
  <2>. QED
    BY <2>1, <2>2
<1>14. Relaxation'
  <2>1. \A j \in 1 .. popped - 1 : Outgoing(line'[j]) \subseteq relaxed'
    BY <1>2, <1>3, <1>11, DeclType DEF GInv, Relaxation
  <2>. QED
    BY <1>1, <1>5, <1>10, <1>11, <2>1 DEF Relaxation
<1>15. KnownIds' /\ KnownEnds' /\ Counted' /\ Queued' /\ Refusal'
  <2>1. Sorting' /\ pc' = "sort" /\ refusal' = "none"
    BY <1>1, WhileSorting DEF Sorting
  <2>2. known' = Ids(Len(decl.nodes))' /\ Distinct(Len(decl.nodes))'
        /\ EndsKnown(Len(decl.edges))'
    BY <1>1, WhileSorting DEF Ids, Distinct, EndsKnown, From, To
  <2>. QED
    BY <1>1, <1>6, <1>9, <2>1, <2>2 DEF KnownIds, KnownEnds, Counted, Queued, Refusal
<1>. QED
  BY <1>12, <1>13, <1>14, <1>15 DEF GInv

LEMMA PopKeeps ==
  ASSUME GInv, Pop
  PROVE  GInv'
<1>1. pc = "sort" /\ Unrelaxed = {} /\ popped < Len(line) /\ popped' = popped + 1
      /\ UNCHANGED <<decl, pc, i, known, indegree, line, relaxed, refusal>>
  BY DEF Pop
<1>2. popped \in Nat /\ Len(line) \in Nat
  BY DeclType DEF GInv, GraphTypeOK
<1>3. GraphTypeOK'
  BY <1>1, <1>2 DEF GInv, GraphTypeOK, Edges
<1>4. Relaxation'
  <2>1. \A e \in relaxed : \E j \in 1 .. popped + 1 : line[j] = From(e)
    BY <1>2 DEF GInv, Relaxation
  <2>2. \A j \in 1 .. popped : Outgoing(line[j]) \subseteq relaxed
    BY <1>1, <1>2 DEF GInv, Relaxation, Unrelaxed
  <2>. QED
    <3>1. \A n : Outgoing(n)' = Outgoing(n)
      BY <1>1 DEF Outgoing, Edges, From
    <3>2. \A e : From(e)' = From(e)
      BY <1>1 DEF From
    <3>3. popped' - 1 = popped
      BY <1>1, <1>2
    <3>. QED
      BY <1>1, <2>1, <2>2, <3>1, <3>2, <3>3 DEF Relaxation
<1>5. ForwardOrder'
  <2>1. (\A n : Incoming(n)' = Incoming(n)) /\ \A e : From(e)' = From(e)
    BY <1>1 DEF Incoming, Edges, From, To
  <2>2. ASSUME NEW k \in 1 .. Len(line), NEW e \in Incoming(line[k])
        PROVE  \E j \in 1 .. k - 1 : j <= popped + 1 /\ line[j] = From(e)
    <3>1. PICK j \in 1 .. k - 1 : j <= popped /\ line[j] = From(e)
      BY <2>2 DEF GInv, ForwardOrder
    <3>2. j <= popped + 1
      BY <1>2, <3>1
    <3>. QED
      BY <3>1, <3>2
  <2>. QED
    BY <1>1, <2>1, <2>2 DEF GInv, ForwardOrder
<1>6. Sorting' /\ pc' = "sort" /\ refusal' = "none"
  BY <1>1, WhileSorting DEF Sorting
<1>7. KnownIds' /\ KnownEnds'
  BY <1>1, <1>6, WhileSorting DEF KnownIds, KnownEnds, Ids, Distinct, EndsKnown, From, To
<1>8. Counted'
  <2>1. \A n \in Id : Counts(n, Edges \ relaxed)'
    BY <1>1, WhileSorting DEF Counts, Incoming, Edges, To
  <2>. QED
    BY <1>6, <2>1 DEF Counted
<1>9. Queued'
  <2>1. \A n \in Id : InLine(n)' <=> n \in known' /\ indegree'[n] = 0
    BY <1>1, WhileSorting DEF InLine
  <2>. QED
    BY <1>6, <2>1 DEF Queued
<1>10. Refusal'
  BY <1>6 DEF Refusal
<1>. QED
  BY <1>3, <1>4, <1>5, <1>7, <1>8, <1>9, <1>10 DEF GInv

LEMMA SortedKeeps ==
  ASSUME GInv, Sorted
  PROVE  GInv'
<1>1. pc = "sort" /\ Unrelaxed = {} /\ popped = Len(line)
      /\ UNCHANGED <<decl, known, indegree, line, popped, relaxed>>
      /\ \/ pc' = "ordered" /\ refusal' = refusal /\ i' = 1
         \/ pc' = "refused" /\ refusal' = "cycle" /\ i' = i /\ popped # Len(decl.nodes)
  BY DEF Sorted, Goto, Refuse
<1>2. GraphTypeOK'
  BY <1>1 DEF GInv, GraphTypeOK, Edges
<1>3. Sorting' /\ refusal = "none" /\ pc' \in {"ordered", "refused"}
  BY <1>1, WhileSorting DEF Sorting
<1>4. KnownIds' /\ KnownEnds'
  BY <1>1, <1>3, WhileSorting DEF KnownIds, KnownEnds, Ids, Distinct, EndsKnown, From, To
<1>5. Counted'
  <2>1. \A n \in Id : Counts(n, Edges \ relaxed)'
    BY <1>1, WhileSorting DEF Counts, Incoming, Edges, To
  <2>. QED
    BY <1>3, <2>1 DEF Counted
<1>6. Queued'
  <2>1. \A n \in Id : InLine(n)' <=> n \in known' /\ indegree'[n] = 0
    BY <1>1, WhileSorting DEF InLine
  <2>. QED
    BY <1>3, <2>1 DEF Queued
<1>7. Relaxation' /\ ForwardOrder'
  BY <1>1 DEF GInv, Relaxation, ForwardOrder, Incoming, Outgoing, Edges, From, To
<1>8. Refusal'
  <2>1. Unrelaxed' = Unrelaxed
    BY <1>1 DEF Unrelaxed, Outgoing, Edges, From
  <2>. QED
    BY <1>1, <1>3, <2>1 DEF Refusal
<1>. QED
  BY <1>2, <1>4, <1>5, <1>6, <1>7, <1>8 DEF GInv

LEMMA BuildKeeps ==
  ASSUME GInv, Build \/ UNCHANGED vars
  PROVE  GInv'
<1>1. CASE UNCHANGED vars
  <2>1. /\ GraphTypeOK' /\ KnownIds' /\ KnownEnds' /\ Relaxation' /\ Refusal' /\ ForwardOrder'
    BY SMTT(30), <1>1 DEF vars, GInv, GraphTypeOK, KnownIds, KnownEnds, Relaxation, Refusal, ForwardOrder,
       Sorting, Ids, Distinct, EndsKnown, Unrelaxed, Incoming, Outgoing, Edges, From, To
  <2>2. Counted' /\ Queued'
    BY <1>1 DEF vars, GInv, Counted, Queued, Sorting, Counts, InLine, Ids, Incoming, Edges, To
  <2>. QED
    BY <2>1, <2>2 DEF GInv
<1>. QED
  BY <1>1, ResolveKeeps, GroupsKeep, AddNodeKeeps, NodesAddedKeeps, AddEdgeKeeps,
     EdgesAddedKeeps, StartQueueKeeps, RelaxKeeps, PopKeeps, SortedKeeps DEF Build

LEMMA StepKeeps ==
  ASSUME GInv, [Next]_allvars
  PROVE  GInv'
BY BuildKeeps DEF Next, Take, Push, Return, allvars

LEMMA Invariance == Spec => []GInv
<1>1. GInv /\ [Next]_allvars => GInv'
  BY StepKeeps
<1>. QED
  BY InitGInv, <1>1, PTL DEF Spec, Begin

-----------------------------------------------------------------------------
(***************************************************************************)
(* buildGraph keeps its types for every declaration: in particular no       *)
(* in-degree ever falls below zero.                                         *)
(***************************************************************************)
THEOREM GraphTypes == Spec => []GraphTypeOK
<1>1. GInv => GraphTypeOK
  BY DEF GInv
<1>. QED
  BY Invariance, <1>1, PTL

(***************************************************************************)
(* For every graph: no id is ordered twice, and none before the source of   *)
(* an edge into it.                                                         *)
(***************************************************************************)
THEOREM OrderGoesForward == Spec => []ForwardOrder
<1>1. GInv => ForwardOrder
  BY DEF GInv
<1>. QED
  BY Invariance, <1>1, PTL

(***************************************************************************)
(* If every known id were in the line, the line, which holds no id twice,   *)
(* would be as long as the list of nodes.                                   *)
(***************************************************************************)
LEMMA FullLine ==
  ASSUME GInv, Sorting, \A n \in known : InLine(n)
  PROVE  Len(line) = Len(decl.nodes)
<1> DEFINE N == Len(decl.nodes)
           L == Len(line)
           name == [k \in 1 .. N |-> decl.nodes[k].id]
           place == [k \in 1 .. L |-> line[k]]
<1>1. N \in Nat /\ L \in Nat /\ known = Ids(N) /\ Distinct(N)
  BY DeclType DEF GInv, KnownIds
<1>2. IsFiniteSet(1 .. N) /\ Cardinality(1 .. N) = N /\ IsFiniteSet(1 .. L)
      /\ Cardinality(1 .. L) = L
  <2>1. ASSUME NEW m \in Nat
        PROVE  IsFiniteSet(1 .. m) /\ Cardinality(1 .. m) = m
    BY FS_Interval
  <2> HIDE DEF N, L
  <2>. QED
    BY <1>1, <2>1
<1>3. name \in Bijection(1 .. N, known)
  <2>1. name \in Surjection(1 .. N, known)
    BY <1>1 DEF Ids, Surjection
  <2>2. name \in Injection(1 .. N, known)
    BY <1>1 DEF Ids, Distinct, Injection, IsInjective
  <2>. QED
    BY <2>1, <2>2 DEF Bijection
<1>4. place \in Bijection(1 .. L, known)
  <2>1. \A k \in 1 .. L : line[k] \in known
    <3>. SUFFICES ASSUME NEW k \in 1 .. L PROVE line[k] \in known
      OBVIOUS
    <3>1. line[k] \in Id
      BY DEF GInv, GraphTypeOK
    <3>. QED
      BY <3>1 DEF GInv, Queued, InLine
  <2>2. place \in Surjection(1 .. L, known)
    BY <2>1 DEF InLine, Surjection
  <2>3. place \in Injection(1 .. L, known)
    BY <2>1 DEF GInv, ForwardOrder, Injection, IsInjective
  <2>. QED
    BY <2>2, <2>3 DEF Bijection
<1>5. Cardinality(known) = N
  BY <1>2, <1>3, FS_Bijection DEF ExistsBijection
<1>6. Cardinality(known) = L
  BY <1>2, <1>4, FS_Bijection DEF ExistsBijection
<1>. QED
  BY <1>5, <1>6

(***************************************************************************)
(* For every graph: buildGraph reports a cycle only if there is one, and    *)
(* finds it among the ids it names.                                         *)
(***************************************************************************)
THEOREM CycleIsReal == Spec => []RefusedOnlyForCycle
<1>1. ASSUME GInv PROVE RefusedOnlyForCycle
  <2>. SUFFICES ASSUME refusal = "cycle" PROVE RefusedOnlyForCycle
    BY DEF RefusedOnlyForCycle
  <2>1. Sorting /\ popped = Len(line) /\ Unrelaxed = {} /\ Len(line) # Len(decl.nodes)
    BY <1>1 DEF GInv, Refusal, Sorting
  <2>2. (\A n \in Id : Counts(n, Edges \ relaxed)) /\ EndsKnown(Len(decl.edges))
        /\ \A n \in Id : InLine(n) <=> n \in known /\ indegree[n] = 0
    BY <1>1, <2>1 DEF GInv, Counted, KnownEnds, Queued
  <2>3. known \subseteq Id /\ indegree \in [Id -> Nat]
    BY <1>1 DEF GInv, GraphTypeOK
  <2>4. \A j \in 1 .. Len(line) : Outgoing(line[j]) \subseteq relaxed
    BY <1>1, <2>1, DeclType DEF GInv, Relaxation, Unrelaxed
  <2>5. Cyclic # {}
    BY <1>1, <2>1, <2>2, <2>3, FullLine DEF Cyclic
  <2>6. ASSUME NEW n \in Cyclic
        PROVE  \E e \in Incoming(n) : From(e) \in Cyclic
    <3>1. n \in Id /\ indegree[n] > 0
      BY <2>3 DEF Cyclic
    <3>2. Incoming(n) \cap (Edges \ relaxed) # {}
      BY <2>2, <3>1, FS_EmptySet DEF Counts
    <3>3. PICK e \in Incoming(n) : e \in Edges /\ e \notin relaxed
      BY <3>2
    <3>4. From(e) \in known
      BY <2>2, <3>3 DEF EndsKnown, Edges
    <3>5. ~ InLine(From(e))
      BY <2>4, <3>3 DEF InLine, Outgoing
    <3>. QED
      BY <2>2, <2>3, <3>4, <3>5 DEF Cyclic
  <2>. QED
    BY <2>5, <2>6 DEF RefusedOnlyForCycle
<1>. QED
  BY Invariance, <1>1, PTL

-----------------------------------------------------------------------------
(***************************************************************************)
(* Propagation.  Beside the graph's invariant it needs where it is, and     *)
(* that the order it follows is of all nodes.                               *)
(***************************************************************************)
Whole == popped = Len(line) /\ popped = Len(decl.nodes)
FInv ==
  /\ at \in 0 .. popped
  /\ pc = "ordered" => Whole
  /\ pc # "ordered" => at = 0
  /\ demand = [n \in Id |-> demand[n]]

LEMMA FlowKeeps ==
  ASSUME GInv, FInv, [Next]_allvars
  PROVE  FInv'
<1>1. popped \in Nat
  BY DeclType DEF GInv, GraphTypeOK
<1>2. CASE Build /\ UNCHANGED flow
  <2>1. pc # "ordered" /\ at = 0
    BY <1>2 DEF FInv, Build, ResolveTraffic, GroupIDs, AddNode, NodesAdded, AddEdge, EdgesAdded,
       StartQueue, Relax, Pop, Sorted
  <2>2. popped' \in Nat
    BY <1>2, BuildKeeps DEF GInv, GraphTypeOK
  <2>3. pc' = "ordered" => Whole'
    <3>1. CASE Sorted
      BY <3>1 DEF Sorted, Goto, Refuse, Whole
    <3>2. CASE ~ Sorted
      BY <1>2, <2>1, <3>2 DEF Build, ResolveTraffic, GroupIDs, AddNode, NodesAdded, AddEdge, EdgesAdded,
         StartQueue, Relax, Pop, Goto, Refuse
    <3>. QED
      BY <3>1, <3>2
  <2>. QED
    BY <1>2, <2>1, <2>2, <2>3 DEF FInv, flow
<1>3. CASE Take
  BY <1>1, <1>3 DEF FInv, Take, vars, Whole
<1>4. CASE Push
  BY <1>4 DEF FInv, Push, vars, Whole
<1>5. CASE UNCHANGED allvars
  BY <1>5 DEF FInv, allvars, vars, flow, Whole
<1>. QED
  BY <1>2, <1>3, <1>4, <1>5 DEF Next, Return

LEMMA FlowInvariance == Spec => [](GInv /\ FInv)
<1>1. Init /\ FlowInit => FInv
  BY DEF Init, FlowInit, FInv
<1>2. GInv /\ FInv /\ [Next]_allvars => (GInv /\ FInv)'
  BY StepKeeps, FlowKeeps
<1>. QED
  BY InitGInv, <1>1, <1>2, PTL DEF Spec, Begin

(***************************************************************************)
(* An order as long as the list of nodes has every one of them.             *)
(***************************************************************************)
LEMMA AllInLine ==
  ASSUME GInv, FInv, pc = "ordered", NEW n \in known
  PROVE  n \in Id /\ InLine(n)
<1> DEFINE N == Len(decl.nodes)
           rest_ == known \ {n}
           name == [k \in 1 .. N |-> decl.nodes[k].id]
           place == [k \in 1 .. N |-> line[k]]
<1>1. N \in Nat /\ Len(line) = N /\ known = Ids(N) /\ Distinct(N) /\ n \in Id
  BY DeclType DEF GInv, FInv, Whole, KnownIds, Sorting, GraphTypeOK
<1>2. IsFiniteSet(1 .. N) /\ Cardinality(1 .. N) = N
  <2> HIDE DEF N
  <2>. QED
    BY <1>1, FS_Interval
<1>3. name \in Bijection(1 .. N, known)
  <2>1. name \in Surjection(1 .. N, known)
    BY <1>1 DEF Ids, Surjection
  <2>2. name \in Injection(1 .. N, known)
    BY <1>1 DEF Ids, Distinct, Injection, IsInjective
  <2>. QED
    BY <2>1, <2>2 DEF Bijection
<1>4. IsFiniteSet(known) /\ Cardinality(known) = N
  BY <1>2, <1>3, FS_Bijection DEF ExistsBijection
<1>5. IsFiniteSet(rest_) /\ Cardinality(rest_) < N
  <2>1. IsFiniteSet(rest_) /\ Cardinality(rest_) = N - 1
    BY <1>1, <1>4, FS_RemoveElement
  <2> HIDE DEF rest_, N
  <2>. QED
    BY <1>1, <2>1
<1>6. ASSUME ~ InLine(n) PROVE FALSE
  <2>1. \A k \in 1 .. N : line[k] \in rest_
    <3>. SUFFICES ASSUME NEW k \in 1 .. N PROVE line[k] \in known /\ line[k] # n
      OBVIOUS
    <3>1. line[k] \in Id /\ InLine(line[k])
      BY <1>1 DEF GInv, GraphTypeOK, InLine
    <3>. QED
      BY <1>6, <3>1 DEF GInv, Queued, Sorting
  <2>2. place \in Injection(1 .. N, rest_)
    BY <1>1, <2>1 DEF GInv, ForwardOrder, Injection, IsInjective
  <2>3. Cardinality(1 .. N) <= Cardinality(rest_)
    BY <1>2, <1>5, <2>2, FS_Injection DEF ExistsInjection
  <2>. QED
    BY <1>1, <1>2, <1>5, <2>3, FS_CardinalityType
<1>. QED
  BY <1>1, <1>6

(***************************************************************************)
(* The node that propagate takes next has every feeder behind it, and it is *)
(* not behind itself.                                                       *)
(***************************************************************************)
LEMMA Behind ==
  ASSUME GInv, FInv, NEW k \in 1 .. popped
  PROVE  /\ k \in 1 .. Len(line) /\ line[k] \in Id
         /\ \A j \in 1 .. k - 1 : line[j] # line[k]
         /\ \A e \in Edges : To(e) = line[k] => \E j \in 1 .. k - 1 : line[j] = From(e)
<1>1. popped \in Nat /\ Len(line) \in Nat /\ popped <= Len(line)
  BY DeclType DEF GInv, GraphTypeOK
<1>2. k \in 1 .. Len(line) /\ line[k] \in Id
  BY <1>1 DEF GInv, GraphTypeOK
<1>. QED
  BY <1>1, <1>2 DEF GInv, ForwardOrder, Incoming

(***************************************************************************)
(* For every declaration: a node's demand never changes once it was taken   *)
(* to be passed on.                                                         *)
(***************************************************************************)
THEOREM DemandIsComplete == Spec => DemandComplete
<1>1. ASSUME GInv, FInv, [Next]_allvars
      PROVE  [\A j \in 1 .. at : demand'[line[j]] = demand[line[j]]]_allvars
  <2>. SUFFICES ASSUME NEW j \in 1 .. at, Take \/ Push
                PROVE  demand'[line[j]] = demand[line[j]]
    BY <1>1 DEF Next, Return, flow
  <2>1. at \in Nat /\ popped \in Nat /\ at <= popped /\ j \in 1 .. popped
    BY <1>1, DeclType DEF GInv, GraphTypeOK, FInv
  <2>2. line[j] \in Id
    BY <1>1, <2>1, Behind
  <2>3. CASE Take
    <3>1. at + 1 \in 1 .. popped /\ j \in 1 .. (at + 1) - 1
      BY <2>1, <2>3 DEF Take
    <3>2. line[j] # line[at + 1]
      BY <1>1, <3>1, Behind
    <3>3. demand' = [demand EXCEPT ![line[at + 1]] = Owned(line[at + 1])]
      BY <2>3 DEF Take
    <3>. QED
      BY <1>1, <2>2, <3>2, <3>3 DEF FInv
  <2>4. CASE Push
    <3>1. PICK e \in Unpushed : demand' = [demand EXCEPT ![To(e)] =
                                  [k \in Kind |-> AddLoad(@[k], Carried(e, k))]]
      BY <2>4 DEF Push
    <3>2. e \in Edges /\ From(e) = line[at] /\ at \in 1 .. popped
      BY <2>1, <3>1 DEF Unpushed, Outgoing
    <3>3. ASSUME To(e) = line[j] PROVE FALSE
      <4>1. PICK m \in 1 .. j - 1 : line[m] = line[at]
        BY <1>1, <2>1, <3>2, <3>3, Behind
      <4>2. m \in 1 .. at - 1
        BY <2>1, <4>1
      <4>. QED
        BY <1>1, <3>2, <4>1, <4>2, Behind
    <3>. QED
      BY <1>1, <2>2, <3>1, <3>3 DEF FInv
  <2>. QED
    BY <2>3, <2>4
<1>. QED
  BY FlowInvariance, <1>1, PTL DEF DemandComplete, Spec, Begin

(***************************************************************************)
(* For every declaration: propagate settles nodes as Settling allows, each  *)
(* after all that feed it.                                                  *)
(***************************************************************************)
THEOREM PropagationSettles == Spec => Settles
<1> DEFINE settled == {line[j] : j \in 1 .. at}
<1>1. Init /\ FlowInit => Abstract!SInit
  BY DEF FlowInit, Abstract!SInit
<1>2. ASSUME GInv, FInv, [Next]_allvars
      PROVE  [Abstract!SNext]_<<Feeds, settled>>
  <2>1. CASE Build /\ UNCHANGED flow
    <3>1. at = 0 /\ at' = 0
      BY <1>2, <2>1 DEF FInv, flow, Build, ResolveTraffic, GroupIDs, AddNode, NodesAdded, AddEdge,
         EdgesAdded, StartQueue, Relax, Pop, Sorted
    <3>2. decl'.edges = decl.edges
      <4>1. CASE ResolveTraffic
        BY <1>2, <4>1, DeclType DEF GInv, ResolveTraffic, Refuse
      <4>2. CASE ~ ResolveTraffic
        BY <2>1, <4>2 DEF Build, GroupIDs, AddNode, NodesAdded, AddEdge, EdgesAdded,
           StartQueue, Relax, Pop, Sorted, Refuse, Goto
      <4>. QED
        BY <4>1, <4>2
    <3>. QED
      BY <3>1, <3>2 DEF Feeds, Edges, From, To
  <2>2. CASE Take
    <3>1. at' = at + 1 /\ line' = line /\ decl' = decl /\ at + 1 \in 1 .. popped /\ at \in Nat
      BY <1>2, <2>2, DeclType DEF Take, vars, FInv, GInv, GraphTypeOK
    <3>2. line[at + 1] \in Id /\ line[at + 1] \notin settled
      BY <1>2, <3>1, Behind
    <3>3. \A m \in Id : <<m, line[at + 1]>> \in Feeds => m \in settled
      <4>. SUFFICES ASSUME NEW e \in Edges, To(e) = line[at + 1] PROVE From(e) \in settled
        BY DEF Feeds
      <4>. QED
        BY <1>2, <3>1, Behind
    <3>4. settled' = settled \cup {line[at + 1]}
      BY <3>1
    <3>5. Feeds' = Feeds
      BY <3>1 DEF Feeds, Edges, From, To
    <3>6. Abstract!Settle(line[at + 1])
      BY <3>2, <3>3, <3>4, <3>5 DEF Abstract!Settle, Abstract!Feeders
    <3>. QED
      BY <3>2, <3>6 DEF Abstract!SNext, Abstract!Settle
  <2>3. CASE Push \/ UNCHANGED allvars
    BY <2>3 DEF Push, allvars, vars, flow, Feeds, Edges, From, To
  <2>. QED
    BY <1>2, <2>1, <2>2, <2>3 DEF Next, Return
<1>. QED
  BY FlowInvariance, <1>1, <1>2, PTL DEF Settles, Abstract!SSpec, Spec, Begin
=============================================================================
