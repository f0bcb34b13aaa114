----------------------------- MODULE MergeProofs -----------------------------
(***************************************************************************)
(* Merge, for every reading of Terraform, every declaration people may      *)
(* start from, any number of imports and edits: what people wrote is kept,  *)
(* the declaration stays one the engine takes, addresses are recorded, live *)
(* or stale as Ledger promises, and merging a reading twice is merging it   *)
(* once.                                                                    *)
(***************************************************************************)
EXTENDS Merge, LibraryProofs, TLAPS

(***************************************************************************)
(* Types, and what may be said of the declaration a merge began with.       *)
(***************************************************************************)
TypeOK ==
  /\ spec \in Declarations /\ existing \in Declarations
  /\ fresh \in Fresh \cup {None}
  /\ pc \in {"idle", "groups", "nodes", "stale", "edges"}
  /\ i \in Nat \ {0}
  /\ seen \subseteq Places(existing.nodes)
  /\ rename \in [DOMAIN rename -> Id] /\ DOMAIN rename \subseteq Id
  /\ groupID \in [DOMAIN groupID -> Id \cup {None}]
  /\ leftOut \subseteq Id
  /\ again \in BOOLEAN
  /\ merges \in Nat /\ edits \in Nat

Base ==
  /\ TypeOK
  /\ Merging => fresh # None
  /\ PeopleKept

(***************************************************************************)
(* How far a merge is: the fresh nodes and edges its loops are past.        *)
(***************************************************************************)
Folded ==
  IF pc = "groups" THEN {}
  ELSE IF pc = "nodes" THEN {j \in Places(fresh.nodes) : j < i} ELSE Places(fresh.nodes)
Passed ==
  IF pc = "edges" THEN {k \in Places(fresh.edges) : k < i}
  ELSE IF Merged THEN Places(fresh.edges) ELSE {}

\* A node the merge added has an address that it was given by a fresh node, or none.
Newcomers ==
  \A k \in Places(spec.nodes) :
    k > Len(existing.nodes) /\ spec.nodes[k].address # None
      => \E j \in Folded : fresh.nodes[j].address = spec.nodes[k].address

\* Of the nodes people had, those that Terraform still declares are seen.
SeenSoFar ==
  \A k \in Places(existing.nodes) :
    existing.nodes[k].address # None =>
      (k \in seen <=> \E j \in Folded : fresh.nodes[j].address = existing.nodes[k].address)

\* What Terraform declares has a node that is not stale.
Brought == \A j \in Folded : fresh.nodes[j].address # None => fresh.nodes[j].address \in Live

\* A fresh node became one that is there, or was left out.
Settled ==
  /\ \A x \in DOMAIN rename : rename[x] \in Ids(spec.nodes)
  /\ \A j \in Folded : fresh.nodes[j].id \in leftOut \cup DOMAIN rename

GroupsFound == \A g \in DOMAIN groupID : groupID[g] = None \/ GroupTaken(groupID[g])

EdgesDrawn ==
  \A k \in Passed :
    LET e == fresh.edges[k]
    IN  e.from \in leftOut \/ e.to \in leftOut \/ (Named(e) /\ Drawn(rename[e.from], rename[e.to]))

Midway == Newcomers /\ SeenSoFar /\ Brought /\ Settled /\ GroupsFound
Sound ==
  /\ Accepted(spec)
  /\ Merging => Midway
  /\ pc = "edges" => Live = Addresses(fresh.nodes)
  /\ EdgesDrawn

IInv == Base /\ Sound

-----------------------------------------------------------------------------
(***************************************************************************)
(* What updateNode does to one node: its type and what Terraform owns       *)
(* change, its id and address do not, and nothing people gave is lost.      *)
(***************************************************************************)
LEMMA FreshTyped ==
  ASSUME fresh \in Fresh
  PROVE  fresh \in Declarations
BY FreshAssumption

LEMMA FinalTyped ==
  ASSUME TypeOK, NEW g
  PROVE  Final(g) \in Id \cup {None}
BY DEF TypeOK, Final

LEMMA UpdatedNode ==
  ASSUME TypeOK, NEW n \in Nodes, NEW f \in Nodes
  PROVE  /\ Updated(n, f) \in Nodes
         /\ Updated(n, f).id = n.id /\ Updated(n, f).address = n.address
         /\ Updated(n, f).stale = FALSE
         /\ Updated(n, f).group = Final(f.group)
         /\ n.answer # None => Updated(n, f).answer = n.answer
         /\ n.load # None => Updated(n, f).load = n.load
         /\ n.traffic \notin Schedules \cup {None} => Updated(n, f).traffic = n.traffic
<1>1. Final(f.group) \in Id \cup {None}
  BY FinalTyped
<1>2. Instances(n.instances, f.instances) \in Int
  BY DEF Instances, Nodes
<1> DEFINE load == IF n.load = None THEN f.load ELSE n.load
           loaded == [n EXCEPT !.load = load]
           traffic == IF Follows(loaded, f) THEN f.traffic ELSE n.traffic
           answer == IF n.answer = None THEN f.answer ELSE n.answer
<1>3. load \in Value /\ answer \in Value /\ traffic \in Value
  BY DEF Nodes
<1>4. n.traffic \notin Schedules \cup {None} => traffic = n.traffic
  <2>1. loaded.traffic = n.traffic
    BY DEF Nodes
  <2> QED BY <2>1 DEF Follows
<1>5. Updated(n, f) =
        [n EXCEPT !.type = f.type, !.stale = FALSE, !.group = Final(f.group),
                  !.instances = Instances(n.instances, f.instances),
                  !.answer = answer, !.load = load, !.traffic = traffic]
  BY DEF Updated
<1> HIDE DEF load, traffic, answer
<1> SUFFICES /\ Updated(n, f) \in Nodes
             /\ Updated(n, f).id = n.id /\ Updated(n, f).address = n.address
             /\ Updated(n, f).stale = FALSE
             /\ Updated(n, f).group = Final(f.group)
             /\ Updated(n, f).answer = answer
             /\ Updated(n, f).load = load
             /\ Updated(n, f).traffic = traffic
  BY <1>4 DEF load, answer
<1> QED BY <1>1, <1>2, <1>3, <1>5 DEF Nodes

-----------------------------------------------------------------------------
(***************************************************************************)
(* The steps of a declaration, each as what it leaves of the one before.    *)
(***************************************************************************)
LEMMA Fields ==
  ASSUME NEW s \in Declarations
  PROVE  /\ s.nodes \in Seq(Nodes) /\ s.groups \in Seq(Groups) /\ s.edges \in Seq(Edges)
         /\ Len(s.nodes) \in Nat /\ Len(s.groups) \in Nat /\ Len(s.edges) \in Nat
         /\ \A k \in Places(s.nodes) : s.nodes[k] \in Nodes
         /\ \A k \in Places(s.groups) : s.groups[k] \in Groups
         /\ \A k \in Places(s.edges) : s.edges[k] \in Edges
BY DEF Declarations, Places

\* t is s with n at the end of its nodes.
NodeAppended(s, t, n) ==
  /\ t \in Declarations
  /\ Len(t.nodes) = Len(s.nodes) + 1
  /\ \A k \in Places(s.nodes) : t.nodes[k] = s.nodes[k]
  /\ t.nodes[Len(s.nodes) + 1] = n
  /\ t.groups = s.groups /\ t.edges = s.edges

LEMMA AppendNode ==
  ASSUME NEW s \in Declarations, NEW n \in Nodes
  PROVE  NodeAppended(s, [s EXCEPT !.nodes = Append(@, n)], n)
<1> DEFINE t == [s EXCEPT !.nodes = Append(s.nodes, n)]
<1>1. s.nodes \in Seq(Nodes)
  BY Fields
<1>2. /\ Append(s.nodes, n) \in Seq(Nodes)
      /\ Len(Append(s.nodes, n)) = Len(s.nodes) + 1
      /\ \A k \in 1 .. Len(s.nodes) : Append(s.nodes, n)[k] = s.nodes[k]
      /\ Append(s.nodes, n)[Len(s.nodes) + 1] = n
  BY <1>1, AppendProperties
<1>3. /\ t \in Declarations /\ t.nodes = Append(s.nodes, n)
      /\ t.groups = s.groups /\ t.edges = s.edges
  BY <1>2 DEF Declarations
<1> QED BY <1>2, <1>3 DEF NodeAppended, Places

\* t is s with n for its node at k.
NodeReplaced(s, t, k, n) ==
  /\ t \in Declarations
  /\ Len(t.nodes) = Len(s.nodes)
  /\ \A j \in Places(s.nodes) : t.nodes[j] = IF j = k THEN n ELSE s.nodes[j]
  /\ t.groups = s.groups /\ t.edges = s.edges

LEMMA ReplaceNode ==
  ASSUME NEW s \in Declarations, NEW k \in Places(s.nodes), NEW n \in Nodes
  PROVE  NodeReplaced(s, [s EXCEPT !.nodes = [@ EXCEPT ![k] = n]], k, n)
<1> DEFINE t == [s EXCEPT !.nodes = [s.nodes EXCEPT ![k] = n]]
<1>1. s.nodes \in Seq(Nodes)
  BY Fields
<1>2. /\ [s.nodes EXCEPT ![k] = n] \in Seq(Nodes)
      /\ Len([s.nodes EXCEPT ![k] = n]) = Len(s.nodes)
      /\ \A j \in 1 .. Len(s.nodes) :
           [s.nodes EXCEPT ![k] = n][j] = IF j = k THEN n ELSE s.nodes[j]
  BY <1>1, ExceptSeq DEF Places
<1>3. /\ t \in Declarations /\ t.nodes = [s.nodes EXCEPT ![k] = n]
      /\ t.groups = s.groups /\ t.edges = s.edges
  BY <1>2 DEF Declarations
<1> QED BY <1>2, <1>3 DEF NodeReplaced, Places

\* t is s with e at the end of its edges.
EdgeAppended(s, t, e) ==
  /\ t \in Declarations
  /\ Len(t.edges) = Len(s.edges) + 1
  /\ \A k \in Places(s.edges) : t.edges[k] = s.edges[k]
  /\ t.edges[Len(s.edges) + 1] = e
  /\ t.groups = s.groups /\ t.nodes = s.nodes

LEMMA AppendEdge ==
  ASSUME NEW s \in Declarations, NEW e \in Edges
  PROVE  EdgeAppended(s, [s EXCEPT !.edges = Append(@, e)], e)
<1> DEFINE t == [s EXCEPT !.edges = Append(s.edges, e)]
<1>1. s.edges \in Seq(Edges)
  BY Fields
<1>2. /\ Append(s.edges, e) \in Seq(Edges)
      /\ Len(Append(s.edges, e)) = Len(s.edges) + 1
      /\ \A k \in 1 .. Len(s.edges) : Append(s.edges, e)[k] = s.edges[k]
      /\ Append(s.edges, e)[Len(s.edges) + 1] = e
  BY <1>1, AppendProperties
<1>3. /\ t \in Declarations /\ t.edges = Append(s.edges, e)
      /\ t.groups = s.groups /\ t.nodes = s.nodes
  BY <1>2 DEF Declarations
<1> QED BY <1>2, <1>3 DEF EdgeAppended, Places

\* t is s with g at the end of its groups.
GroupAppended(s, t, g) ==
  /\ t \in Declarations
  /\ Len(t.groups) = Len(s.groups) + 1
  /\ \A k \in Places(s.groups) : t.groups[k] = s.groups[k]
  /\ t.groups[Len(s.groups) + 1] = g
  /\ t.nodes = s.nodes /\ t.edges = s.edges

LEMMA AppendGroup ==
  ASSUME NEW s \in Declarations, NEW g \in Groups
  PROVE  GroupAppended(s, [s EXCEPT !.groups = Append(@, g)], g)
<1> DEFINE t == [s EXCEPT !.groups = Append(s.groups, g)]
<1>1. s.groups \in Seq(Groups)
  BY Fields
<1>2. /\ Append(s.groups, g) \in Seq(Groups)
      /\ Len(Append(s.groups, g)) = Len(s.groups) + 1
      /\ \A k \in 1 .. Len(s.groups) : Append(s.groups, g)[k] = s.groups[k]
      /\ Append(s.groups, g)[Len(s.groups) + 1] = g
  BY <1>1, AppendProperties
<1>3. /\ t \in Declarations /\ t.groups = Append(s.groups, g)
      /\ t.nodes = s.nodes /\ t.edges = s.edges
  BY <1>2 DEF Declarations
<1> QED BY <1>2, <1>3 DEF GroupAppended, Places

-----------------------------------------------------------------------------
(***************************************************************************)
(* What each action that changes the declaration does to it.                *)
(***************************************************************************)
LEMMA WhileMerging ==
  ASSUME Base, Merging
  PROVE  fresh \in Fresh /\ fresh \in Declarations
BY FreshTyped DEF Base, TypeOK

LEMMA NodeTyped ==
  ASSUME Base, pc = "nodes", i <= Len(fresh.nodes)
  PROVE  /\ fresh \in Fresh /\ fresh \in Declarations
         /\ i \in Places(fresh.nodes) /\ Node \in Nodes
         /\ ~ Node.stale /\ (Node.address = None => Node.group = None)
<1>1. fresh \in Fresh /\ fresh \in Declarations
  BY WhileMerging DEF Merging
<1>2. i \in Places(fresh.nodes)
  BY <1>1, Fields DEF Base, TypeOK, Places
<1>3. fresh.nodes[i] \in Nodes
  BY <1>1, <1>2, Fields
<1>4. ~ fresh.nodes[i].stale /\ (fresh.nodes[i].address = None => fresh.nodes[i].group = None)
  BY <1>1, <1>2, FreshAssumption
<1> QED BY <1>1, <1>2, <1>3, <1>4 DEF Node

LEMMA BeginStep ==
  ASSUME Base, Begin
  PROVE  /\ fresh' \in Fresh /\ spec' \in Declarations
         /\ spec'.nodes = spec.nodes /\ spec'.groups = spec.groups /\ spec'.edges = spec.edges
<1>1. fresh' \in Fresh /\ fresh' \in Declarations
  BY FreshAssumption DEF Begin
<1>2. spec \in Declarations
  BY DEF Base, TypeOK
<1>3. spec' = [spec EXCEPT !.region = IF spec.region = None THEN fresh'.region ELSE spec.region]
  BY DEF Begin
<1> QED BY <1>1, <1>2, <1>3 DEF Declarations

LEMMA GroupStep ==
  ASSUME Base, MergeGroup
  PROVE  \E id \in Id :
           /\ groupID' = Set(groupID, fresh.groups[i].id, id)
           /\ \/ UNCHANGED spec /\ GroupTaken(id)
              \/ ~ GroupTaken(id) /\ \E g \in Groups : g.id = id /\ GroupAppended(spec, spec', g)
<1> DEFINE g == fresh.groups[i]
<1>1. fresh \in Fresh /\ fresh \in Declarations
  BY WhileMerging DEF Merging, MergeGroup
<1>2. i \in Places(fresh.groups) /\ g \in Groups
  <2>1. i \in Places(fresh.groups)
    BY <1>1, Fields DEF Base, TypeOK, Places, MergeGroup
  <2> QED BY <1>1, <2>1, Fields
<1>3. spec \in Declarations
  BY DEF Base, TypeOK
<1>4. CASE \E k \in SameGroup(g) :
             groupID' = Set(groupID, g.id, spec.groups[k].id) /\ UNCHANGED spec
  <2>1. PICK k \in SameGroup(g) :
               groupID' = Set(groupID, g.id, spec.groups[k].id) /\ UNCHANGED spec
    BY <1>4
  <2>2. k \in Places(spec.groups)
    BY DEF SameGroup
  <2>3. spec.groups[k].id \in Id
    BY <1>3, <2>2, Fields DEF Groups
  <2> QED BY <2>1, <2>2, <2>3 DEF GroupTaken, GroupNamed
<1>5. CASE \E n \in 1 .. MaxNumber :
             /\ ~ GroupTaken(Numbered(g.id, n))
             /\ spec' = [spec EXCEPT !.groups = Append(@, [g EXCEPT !.id = Numbered(g.id, n)])]
             /\ groupID' = Set(groupID, g.id, Numbered(g.id, n))
  <2>1. PICK n \in 1 .. MaxNumber :
             /\ ~ GroupTaken(Numbered(g.id, n))
             /\ spec' = [spec EXCEPT !.groups = Append(@, [g EXCEPT !.id = Numbered(g.id, n)])]
             /\ groupID' = Set(groupID, g.id, Numbered(g.id, n))
    BY <1>5
  <2> DEFINE id == Numbered(g.id, n)
             h == [g EXCEPT !.id = id]
  <2>2. id \in Id
    BY <1>1, <1>2, FreshAssumption
  <2> HIDE DEF id
  <2>3. h \in Groups /\ h.id = id
    BY <1>2, <2>2 DEF Groups
  <2> HIDE DEF h
  <2>4. GroupAppended(spec, [spec EXCEPT !.groups = Append(@, h)], h)
    BY <1>3, <2>3, AppendGroup
  <2>5. GroupAppended(spec, spec', h)
    BY <2>1, <2>4 DEF h, id
  <2>6. groupID' = Set(groupID, g.id, id) /\ ~ GroupTaken(id)
    BY <2>1 DEF id
  <2> QED BY <2>2, <2>3, <2>5, <2>6
<1> QED BY <1>4, <1>5 DEF MergeGroup

\* What AddNew appends: the fresh node under its free id, in the group's final id.
LEMMA NewStep ==
  ASSUME Base, AddNew
  PROVE  \E n \in Nodes :
           /\ n.id \notin Ids(spec.nodes) /\ n.address = Node.address /\ n.stale = FALSE
           /\ n.group = Final(Node.group)
           /\ n = [Node EXCEPT !.id = n.id, !.group = n.group]
           /\ NodeAppended(spec, spec', n)
           /\ rename' = Set(rename, Node.id, n.id)
<1>1. /\ fresh \in Fresh /\ i \in Places(fresh.nodes) /\ Node \in Nodes /\ ~ Node.stale
  BY NodeTyped DEF AddNew
<1>2. PICK m \in 1 .. MaxNumber :
             /\ Numbered(Node.id, m) \notin Ids(spec.nodes)
             /\ spec' = [spec EXCEPT !.nodes =
                  Append(@, [Node EXCEPT !.id = Numbered(Node.id, m), !.group = Final(@)])]
             /\ rename' = Set(rename, Node.id, Numbered(Node.id, m))
  BY DEF AddNew
<1> DEFINE id == Numbered(Node.id, m)
           n == [Node EXCEPT !.id = id, !.group = Final(Node.group)]
<1>3. id \in Id
  BY <1>1, FreshAssumption DEF Node
<1>4. Final(Node.group) \in Id \cup {None}
  BY FinalTyped DEF Base
<1> HIDE DEF id
<1>5. /\ n \in Nodes /\ n.id = id /\ n.address = Node.address /\ n.stale = FALSE
      /\ n.group = Final(Node.group)
  BY <1>1, <1>3, <1>4 DEF Nodes
<1>6. n = [Node EXCEPT !.id = n.id, !.group = n.group]
  BY <1>1, <1>5 DEF Nodes
<1>7. spec' = [spec EXCEPT !.nodes = Append(@, n)]
  <2>1. [Node EXCEPT !.id = id, !.group = Final(@)] = n
    BY <1>1 DEF Nodes
  <2> QED BY <1>2, <2>1 DEF id
<1> HIDE DEF n
<1>8. NodeAppended(spec, spec', n)
  BY <1>5, <1>7, AppendNode DEF Base, TypeOK
<1> QED BY <1>2, <1>5, <1>6, <1>8 DEF id

LEMMA GeneratedStep ==
  ASSUME Base, AddGenerated
  PROVE  /\ Node \in Nodes /\ Node.group = None /\ Node.address = None
         /\ rename' = Set(rename, Node.id, Node.id)
         /\ \/ Node.id \in Ids(spec.nodes) /\ UNCHANGED spec
            \/ Node.id \notin Ids(spec.nodes) /\ NodeAppended(spec, spec', Node)
<1>1. Node \in Nodes /\ Node.address = None /\ Node.group = None
  BY NodeTyped DEF AddGenerated
<1>2. NodeAppended(spec, [spec EXCEPT !.nodes = Append(@, Node)], Node)
  BY <1>1, AppendNode DEF Base, TypeOK
<1> QED BY <1>1, <1>2 DEF AddGenerated

LEMMA KnownStep ==
  ASSUME Base, MergeKnown
  PROVE  \E k \in Places(existing.nodes) :
           /\ k \in Places(spec.nodes) /\ k \in Found(Node)
           /\ Node \in Nodes /\ Node.address # None
           /\ existing.nodes[k].address = Node.address
           /\ spec.nodes[k] \in Nodes
           /\ NodeReplaced(spec, spec', k, Updated(spec.nodes[k], Node))
           /\ seen' = seen \cup {k}
           /\ rename' = Set(rename, Node.id, spec.nodes[k].id)
<1>1. Node \in Nodes /\ Node.address # None
  BY NodeTyped DEF MergeKnown
<1>2. PICK k \in Found(Node) :
             /\ spec' = [spec EXCEPT !.nodes[k] = Updated(@, Node)]
             /\ seen' = seen \cup {k}
             /\ rename' = Set(rename, Node.id, spec.nodes[k].id)
  BY DEF MergeKnown
<1>3. k \in Places(existing.nodes) /\ existing.nodes[k].address = Node.address
  BY DEF Found
<1>4. k \in Places(spec.nodes)
  <2>1. existing \in Declarations /\ spec \in Declarations /\ fresh # None
    BY DEF Base, TypeOK, MergeKnown, Merging
  <2>2. Len(existing.nodes) <= Len(spec.nodes)
    BY <2>1 DEF Base, PeopleKept
  <2> QED BY <1>3, <2>1, <2>2, Fields DEF Places
<1>5. spec \in Declarations /\ spec.nodes[k] \in Nodes
  BY <1>4, Fields DEF Base, TypeOK
<1> DEFINE n == Updated(spec.nodes[k], Node)
<1>6. n \in Nodes
  BY <1>1, <1>5, UpdatedNode DEF Base
<1>7. spec' = [spec EXCEPT !.nodes = [@ EXCEPT ![k] = n]]
  BY <1>2
<1> HIDE DEF n
<1>8. NodeReplaced(spec, spec', k, n)
  BY <1>4, <1>5, <1>6, <1>7, ReplaceNode
<1> QED BY <1>1, <1>2, <1>3, <1>4, <1>5, <1>8 DEF n

LEMMA StaleStep ==
  ASSUME Base, MarkStale
  PROVE  /\ spec' \in Declarations /\ Len(spec'.nodes) = Len(spec.nodes)
         /\ spec'.groups = spec.groups /\ spec'.edges = spec.edges
         /\ \A k \in Places(spec.nodes) :
              spec'.nodes[k] = IF k <= Len(existing.nodes) /\ Gone(k)
                               THEN [spec.nodes[k] EXCEPT !.stale = TRUE] ELSE spec.nodes[k]
<1> DEFINE marked(k) == IF k <= Len(existing.nodes) /\ Gone(k)
                        THEN [spec.nodes[k] EXCEPT !.stale = TRUE] ELSE spec.nodes[k]
           nodes == [k \in Places(spec.nodes) |-> marked(k)]
<1>1. spec \in Declarations /\ Len(spec.nodes) \in Nat
  BY Fields DEF Base, TypeOK
<1>2. \A k \in Places(spec.nodes) : marked(k) \in Nodes
  <2> SUFFICES ASSUME NEW k \in Places(spec.nodes) PROVE marked(k) \in Nodes
    OBVIOUS
  <2>1. spec.nodes[k] \in Nodes
    BY <1>1, Fields
  <2>2. [spec.nodes[k] EXCEPT !.stale = TRUE] \in Nodes
    BY <2>1 DEF Nodes
  <2> QED BY <2>1, <2>2
<1>3. spec' = [spec EXCEPT !.nodes = nodes]
  BY DEF MarkStale
<1> HIDE DEF marked
<1>4. nodes \in [1 .. Len(spec.nodes) -> Nodes]
  BY <1>2 DEF Places
<1>5. nodes \in Seq(Nodes) /\ Len(nodes) = Len(spec.nodes)
  BY <1>1, <1>4, SeqDef, LenProperties
<1>6. \A k \in Places(spec.nodes) : nodes[k] = marked(k)
  OBVIOUS
<1> HIDE DEF nodes
<1>7. /\ spec' \in Declarations /\ spec'.nodes = nodes
      /\ spec'.groups = spec.groups /\ spec'.edges = spec.edges
  BY <1>1, <1>3, <1>5 DEF Declarations
<1> QED BY <1>5, <1>6, <1>7 DEF marked

LEMMA EdgeStep ==
  ASSUME Base, MergeEdge
  PROVE  LET e == fresh.edges[i]
         IN  /\ fresh \in Fresh /\ i \in Places(fresh.edges)
             /\ \/ UNCHANGED spec /\ (Named(e) => Drawn(rename[e.from], rename[e.to]))
                \/ /\ Named(e) /\ ~ Drawn(rename[e.from], rename[e.to])
                   /\ EdgeAppended(spec, spec', [from |-> rename[e.from], to |-> rename[e.to]])
<1> DEFINE e == fresh.edges[i]
           a == [from |-> rename[e.from], to |-> rename[e.to]]
<1>1. fresh \in Fresh /\ fresh \in Declarations
  BY WhileMerging DEF MergeEdge, Merging
<1>2. i \in Places(fresh.edges)
  BY <1>1, Fields DEF Base, TypeOK, MergeEdge, Places
<1>3. CASE Named(e) /\ ~ Drawn(rename[e.from], rename[e.to])
           /\ spec' = [spec EXCEPT !.edges = Append(@, a)]
  <2>1. rename[e.from] \in Id /\ rename[e.to] \in Id
    BY <1>3 DEF Named, Base, TypeOK
  <2>2. a \in Edges
    BY <2>1 DEF Edges
  <2>3. EdgeAppended(spec, [spec EXCEPT !.edges = Append(@, a)], a)
    BY <2>2, AppendEdge DEF Base, TypeOK
  <2> QED BY <1>1, <1>2, <1>3, <2>3
<1>4. CASE (Named(e) => Drawn(rename[e.from], rename[e.to])) /\ UNCHANGED spec
  BY <1>1, <1>2, <1>4
<1> QED BY <1>3, <1>4 DEF MergeEdge

\* t is s with only some of its groups, in their order.
GroupsFiltered(s, t, at) ==
  /\ t \in Declarations /\ t.nodes = s.nodes /\ t.edges = s.edges
  /\ \A r \in Places(t.groups) : Nth(r, at) \in at /\ t.groups[r] = s.groups[Nth(r, at)]
  /\ \A q, r \in Places(t.groups) : Nth(q, at) = Nth(r, at) => q = r
  /\ \A k \in at : \E r \in Places(t.groups) : Nth(r, at) = k

LEMMA FinishStep ==
  ASSUME Base, Finish
  PROVE  GroupsFiltered(spec, spec', Used)
<1> DEFINE kept == Filtered(spec.groups, Used)
<1>1. spec \in Declarations /\ spec.groups \in Seq(Groups)
  BY Fields DEF Base, TypeOK
<1>2. Used \in SUBSET (1 .. Len(spec.groups))
  BY DEF Used, Places
<1>3. /\ kept \in Seq(Groups)
      /\ \A r \in 1 .. Len(kept) : Nth(r, Used) \in Used /\ kept[r] = spec.groups[Nth(r, Used)]
      /\ \A q, r \in 1 .. Len(kept) : Nth(q, Used) = Nth(r, Used) => q = r
      /\ \A k \in Used : \E r \in 1 .. Len(kept) : Nth(r, Used) = k
  BY <1>1, <1>2, FilteredKeeps
<1>4. spec' = [spec EXCEPT !.groups = kept]
  BY DEF Finish
<1> HIDE DEF kept
<1>5. /\ spec' \in Declarations /\ spec'.groups = kept
      /\ spec'.nodes = spec.nodes /\ spec'.edges = spec.edges
  BY <1>1, <1>3, <1>4 DEF Declarations
<1> QED BY <1>3, <1>5 DEF GroupsFiltered, Places

-----------------------------------------------------------------------------
(***************************************************************************)
(* What people's edits do to it.                                            *)
(***************************************************************************)
LEMMA PlaceStep ==
  ASSUME Base, Place
  PROVE  \E n \in Nodes :
           /\ n.id \notin Ids(spec.nodes) /\ n.address = None /\ n.group = None
           /\ NodeAppended(spec, spec', n)
<1>1. PICK n \in HandNodes :
             n.id \notin Ids(spec.nodes) /\ spec' = [spec EXCEPT !.nodes = Append(@, n)]
  BY DEF Place, Edit
<1>2. n \in Nodes /\ n.address = None /\ n.group = None
  BY PeopleAssumption
<1>3. NodeAppended(spec, [spec EXCEPT !.nodes = Append(@, n)], n)
  BY <1>2, AppendNode DEF Base, TypeOK
<1> QED BY <1>1, <1>2, <1>3

LEMMA AnswerStep ==
  ASSUME Base, Answer
  PROVE  \E k \in Places(spec.nodes), n \in Nodes :
           /\ n.id = spec.nodes[k].id /\ n.address = spec.nodes[k].address
           /\ n.group = spec.nodes[k].group /\ n.stale = spec.nodes[k].stale
           /\ NodeReplaced(spec, spec', k, n)
<1>1. PICK k \in Places(spec.nodes) :
        \/ \E n \in HandNodes : spec' = [spec EXCEPT !.nodes[k].answer = n.answer]
        \/ spec' = [spec EXCEPT !.nodes[k] = [@ EXCEPT !.load = "load", !.traffic = None]]
  BY DEF Answer, Edit
<1>2. spec \in Declarations /\ spec.nodes[k] \in Nodes
  BY Fields DEF Base, TypeOK
<1>3. ASSUME NEW n \in HandNodes, spec' = [spec EXCEPT !.nodes[k].answer = n.answer]
      PROVE  \E m \in Nodes :
               /\ m.id = spec.nodes[k].id /\ m.address = spec.nodes[k].address
               /\ m.group = spec.nodes[k].group /\ m.stale = spec.nodes[k].stale
               /\ NodeReplaced(spec, spec', k, m)
  <2> DEFINE m == [spec.nodes[k] EXCEPT !.answer = n.answer]
  <2>1. n \in Nodes
    BY PeopleAssumption
  <2>2. /\ m \in Nodes /\ m.id = spec.nodes[k].id /\ m.address = spec.nodes[k].address
        /\ m.group = spec.nodes[k].group /\ m.stale = spec.nodes[k].stale
    BY <1>2, <2>1 DEF Nodes
  <2>3. spec' = [spec EXCEPT !.nodes = [@ EXCEPT ![k] = m]]
    BY <1>3
  <2> HIDE DEF m
  <2>4. NodeReplaced(spec, spec', k, m)
    BY <1>2, <2>2, <2>3, ReplaceNode
  <2> QED BY <2>2, <2>4
<1>4. ASSUME spec' = [spec EXCEPT !.nodes[k] = [@ EXCEPT !.load = "load", !.traffic = None]]
      PROVE  \E m \in Nodes :
               /\ m.id = spec.nodes[k].id /\ m.address = spec.nodes[k].address
               /\ m.group = spec.nodes[k].group /\ m.stale = spec.nodes[k].stale
               /\ NodeReplaced(spec, spec', k, m)
  <2> DEFINE m == [spec.nodes[k] EXCEPT !.load = "load", !.traffic = None]
  <2>1. /\ m \in Nodes /\ m.id = spec.nodes[k].id /\ m.address = spec.nodes[k].address
        /\ m.group = spec.nodes[k].group /\ m.stale = spec.nodes[k].stale
    BY <1>2, MergeAssumption DEF Nodes
  <2>2. spec' = [spec EXCEPT !.nodes = [@ EXCEPT ![k] = m]]
    BY <1>4
  <2> HIDE DEF m
  <2>3. NodeReplaced(spec, spec', k, m)
    BY <1>2, <2>1, <2>2, ReplaceNode
  <2> QED BY <2>1, <2>3
<1> QED BY <1>1, <1>3, <1>4

LEMMA DrawStep ==
  ASSUME Base, Draw
  PROVE  \E e \in Edges :
           /\ e.from \in Ids(spec.nodes) /\ e.to \in Ids(spec.nodes)
           /\ ~ Drawn(e.from, e.to)
           /\ EdgeAppended(spec, spec', e)
<1>1. PICK j, k \in Places(spec.nodes) :
        /\ ~ Drawn(spec.nodes[j].id, spec.nodes[k].id)
        /\ spec' = [spec EXCEPT !.edges =
                      Append(@, [from |-> spec.nodes[j].id, to |-> spec.nodes[k].id])]
  BY DEF Draw, Edit
<1> DEFINE e == [from |-> spec.nodes[j].id, to |-> spec.nodes[k].id]
<1>2. spec \in Declarations /\ spec.nodes[j] \in Nodes /\ spec.nodes[k] \in Nodes
  BY Fields DEF Base, TypeOK
<1>3. /\ e \in Edges /\ e.from \in Ids(spec.nodes) /\ e.to \in Ids(spec.nodes)
      /\ ~ Drawn(e.from, e.to)
  BY <1>1, <1>2 DEF Edges, Nodes, Ids
<1>4. EdgeAppended(spec, spec', e)
  <2> HIDE DEF e
  <2>1. EdgeAppended(spec, [spec EXCEPT !.edges = Append(@, e)], e)
    BY <1>2, <1>3, AppendEdge
  <2> QED BY <1>1, <2>1 DEF e
<1> QED BY <1>3, <1>4

LEMMA RenameStep ==
  ASSUME Base, Rename
  PROVE  \E k \in Places(spec.nodes), new \in Id \ Ids(spec.nodes) :
           /\ spec' \in Declarations
           /\ Len(spec'.nodes) = Len(spec.nodes) /\ Len(spec'.edges) = Len(spec.edges)
           /\ \A j \in Places(spec.nodes) :
                spec'.nodes[j] = IF j = k THEN [spec.nodes[k] EXCEPT !.id = new] ELSE spec.nodes[j]
           /\ \A j \in Places(spec.edges) :
                spec'.edges[j] = [from |-> Swap(spec.edges[j].from, spec.nodes[k].id, new),
                                  to |-> Swap(spec.edges[j].to, spec.nodes[k].id, new)]
           /\ spec'.groups = spec.groups
<1>1. PICK k \in Places(spec.nodes), new \in Names \ Ids(spec.nodes) :
        spec' = [spec EXCEPT
          !.nodes[k].id = new,
          !.edges = [e \in Places(spec.edges) |->
                       [from |-> Swap(spec.edges[e].from, spec.nodes[k].id, new),
                        to |-> Swap(spec.edges[e].to, spec.nodes[k].id, new)]]]
  BY DEF Rename, Edit
<1> DEFINE old == spec.nodes[k].id
           n == [spec.nodes[k] EXCEPT !.id = new]
           nodes == [spec.nodes EXCEPT ![k] = n]
           swapped(e) == [from |-> Swap(spec.edges[e].from, old, new),
                          to |-> Swap(spec.edges[e].to, old, new)]
           edges == [e \in Places(spec.edges) |-> swapped(e)]
<1>2. new \in Id \ Ids(spec.nodes)
  BY PeopleAssumption
<1>3. /\ spec \in Declarations /\ spec.nodes \in Seq(Nodes) /\ spec.nodes[k] \in Nodes
      /\ Len(spec.edges) \in Nat
  BY Fields DEF Base, TypeOK
<1>4. n \in Nodes
  BY <1>2, <1>3 DEF Nodes
<1>5. \A e \in Places(spec.edges) : swapped(e) \in Edges
  <2> SUFFICES ASSUME NEW e \in Places(spec.edges) PROVE swapped(e) \in Edges
    OBVIOUS
  <2>1. spec.edges[e] \in Edges
    BY <1>3, Fields
  <2> QED BY <1>2, <2>1 DEF Edges, Swap
<1>6. spec' = [spec EXCEPT !.nodes = nodes, !.edges = edges]
  BY <1>1
<1> HIDE DEF n, swapped
<1>7. /\ nodes \in Seq(Nodes) /\ Len(nodes) = Len(spec.nodes)
      /\ \A j \in 1 .. Len(spec.nodes) : nodes[j] = IF j = k THEN n ELSE spec.nodes[j]
  BY <1>3, <1>4, ExceptSeq DEF Places
<1>8. edges \in [1 .. Len(spec.edges) -> Edges]
  BY <1>5 DEF Places
<1>9. edges \in Seq(Edges) /\ Len(edges) = Len(spec.edges)
  BY <1>3, <1>8, SeqDef, LenProperties
<1>10. \A e \in Places(spec.edges) : edges[e] = swapped(e)
  OBVIOUS
<1> HIDE DEF nodes, edges
<1>11. /\ spec' \in Declarations /\ spec'.nodes = nodes /\ spec'.edges = edges
       /\ spec'.groups = spec.groups
  BY <1>3, <1>6, <1>7, <1>9 DEF Declarations
<1>12. \A j \in Places(spec.nodes) : spec'.nodes[j] = IF j = k THEN n ELSE spec.nodes[j]
  BY <1>7, <1>11 DEF Places
<1> QED BY <1>2, <1>7, <1>9, <1>10, <1>11, <1>12 DEF n, swapped

\* t is s without the node of an id and its edges, the others in their order.
NodesFiltered(s, t, at, apart) ==
  /\ t \in Declarations /\ t.groups = s.groups
  /\ \A r \in Places(t.nodes) : Nth(r, at) \in at /\ t.nodes[r] = s.nodes[Nth(r, at)]
  /\ \A q, r \in Places(t.nodes) : Nth(q, at) = Nth(r, at) => q = r
  /\ \A k \in at : \E r \in Places(t.nodes) : Nth(r, at) = k
  /\ \A r \in Places(t.edges) : Nth(r, apart) \in apart /\ t.edges[r] = s.edges[Nth(r, apart)]
  /\ \A q, r \in Places(t.edges) : Nth(q, apart) = Nth(r, apart) => q = r

LEMMA DeleteStep ==
  ASSUME Base, Delete
  PROVE  \E id \in Ids(spec.nodes) : NodesFiltered(spec, spec', OtherNodes(id), Apart(id))
<1>1. PICK id \in Ids(spec.nodes) :
        spec' = [spec EXCEPT !.nodes = Filtered(@, OtherNodes(id)), !.edges = Filtered(@, Apart(id))]
  BY DEF Delete, Edit
<1> DEFINE at == OtherNodes(id)
           apart == Apart(id)
           nodes == Filtered(spec.nodes, at)
           edges == Filtered(spec.edges, apart)
<1>2. spec \in Declarations /\ spec.nodes \in Seq(Nodes) /\ spec.edges \in Seq(Edges)
  BY Fields DEF Base, TypeOK
<1>3. at \in SUBSET (1 .. Len(spec.nodes)) /\ apart \in SUBSET (1 .. Len(spec.edges))
  BY DEF OtherNodes, Apart, Places
<1> HIDE DEF at, apart
<1>4. /\ nodes \in Seq(Nodes)
      /\ \A r \in 1 .. Len(nodes) : Nth(r, at) \in at /\ nodes[r] = spec.nodes[Nth(r, at)]
      /\ \A q, r \in 1 .. Len(nodes) : Nth(q, at) = Nth(r, at) => q = r
      /\ \A k \in at : \E r \in 1 .. Len(nodes) : Nth(r, at) = k
  <2>1. nodes \in Seq(Nodes)
    BY <1>2, <1>3, FilteredKeeps
  <2>2. \A r \in 1 .. Len(nodes) : Nth(r, at) \in at /\ nodes[r] = spec.nodes[Nth(r, at)]
    BY <1>2, <1>3, FilteredKeeps
  <2>3. \A q, r \in 1 .. Len(nodes) : Nth(q, at) = Nth(r, at) => q = r
    BY <1>2, <1>3, FilteredKeeps
  <2>4. \A k \in at : \E r \in 1 .. Len(nodes) : Nth(r, at) = k
    BY <1>2, <1>3, FilteredKeeps
  <2> QED BY <2>1, <2>2, <2>3, <2>4
<1>5. /\ edges \in Seq(Edges)
      /\ \A r \in 1 .. Len(edges) : Nth(r, apart) \in apart /\ edges[r] = spec.edges[Nth(r, apart)]
      /\ \A q, r \in 1 .. Len(edges) : Nth(q, apart) = Nth(r, apart) => q = r
  BY <1>2, <1>3, FilteredKeeps
<1>6. spec' = [spec EXCEPT !.nodes = nodes, !.edges = edges]
  BY <1>1 DEF at, apart
<1> HIDE DEF nodes, edges
<1>7. /\ spec' \in Declarations /\ spec'.nodes = nodes /\ spec'.edges = edges
      /\ spec'.groups = spec.groups
  BY <1>2, <1>4, <1>5, <1>6 DEF Declarations
<1>8. NodesFiltered(spec, spec', at, apart)
  BY <1>4, <1>5, <1>7 DEF NodesFiltered, Places
<1> QED BY <1>8 DEF at, apart

-----------------------------------------------------------------------------
(***************************************************************************)
(* Types are kept.                                                          *)
(***************************************************************************)
LEMMA SetTyped ==
  ASSUME NEW S, NEW f, f \in [DOMAIN f -> S], NEW x, NEW y \in S
  PROVE  /\ Set(f, x, y) \in [DOMAIN Set(f, x, y) -> S]
         /\ DOMAIN Set(f, x, y) = DOMAIN f \cup {x}
         /\ Set(f, x, y)[x] = y
         /\ \A z \in DOMAIN f : z # x => Set(f, x, y)[z] = f[z]
BY DEF Set

LEMMA RenameTyped ==
  ASSUME TypeOK, NEW x \in Id, NEW y \in Id, rename' = Set(rename, x, y)
  PROVE  rename' \in [DOMAIN rename' -> Id] /\ DOMAIN rename' \subseteq Id
<1>1. rename \in [DOMAIN rename -> Id] /\ DOMAIN rename \subseteq Id
  BY DEF TypeOK
<1>2. Set(rename, x, y) \in [DOMAIN Set(rename, x, y) -> Id]
      /\ DOMAIN Set(rename, x, y) = DOMAIN rename \cup {x}
  BY <1>1 DEF Set
<1> QED BY <1>1, <1>2

LEMMA MergeKeepsTypes ==
  ASSUME Base, MergeStep
  PROVE  TypeOK' /\ (Merging => fresh # None)'
<1> USE DEF Base, TypeOK, Merging, counts, NextNode
<1>1. CASE Begin
  <2>1. fresh' \in Fresh /\ spec' \in Declarations /\ fresh' # None
    BY <1>1, BeginStep, FreshAssumption
  <2> QED BY <1>1, <2>1 DEF Begin
<1>2. CASE MergeGroup
  <2>1. PICK id \in Id :
               /\ groupID' = Set(groupID, fresh.groups[i].id, id)
               /\ spec' \in Declarations
    BY <1>2, GroupStep DEF GroupAppended
  <2>2. groupID' \in [DOMAIN groupID' -> Id \cup {None}]
    BY <2>1, SetTyped
  <2> QED BY <1>2, <2>1, <2>2 DEF MergeGroup
<1>3. CASE GroupsMerged
  BY <1>3 DEF GroupsMerged
<1>4. CASE MergeKnown
  <2>1. PICK k \in Places(existing.nodes) :
               /\ Node \in Nodes /\ spec.nodes[k] \in Nodes
               /\ spec' \in Declarations
               /\ seen' = seen \cup {k}
               /\ rename' = Set(rename, Node.id, spec.nodes[k].id)
    BY <1>4, KnownStep DEF NodeReplaced
  <2>2. Node.id \in Id /\ spec.nodes[k].id \in Id
    BY <2>1 DEF Nodes
  <2>3. rename' \in [DOMAIN rename' -> Id] /\ DOMAIN rename' \subseteq Id
    BY <2>1, <2>2, RenameTyped
  <2> QED BY <1>4, <2>1, <2>3 DEF MergeKnown
<1>5. CASE AddNew
  <2>1. PICK n \in Nodes : spec' \in Declarations /\ rename' = Set(rename, Node.id, n.id)
    BY <1>5, NewStep DEF NodeAppended
  <2>2. Node.id \in Id /\ n.id \in Id
    BY <1>5, NodeTyped DEF Nodes, AddNew
  <2>3. rename' \in [DOMAIN rename' -> Id] /\ DOMAIN rename' \subseteq Id
    BY <2>1, <2>2, RenameTyped
  <2> QED BY <1>5, <2>1, <2>3 DEF AddNew
<1>6. CASE AddGenerated
  <2>1. spec' \in Declarations /\ rename' = Set(rename, Node.id, Node.id)
    BY <1>6, GeneratedStep DEF NodeAppended
  <2>2. Node.id \in Id
    BY <1>6, GeneratedStep DEF Nodes
  <2>3. rename' \in [DOMAIN rename' -> Id] /\ DOMAIN rename' \subseteq Id
    BY <2>1, <2>2, RenameTyped
  <2> QED BY <1>6, <2>1, <2>3 DEF AddGenerated
<1>7. CASE Fold
  <2>1. Node.id \in Id
    BY <1>7, NodeTyped DEF Nodes, Fold
  <2>2. PICK k \in Agree(Node) : rename' = Set(rename, Node.id, spec.nodes[k].id)
    BY <1>7 DEF Fold
  <2>3. k \in Places(existing.nodes) /\ fresh # None
    BY <1>7, <2>2 DEF Agree, PlacedByHand, Fold
  <2>4. k \in Places(spec.nodes)
    <3>1. Len(existing.nodes) <= Len(spec.nodes)
      BY <2>3 DEF PeopleKept
    <3>2. Len(existing.nodes) \in Nat /\ Len(spec.nodes) \in Nat
      BY Fields
    <3> QED BY <2>3, <3>1, <3>2 DEF Places
  <2>5. spec.nodes[k].id \in Id
    BY <2>4, Fields DEF Nodes
  <2>6. rename' \in [DOMAIN rename' -> Id] /\ DOMAIN rename' \subseteq Id
    BY <2>1, <2>2, <2>5, RenameTyped
  <2> QED BY <1>7, <2>6 DEF Fold
<1>8. CASE LeaveOut
  <2>1. Node.id \in Id
    BY <1>8, NodeTyped DEF Nodes, LeaveOut
  <2> QED BY <1>8, <2>1 DEF LeaveOut
<1>9. CASE NodesMerged
  BY <1>9 DEF NodesMerged
<1>10. CASE MarkStale
  BY <1>10, StaleStep DEF MarkStale
<1>11. CASE MergeEdge
  <2>1. spec' \in Declarations
    BY <1>11, EdgeStep DEF EdgeAppended
  <2> QED BY <1>11, <2>1 DEF MergeEdge
<1>12. CASE Finish
  <2>1. spec' \in Declarations
    BY <1>12, FinishStep DEF GroupsFiltered
  <2> QED BY <1>12, <2>1 DEF Finish
<1> QED BY <1>1, <1>2, <1>3, <1>4, <1>5, <1>6, <1>7, <1>8, <1>9, <1>10, <1>11, <1>12 DEF MergeStep

\* Every edit is made between merges and leaves the merge's own state alone.
LEMMA PeopleEdit ==
  ASSUME Base, People
  PROVE  /\ spec' \in Declarations
         /\ pc = "idle" /\ fresh' = None
         /\ edits' = edits + 1
         /\ UNCHANGED <<existing, pc, i, seen, rename, groupID, leftOut, again, merges>>
<1>1. spec' \in Declarations
  BY PlaceStep, RenameStep, AnswerStep, DrawStep, DeleteStep
     DEF People, NodeAppended, NodeReplaced, EdgeAppended, NodesFiltered
<1> QED BY <1>1 DEF People, Place, Rename, Answer, Draw, Delete, Edit

LEMMA TypesKept ==
  ASSUME Base, [Next]_vars
  PROVE  TypeOK' /\ (Merging => fresh # None)'
<1>1. CASE People
  BY <1>1, PeopleEdit DEF Base, TypeOK, Merging
<1>2. CASE UNCHANGED vars
  BY <1>2 DEF Base, TypeOK, Merging, vars, counts
<1> QED BY <1>1, <1>2, MergeKeepsTypes DEF Next, Rest

-----------------------------------------------------------------------------
(***************************************************************************)
(* What people wrote is kept.                                               *)
(***************************************************************************)
LEMMA KeptThroughUpdate ==
  ASSUME TypeOK, NEW n \in Nodes, NEW m \in Nodes, NEW f \in Nodes,
         Kept(n, m), n.address # None
  PROVE  Kept(n, Updated(m, f))
BY UpdatedNode DEF Kept

\* Nodes and edges that only grow, or keep what they hold of n, keep people's.
LEMMA KeptByExtension ==
  ASSUME Base, fresh # None, fresh' # None, TypeOK',
         UNCHANGED existing,
         Len(spec.nodes) <= Len(spec'.nodes), Len(spec.edges) <= Len(spec'.edges),
         \A k \in Places(existing.nodes) :
           k \in Places(spec.nodes) /\ Kept(existing.nodes[k], spec.nodes[k])
             => Kept(existing.nodes[k], spec'.nodes[k]),
         \A k \in Places(spec.edges) : spec'.edges[k] = spec.edges[k]
  PROVE  PeopleKept'
<1>1. /\ Len(existing.nodes) \in Nat /\ Len(spec.nodes) \in Nat /\ Len(spec'.nodes) \in Nat
      /\ Len(existing.edges) \in Nat /\ Len(spec.edges) \in Nat /\ Len(spec'.edges) \in Nat
  BY Fields DEF Base, TypeOK
<1>2. /\ Len(existing.nodes) <= Len(spec.nodes)
      /\ \A k \in Places(existing.nodes) : Kept(existing.nodes[k], spec.nodes[k])
      /\ Len(existing.edges) <= Len(spec.edges)
      /\ \A k \in Places(existing.edges) : spec.edges[k] = existing.edges[k]
  BY DEF Base, PeopleKept
<1>3. /\ \A k \in Places(existing.nodes) : k \in Places(spec.nodes)
      /\ \A k \in Places(existing.edges) : k \in Places(spec.edges)
  BY <1>1, <1>2 DEF Places
<1>4. /\ Len(existing.nodes) <= Len(spec'.nodes) /\ Len(existing.edges) <= Len(spec'.edges)
  BY <1>1, <1>2
<1>5. \A k \in Places(existing.nodes) : Kept(existing.nodes[k], spec'.nodes[k])
  BY <1>2, <1>3
<1>6. \A k \in Places(existing.edges) : spec'.edges[k] = existing.edges[k]
  BY <1>2, <1>3
<1> QED BY <1>4, <1>5, <1>6 DEF PeopleKept

LEMMA PeopleStillKept ==
  ASSUME Base, [Next]_vars
  PROVE  PeopleKept'
<1>1. TypeOK' /\ (Merging => fresh # None)
  BY TypesKept DEF Base
<1>2. spec \in Declarations /\ existing \in Declarations
  BY DEF Base, TypeOK
<1>3. /\ \A k \in Places(existing.nodes) : existing.nodes[k] \in Nodes
      /\ \A k \in Places(spec.nodes) : spec.nodes[k] \in Nodes
      /\ Len(spec.nodes) \in Nat /\ Len(spec.edges) \in Nat
      /\ spec.edges \in Seq(Edges)
  BY <1>2, Fields
<1>4. CASE Begin
  <2>1. existing' = spec /\ spec'.nodes = spec.nodes /\ spec'.edges = spec.edges
    BY <1>4, BeginStep DEF Begin
  <2>2. \A k \in Places(spec.nodes) : Kept(spec.nodes[k], spec.nodes[k])
    BY DEF Kept
  <2> QED BY <1>3, <2>1, <2>2 DEF PeopleKept
<1>5. CASE /\ Merging /\ UNCHANGED <<fresh, existing>>
           /\ spec'.nodes = spec.nodes /\ spec'.edges = spec.edges
  BY <1>1, <1>3, <1>5, KeptByExtension
<1>6. CASE MergeGroup
  <2>1. spec'.nodes = spec.nodes /\ spec'.edges = spec.edges
    BY <1>6, GroupStep DEF GroupAppended
  <2> QED BY <1>5, <1>6, <2>1 DEF MergeGroup, Merging
<1>7. CASE GroupsMerged \/ Fold \/ LeaveOut \/ NodesMerged
  BY <1>5, <1>7 DEF GroupsMerged, Fold, LeaveOut, NodesMerged, NextNode, Merging
<1>8. CASE MergeKnown
  <2>1. PICK k \in Places(existing.nodes) :
               /\ k \in Places(spec.nodes) /\ Node \in Nodes /\ Node.address # None
               /\ existing.nodes[k].address = Node.address
               /\ NodeReplaced(spec, spec', k, Updated(spec.nodes[k], Node))
    BY <1>8, KnownStep
  <2>2. /\ UNCHANGED <<fresh, existing>> /\ fresh # None
        /\ Len(spec'.nodes) = Len(spec.nodes) /\ spec'.edges = spec.edges
        /\ \A j \in Places(spec.nodes) :
             spec'.nodes[j] = IF j = k THEN Updated(spec.nodes[k], Node) ELSE spec.nodes[j]
    BY <1>1, <1>8, <2>1 DEF MergeKnown, NextNode, NodeReplaced, Merging
  <2>3. Kept(existing.nodes[k], spec.nodes[k])
          => Kept(existing.nodes[k], Updated(spec.nodes[k], Node))
    BY <1>3, <2>1, KeptThroughUpdate DEF Base
  <2>4. \A j \in Places(existing.nodes) :
          j \in Places(spec.nodes) /\ Kept(existing.nodes[j], spec.nodes[j])
            => Kept(existing.nodes[j], spec'.nodes[j])
    BY <2>2, <2>3
  <2>5. Len(spec.nodes) <= Len(spec'.nodes) /\ Len(spec.edges) <= Len(spec'.edges)
    BY <1>3, <2>2
  <2> QED BY <1>1, <2>2, <2>4, <2>5, KeptByExtension
<1>9. CASE Merging /\ UNCHANGED <<fresh, existing>> /\ \E n \in Nodes : NodeAppended(spec, spec', n)
  <2>1. /\ Len(spec'.nodes) = Len(spec.nodes) + 1 /\ spec'.edges = spec.edges
        /\ \A k \in Places(spec.nodes) : spec'.nodes[k] = spec.nodes[k]
    BY <1>9 DEF NodeAppended
  <2>2. Len(spec.nodes) <= Len(spec'.nodes) /\ Len(spec.edges) <= Len(spec'.edges)
    BY <1>3, <2>1
  <2> QED BY <1>1, <1>9, <2>1, <2>2, KeptByExtension
<1>10. CASE AddNew
  BY <1>9, <1>10, NewStep DEF AddNew, NextNode, Merging
<1>11. CASE AddGenerated
  <2>1. Merging /\ UNCHANGED <<fresh, existing>>
    BY <1>11 DEF AddGenerated, NextNode, Merging
  <2> QED BY <1>5, <1>9, <1>11, <2>1, GeneratedStep
<1>12. CASE MarkStale
  <2>1. /\ UNCHANGED <<fresh, existing>> /\ Merging
        /\ Len(spec'.nodes) = Len(spec.nodes) /\ spec'.edges = spec.edges
        /\ \A k \in Places(spec.nodes) :
             spec'.nodes[k] = IF k <= Len(existing.nodes) /\ Gone(k)
                              THEN [spec.nodes[k] EXCEPT !.stale = TRUE] ELSE spec.nodes[k]
    BY <1>12, StaleStep DEF MarkStale, Merging
  <2>2. \A n, m \in Nodes : Kept(n, m) /\ n.address # None => Kept(n, [m EXCEPT !.stale = TRUE])
    BY DEF Kept, Nodes
  <2>3. \A k \in Places(existing.nodes) :
          k \in Places(spec.nodes) /\ Kept(existing.nodes[k], spec.nodes[k])
            => Kept(existing.nodes[k], spec'.nodes[k])
    BY <1>3, <2>1, <2>2 DEF Gone
  <2>4. Len(spec.nodes) <= Len(spec'.nodes) /\ Len(spec.edges) <= Len(spec'.edges)
    BY <1>3, <2>1
  <2> QED BY <1>1, <2>1, <2>3, <2>4, KeptByExtension
<1>13. CASE MergeEdge
  <2>1. Merging /\ UNCHANGED <<fresh, existing>>
    BY <1>13 DEF MergeEdge, Merging
  <2>2. CASE UNCHANGED spec
    BY <1>5, <2>1, <2>2
  <2>3. CASE \E e : EdgeAppended(spec, spec', e)
    <3>1. /\ spec'.nodes = spec.nodes /\ Len(spec'.edges) = Len(spec.edges) + 1
          /\ \A k \in Places(spec.edges) : spec'.edges[k] = spec.edges[k]
      BY <2>3 DEF EdgeAppended
    <3>2. Len(spec.nodes) <= Len(spec'.nodes) /\ Len(spec.edges) <= Len(spec'.edges)
      BY <1>3, <3>1
    <3> QED BY <1>1, <2>1, <3>1, <3>2, KeptByExtension
  <2> QED BY <1>13, <2>2, <2>3, EdgeStep
<1>14. CASE Finish
  <2>1. Merging /\ UNCHANGED <<fresh, existing>>
    BY <1>14 DEF Finish, Merging
  <2> QED BY <1>5, <1>14, <2>1, FinishStep DEF GroupsFiltered
<1>15. CASE People
  BY <1>15, PeopleEdit DEF PeopleKept
<1>16. CASE UNCHANGED vars
  BY <1>16 DEF Base, PeopleKept, vars
<1> QED
  BY <1>4, <1>6, <1>7, <1>8, <1>10, <1>11, <1>12, <1>13, <1>14, <1>15, <1>16
     DEF Next, MergeStep, Rest

LEMMA StartsBased ==
  ASSUME Init
  PROVE  Base
<1>1. spec \in Declarations /\ existing = spec /\ fresh = None /\ pc = "idle" /\ i = 1 /\ seen = {}
  BY PeopleAssumption DEF Init
<1>2. leftOut = {} /\ again = FALSE /\ merges = 0 /\ edits = 0
  BY DEF Init
<1>3. rename \in [DOMAIN rename -> Id] /\ DOMAIN rename \subseteq Id
  BY DEF Init
<1>4. groupID \in [DOMAIN groupID -> Id \cup {None}]
  BY DEF Init
<1>5. TypeOK
  <2>1. existing \in Declarations /\ fresh \in Fresh \cup {None} /\ i \in Nat \ {0}
    BY <1>1
  <2>2. seen \subseteq Places(existing.nodes) /\ leftOut \subseteq Id
    BY <1>1, <1>2
  <2>3. again \in BOOLEAN /\ merges \in Nat /\ edits \in Nat
    BY <1>2
  <2>4. pc \in {"idle", "groups", "nodes", "stale", "edges"}
    BY <1>1
  <2> QED BY <1>1, <1>3, <1>4, <2>1, <2>2, <2>3, <2>4 DEF TypeOK
<1> QED BY <1>1, <1>5 DEF Base, Merging, PeopleKept

LEMMA BaseHolds == Spec => []Base
<1>1. Init => Base
  BY StartsBased
<1>2. Base /\ [Next]_vars => Base'
  BY TypesKept, PeopleStillKept DEF Base
<1> QED BY <1>1, <1>2, PTL DEF Spec

\* Every variable of a merge holds what it should, for any import and any edit.
THEOREM MergeTypes == Spec => []TypeOK
<1>1. Base => TypeOK
  BY DEF Base
<1> QED BY <1>1, BaseHolds, PTL

\* "People own ids, assumptions, load and other traffic, ... and edges": from the
\* first step of a merge to its last, and after it until the next edit, each is
\* what it was when the merge began, and no node is dropped.
THEOREM KeepsPeople == Spec => []PeopleKept
<1>1. Base => PeopleKept
  BY DEF Base
<1> QED BY <1>1, BaseHolds, PTL

-----------------------------------------------------------------------------
(***************************************************************************)
(* What a declaration that is accepted may become and still be accepted.    *)
(***************************************************************************)
SameNames(s, t) ==
  /\ Len(t.nodes) = Len(s.nodes)
  /\ \A k \in Places(s.nodes) :
       t.nodes[k].id = s.nodes[k].id /\ t.nodes[k].address = s.nodes[k].address

LEMMA NamesKeepUnique ==
  ASSUME NEW s, NEW t, SameNames(s, t)
  PROVE  /\ NodesUnique(s) => NodesUnique(t)
         /\ Ids(t.nodes) = Ids(s.nodes) /\ Addresses(t.nodes) = Addresses(s.nodes)
<1>1. Places(t.nodes) = Places(s.nodes)
  BY DEF SameNames, Places
<1>2. \A k \in Places(s.nodes) :
        t.nodes[k].id = s.nodes[k].id /\ t.nodes[k].address = s.nodes[k].address
  BY DEF SameNames
<1>3. NodesUnique(s) => NodesUnique(t)
  BY <1>1, <1>2 DEF NodesUnique
<1>4. Ids(t.nodes) = Ids(s.nodes)
  BY <1>1, <1>2 DEF Ids
<1>5. Addresses(t.nodes) = Addresses(s.nodes)
  BY <1>1, <1>2 DEF Addresses
<1> QED BY <1>3, <1>4, <1>5

LEMMA ReplacedNames ==
  ASSUME NEW s, NEW t, NEW k \in Places(s.nodes), NEW n, NodeReplaced(s, t, k, n),
         n.id = s.nodes[k].id, n.address = s.nodes[k].address
  PROVE  SameNames(s, t)
BY DEF NodeReplaced, SameNames

LEMMA AppendedNames ==
  ASSUME NEW s \in Declarations, NEW t, NEW n, NodeAppended(s, t, n)
  PROVE  /\ Places(t.nodes) = Places(s.nodes) \cup {Len(s.nodes) + 1}
         /\ Len(s.nodes) + 1 \notin Places(s.nodes)
         /\ Ids(t.nodes) = Ids(s.nodes) \cup {n.id}
         /\ Addresses(t.nodes) = Addresses(s.nodes) \cup ({n.address} \ {None})
         /\ NodesUnique(s) /\ n.id \notin Ids(s.nodes)
              /\ (n.address # None => n.address \notin Addresses(s.nodes)) => NodesUnique(t)
<1> DEFINE last == Len(s.nodes) + 1
<1>1. Len(s.nodes) \in Nat
  BY Fields
<1>2. Places(t.nodes) = Places(s.nodes) \cup {last} /\ last \notin Places(s.nodes)
  BY <1>1 DEF NodeAppended, Places
<1>3. (\A k \in Places(s.nodes) : t.nodes[k] = s.nodes[k]) /\ t.nodes[last] = n
  BY DEF NodeAppended
<1> HIDE DEF last
<1>4. Ids(t.nodes) = Ids(s.nodes) \cup {n.id}
  BY <1>2, <1>3 DEF Ids
<1>5. Addresses(t.nodes) = Addresses(s.nodes) \cup ({n.address} \ {None})
  BY <1>2, <1>3 DEF Addresses
<1>6. ASSUME NodesUnique(s), n.id \notin Ids(s.nodes),
             n.address # None => n.address \notin Addresses(s.nodes)
      PROVE  NodesUnique(t)
  <2>1. \A k \in Places(s.nodes) : s.nodes[k].id # n.id
    BY <1>6 DEF Ids
  <2>2. \A k \in Places(s.nodes) : n.address # None => s.nodes[k].address # n.address
    BY <1>6 DEF Addresses
  <2> QED BY <1>2, <1>3, <1>6, <2>1, <2>2 DEF NodesUnique
<1> QED BY <1>2, <1>4, <1>5, <1>6 DEF last

LEMMA AppendedEdges ==
  ASSUME NEW s \in Declarations, NEW t, NEW e \in Edges, EdgeAppended(s, t, e), Joined(s),
         e.from \in Ids(s.nodes), e.to \in Ids(s.nodes),
         ~ \E k \in Places(s.edges) : s.edges[k].from = e.from /\ s.edges[k].to = e.to
  PROVE  Joined(t)
<1> DEFINE last == Len(s.edges) + 1
<1>1. Len(s.edges) \in Nat /\ \A k \in Places(s.edges) : s.edges[k] \in Edges
  BY Fields
<1>2. Places(t.edges) = Places(s.edges) \cup {last}
  BY <1>1 DEF EdgeAppended, Places
<1>3. /\ \A k \in Places(s.edges) : t.edges[k] = s.edges[k]
      /\ t.edges[last] = e /\ t.nodes = s.nodes
  BY DEF EdgeAppended
<1> HIDE DEF last
<1>4. \A k \in Places(s.edges) : s.edges[k] # e
  OBVIOUS
<1> QED BY <1>2, <1>3, <1>4 DEF Joined

\* More ids and more groups, with the same edges, keep what joins and groups.
LEMMA MoreIds ==
  ASSUME NEW s, NEW t, t.edges = s.edges, Ids(s.nodes) \subseteq Ids(t.nodes), Joined(s)
  PROVE  Joined(t)
BY DEF Joined

LEMMA SamePlaces ==
  ASSUME NEW s, NEW t, t.nodes = s.nodes, t.edges = s.edges, t.groups = s.groups, Accepted(s)
  PROVE  Accepted(t)
BY DEF Accepted, NodesUnique, GroupsUnique, Grouped, GroupNamed, Joined

LEMMA MoreGroups ==
  ASSUME NEW s \in Declarations, NEW t, NEW g, GroupAppended(s, t, g), Accepted(s),
         ~ GroupNamed(s, g.id)
  PROVE  /\ Accepted(t)
         /\ \A id : GroupNamed(s, id) => GroupNamed(t, id)
         /\ GroupNamed(t, g.id)
<1> DEFINE last == Len(s.groups) + 1
<1>1. Len(s.groups) \in Nat
  BY Fields
<1>2. Places(t.groups) = Places(s.groups) \cup {last}
  BY <1>1 DEF GroupAppended, Places
<1>3. /\ \A k \in Places(s.groups) : t.groups[k] = s.groups[k]
      /\ t.groups[last] = g /\ t.nodes = s.nodes /\ t.edges = s.edges
  BY DEF GroupAppended
<1> HIDE DEF last
<1>4. /\ \A id : GroupNamed(s, id) => GroupNamed(t, id)
      /\ GroupNamed(t, g.id)
  BY <1>2, <1>3 DEF GroupNamed
<1>5. GroupsUnique(t)
  BY <1>2, <1>3 DEF GroupsUnique, GroupNamed, Accepted
<1>6. NodesUnique(t) /\ Joined(t)
  BY <1>3 DEF Accepted, NodesUnique, Joined
<1>7. Grouped(t)
  BY <1>3, <1>4 DEF Accepted, Grouped
<1> QED BY <1>4, <1>5, <1>6, <1>7 DEF Accepted

-----------------------------------------------------------------------------
(***************************************************************************)
(* Sound, action by action.                                                 *)
(***************************************************************************)
LEMMA ExistingStand ==
  ASSUME IInv, fresh # None
  PROVE  /\ \A k \in Places(existing.nodes) :
              k \in Places(spec.nodes) /\ spec.nodes[k].address = existing.nodes[k].address
         /\ \A j, k \in Places(existing.nodes) :
              existing.nodes[j].address = existing.nodes[k].address
                /\ existing.nodes[j].address # None => j = k
<1>1. Len(existing.nodes) \in Nat /\ Len(spec.nodes) \in Nat
  BY Fields DEF IInv, Base, TypeOK
<1>2. \A k \in Places(existing.nodes) :
        k \in Places(spec.nodes) /\ spec.nodes[k].address = existing.nodes[k].address
  BY <1>1 DEF IInv, Base, PeopleKept, Kept, Places
<1>3. NodesUnique(spec)
  BY DEF IInv, Sound, Accepted
<1> QED BY <1>2, <1>3 DEF NodesUnique

LEMMA FinalFound ==
  ASSUME GroupsFound, NEW g
  PROVE  Final(g) = None \/ GroupNamed(spec, Final(g))
BY DEF GroupsFound, Final, GroupTaken

\* One more fresh node is folded in.
LEMMA FoldedGrows ==
  ASSUME Base, pc = "nodes", i <= Len(fresh.nodes), i' = i + 1, UNCHANGED <<fresh, pc>>
  PROVE  /\ i \in Places(fresh.nodes) /\ i \notin Folded
         /\ Folded \subseteq Places(fresh.nodes) /\ Folded' = Folded \cup {i}
         /\ Passed' = {}
<1>1. i \in Places(fresh.nodes) /\ fresh \in Declarations
  BY NodeTyped
<1>2. Len(fresh.nodes) \in Nat
  BY <1>1, Fields
<1>3. Folded = {j \in Places(fresh.nodes) : j < i}
  BY DEF Folded
<1>4. Folded' = {j \in Places(fresh.nodes) : j < i + 1}
  BY DEF Folded
<1>5. \A j \in Places(fresh.nodes) : j < i + 1 <=> j < i \/ j = i
  BY <1>1, <1>2 DEF Places
<1>6. i \notin Folded
  BY <1>1, <1>2, <1>3 DEF Places
<1>7. Passed' = {}
  BY DEF Passed, Merged
<1> QED BY <1>1, <1>3, <1>4, <1>5, <1>6, <1>7

LEMMA NothingPassed ==
  ASSUME Passed' = {}
  PROVE  EdgesDrawn'
BY DEF EdgesDrawn

LEMMA AfterBegin ==
  ASSUME IInv, Begin
  PROVE  Sound'
<1>1. /\ spec'.nodes = spec.nodes /\ spec'.groups = spec.groups /\ spec'.edges = spec.edges
      /\ existing' = spec /\ pc' = "groups" /\ seen' = {}
      /\ rename' = <<>> /\ groupID' = [g \in {None} |-> None]
  BY BeginStep DEF Begin, IInv
<1>2. Accepted(spec')
  BY <1>1, SamePlaces DEF IInv, Sound
<1>3. Folded' = {} /\ Passed' = {}
  BY <1>1 DEF Folded, Passed, Merged
<1>4. Newcomers'
  <2>1. Len(spec.nodes) \in Nat
    BY Fields DEF IInv, Base, TypeOK
  <2> QED BY <1>1, <2>1 DEF Newcomers, Places
<1>5. SeenSoFar' /\ Brought'
  BY <1>1, <1>3 DEF SeenSoFar, Brought
<1>6. Settled' /\ GroupsFound'
  <2>1. DOMAIN rename' = {}
    BY <1>1
  <2> QED BY <1>1, <1>3, <2>1 DEF Settled, GroupsFound
<1> QED BY <1>1, <1>2, <1>3, <1>4, <1>5, <1>6, NothingPassed DEF Sound, Midway, Merging

\* Where nodes and what is known of them stay, so does what is said of them.
LEMMA NodesStand ==
  ASSUME Midway, UNCHANGED <<existing, fresh, seen, rename, leftOut>>,
         spec'.nodes = spec.nodes, Folded' = Folded
  PROVE  Newcomers' /\ SeenSoFar' /\ Brought' /\ Settled' /\ Live' = Live
<1>1. Live' = Live
  BY DEF Live
<1>2. Newcomers' /\ SeenSoFar'
  BY DEF Midway, Newcomers, SeenSoFar
<1>3. Brought'
  BY <1>1 DEF Midway, Brought
<1>4. Settled'
  BY DEF Midway, Settled
<1> QED BY <1>1, <1>2, <1>3, <1>4

LEMMA AfterGroup ==
  ASSUME IInv, MergeGroup
  PROVE  Sound'
<1>1. PICK id \in Id :
           /\ groupID' = Set(groupID, fresh.groups[i].id, id)
           /\ \/ UNCHANGED spec /\ GroupTaken(id)
              \/ ~ GroupTaken(id) /\ \E g \in Groups : g.id = id /\ GroupAppended(spec, spec', g)
  BY GroupStep DEF IInv
<1>2. /\ UNCHANGED <<existing, fresh, pc, seen, rename, leftOut>> /\ pc = "groups"
      /\ Midway /\ Accepted(spec) /\ spec \in Declarations
  BY DEF MergeGroup, IInv, Base, TypeOK, Sound, Merging
<1>3. /\ Accepted(spec') /\ spec'.nodes = spec.nodes
      /\ GroupNamed(spec', id) /\ \A g : GroupNamed(spec, g) => GroupNamed(spec', g)
  <2>1. CASE UNCHANGED spec /\ GroupTaken(id)
    BY <1>2, <2>1 DEF GroupTaken
  <2>2. CASE ~ GroupTaken(id) /\ \E g \in Groups : g.id = id /\ GroupAppended(spec, spec', g)
    <3>1. PICK g \in Groups : g.id = id /\ GroupAppended(spec, spec', g)
      BY <2>2
    <3>2. ~ GroupNamed(spec, g.id)
      BY <2>2, <3>1 DEF GroupTaken
    <3>3. /\ Accepted(spec') /\ GroupNamed(spec', g.id)
          /\ \A h : GroupNamed(spec, h) => GroupNamed(spec', h)
      BY <1>2, <3>1, <3>2, MoreGroups
    <3>4. spec'.nodes = spec.nodes
      BY <3>1 DEF GroupAppended
    <3> QED BY <3>1, <3>3, <3>4
  <2> QED BY <1>1, <2>1, <2>2
<1>4. GroupsFound'
  BY <1>1, <1>2, <1>3 DEF Midway, GroupsFound, GroupTaken, Set
<1>5. Folded' = Folded /\ Passed' = {}
  BY <1>2 DEF Folded, Passed, Merged
<1>6. Newcomers' /\ SeenSoFar' /\ Brought' /\ Settled'
  BY <1>2, <1>3, <1>5, NodesStand
<1> QED BY <1>2, <1>3, <1>4, <1>5, <1>6, NothingPassed DEF Sound, Midway

LEMMA AfterPhase ==
  ASSUME IInv, GroupsMerged \/ NodesMerged
  PROVE  Sound'
<1>1. /\ UNCHANGED <<spec, existing, fresh, seen, rename, groupID, leftOut>>
      /\ Merging /\ pc' \in {"nodes", "stale"} /\ Midway /\ Accepted(spec)
  BY DEF GroupsMerged, NodesMerged, IInv, Sound, Merging
<1>2. Folded' = Folded
  <2>1. CASE GroupsMerged
    <3>1. pc = "groups" /\ pc' = "nodes" /\ i' = 1
      BY <2>1 DEF GroupsMerged
    <3>2. Folded = {} /\ Folded' = {j \in Places(fresh'.nodes) : j < 1}
      BY <3>1 DEF Folded
    <3>3. Len(fresh'.nodes) \in Nat
      BY <1>1, WhileMerging, Fields DEF IInv
    <3> QED BY <3>2, <3>3 DEF Places
  <2>2. CASE NodesMerged
    <3>1. pc = "nodes" /\ pc' = "stale" /\ i > Len(fresh.nodes)
      BY <2>2 DEF NodesMerged
    <3>2. Folded = {j \in Places(fresh.nodes) : j < i} /\ Folded' = Places(fresh.nodes)
      BY <1>1, <3>1 DEF Folded
    <3>3. Len(fresh.nodes) \in Nat /\ i \in Nat
      BY <1>1, WhileMerging, Fields DEF IInv, Base, TypeOK
    <3>4. \A j \in Places(fresh.nodes) : j < i
      BY <3>1, <3>3 DEF Places
    <3> QED BY <3>2, <3>4
  <2> QED BY <2>1, <2>2
<1>3. Passed' = {}
  BY <1>1 DEF Passed, Merged
<1>4. Newcomers' /\ SeenSoFar' /\ Brought' /\ Settled'
  BY <1>1, <1>2, NodesStand
<1>5. GroupsFound'
  BY <1>1 DEF Midway, GroupsFound, GroupTaken
<1> QED BY <1>1, <1>3, <1>4, <1>5, NothingPassed DEF Sound, Midway

\* What rename and the ids left out say once a fresh node became the node named id.
LEMMA SettledNext ==
  ASSUME Base, Settled, NEW id, Folded' = Folded \cup {i}, UNCHANGED <<fresh, leftOut>>,
         rename' = Set(rename, Node.id, id),
         Ids(spec.nodes) \subseteq Ids(spec'.nodes), id \in Ids(spec'.nodes)
  PROVE  Settled'
<1>1. DOMAIN rename' = DOMAIN rename \cup {Node.id}
  BY DEF Set
<1>2. \A x \in DOMAIN rename' : rename'[x] \in Ids(spec'.nodes)
  BY DEF Settled, Set
<1>3. \A j \in Folded' : fresh'.nodes[j].id \in leftOut' \cup DOMAIN rename'
  BY <1>1 DEF Settled, Node
<1> QED BY <1>2, <1>3 DEF Settled

LEMMA AfterKnown ==
  ASSUME IInv, MergeKnown
  PROVE  Sound'
<1>1. PICK k \in Places(existing.nodes) :
           /\ k \in Places(spec.nodes)
           /\ Node \in Nodes /\ Node.address # None
           /\ existing.nodes[k].address = Node.address
           /\ spec.nodes[k] \in Nodes
           /\ NodeReplaced(spec, spec', k, Updated(spec.nodes[k], Node))
           /\ seen' = seen \cup {k}
           /\ rename' = Set(rename, Node.id, spec.nodes[k].id)
  BY KnownStep DEF IInv
<1> DEFINE n == Updated(spec.nodes[k], Node)
<1>2. /\ n.id = spec.nodes[k].id /\ n.address = spec.nodes[k].address
      /\ n.stale = FALSE /\ n.group = Final(Node.group)
  BY <1>1, UpdatedNode DEF IInv, Base
<1>3. NodeReplaced(spec, spec', k, n)
  BY <1>1
<1> HIDE DEF n
<1>4. /\ UNCHANGED <<existing, fresh, pc, groupID, leftOut>> /\ i' = i + 1
      /\ pc = "nodes" /\ i <= Len(fresh.nodes) /\ fresh # None
      /\ Midway /\ Accepted(spec)
  BY DEF MergeKnown, NextNode, IInv, Base, Sound, Merging
<1>5. /\ SameNames(spec, spec') /\ Ids(spec'.nodes) = Ids(spec.nodes)
      /\ NodesUnique(spec')
  BY <1>1, <1>2, <1>3, <1>4, ReplacedNames, NamesKeepUnique DEF Accepted
<1>6. /\ Places(spec'.nodes) = Places(spec.nodes)
      /\ \A j \in Places(spec.nodes) : spec'.nodes[j] = IF j = k THEN n ELSE spec.nodes[j]
      /\ spec'.groups = spec.groups /\ spec'.edges = spec.edges
  BY <1>3 DEF NodeReplaced, Places
<1>7. /\ i \notin Folded /\ Folded' = Folded \cup {i} /\ Passed' = {}
  BY <1>4, FoldedGrows DEF IInv
<1>8. Accepted(spec')
  <2>1. Grouped(spec')
    <3>1. n.group = None \/ GroupNamed(spec, n.group)
      BY <1>2, <1>4, FinalFound DEF Midway
    <3> QED BY <1>4, <1>6, <3>1 DEF Accepted, Grouped, GroupNamed
  <2>2. GroupsUnique(spec')
    BY <1>4, <1>6 DEF Accepted, GroupsUnique
  <2>3. Joined(spec')
    BY <1>4, <1>5, <1>6, MoreIds DEF Accepted
  <2> QED BY <1>5, <2>1, <2>2, <2>3 DEF Accepted
<1>9. Newcomers'
  <2>1. \A j \in Places(spec.nodes) : spec'.nodes[j].address = spec.nodes[j].address
    BY <1>2, <1>6
  <2> QED BY <1>4, <1>6, <1>7, <2>1 DEF Midway, Newcomers
<1>10. SeenSoFar'
  <2>1. \A j \in Places(existing.nodes) :
          existing.nodes[j].address = Node.address <=> j = k
    BY <1>1, <1>4, ExistingStand
  <2>2. fresh.nodes[i].address = Node.address
    BY DEF Node
  <2> QED BY <1>1, <1>4, <1>7, <2>1, <2>2 DEF Midway, SeenSoFar
<1>11. Brought'
  <2>1. spec.nodes[k].address = Node.address
    BY <1>1, <1>4, ExistingStand
  <2>2. Node.address \in Live'
    BY <1>1, <1>2, <1>6, <2>1 DEF Live
  <2>3. Live \subseteq Live'
    BY <1>1, <1>2, <1>6 DEF Live
  <2> QED BY <1>4, <1>7, <2>2, <2>3 DEF Midway, Brought, Node
<1>12. Settled'
  <2>1. spec.nodes[k].id \in Ids(spec.nodes)
    BY <1>1 DEF Ids
  <2> QED BY <1>1, <1>4, <1>5, <1>7, <2>1, SettledNext DEF Midway, IInv
<1>13. GroupsFound'
  BY <1>4, <1>6 DEF Midway, GroupsFound, GroupTaken, GroupNamed
<1> QED BY <1>4, <1>7, <1>8, <1>9, <1>10, <1>11, <1>12, <1>13, NothingPassed DEF Sound, Midway

\* A node is added that is not there, in a group that is, for the fresh node at i.
LEMMA NodeAdded ==
  ASSUME IInv, pc = "nodes", i <= Len(fresh.nodes), i' = i + 1,
         UNCHANGED <<existing, fresh, pc, groupID, leftOut, seen>>,
         NEW n \in Nodes, NodeAppended(spec, spec', n),
         n.id \notin Ids(spec.nodes), n.address = Node.address, n.stale = FALSE,
         n.group = None \/ GroupNamed(spec, n.group),
         Node.address # None => Found(Node) = {},
         rename' = Set(rename, Node.id, n.id)
  PROVE  Sound'
<1>1. Midway /\ Accepted(spec) /\ spec \in Declarations /\ fresh # None /\ Base
  BY DEF IInv, Sound, Merging, Base, TypeOK
<1>2. /\ fresh \in Fresh /\ i \in Places(fresh.nodes) /\ Folded \subseteq Places(fresh.nodes)
      /\ i \notin Folded /\ Folded' = Folded \cup {i} /\ Passed' = {}
  BY <1>1, FoldedGrows, NodeTyped
<1> DEFINE last == Len(spec.nodes) + 1
<1>3. /\ Places(spec'.nodes) = Places(spec.nodes) \cup {last} /\ last \notin Places(spec.nodes)
      /\ Ids(spec'.nodes) = Ids(spec.nodes) \cup {n.id}
      /\ NodesUnique(spec) /\ n.id \notin Ids(spec.nodes)
           /\ (n.address # None => n.address \notin Addresses(spec.nodes)) => NodesUnique(spec')
  BY SMTT(30), <1>1, AppendedNames
<1>4. /\ \A k \in Places(spec.nodes) : spec'.nodes[k] = spec.nodes[k]
      /\ spec'.nodes[last] = n
      /\ spec'.groups = spec.groups /\ spec'.edges = spec.edges
  BY DEF NodeAppended
<1> HIDE DEF last
<1>5. \A k \in Places(existing.nodes) : existing.nodes[k].address # None =>
        existing.nodes[k].address # Node.address
  <2> SUFFICES ASSUME NEW k \in Places(existing.nodes), Node.address # None,
                      existing.nodes[k].address = Node.address
               PROVE  FALSE
    OBVIOUS
  <2>1. \A j \in Places(existing.nodes) : existing.nodes[j].address = Node.address => j = k
    BY <1>1, ExistingStand
  <2>2. \A j \in Places(existing.nodes) : existing.nodes[j].address = Node.address => j <= k
    <3>1. k \in Int
      BY DEF Places
    <3> QED BY <2>1, <3>1
  <2>3. k \in Found(Node)
    BY <2>2 DEF Found
  <2> QED BY <2>3
<1>6. n.address # None => n.address \notin Addresses(spec.nodes)
  <2> SUFFICES ASSUME NEW k \in Places(spec.nodes), Node.address # None,
                      spec.nodes[k].address = Node.address
               PROVE  FALSE
    BY DEF Addresses
  <2>1. k \notin Places(existing.nodes)
    BY <1>1, <1>5, ExistingStand
  <2>2. k > Len(existing.nodes)
    <3>1. Len(existing.nodes) \in Nat /\ Len(spec.nodes) \in Nat
      BY Fields DEF IInv, Base, TypeOK
    <3> QED BY <2>1, <3>1 DEF Places
  <2>3. PICK j \in Folded : fresh.nodes[j].address = Node.address
    BY <1>1, <2>2 DEF Midway, Newcomers
  <2>4. j = i
    BY <1>2, <2>3, FreshAssumption DEF Node
  <2> QED BY <1>2, <2>4
<1>7. Accepted(spec')
  <2>1. NodesUnique(spec')
    BY <1>1, <1>3, <1>6 DEF Accepted
  <2>2. Grouped(spec')
    BY <1>1, <1>3, <1>4 DEF Accepted, Grouped, GroupNamed
  <2>3. GroupsUnique(spec')
    BY <1>1, <1>4 DEF Accepted, GroupsUnique
  <2>4. Joined(spec')
    BY <1>1, <1>3, <1>4, MoreIds DEF Accepted
  <2> QED BY <2>1, <2>2, <2>3, <2>4 DEF Accepted
<1>8. Newcomers'
  BY <1>1, <1>2, <1>3, <1>4 DEF Midway, Newcomers, Node
<1>9. SeenSoFar'
  BY <1>1, <1>2, <1>5 DEF Midway, SeenSoFar, Node
<1>10. Brought'
  <2>1. Node.address # None => Node.address \in Live'
    BY <1>3, <1>4 DEF Live
  <2>2. Live \subseteq Live'
    BY <1>3, <1>4 DEF Live
  <2> QED BY <1>1, <1>2, <2>1, <2>2 DEF Midway, Brought, Node
<1>11. Settled'
  BY <1>1, <1>2, <1>3, SettledNext DEF Midway
<1>12. GroupsFound'
  BY <1>1, <1>4 DEF Midway, GroupsFound, GroupTaken, GroupNamed
<1> QED BY <1>2, <1>7, <1>8, <1>9, <1>10, <1>11, <1>12, NothingPassed DEF Sound, Midway

LEMMA AfterNew ==
  ASSUME IInv, AddNew
  PROVE  Sound'
<1>1. PICK n \in Nodes :
           /\ n.id \notin Ids(spec.nodes) /\ n.address = Node.address /\ n.stale = FALSE
           /\ n.group = Final(Node.group)
           /\ NodeAppended(spec, spec', n)
           /\ rename' = Set(rename, Node.id, n.id)
  BY NewStep DEF IInv
<1>2. n.group = None \/ GroupNamed(spec, n.group)
  BY <1>1, FinalFound DEF IInv, Sound, Midway, Merging, AddNew
<1> QED BY <1>1, <1>2, NodeAdded DEF AddNew, NextNode

\* The fresh node at i has no address, and no node is added for it.
LEMMA NodePassed ==
  ASSUME IInv, pc = "nodes", i <= Len(fresh.nodes), i' = i + 1,
         UNCHANGED <<spec, existing, fresh, pc, groupID, seen>>,
         Node.address = None, Settled'
  PROVE  Sound'
<1>1. Midway /\ Accepted(spec)
  BY DEF IInv, Sound, Merging
<1>2. Folded' = Folded \cup {i} /\ Passed' = {}
  BY FoldedGrows DEF IInv
<1>3. Newcomers'
  BY <1>1, <1>2 DEF Midway, Newcomers
<1>4. SeenSoFar'
  BY <1>1, <1>2 DEF Midway, SeenSoFar, Node
<1>5. Brought'
  <2>1. Live' = Live
    BY DEF Live
  <2> QED BY <1>1, <1>2, <2>1 DEF Midway, Brought, Node
<1>6. GroupsFound'
  BY <1>1 DEF Midway, GroupsFound, GroupTaken
<1> QED BY <1>1, <1>2, <1>3, <1>4, <1>5, <1>6, NothingPassed DEF Sound, Midway

LEMMA AfterGenerated ==
  ASSUME IInv, AddGenerated
  PROVE  Sound'
<1>1. /\ Node \in Nodes /\ Node.group = None /\ Node.address = None
      /\ rename' = Set(rename, Node.id, Node.id)
      /\ \/ Node.id \in Ids(spec.nodes) /\ UNCHANGED spec
         \/ Node.id \notin Ids(spec.nodes) /\ NodeAppended(spec, spec', Node)
  BY GeneratedStep DEF IInv
<1>2. /\ pc = "nodes" /\ i <= Len(fresh.nodes) /\ i' = i + 1
      /\ UNCHANGED <<existing, fresh, pc, groupID, leftOut, seen>>
  BY DEF AddGenerated, NextNode
<1>3. CASE Node.id \in Ids(spec.nodes) /\ UNCHANGED spec
  <2>1. Settled /\ Folded' = Folded \cup {i}
    BY <1>2, FoldedGrows DEF IInv, Sound, Midway, Merging
  <2>2. Settled'
    BY <1>1, <1>2, <1>3, <2>1, SettledNext DEF IInv
  <2> QED BY <1>1, <1>2, <1>3, <2>2, NodePassed
<1>4. CASE Node.id \notin Ids(spec.nodes) /\ NodeAppended(spec, spec', Node)
  <2>1. Node.stale = FALSE
    BY <1>1, <1>2, NodeTyped DEF IInv, Nodes
  <2> QED BY <1>1, <1>2, <1>4, <2>1, NodeAdded
<1> QED BY <1>1, <1>3, <1>4

LEMMA AfterFold ==
  ASSUME IInv, Fold
  PROVE  Sound'
<1>1. /\ pc = "nodes" /\ i <= Len(fresh.nodes) /\ i' = i + 1
      /\ UNCHANGED <<spec, existing, fresh, pc, groupID, seen, leftOut>>
      /\ Node.address = None
  BY DEF Fold, NextNode
<1>2. PICK k \in Agree(Node) : rename' = Set(rename, Node.id, spec.nodes[k].id)
  BY DEF Fold
<1>3. k \in Places(spec.nodes)
  BY <1>1, <1>2, ExistingStand DEF Agree, PlacedByHand, IInv, Base, Merging
<1>4. spec.nodes[k].id \in Ids(spec.nodes)
  BY <1>3 DEF Ids
<1>5. Settled /\ Folded' = Folded \cup {i}
  BY <1>1, FoldedGrows DEF IInv, Sound, Midway, Merging
<1>6. Settled'
  BY <1>1, <1>2, <1>4, <1>5, SettledNext DEF IInv
<1> QED BY <1>1, <1>6, NodePassed

LEMMA AfterLeaveOut ==
  ASSUME IInv, LeaveOut
  PROVE  Sound'
<1>1. /\ pc = "nodes" /\ i <= Len(fresh.nodes) /\ i' = i + 1
      /\ UNCHANGED <<spec, existing, fresh, pc, groupID, seen, rename>>
      /\ Node.address = None /\ leftOut' = leftOut \cup {Node.id}
  BY DEF LeaveOut, NextNode
<1>2. Settled /\ Folded' = Folded \cup {i}
  BY <1>1, FoldedGrows DEF IInv, Sound, Midway, Merging
<1>3. Settled'
  BY <1>1, <1>2 DEF Settled, Node
<1> QED BY <1>1, <1>3, NodePassed

\* Marking leaves live exactly what Terraform declares.
LEMMA AfterStale ==
  ASSUME IInv, MarkStale
  PROVE  Sound'
<1>1. /\ UNCHANGED <<existing, fresh, seen, rename, groupID, leftOut>>
      /\ pc = "stale" /\ pc' = "edges" /\ i' = 1 /\ fresh # None /\ fresh \in Declarations
      /\ Midway /\ Accepted(spec)
  BY WhileMerging DEF MarkStale, IInv, Sound, Base, Merging
<1>2. /\ Len(spec'.nodes) = Len(spec.nodes)
      /\ spec'.groups = spec.groups /\ spec'.edges = spec.edges
      /\ \A k \in Places(spec.nodes) :
           spec'.nodes[k] = IF k <= Len(existing.nodes) /\ Gone(k)
                            THEN [spec.nodes[k] EXCEPT !.stale = TRUE] ELSE spec.nodes[k]
  BY StaleStep DEF IInv
<1>3. \A k \in Places(spec.nodes) : spec.nodes[k] \in Nodes
  BY Fields DEF IInv, Base, TypeOK
<1>4. \A k \in Places(spec.nodes) :
        /\ spec'.nodes[k].id = spec.nodes[k].id /\ spec'.nodes[k].address = spec.nodes[k].address
        /\ spec'.nodes[k].group = spec.nodes[k].group
        /\ spec'.nodes[k].stale =
             IF k <= Len(existing.nodes) /\ Gone(k) THEN TRUE ELSE spec.nodes[k].stale
  BY <1>2, <1>3 DEF Nodes
<1>5. Places(spec'.nodes) = Places(spec.nodes)
  BY <1>2 DEF Places
<1>6. SameNames(spec, spec') /\ NodesUnique(spec') /\ Ids(spec'.nodes) = Ids(spec.nodes)
  BY <1>1, <1>2, <1>4, NamesKeepUnique DEF SameNames, Accepted
<1>7. Accepted(spec')
  <2>1. Grouped(spec')
    BY ZenonT(60), <1>1, <1>2, <1>4, <1>5 DEF Accepted, Grouped, GroupNamed
  <2>2. GroupsUnique(spec')
    BY <1>1, <1>2 DEF Accepted, GroupsUnique
  <2>3. Joined(spec')
    BY <1>1, <1>2, <1>6, MoreIds DEF Accepted
  <2> QED BY <1>6, <2>1, <2>2, <2>3 DEF Accepted
<1>8. Folded = Places(fresh.nodes) /\ Folded' = Places(fresh.nodes)
  BY <1>1 DEF Folded
<1>9. Passed' = {}
  <2>1. Passed' = {k \in Places(fresh.edges) : k < 1}
    BY <1>1 DEF Passed
  <2>2. Len(fresh.edges) \in Nat
    BY <1>1, Fields
  <2> QED BY <2>1, <2>2 DEF Places
<1>10. Newcomers'
  BY ZenonT(60), <1>1, <1>4, <1>5, <1>8 DEF Midway, Newcomers
<1>11. SeenSoFar'
  BY <1>1, <1>8 DEF Midway, SeenSoFar
<1>12. \A k \in Places(existing.nodes) :
         k \in Places(spec.nodes) /\ spec.nodes[k].address = existing.nodes[k].address
  BY <1>1, ExistingStand
<1>13. Addresses(fresh.nodes) \subseteq Live'
  <2> SUFFICES ASSUME NEW j \in Places(fresh.nodes), fresh.nodes[j].address # None
               PROVE  fresh.nodes[j].address \in Live'
    BY DEF Addresses
  <2>1. fresh.nodes[j].address \in Live
    BY <1>1, <1>8 DEF Midway, Brought
  <2>2. PICK k \in Places(spec.nodes) :
          ~ spec.nodes[k].stale /\ spec.nodes[k].address = fresh.nodes[j].address
    BY <2>1 DEF Live
  <2>3. ~ (k <= Len(existing.nodes) /\ Gone(k))
    <3> SUFFICES ASSUME k <= Len(existing.nodes), Gone(k) PROVE FALSE
      OBVIOUS
    <3>1. k \in Places(existing.nodes)
      <4>1. Len(existing.nodes) \in Nat /\ Len(spec.nodes) \in Nat
        BY Fields DEF IInv, Base, TypeOK
      <4> QED BY <4>1 DEF Places
    <3>2. existing.nodes[k].address = fresh.nodes[j].address
      BY <1>12, <2>2, <3>1
    <3>3. k \in seen
      BY <1>1, <1>8, <3>1, <3>2 DEF Midway, SeenSoFar
    <3> QED BY <3>3 DEF Gone
  <2>4. ~ spec'.nodes[k].stale /\ spec'.nodes[k].address = fresh.nodes[j].address
    BY <1>4, <2>2, <2>3
  <2> QED BY <1>5, <2>4 DEF Live
<1>14. Live' \subseteq Addresses(fresh.nodes)
  <2> SUFFICES ASSUME NEW k \in Places(spec.nodes), ~ spec'.nodes[k].stale,
                      spec.nodes[k].address # None
               PROVE  \E j \in Places(fresh.nodes) : fresh.nodes[j].address = spec.nodes[k].address
    BY ZenonT(60), <1>4, <1>5 DEF Live, Addresses
  <2>1. CASE k \in Places(existing.nodes)
    <3>1. k <= Len(existing.nodes)
      BY <2>1 DEF Places
    <3>2. k \in seen
      BY <1>4, <1>12, <2>1, <3>1 DEF Gone
    <3> QED BY <1>1, <1>8, <1>12, <2>1, <3>2 DEF Midway, SeenSoFar
  <2>2. CASE k > Len(existing.nodes)
    BY <1>1, <1>8, <2>2 DEF Midway, Newcomers
  <2>3. k \in Places(existing.nodes) \/ k > Len(existing.nodes)
    <3>1. Len(existing.nodes) \in Nat /\ Len(spec.nodes) \in Nat
      BY Fields DEF IInv, Base, TypeOK
    <3> QED BY <3>1 DEF Places
  <2> QED BY <2>1, <2>2, <2>3
<1>15. Live' = Addresses(fresh'.nodes)
  BY <1>1, <1>13, <1>14
<1>16. Brought'
  BY <1>1, <1>8, <1>15 DEF Brought, Addresses
<1>17. Settled'
  BY <1>1, <1>6, <1>8 DEF Midway, Settled
<1>18. GroupsFound'
  BY <1>1, <1>2 DEF Midway, GroupsFound, GroupTaken, GroupNamed
<1> QED
  BY <1>7, <1>9, <1>10, <1>11, <1>15, <1>16, <1>17, <1>18, NothingPassed DEF Sound, Midway

IsDrawn(s, from, to) == \E k \in Places(s.edges) : s.edges[k].from = from /\ s.edges[k].to = to

LEMMA AfterEdge ==
  ASSUME IInv, MergeEdge
  PROVE  Sound'
<1> DEFINE e == fresh.edges[i]
           a == [from |-> rename[e.from], to |-> rename[e.to]]
<1>1. /\ UNCHANGED <<existing, fresh, pc, seen, rename, groupID, leftOut>>
      /\ pc = "edges" /\ i' = i + 1 /\ spec \in Declarations
      /\ Midway /\ Accepted(spec) /\ Live = Addresses(fresh.nodes) /\ EdgesDrawn
  BY DEF MergeEdge, IInv, Sound, Base, TypeOK, Merging
<1>2. /\ fresh \in Fresh /\ i \in Places(fresh.edges) /\ fresh \in Declarations
      /\ \/ UNCHANGED spec /\ (Named(e) => Drawn(rename[e.from], rename[e.to]))
         \/ /\ Named(e) /\ ~ Drawn(rename[e.from], rename[e.to])
            /\ EdgeAppended(spec, spec', a)
  BY EdgeStep, FreshTyped DEF IInv
<1>3. /\ Accepted(spec') /\ spec'.nodes = spec.nodes /\ spec'.groups = spec.groups
      /\ Named(e) => IsDrawn(spec', rename[e.from], rename[e.to])
      /\ \A from, to : Drawn(from, to) => IsDrawn(spec', from, to)
  <2>1. CASE UNCHANGED spec /\ (Named(e) => Drawn(rename[e.from], rename[e.to]))
    BY <1>1, <2>1 DEF Drawn, IsDrawn
  <2>2. CASE /\ Named(e) /\ ~ Drawn(rename[e.from], rename[e.to])
             /\ EdgeAppended(spec, spec', a)
    <3>1. rename[e.from] \in Ids(spec.nodes) /\ rename[e.to] \in Ids(spec.nodes)
      BY <1>1, <2>2 DEF Named, Midway, Settled
    <3>2. rename[e.from] \in Id /\ rename[e.to] \in Id
      BY <2>2 DEF Named, IInv, Base, TypeOK
    <3>3. a \in Edges /\ a.from = rename[e.from] /\ a.to = rename[e.to]
      BY <3>2 DEF Edges
    <3> HIDE DEF a
    <3>4. /\ \A k \in Places(spec.edges) : spec'.edges[k] = spec.edges[k]
          /\ spec'.edges[Len(spec.edges) + 1] = a
          /\ spec'.nodes = spec.nodes /\ spec'.groups = spec.groups
      BY <2>2 DEF EdgeAppended
    <3>5. /\ Places(spec.edges) \subseteq Places(spec'.edges)
          /\ Len(spec.edges) + 1 \in Places(spec'.edges)
      <4>1. Len(spec.edges) \in Nat /\ Len(spec'.edges) = Len(spec.edges) + 1
        BY <1>1, <2>2, Fields DEF EdgeAppended
      <4> QED BY <4>1 DEF Places
    <3>6. Joined(spec')
      BY <1>1, <2>2, <3>1, <3>3, AppendedEdges DEF Accepted, Drawn
    <3>7. Accepted(spec')
      BY <1>1, <3>4, <3>6 DEF Accepted, NodesUnique, GroupsUnique, Grouped, GroupNamed
    <3>8. IsDrawn(spec', rename[e.from], rename[e.to])
      BY <3>3, <3>4, <3>5 DEF IsDrawn
    <3>9. \A from, to : Drawn(from, to) => IsDrawn(spec', from, to)
      BY <3>4, <3>5 DEF Drawn, IsDrawn
    <3> QED BY <3>4, <3>7, <3>8, <3>9
  <2> QED BY <1>2, <2>1, <2>2
<1>4. Folded' = Folded
  BY <1>1 DEF Folded
<1>5. Newcomers' /\ SeenSoFar' /\ Brought' /\ Settled' /\ Live' = Live
  BY <1>1, <1>3, <1>4, NodesStand
<1>6. GroupsFound'
  BY <1>1, <1>3 DEF Midway, GroupsFound, GroupTaken, GroupNamed
<1>7. \A k \in Passed' : k \in Passed \/ k = i
  <2>1. Passed' = {k \in Places(fresh.edges) : k < i + 1}
    BY <1>1 DEF Passed
  <2>2. Passed = {k \in Places(fresh.edges) : k < i}
    BY <1>1 DEF Passed
  <2>3. \A k \in Places(fresh.edges) : k < i + 1 => k < i \/ k = i
    BY <1>2 DEF Places
  <2> QED BY <2>1, <2>2, <2>3
<1>8. e.from \in leftOut \/ e.to \in leftOut \/ Named(e)
  <2>1. e.from \in Ids(fresh.nodes) /\ e.to \in Ids(fresh.nodes)
    BY <1>2, FreshAssumption
  <2>2. Folded = Places(fresh.nodes)
    BY <1>1 DEF Folded
  <2>3. \A x \in Ids(fresh.nodes) : x \in leftOut \cup DOMAIN rename
    BY <1>1, <2>2 DEF Midway, Settled, Ids
  <2> QED BY <2>1, <2>3 DEF Named
<1>9. ASSUME NEW k \in Passed'
      PROVE  LET f == fresh.edges[k]
             IN  \/ f.from \in leftOut \/ f.to \in leftOut
                 \/ Named(f) /\ IsDrawn(spec', rename[f.from], rename[f.to])
  <2>1. CASE k = i
    BY <1>3, <1>8, <2>1
  <2>2. CASE k \in Passed
    BY <1>1, <1>3, <2>2 DEF EdgesDrawn
  <2> QED BY <1>7, <1>9, <2>1, <2>2
<1>10. EdgesDrawn'
  BY <1>1, <1>9 DEF EdgesDrawn, Named, Drawn, IsDrawn
<1> QED BY <1>1, <1>3, <1>5, <1>6, <1>10 DEF Sound, Midway

LEMMA AfterFinish ==
  ASSUME IInv, Finish
  PROVE  Sound'
<1>1. /\ UNCHANGED <<existing, fresh, rename, leftOut>>
      /\ pc = "edges" /\ pc' = "idle" /\ i > Len(fresh.edges)
      /\ Accepted(spec) /\ EdgesDrawn /\ spec \in Declarations /\ fresh \in Declarations
  BY WhileMerging DEF Finish, IInv, Sound, Base, TypeOK, Merging
<1>2. GroupsFiltered(spec, spec', Used)
  BY FinishStep DEF IInv
<1>3. /\ spec'.nodes = spec.nodes /\ spec'.edges = spec.edges
      /\ \A r \in Places(spec'.groups) :
           Nth(r, Used) \in Used /\ spec'.groups[r] = spec.groups[Nth(r, Used)]
      /\ \A q, r \in Places(spec'.groups) : Nth(q, Used) = Nth(r, Used) => q = r
      /\ \A k \in Used : \E r \in Places(spec'.groups) : Nth(r, Used) = k
  BY <1>2 DEF GroupsFiltered
<1>4. Used \subseteq Places(spec.groups)
  BY DEF Used
<1>5. GroupsUnique(spec')
  BY <1>1, <1>3, <1>4 DEF Accepted, GroupsUnique
<1>6. Grouped(spec')
  <2> SUFFICES ASSUME NEW k \in Places(spec.nodes), spec.nodes[k].group # None
               PROVE  GroupNamed(spec', spec.nodes[k].group)
    BY <1>3 DEF Grouped
  <2>1. PICK j \in Places(spec.groups) : spec.groups[j].id = spec.nodes[k].group
    BY <1>1 DEF Accepted, Grouped, GroupNamed
  <2>2. j \in Used
    BY <2>1 DEF Used
  <2> QED BY <1>3, <2>1, <2>2 DEF GroupNamed
<1>7. Accepted(spec')
  BY <1>1, <1>3, <1>5, <1>6 DEF Accepted, NodesUnique, Joined
<1>8. EdgesDrawn'
  <2>1. Passed = {k \in Places(fresh.edges) : k < i}
    BY <1>1 DEF Passed
  <2>2. Len(fresh.edges) \in Nat /\ i \in Nat
    BY <1>1, Fields DEF IInv, Base, TypeOK
  <2>3. \A k \in Places(fresh.edges) : k < i
    BY <1>1, <2>2 DEF Places
  <2>4. \A k \in Places(fresh.edges) : k \in Passed
    BY <2>1, <2>3
  <2>5. Passed' \subseteq Places(fresh.edges)
    BY <1>1 DEF Passed
  <2> QED BY <1>1, <1>3, <2>4, <2>5 DEF EdgesDrawn, Named, Drawn
<1> QED BY <1>1, <1>7, <1>8 DEF Sound, Merging

LEMMA AfterRename ==
  ASSUME Base, Accepted(spec), Rename
  PROVE  Accepted(spec')
<1>1. PICK k \in Places(spec.nodes), new \in Id \ Ids(spec.nodes) :
           /\ Len(spec'.nodes) = Len(spec.nodes) /\ Len(spec'.edges) = Len(spec.edges)
           /\ \A j \in Places(spec.nodes) :
                spec'.nodes[j] = IF j = k THEN [spec.nodes[k] EXCEPT !.id = new] ELSE spec.nodes[j]
           /\ \A j \in Places(spec.edges) :
                spec'.edges[j] = [from |-> Swap(spec.edges[j].from, spec.nodes[k].id, new),
                                  to |-> Swap(spec.edges[j].to, spec.nodes[k].id, new)]
           /\ spec'.groups = spec.groups
  BY RenameStep
<1> DEFINE old == spec.nodes[k].id
<1>2. /\ spec \in Declarations /\ \A j \in Places(spec.nodes) : spec.nodes[j] \in Nodes
      /\ \A j \in Places(spec.edges) : spec.edges[j] \in Edges
  BY Fields DEF Base, TypeOK
<1>3. \A j \in Places(spec.nodes) :
        /\ spec'.nodes[j].id = Swap(spec.nodes[j].id, old, new)
        /\ spec'.nodes[j].address = spec.nodes[j].address
        /\ spec'.nodes[j].group = spec.nodes[j].group
  <2>1. \A j \in Places(spec.nodes) : spec.nodes[j].id = old => j = k
    BY DEF Accepted, NodesUnique
  <2> QED BY <1>1, <1>2, <2>1 DEF Nodes, Swap
<1>4. /\ Places(spec'.nodes) = Places(spec.nodes) /\ Places(spec'.edges) = Places(spec.edges)
  BY <1>1 DEF Places
<1>5. \A x, y \in Ids(spec.nodes) : Swap(x, old, new) = Swap(y, old, new) => x = y
  BY DEF Swap
<1>6. \A x \in Ids(spec.nodes) : Swap(x, old, new) \in Ids(spec'.nodes)
  BY <1>3, <1>4 DEF Ids
<1>7. NodesUnique(spec')
  <2>1. \A j \in Places(spec.nodes) : spec.nodes[j].id \in Ids(spec.nodes)
    BY DEF Ids
  <2> QED BY <1>3, <1>4, <1>5, <2>1 DEF Accepted, NodesUnique
<1>8. Joined(spec')
  <2>1. \A j \in Places(spec.edges) :
          spec.edges[j].from \in Ids(spec.nodes) /\ spec.edges[j].to \in Ids(spec.nodes)
    BY DEF Accepted, Joined
  <2>2. \A j \in Places(spec.edges) :
          /\ spec'.edges[j].from = Swap(spec.edges[j].from, old, new)
          /\ spec'.edges[j].to = Swap(spec.edges[j].to, old, new)
    <3> SUFFICES ASSUME NEW j \in Places(spec.edges)
                 PROVE  /\ spec'.edges[j].from = Swap(spec.edges[j].from, old, new)
                        /\ spec'.edges[j].to = Swap(spec.edges[j].to, old, new)
      OBVIOUS
    <3> DEFINE from == Swap(spec.edges[j].from, old, new)
               to == Swap(spec.edges[j].to, old, new)
    <3>1. spec'.edges[j] = [from |-> from, to |-> to]
      BY <1>1
    <3> HIDE DEF from, to
    <3>2. spec'.edges[j].from = from /\ spec'.edges[j].to = to
      BY <3>1
    <3> QED BY <3>2 DEF from, to
  <2>3. ASSUME NEW j \in Places(spec.edges), NEW l \in Places(spec.edges),
               spec'.edges[j] = spec'.edges[l]
        PROVE  j = l
    <3>1. spec.edges[j].from = spec.edges[l].from /\ spec.edges[j].to = spec.edges[l].to
      BY <1>5, <2>1, <2>2, <2>3
    <3>2. spec.edges[j] = spec.edges[l]
      BY <1>2, <3>1 DEF Edges
    <3> QED BY <3>2 DEF Accepted, Joined
  <2> QED BY <1>4, <1>6, <2>1, <2>2, <2>3 DEF Joined
<1>9. GroupsUnique(spec') /\ Grouped(spec')
  BY <1>1, <1>3, <1>4 DEF Accepted, GroupsUnique, Grouped, GroupNamed
<1> QED BY <1>7, <1>8, <1>9 DEF Accepted

LEMMA AfterDelete ==
  ASSUME Base, Accepted(spec), Delete
  PROVE  Accepted(spec')
<1>1. PICK id \in Ids(spec.nodes) : NodesFiltered(spec, spec', OtherNodes(id), Apart(id))
  BY DeleteStep
<1> DEFINE at == OtherNodes(id)
           apart == Apart(id)
<1>2. /\ spec'.groups = spec.groups
      /\ \A r \in Places(spec'.nodes) : Nth(r, at) \in at /\ spec'.nodes[r] = spec.nodes[Nth(r, at)]
      /\ \A q, r \in Places(spec'.nodes) : Nth(q, at) = Nth(r, at) => q = r
      /\ \A k \in at : \E r \in Places(spec'.nodes) : Nth(r, at) = k
  BY <1>1 DEF NodesFiltered
<1>3. /\ \A r \in Places(spec'.edges) :
           Nth(r, apart) \in apart /\ spec'.edges[r] = spec.edges[Nth(r, apart)]
      /\ \A q, r \in Places(spec'.edges) : Nth(q, apart) = Nth(r, apart) => q = r
  BY <1>1 DEF NodesFiltered
<1>4. /\ at \subseteq Places(spec.nodes) /\ apart \subseteq Places(spec.edges)
      /\ \A k \in apart : spec.edges[k].from # id /\ spec.edges[k].to # id
      /\ \A k \in Places(spec.nodes) : spec.nodes[k].id # id => k \in at
  BY DEF OtherNodes, Apart
<1> HIDE DEF at, apart
<1>5. NodesUnique(spec')
  BY <1>2, <1>4 DEF Accepted, NodesUnique
<1>6. GroupsUnique(spec') /\ Grouped(spec')
  BY <1>2, <1>4 DEF Accepted, GroupsUnique, Grouped, GroupNamed
<1>7. \A x \in Ids(spec.nodes) : x # id => x \in Ids(spec'.nodes)
  <2> SUFFICES ASSUME NEW k \in Places(spec.nodes), spec.nodes[k].id # id
               PROVE  spec.nodes[k].id \in Ids(spec'.nodes)
    BY DEF Ids
  <2>1. PICK r \in Places(spec'.nodes) : Nth(r, at) = k
    BY <1>2, <1>4
  <2>2. spec'.nodes[r].id = spec.nodes[k].id
    BY <1>2, <2>1
  <2> QED BY <2>2 DEF Ids
<1>8. Joined(spec')
  BY <1>3, <1>4, <1>7 DEF Accepted, Joined
<1> QED BY <1>5, <1>6, <1>8 DEF Accepted

LEMMA EditAccepted ==
  ASSUME Base, Accepted(spec), People
  PROVE  Accepted(spec')
<1>1. Base /\ Accepted(spec) /\ spec \in Declarations
  BY DEF Base, TypeOK
<1>2. CASE Place
  <2>1. PICK n \in Nodes :
           /\ n.id \notin Ids(spec.nodes) /\ n.address = None /\ n.group = None
           /\ NodeAppended(spec, spec', n)
    BY <1>1, <1>2, PlaceStep
  <2> DEFINE last == Len(spec.nodes) + 1
  <2>2. /\ Places(spec'.nodes) = Places(spec.nodes) \cup {last}
        /\ Ids(spec'.nodes) = Ids(spec.nodes) \cup {n.id} /\ NodesUnique(spec')
    BY <1>1, <2>1, AppendedNames DEF Accepted
  <2>3. /\ \A k \in Places(spec.nodes) : spec'.nodes[k] = spec.nodes[k]
        /\ spec'.nodes[last] = n
        /\ spec'.groups = spec.groups /\ spec'.edges = spec.edges
    BY <2>1 DEF NodeAppended
  <2> HIDE DEF last
  <2>4. GroupsUnique(spec') /\ Grouped(spec')
    BY <1>1, <2>1, <2>2, <2>3 DEF Accepted, GroupsUnique, Grouped, GroupNamed
  <2>5. Joined(spec')
    BY <1>1, <2>2, <2>3, MoreIds DEF Accepted
  <2> QED BY <2>2, <2>4, <2>5 DEF Accepted
<1>3. CASE Answer
  <2>1. PICK k \in Places(spec.nodes), n \in Nodes :
           /\ n.id = spec.nodes[k].id /\ n.address = spec.nodes[k].address
           /\ n.group = spec.nodes[k].group
           /\ NodeReplaced(spec, spec', k, n)
    BY <1>1, <1>3, AnswerStep
  <2>2. Ids(spec'.nodes) = Ids(spec.nodes) /\ NodesUnique(spec')
    BY <1>1, <2>1, ReplacedNames, NamesKeepUnique DEF Accepted
  <2>3. /\ Places(spec'.nodes) = Places(spec.nodes)
        /\ \A j \in Places(spec.nodes) : spec'.nodes[j].group = spec.nodes[j].group
        /\ spec'.groups = spec.groups /\ spec'.edges = spec.edges
    BY <2>1 DEF NodeReplaced, Places
  <2>4. GroupsUnique(spec') /\ Grouped(spec')
    BY <1>1, <2>3 DEF Accepted, GroupsUnique, Grouped, GroupNamed
  <2>5. Joined(spec')
    BY <1>1, <2>2, <2>3, MoreIds DEF Accepted
  <2> QED BY <2>2, <2>4, <2>5 DEF Accepted
<1>4. CASE Draw
  <2>1. PICK e \in Edges :
           /\ e.from \in Ids(spec.nodes) /\ e.to \in Ids(spec.nodes)
           /\ ~ Drawn(e.from, e.to)
           /\ EdgeAppended(spec, spec', e)
    BY <1>1, <1>4, DrawStep
  <2>2. Joined(spec')
    BY <1>1, <2>1, AppendedEdges DEF Accepted, Drawn
  <2>3. spec'.nodes = spec.nodes /\ spec'.groups = spec.groups
    BY <2>1 DEF EdgeAppended
  <2> QED BY <1>1, <2>2, <2>3 DEF Accepted, NodesUnique, GroupsUnique, Grouped, GroupNamed
<1> QED BY <1>2, <1>3, <1>4, AfterRename, AfterDelete DEF People

LEMMA AfterEdit ==
  ASSUME IInv, People
  PROVE  Sound'
<1>1. Accepted(spec')
  BY EditAccepted DEF IInv, Sound
<1>2. pc' = "idle" /\ fresh' = None
  BY PeopleEdit DEF IInv
<1>3. Passed' = {}
  BY <1>2 DEF Passed, Merged
<1> QED BY <1>1, <1>2, <1>3, NothingPassed DEF Sound, Merging

LEMMA IInvStep ==
  ASSUME IInv, [Next]_vars
  PROVE  IInv'
<1>1. Base'
  BY TypesKept, PeopleStillKept DEF IInv, Base
<1>2. CASE UNCHANGED vars
  BY <1>1, <1>2
     DEF IInv, Sound, Merging, Midway, Newcomers, SeenSoFar, Brought, Settled, GroupsFound,
         GroupTaken, Folded, Passed, Merged, Live, EdgesDrawn, Named, Drawn, vars
<1>3. Sound' \/ UNCHANGED vars
  BY AfterBegin, AfterGroup, AfterPhase, AfterKnown, AfterNew, AfterGenerated, AfterFold,
     AfterLeaveOut, AfterStale, AfterEdge, AfterFinish, AfterEdit
     DEF Next, MergeStep, Rest
<1> QED BY <1>1, <1>2, <1>3 DEF IInv

LEMMA StartsSound ==
  ASSUME Init
  PROVE  IInv
<1>1. Base
  BY StartsBased
<1>2. Accepted(spec) /\ pc = "idle" /\ fresh = None
  BY PeopleAssumption DEF Init
<1>3. Passed = {}
  BY <1>2 DEF Passed, Merged
<1> QED BY <1>1, <1>2, <1>3 DEF IInv, Sound, Merging, EdgesDrawn

LEMMA IInvHolds == Spec => []IInv
<1>1. Init => IInv
  BY StartsSound
<1> QED BY <1>1, IInvStep, PTL DEF Spec

\* Whatever was imported and edited before: an id and an address name one node,
\* a node sits in a group that is there, edges join nodes that are there and none
\* is drawn twice; and once a merge is over every edge Terraform declares is drawn
\* between what its ends became, unless an end was left out with a warning.
THEOREM StaysWellFormed == Spec => []WellFormed
<1>1. IInv => WellFormed
  <2> SUFFICES ASSUME IInv, Merged
               PROVE  \A k \in Places(fresh.edges) :
                        LET e == fresh.edges[k]
                        IN  \/ e.from \in leftOut \/ e.to \in leftOut
                            \/ Named(e) /\ Drawn(rename[e.from], rename[e.to])
    BY DEF IInv, Sound, WellFormed
  <2>1. Passed = Places(fresh.edges)
    BY DEF Passed, Merged
  <2> QED BY <2>1 DEF IInv, Sound, EdgesDrawn
<1> QED BY <1>1, IInvHolds, PTL

-----------------------------------------------------------------------------
(***************************************************************************)
(* Ledger: what becomes of the addresses.                                   *)
(***************************************************************************)
LEMMA AddressesTyped ==
  ASSUME NEW s \in Declarations
  PROVE  Addresses(s.nodes) \subseteq Address
<1>1. \A k \in Places(s.nodes) : s.nodes[k] \in Nodes
  BY Fields
<1> QED BY <1>1 DEF Addresses, Nodes

LEMMA LiveRecorded == Live \subseteq Addresses(spec.nodes)
BY DEF Live, Addresses

LEMMA LedgerSame ==
  ASSUME spec'.nodes = spec.nodes
  PROVE  Addresses(spec'.nodes) = Addresses(spec.nodes) /\ Live' = Live
BY DEF Live, Addresses

LEMMA LedgerBegins ==
  ASSUME IInv, Begin
  PROVE  Abstract!Open
<1>1. fresh' \in Fresh /\ spec'.nodes = spec.nodes /\ ~ Merging /\ Merging'
  BY BeginStep DEF IInv, Begin, Merging
<1>2. Addresses(fresh'.nodes) \subseteq Address
  BY <1>1, FreshAssumption, AddressesTyped
<1> QED BY <1>1, <1>2, LedgerSame DEF Abstract!Open

LEMMA LedgerKnows ==
  ASSUME IInv, MergeKnown
  PROVE  Abstract!Bring
<1>1. PICK k \in Places(existing.nodes) :
           /\ k \in Places(spec.nodes)
           /\ Node \in Nodes /\ Node.address # None
           /\ existing.nodes[k].address = Node.address
           /\ spec.nodes[k] \in Nodes
           /\ NodeReplaced(spec, spec', k, Updated(spec.nodes[k], Node))
  BY KnownStep DEF IInv
<1> DEFINE n == Updated(spec.nodes[k], Node)
<1>2. n.id = spec.nodes[k].id /\ n.address = spec.nodes[k].address /\ n.stale = FALSE
  BY <1>1, UpdatedNode DEF IInv, Base
<1>3. NodeReplaced(spec, spec', k, n)
  BY <1>1
<1> HIDE DEF n
<1>4. /\ Merging /\ Merging' /\ fresh' = fresh /\ i \in Places(fresh.nodes)
      /\ spec.nodes[k].address = Node.address
  BY <1>1, ExistingStand, NodeTyped DEF MergeKnown, NextNode, Merging, IInv, Base
<1>5. /\ Addresses(spec'.nodes) = Addresses(spec.nodes)
      /\ Node.address \in Addresses(spec.nodes) /\ Node.address \in Addresses(fresh.nodes)
  <2>1. Addresses(spec'.nodes) = Addresses(spec.nodes)
    <3>1. SameNames(spec, spec')
      BY <1>1, <1>2, <1>3, ReplacedNames
    <3> QED BY <3>1, NamesKeepUnique
  <2> QED BY <1>1, <1>4, <2>1 DEF Addresses, Node
<1>6. Live' = Live \cup {Node.address}
  <2>1. /\ Places(spec'.nodes) = Places(spec.nodes)
        /\ \A j \in Places(spec.nodes) : spec'.nodes[j] = IF j = k THEN n ELSE spec.nodes[j]
    BY <1>3 DEF NodeReplaced, Places
  <2> QED BY <1>1, <1>2, <1>4, <2>1 DEF Live
<1> QED BY <1>4, <1>5, <1>6 DEF Abstract!Bring

LEMMA AppendedLive ==
  ASSUME spec \in Declarations, NEW n, NodeAppended(spec, spec', n), ~ n.stale \/ n.address = None
  PROVE  Live' = Live \cup ({n.address} \ {None})
<1> DEFINE last == Len(spec.nodes) + 1
<1>1. Places(spec'.nodes) = Places(spec.nodes) \cup {last} /\ last \notin Places(spec.nodes)
  BY AppendedNames
<1>2. (\A k \in Places(spec.nodes) : spec'.nodes[k] = spec.nodes[k]) /\ spec'.nodes[last] = n
  BY DEF NodeAppended
<1> HIDE DEF last
<1> QED BY <1>1, <1>2 DEF Live

LEMMA AppendedUnaddressed ==
  ASSUME spec \in Declarations, NEW n, NodeAppended(spec, spec', n), n.address = None
  PROVE  Addresses(spec'.nodes) = Addresses(spec.nodes) /\ Live' = Live
<1>1. Addresses(spec'.nodes) = Addresses(spec.nodes) \cup ({n.address} \ {None})
  BY AppendedNames
<1>2. Live' = Live \cup ({n.address} \ {None})
  BY AppendedLive
<1>3. {n.address} \ {None} = {}
  OBVIOUS
<1> QED BY <1>1, <1>2, <1>3

LEMMA LedgerAdds ==
  ASSUME IInv, AddNew
  PROVE  Abstract!Bring
<1>1. PICK n \in Nodes :
           n.address = Node.address /\ n.stale = FALSE /\ NodeAppended(spec, spec', n)
  BY NewStep DEF IInv
<1>2. /\ Merging /\ Merging' /\ fresh' = fresh /\ i \in Places(fresh.nodes)
      /\ Node.address # None /\ spec \in Declarations
  BY NodeTyped DEF AddNew, NextNode, Merging, IInv, Base, TypeOK
<1>3. Addresses(spec'.nodes) = Addresses(spec.nodes) \cup {Node.address}
  BY <1>1, <1>2, AppendedNames
<1>4. Live' = Live \cup {Node.address}
  BY <1>1, <1>2, AppendedLive
<1>5. Node.address \in Addresses(fresh.nodes)
  BY <1>2 DEF Addresses, Node
<1> QED BY <1>2, <1>3, <1>4, <1>5 DEF Abstract!Bring

LEMMA LedgerMarks ==
  ASSUME IInv, MarkStale
  PROVE  Abstract!Leave
<1>1. /\ Merging /\ Merging' /\ fresh' = fresh /\ pc = "stale" /\ pc' = "edges" /\ Midway
  BY DEF MarkStale, Merging, IInv, Sound
<1>2. Live' = Addresses(fresh.nodes)
  BY <1>1, AfterStale DEF Sound
<1>3. Addresses(fresh.nodes) \subseteq Live
  BY <1>1 DEF Midway, Brought, Folded, Addresses
<1>4. Addresses(spec'.nodes) = Addresses(spec.nodes)
  <2>1. /\ Len(spec'.nodes) = Len(spec.nodes)
        /\ \A k \in Places(spec.nodes) :
             spec'.nodes[k] = IF k <= Len(existing.nodes) /\ Gone(k)
                              THEN [spec.nodes[k] EXCEPT !.stale = TRUE] ELSE spec.nodes[k]
    BY StaleStep DEF IInv
  <2>2. \A k \in Places(spec.nodes) : spec.nodes[k] \in Nodes
    BY Fields DEF IInv, Base, TypeOK
  <2>3. SameNames(spec, spec')
    BY <2>1, <2>2 DEF SameNames, Nodes
  <2> QED BY <2>3, NamesKeepUnique
<1>5. Live' = Live \cap Addresses(fresh.nodes)
  BY <1>2, <1>3
<1> QED BY <1>1, <1>4, <1>5 DEF Abstract!Leave

LEMMA LedgerCloses ==
  ASSUME IInv, Finish
  PROVE  Abstract!Close
<1>1. Merging /\ ~ Merging' /\ Live = Addresses(fresh.nodes)
  BY DEF Finish, Merging, IInv, Sound
<1>2. spec'.nodes = spec.nodes
  BY FinishStep DEF GroupsFiltered, IInv
<1> QED BY <1>1, <1>2, LedgerSame DEF Abstract!Close

LEMMA LedgerLoses ==
  ASSUME IInv, Delete
  PROVE  Abstract!TakeOut \/ UNCHANGED Abstract!lvars
<1>1. PICK id \in Ids(spec.nodes) : NodesFiltered(spec, spec', OtherNodes(id), Apart(id))
  BY DeleteStep DEF IInv
<1> DEFINE at == OtherNodes(id)
<1>2. /\ \A r \in Places(spec'.nodes) : Nth(r, at) \in at /\ spec'.nodes[r] = spec.nodes[Nth(r, at)]
      /\ \A k \in at : \E r \in Places(spec'.nodes) : Nth(r, at) = k
  BY <1>1 DEF NodesFiltered
<1>3. PICK d \in Places(spec.nodes) : spec.nodes[d].id = id
  BY DEF Ids
<1>4. NodesUnique(spec)
  BY DEF IInv, Sound, Accepted
<1>5. at = Places(spec.nodes) \ {d}
  BY <1>3, <1>4 DEF OtherNodes, NodesUnique
<1> HIDE DEF at
<1>6. Addresses(spec'.nodes) = {spec.nodes[k].address : k \in at} \ {None}
  BY <1>2 DEF Addresses
<1>7. Live' = {spec.nodes[k].address : k \in {j \in at : ~ spec.nodes[j].stale}} \ {None}
  BY <1>2 DEF Live
<1> DEFINE a == spec.nodes[d].address
<1>8. Addresses(spec'.nodes) = Addresses(spec.nodes) \ {a}
  BY <1>4, <1>5, <1>6 DEF Addresses, NodesUnique
<1>9. Live' = Live \ {a}
  BY <1>4, <1>5, <1>7 DEF Live, NodesUnique
<1>10. pc = "idle" /\ pc' = "idle"
  BY PeopleEdit DEF IInv, People
<1>11. CASE a = None
  <2>1. Addresses(spec'.nodes) = Addresses(spec.nodes) /\ Live' = Live
    BY <1>8, <1>9, <1>11 DEF Addresses, Live
  <2> QED BY <1>10, <2>1 DEF Abstract!lvars, Merging, Addresses
<1>12. CASE a # None
  <2>1. a \in Addresses(spec.nodes)
    BY <1>12 DEF Addresses
  <2> QED BY <1>8, <1>9, <1>10, <2>1 DEF Abstract!TakeOut, Merging
<1> QED BY <1>11, <1>12

LEMMA LedgerEdited ==
  ASSUME IInv, Place \/ Rename \/ Answer \/ Draw
  PROVE  UNCHANGED Abstract!lvars
<1>1. pc = "idle" /\ pc' = "idle" /\ spec \in Declarations /\ Base
  BY PeopleEdit DEF IInv, People, Base, TypeOK
<1>2. \A k \in Places(spec.nodes) : spec.nodes[k] \in Nodes
  BY <1>1, Fields
<1> SUFFICES Addresses(spec'.nodes) = Addresses(spec.nodes) /\ Live' = Live
  BY <1>1 DEF Abstract!lvars, Merging, Addresses
<1>3. CASE Place
  <2>1. PICK n \in Nodes : n.address = None /\ NodeAppended(spec, spec', n)
    BY <1>1, <1>3, PlaceStep
  <2> QED BY <1>1, <2>1, AppendedUnaddressed
<1>4. ASSUME Len(spec'.nodes) = Len(spec.nodes),
             \A k \in Places(spec.nodes) :
               /\ spec'.nodes[k].address = spec.nodes[k].address
               /\ spec'.nodes[k].stale = spec.nodes[k].stale
      PROVE  Addresses(spec'.nodes) = Addresses(spec.nodes) /\ Live' = Live
  <2>1. Places(spec'.nodes) = Places(spec.nodes)
    BY <1>4 DEF Places
  <2> QED BY <1>4, <2>1 DEF Addresses, Live
<1>5. CASE Rename
  <2>1. PICK k \in Places(spec.nodes), new \in Id :
           /\ Len(spec'.nodes) = Len(spec.nodes)
           /\ \A j \in Places(spec.nodes) :
                spec'.nodes[j] = IF j = k THEN [spec.nodes[k] EXCEPT !.id = new] ELSE spec.nodes[j]
    BY <1>1, <1>5, RenameStep
  <2>2. \A n \in Nodes : /\ [n EXCEPT !.id = new].address = n.address
                         /\ [n EXCEPT !.id = new].stale = n.stale
    BY DEF Nodes
  <2> QED BY ZenonT(60), <1>2, <1>4, <2>1, <2>2
<1>6. CASE Answer
  <2>1. PICK k \in Places(spec.nodes), n \in Nodes :
           /\ n.address = spec.nodes[k].address /\ n.stale = spec.nodes[k].stale
           /\ NodeReplaced(spec, spec', k, n)
    BY <1>1, <1>6, AnswerStep
  <2> QED BY <1>4, <2>1 DEF NodeReplaced
<1>7. CASE Draw
  <2>1. spec'.nodes = spec.nodes
    BY <1>1, <1>7, DrawStep DEF EdgeAppended
  <2> QED BY <2>1, LedgerSame
<1> QED BY <1>3, <1>5, <1>6, <1>7

LEMMA LedgerStep ==
  ASSUME IInv, [Next]_vars
  PROVE  [Abstract!LNext]_(Abstract!lvars)
<1>1. CASE MergeGroup \/ MergeEdge \/ GroupsMerged \/ Fold \/ LeaveOut \/ NodesMerged
  <2>1. spec'.nodes = spec.nodes /\ Merging /\ Merging' /\ fresh' = fresh
    <3>1. CASE MergeGroup
      BY <3>1, GroupStep DEF GroupAppended, MergeGroup, Merging, IInv
    <3>2. CASE MergeEdge
      BY <3>2, EdgeStep DEF EdgeAppended, MergeEdge, Merging, IInv
    <3> QED BY <1>1, <3>1, <3>2 DEF GroupsMerged, Fold, LeaveOut, NodesMerged, NextNode, Merging
  <2> QED BY <2>1, LedgerSame DEF Abstract!lvars
<1>2. CASE AddGenerated
  <2>1. Merging /\ Merging' /\ fresh' = fresh /\ spec \in Declarations
    BY <1>2 DEF AddGenerated, NextNode, Merging, IInv, Base, TypeOK
  <2>2. Node.address = None /\ (UNCHANGED spec \/ NodeAppended(spec, spec', Node))
    BY <1>2, GeneratedStep DEF IInv
  <2>3. Addresses(spec'.nodes) = Addresses(spec.nodes) /\ Live' = Live
    BY <2>1, <2>2, LedgerSame, AppendedUnaddressed
  <2> QED BY <2>1, <2>3 DEF Abstract!lvars
<1>3. CASE UNCHANGED vars
  BY <1>3 DEF vars, Abstract!lvars, Live, Merging, Addresses
<1> QED
  BY <1>1, <1>2, <1>3, LedgerBegins, LedgerKnows, LedgerAdds, LedgerMarks, LedgerCloses,
     LedgerLoses, LedgerEdited
     DEF Next, MergeStep, People, Rest, Abstract!LNext

\* A merge keeps Ledger's promise at every step: an address Terraform declared once
\* is never forgotten, at the end of an import exactly the declared ones are live,
\* and only people take one out.
THEOREM MergeKeepsLedger == Spec => KeepsLedger
<1>1. ASSUME Init PROVE Abstract!LInit
  <2>1. spec \in Declarations /\ pc = "idle"
    BY <1>1, PeopleAssumption DEF Init
  <2> QED BY <2>1, AddressesTyped, LiveRecorded DEF Abstract!LInit, Merging
<1>2. IInv /\ [Next]_vars => [Abstract!LNext]_(Abstract!lvars)
  BY LedgerStep
<1> QED BY <1>1, <1>2, IInvHolds, PTL DEF Spec, KeepsLedger, Abstract!LSpec

-----------------------------------------------------------------------------
(***************************************************************************)
(* Merging twice: what the first merge of a reading leaves, so that the     *)
(* second finds everything as it would have put it.                         *)
(***************************************************************************)
\* updateNode would change nothing of n: it holds what Terraform says of f.
Agreed(n, f, group) ==
  /\ n.type = f.type /\ ~ n.stale /\ n.group = group
  /\ Instances(n.instances, f.instances) = n.instances
  /\ n.answer = None => f.answer = None
  /\ n.load = None => f.load = None
  /\ Follows(n, f) => n.traffic = f.traffic

\* The node of s with f's address holds what f says, and is what f became.
Became(s, f, r, group) ==
  \E k \in Places(s.nodes) :
    /\ s.nodes[k].address = f.address /\ Agreed(s.nodes[k], f, group)
    /\ f.id \in DOMAIN r /\ r[f.id] = s.nodes[k].id

\* The nodes people placed, those that may be what f stands for, and whether
\* addExternal would take f for one of them rather than add it.
ByHand(s, type) == {k \in Places(s.nodes) : s.nodes[k].address = None /\ s.nodes[k].type = type}
Likely(s, f) == {k \in ByHand(s, f.type) : Identified(f) /\ s.nodes[k].answer = f.answer}
Undecided(s, f) ==
  /\ f.type # Entry /\ ByHand(s, f.type) # {}
  /\ ~ (Likely(s, f) = {} /\ Identified(f))

\* What addExternal made of f: the node of its id, or the one it stands for, if any.
External(ids, s, f, r) ==
  \/ f.id \in ids /\ f.id \in DOMAIN r /\ r[f.id] = f.id
  \/ /\ f.id \notin ids /\ Undecided(s, f)
     /\ \A k \in Places(s.nodes) :
          Likely(s, f) = {k} => f.id \in DOMAIN r /\ r[f.id] = s.nodes[k].id

\* The group mergeGroups finds for one of that kind and label.
First(s, what) ==
  {k \in Places(s.groups) :
     /\ s.groups[k].what = what
     /\ \A m \in Places(s.groups) : s.groups[m].what = what => k <= m}

\* A fresh node of this group is put in the group id.
Home(s, f, group, id) ==
  \/ (\A j \in Places(f.groups) : f.groups[j].id # group) /\ id = None
  \/ \E j \in Places(f.groups) :
       f.groups[j].id = group /\ \E k \in First(s, f.groups[j].what) : s.groups[k].id = id
KnownIn(s, f, n, r) == \E id \in Id \cup {None} : Home(s, f, n.group, id) /\ Became(s, n, r, id)

\* A declaration into which f was merged, its ids becoming what r says.
Resting(s, f, r) ==
  /\ s.region = None => f.region = None
  /\ \A k \in Places(s.groups) : \E j \in Places(s.nodes) : s.nodes[j].group = s.groups[k].id
  /\ \A j \in Places(f.nodes) :
       IF f.nodes[j].address # None THEN KnownIn(s, f, f.nodes[j], r)
       ELSE External(Ids(s.nodes), s, f.nodes[j], r)
  /\ \A k \in Places(s.nodes) :
       s.nodes[k].address # None => s.nodes[k].address \in Addresses(f.nodes) \/ s.nodes[k].stale
  /\ \A k \in Places(f.edges) :
       f.edges[k].from \in DOMAIN r /\ f.edges[k].to \in DOMAIN r
         => IsDrawn(s, r[f.edges[k].from], r[f.edges[k].to])

(***************************************************************************)
(* What a merge on its way there has done so far.                           *)
(***************************************************************************)
Told ==
  \A j \in Folded :
    IF fresh.nodes[j].address # None
    THEN Became(spec, fresh.nodes[j], rename, Final(fresh.nodes[j].group))
    ELSE External(Ids(spec.nodes), existing, fresh.nodes[j], rename)

\* No node the merge added is one that would have been taken for people's.
Added ==
  \A k \in Places(spec.nodes) :
    k > Len(existing.nodes) /\ spec.nodes[k].address = None => ~ Undecided(existing, spec.nodes[k])

Gathered == IF pc = "groups" THEN {j \in Places(fresh.groups) : j < i} ELSE Places(fresh.groups)
Housed ==
  /\ DOMAIN groupID = {None} \cup {fresh.groups[j].id : j \in Gathered}
  /\ groupID[None] = None
  /\ \A j \in Gathered :
       \E k \in First(spec, fresh.groups[j].what) : groupID[fresh.groups[j].id] = spec.groups[k].id

Joins ==
  \A k \in Passed :
    Named(fresh.edges[k]) => IsDrawn(spec, rename[fresh.edges[k].from], rename[fresh.edges[k].to])

Headed == spec.region = None => fresh.region = None

Course == Merging => Headed /\ Told /\ Added /\ Housed /\ Joins
Rests == Merged => Resting(spec, fresh, rename)

(***************************************************************************)
(* The second time: nothing of people's nodes and edges changes, groups     *)
(* only come after those that were there, and each fresh id becomes what it *)
(* became the first time, r.                                                *)
(***************************************************************************)
Unchanged ==
  /\ spec.region = existing.region /\ spec.nodes = existing.nodes /\ spec.edges = existing.edges
  /\ Len(existing.groups) <= Len(spec.groups)
  /\ \A k \in Places(existing.groups) : spec.groups[k] = existing.groups[k]
Traced(r) == \A x \in DOMAIN rename : x \in DOMAIN r /\ rename[x] = r[x]
Repeats ==
  again /\ Merging =>
    /\ Unchanged /\ Grouped(existing)
    /\ \E r : Resting(existing, fresh, r) /\ Traced(r)

TwiceInv == IInv /\ Course /\ Rests /\ Repeats /\ TwiceChangesNothing

-----------------------------------------------------------------------------
(***************************************************************************)
(* updateNode leaves a node that agrees, and one that agrees as it is.      *)
(***************************************************************************)
LEMMA InstancesSettle ==
  ASSUME NEW a \in Int, NEW b \in Int
  PROVE  Instances(Instances(a, b), b) = Instances(a, b) /\ Instances(b, b) = b
BY DEF Instances, UnknownInstances

LEMMA UpdatedAgrees ==
  ASSUME TypeOK, NEW n \in Nodes, NEW f \in Nodes
  PROVE  Agreed(Updated(n, f), f, Final(f.group))
<1> DEFINE load == IF n.load = None THEN f.load ELSE n.load
           loaded == [n EXCEPT !.load = load]
           traffic == IF Follows(loaded, f) THEN f.traffic ELSE n.traffic
           answer == IF n.answer = None THEN f.answer ELSE n.answer
           instances == Instances(n.instances, f.instances)
           u == Updated(n, f)
<1>1. u = [n EXCEPT !.type = f.type, !.stale = FALSE, !.group = Final(f.group),
                    !.instances = instances, !.answer = answer, !.load = load,
                    !.traffic = traffic]
  BY DEF Updated
<1>2. Instances(instances, f.instances) = instances
  BY InstancesSettle DEF Nodes
<1>3. loaded.load = load /\ loaded.traffic = n.traffic
  BY DEF Nodes
<1> HIDE DEF load, loaded, traffic, answer, instances, u
<1>4. /\ u.type = f.type /\ u.stale = FALSE /\ u.group = Final(f.group)
      /\ u.instances = instances /\ u.answer = answer /\ u.load = load /\ u.traffic = traffic
  BY <1>1 DEF Nodes
<1>5. (u.answer = None => f.answer = None) /\ (u.load = None => f.load = None)
  BY <1>4 DEF answer, load
<1>6. Follows(u, f) => u.traffic = f.traffic
  <2> SUFFICES ASSUME Follows(u, f), ~ Follows(loaded, f) PROVE FALSE
    BY <1>4 DEF traffic
  <2>1. u.load = loaded.load /\ u.traffic = loaded.traffic
    BY <1>3, <1>4 DEF traffic
  <2> QED BY <2>1 DEF Follows
<1> QED BY <1>2, <1>4, <1>5, <1>6 DEF Agreed, u

LEMMA AgreedStays ==
  ASSUME NEW n \in Nodes, NEW f \in Nodes, Agreed(n, f, Final(f.group))
  PROVE  Updated(n, f) = n
<1> DEFINE load == IF n.load = None THEN f.load ELSE n.load
           loaded == [n EXCEPT !.load = load]
           traffic == IF Follows(loaded, f) THEN f.traffic ELSE n.traffic
           answer == IF n.answer = None THEN f.answer ELSE n.answer
<1>1. Updated(n, f) =
        [n EXCEPT !.type = f.type, !.stale = FALSE, !.group = Final(f.group),
                  !.instances = Instances(n.instances, f.instances),
                  !.answer = answer, !.load = load, !.traffic = traffic]
  BY DEF Updated
<1>2. load = n.load /\ answer = n.answer
  BY DEF Agreed
<1>3. loaded = n
  BY <1>2 DEF Nodes
<1>4. traffic = n.traffic
  BY <1>3 DEF Agreed
<1> HIDE DEF load, loaded, traffic, answer
<1>5. n.stale = FALSE
  BY DEF Agreed, Nodes
<1>6. /\ f.type = n.type /\ Final(f.group) = n.group
      /\ Instances(n.instances, f.instances) = n.instances
  BY DEF Agreed
<1>7. Updated(n, f) =
        [n EXCEPT !.type = n.type, !.stale = n.stale, !.group = n.group,
                  !.instances = n.instances, !.answer = n.answer, !.load = n.load,
                  !.traffic = n.traffic]
  BY <1>1, <1>2, <1>4, <1>5, <1>6
<1> QED BY <1>7 DEF Nodes

\* AddNew's node agrees with the fresh node it was made from.
LEMMA NewAgrees ==
  ASSUME NEW n \in Nodes, NEW f \in Nodes, n = [f EXCEPT !.id = n.id, !.group = n.group], ~ f.stale
  PROVE  Agreed(n, f, n.group)
<1>1. /\ n.type = f.type /\ n.stale = f.stale /\ n.instances = f.instances
      /\ n.answer = f.answer /\ n.load = f.load /\ n.traffic = f.traffic
  BY DEF Nodes
<1>2. Instances(f.instances, f.instances) = f.instances
  BY InstancesSettle DEF Nodes
<1> QED BY <1>1, <1>2 DEF Agreed

(***************************************************************************)
(* addExternal looks at what people had: what a merge adds is past it.      *)
(***************************************************************************)
LEMMA HandKept ==
  ASSUME Base, fresh # None, NEW k \in Places(existing.nodes)
  PROVE  /\ k \in Places(spec.nodes)
         /\ spec.nodes[k].id = existing.nodes[k].id
         /\ spec.nodes[k].address = existing.nodes[k].address
         /\ existing.nodes[k].address = None => spec.nodes[k] = existing.nodes[k]
<1>1. Len(existing.nodes) \in Nat /\ Len(spec.nodes) \in Nat
  BY Fields DEF Base, TypeOK
<1> QED BY <1>1 DEF Base, PeopleKept, Kept, Places

LEMMA GeneratedOrNot ==
  ASSUME Base, fresh # None, NEW f
  PROVE  /\ Agree(f) = Likely(existing, f)
         /\ Generated(f) <=> f.id \in Ids(spec.nodes) \/ ~ Undecided(existing, f)
<1>1. PlacedByHand(f.type) = ByHand(existing, f.type)
  BY HandKept DEF PlacedByHand, ByHand
<1>2. Agree(f) = Likely(existing, f)
  <2>1. \A k \in ByHand(existing, f.type) : spec.nodes[k].answer = existing.nodes[k].answer
    BY HandKept DEF ByHand
  <2> QED BY <1>1, <2>1 DEF Agree, Likely
<1> QED BY <1>1, <1>2 DEF Generated, Undecided

\* What was undecided when the merge began is as undecided when it is over.
LEMMA StillUndecided ==
  ASSUME Base, fresh # None, Added, NEW f, Undecided(existing, f)
  PROVE  Undecided(spec, f) /\ Likely(spec, f) = Likely(existing, f)
<1>1. \A k \in ByHand(existing, f.type) :
        k \in ByHand(spec, f.type) /\ spec.nodes[k].answer = existing.nodes[k].answer
  BY HandKept DEF ByHand
<1>2. Likely(existing, f) \subseteq Likely(spec, f)
  BY <1>1 DEF Likely
<1>3. Likely(spec, f) \subseteq Likely(existing, f)
  <2> SUFFICES ASSUME NEW k \in Likely(spec, f) PROVE k \in Likely(existing, f)
    OBVIOUS
  <2>1. /\ k \in Places(spec.nodes) /\ spec.nodes[k].address = None
        /\ spec.nodes[k].type = f.type /\ spec.nodes[k].answer = f.answer /\ Identified(f)
    BY DEF Likely, ByHand
  <2>2. CASE k \in Places(existing.nodes)
    <3>1. existing.nodes[k] = spec.nodes[k]
      BY <2>1, <2>2, HandKept
    <3> QED BY <2>1, <2>2, <3>1 DEF Likely, ByHand
  <2>3. CASE k > Len(existing.nodes)
    <3>1. ~ Undecided(existing, spec.nodes[k])
      BY <2>1, <2>3 DEF Added
    <3>2. /\ Likely(existing, spec.nodes[k]) = Likely(existing, f)
          /\ Identified(spec.nodes[k]) = Identified(f)
      BY <2>1 DEF Likely, Identified
    <3> QED BY <2>1, <3>1, <3>2 DEF Undecided
  <2>4. k \in Places(existing.nodes) \/ k > Len(existing.nodes)
    <3>1. Len(existing.nodes) \in Nat /\ Len(spec.nodes) \in Nat
      BY Fields DEF Base, TypeOK
    <3> QED BY <2>1, <3>1 DEF Places
  <2> QED BY <2>2, <2>3, <2>4
<1>4. ByHand(spec, f.type) # {}
  BY <1>1 DEF Undecided
<1> QED BY <1>2, <1>3, <1>4 DEF Undecided

-----------------------------------------------------------------------------
(***************************************************************************)
(* Course, action by action.  What is said of groups, edges and the region  *)
(* stands where they do.                                                    *)
(***************************************************************************)
LEMMA GroupsStand ==
  ASSUME Housed, UNCHANGED <<fresh, groupID>>, spec'.groups = spec.groups, Gathered' = Gathered
  PROVE  Housed'
BY DEF Housed, First

LEMMA NothingJoins ==
  ASSUME Passed' = {}
  PROVE  Joins'
BY DEF Joins

\* The region is set by mergeHeader alone.
LEMMA RegionStays ==
  ASSUME Base, MergeStep, ~ Begin
  PROVE  spec'.region = spec.region
<1>1. spec \in Declarations
  BY DEF Base, TypeOK
<1>2. ASSUME NEW x, spec' = [spec EXCEPT !.nodes = x] \/ spec' = [spec EXCEPT !.groups = x]
                      \/ spec' = [spec EXCEPT !.edges = x]
      PROVE  spec'.region = spec.region
  BY <1>1, <1>2 DEF Declarations
<1>3. CASE MergeGroup
  <2>1. UNCHANGED spec \/ \E x : spec' = [spec EXCEPT !.groups = x]
    BY <1>3 DEF MergeGroup
  <2> QED BY <1>2, <2>1
<1>4. CASE MergeKnown
  <2>1. \E x : spec' = [spec EXCEPT !.nodes = x]
    BY <1>4 DEF MergeKnown
  <2> QED BY <1>2, <2>1
<1>5. CASE AddNew
  <2>1. \E x : spec' = [spec EXCEPT !.nodes = x]
    BY <1>5 DEF AddNew
  <2> QED BY <1>2, <2>1
<1>6. CASE AddGenerated
  <2>1. UNCHANGED spec \/ \E x : spec' = [spec EXCEPT !.nodes = x]
    BY <1>6 DEF AddGenerated
  <2> QED BY <1>2, <2>1
<1>7. CASE MarkStale
  <2>1. \E x : spec' = [spec EXCEPT !.nodes = x]
    BY <1>7 DEF MarkStale
  <2> QED BY <1>2, <2>1
<1>8. CASE MergeEdge
  <2>1. UNCHANGED spec \/ \E x : spec' = [spec EXCEPT !.edges = x]
    BY <1>8 DEF MergeEdge
  <2> QED BY <1>2, <2>1
<1>9. CASE Finish
  <2>1. \E x : spec' = [spec EXCEPT !.groups = x]
    BY <1>9 DEF Finish
  <2> QED BY <1>2, <2>1
<1>10. CASE GroupsMerged \/ Fold \/ LeaveOut \/ NodesMerged
  BY <1>10 DEF GroupsMerged, Fold, LeaveOut, NodesMerged
<1> QED BY <1>3, <1>4, <1>5, <1>6, <1>7, <1>8, <1>9, <1>10 DEF MergeStep

LEMMA CourseBegins ==
  ASSUME IInv, Begin
  PROVE  Course'
<1>1. /\ spec'.nodes = spec.nodes /\ fresh' \in Fresh /\ fresh' \in Declarations
      /\ existing' = spec /\ pc' = "groups" /\ i' = 1 /\ rename' = <<>>
      /\ groupID' = [g \in {None} |-> None]
  BY BeginStep, FreshAssumption DEF Begin, IInv
<1>2. Headed'
  <2>1. spec' = [spec EXCEPT !.region = IF spec.region = None THEN fresh'.region ELSE spec.region]
    BY DEF Begin
  <2>2. spec'.region = IF spec.region = None THEN fresh'.region ELSE spec.region
    BY <2>1 DEF IInv, Base, TypeOK, Declarations
  <2> QED BY <2>2 DEF Headed
<1>3. Told'
  BY <1>1 DEF Told, Folded
<1>4. Added'
  <2>1. Len(spec.nodes) \in Nat
    BY Fields DEF IInv, Base, TypeOK
  <2> QED BY <1>1, <2>1 DEF Added, Places
<1>5. Housed'
  <2>1. Len(fresh'.groups) \in Nat
    BY <1>1, Fields
  <2>2. Gathered' = {}
    BY <1>1, <2>1 DEF Gathered, Places
  <2> QED BY <1>1, <2>2 DEF Housed
<1>6. Passed' = {}
  BY <1>1 DEF Passed, Merged
<1> QED BY <1>2, <1>3, <1>4, <1>5, <1>6, NothingJoins DEF Course

\* A group of a kind and label is found where the first one is, or becomes the first.
LEMMA GroupHoused ==
  ASSUME Base, MergeGroup
  PROVE  /\ \E k \in First(spec', fresh.groups[i].what) :
              groupID' = Set(groupID, fresh.groups[i].id, spec'.groups[k].id)
         /\ \A what : First(spec, what) \subseteq First(spec', what)
         /\ \A k \in Places(spec.groups) :
              k \in Places(spec'.groups) /\ spec'.groups[k] = spec.groups[k]
         /\ Len(spec.groups) <= Len(spec'.groups)
         /\ spec'.nodes = spec.nodes /\ spec'.edges = spec.edges
<1> DEFINE g == fresh.groups[i]
<1>1. /\ fresh \in Fresh /\ fresh \in Declarations /\ spec \in Declarations
      /\ Len(spec.groups) \in Nat
  BY WhileMerging, Fields DEF Merging, MergeGroup, Base, TypeOK
<1>2. g \in Groups
  <2>1. i \in Places(fresh.groups)
    BY <1>1, Fields DEF Base, TypeOK, Places, MergeGroup
  <2> QED BY <1>1, <2>1, Fields
<1>3. CASE \E k \in SameGroup(g) :
             /\ \A j \in SameGroup(g) : k <= j
             /\ groupID' = Set(groupID, g.id, spec.groups[k].id)
             /\ UNCHANGED spec
  <2>1. PICK k \in SameGroup(g) :
             /\ \A j \in SameGroup(g) : k <= j
             /\ groupID' = Set(groupID, g.id, spec.groups[k].id)
             /\ UNCHANGED spec
    BY <1>3
  <2>2. k \in First(spec, g.what)
    BY <2>1 DEF SameGroup, First
  <2> QED BY <1>1, <2>1, <2>2
<1>4. CASE /\ SameGroup(g) = {}
           /\ \E n \in 1 .. MaxNumber :
                /\ spec' = [spec EXCEPT !.groups = Append(@, [g EXCEPT !.id = Numbered(g.id, n)])]
                /\ groupID' = Set(groupID, g.id, Numbered(g.id, n))
  <2>1. PICK n \in 1 .. MaxNumber :
                /\ spec' = [spec EXCEPT !.groups = Append(@, [g EXCEPT !.id = Numbered(g.id, n)])]
                /\ groupID' = Set(groupID, g.id, Numbered(g.id, n))
    BY <1>4
  <2> DEFINE id == Numbered(g.id, n)
             h == [g EXCEPT !.id = id]
             last == Len(spec.groups) + 1
  <2>2. id \in Id
    <3>1. i \in Places(fresh.groups)
      BY <1>1, Fields DEF Base, TypeOK, Places, MergeGroup
    <3> QED BY <1>1, <3>1, FreshAssumption
  <2> HIDE DEF id
  <2>3. h \in Groups /\ h.id = id /\ h.what = g.what
    BY <1>2, <2>2 DEF Groups
  <2> HIDE DEF h
  <2>4. GroupAppended(spec, [spec EXCEPT !.groups = Append(@, h)], h)
    BY <1>1, <2>3, AppendGroup
  <2>5. GroupAppended(spec, spec', h)
    BY <2>1, <2>4 DEF h, id
  <2>6. /\ Places(spec'.groups) = Places(spec.groups) \cup {last}
        /\ \A k \in Places(spec.groups) : k < last /\ k <= last
        /\ last <= last /\ Len(spec.groups) <= Len(spec'.groups)
    BY <1>1, <2>5 DEF GroupAppended, Places
  <2>7. /\ \A k \in Places(spec.groups) : spec'.groups[k] = spec.groups[k]
        /\ spec'.groups[last] = h
        /\ spec'.nodes = spec.nodes /\ spec'.edges = spec.edges
    BY <2>5 DEF GroupAppended
  <2> HIDE DEF last
  <2>8. last \in First(spec', g.what)
    <3>1. \A m \in Places(spec.groups) : spec.groups[m].what # g.what
      BY <1>4 DEF SameGroup
    <3> QED BY <2>3, <2>6, <2>7, <3>1 DEF First
  <2>9. \A what : First(spec, what) \subseteq First(spec', what)
    BY <2>6, <2>7 DEF First
  <2>10. groupID' = Set(groupID, g.id, spec'.groups[last].id)
    BY <2>1, <2>3, <2>7 DEF id
  <2> QED BY <2>6, <2>7, <2>8, <2>9, <2>10
<1> QED BY <1>3, <1>4 DEF MergeGroup

LEMMA CourseGroups ==
  ASSUME IInv, Course, MergeGroup
  PROVE  Course'
<1> DEFINE g == fresh.groups[i]
<1>1. /\ UNCHANGED <<existing, fresh, pc, rename>> /\ pc = "groups" /\ i' = i + 1
      /\ Headed /\ Told /\ Added /\ Housed /\ Base
      /\ fresh \in Fresh /\ fresh \in Declarations
  BY WhileMerging DEF MergeGroup, IInv, Course, Merging
<1>2. PICK at \in First(spec', g.what) : groupID' = Set(groupID, g.id, spec'.groups[at].id)
  BY <1>1, GroupHoused
<1>3. /\ \A what : First(spec, what) \subseteq First(spec', what)
      /\ \A k \in Places(spec.groups) : spec'.groups[k] = spec.groups[k]
      /\ spec'.nodes = spec.nodes
  BY <1>1, GroupHoused
<1>4. i \in Places(fresh.groups) /\ g \in Groups
  <2>1. i \in Places(fresh.groups)
    BY <1>1, Fields DEF Base, TypeOK, Places, MergeGroup
  <2> QED BY <1>1, <2>1, Fields
<1>5. Gathered' = Gathered \cup {i} /\ i \notin Gathered /\ Gathered \subseteq Places(fresh.groups)
  <2>1. /\ Gathered = {j \in Places(fresh.groups) : j < i}
        /\ Gathered' = {j \in Places(fresh.groups) : j < i + 1}
    BY <1>1 DEF Gathered
  <2>2. \A j \in Places(fresh.groups) : j < i + 1 <=> j < i \/ j = i
    BY <1>4 DEF Places
  <2>3. ~ i < i
    BY <1>4 DEF Places
  <2> QED BY <1>4, <2>1, <2>2, <2>3
<1>6. Housed'
  <2>1. DOMAIN groupID' = DOMAIN groupID \cup {g.id}
    BY <1>2 DEF Set
  <2>2. DOMAIN groupID' = {None} \cup {fresh'.groups[j].id : j \in Gathered'}
    BY <1>1, <1>5, <2>1 DEF Housed
  <2>3. g.id # None
    BY <1>4, MergeAssumption DEF Groups
  <2>4. groupID'[None] = None
    BY <1>1, <1>2, <2>3 DEF Housed, Set
  <2>5. ASSUME NEW j \in Gathered'
        PROVE  \E k \in First(spec', fresh.groups[j].what) :
                 groupID'[fresh.groups[j].id] = spec'.groups[k].id
    <3>1. CASE j = i
      BY <1>2, <3>1 DEF Set
    <3>2. CASE j \in Gathered
      <4>1. fresh.groups[j].id # g.id
        BY <1>1, <1>4, <1>5, <3>2, ClaimAssumption
      <4>2. PICK k \in First(spec, fresh.groups[j].what) :
              groupID[fresh.groups[j].id] = spec.groups[k].id
        BY <1>1, <3>2 DEF Housed
      <4>3. fresh.groups[j].id \in DOMAIN groupID
        BY <1>1, <3>2 DEF Housed
      <4>4. groupID'[fresh.groups[j].id] = groupID[fresh.groups[j].id]
        BY <1>2, <4>1, <4>3 DEF Set
      <4>5. k \in Places(spec.groups) /\ k \in First(spec', fresh.groups[j].what)
        BY <1>3, <4>2 DEF First
      <4> QED BY <1>3, <4>2, <4>4, <4>5
    <3> QED BY <1>5, <3>1, <3>2
  <2> QED BY <1>1, <2>2, <2>4, <2>5 DEF Housed
<1>7. Folded' = {} /\ Passed' = {}
  BY <1>1 DEF Folded, Passed, Merged
<1>8. Told' /\ Added'
  BY <1>1, <1>3, <1>7 DEF Told, Added
<1>9. Headed'
  BY <1>1, RegionStays DEF Headed, MergeStep, Begin, MergeGroup
<1> QED BY <1>6, <1>7, <1>8, <1>9, NothingJoins DEF Course

LEMMA CourseNodesBegin ==
  ASSUME IInv, Course, GroupsMerged
  PROVE  Course'
<1>1. /\ UNCHANGED <<spec, existing, fresh, rename, groupID>>
      /\ pc = "groups" /\ pc' = "nodes" /\ i' = 1 /\ i > Len(fresh.groups)
      /\ Headed /\ Added /\ Housed /\ fresh \in Declarations
  BY WhileMerging DEF GroupsMerged, IInv, Course, Merging
<1>2. Gathered' = Gathered
  <2>1. Gathered = {j \in Places(fresh.groups) : j < i} /\ Gathered' = Places(fresh.groups)
    BY <1>1 DEF Gathered
  <2>2. Len(fresh.groups) \in Nat /\ i \in Nat
    BY <1>1, Fields DEF IInv, Base, TypeOK
  <2>3. \A j \in Places(fresh.groups) : j < i
    BY <1>1, <2>2 DEF Places
  <2> QED BY <2>1, <2>3
<1>3. Folded' = {} /\ Passed' = {}
  <2>1. Len(fresh.nodes) \in Nat
    BY <1>1, Fields
  <2> QED BY <1>1, <2>1 DEF Folded, Passed, Merged, Places
<1>4. Told' /\ Added' /\ Headed'
  BY <1>1, <1>3 DEF Told, Added, Headed
<1> QED BY <1>1, <1>2, <1>3, <1>4, GroupsStand, NothingJoins DEF Course

\* One more fresh node is told, and those told before are as they were: each has an
\* address and an id of its own, and no id they lack is given to a node now.
LEMMA ToldGrows ==
  ASSUME IInv, Told, pc = "nodes", i <= Len(fresh.nodes), i' = i + 1,
         UNCHANGED <<existing, fresh, pc, groupID>>,
         \A k \in Places(spec.nodes) :
           /\ k \in Places(spec'.nodes)
           /\ spec.nodes[k].address # None /\ spec.nodes[k].address # Node.address
                => spec'.nodes[k] = spec.nodes[k],
         Ids(spec.nodes) \subseteq Ids(spec'.nodes),
         \A j \in Folded :
           fresh.nodes[j].address = None /\ fresh.nodes[j].type # Entry
             /\ fresh.nodes[j].id \in Ids(spec'.nodes)
             => fresh.nodes[j].id \in Ids(spec.nodes),
         \A x \in DOMAIN rename \ {Node.id} : x \in DOMAIN rename' /\ rename'[x] = rename[x],
         IF Node.address # None THEN Became(spec', Node, rename', Final(Node.group))
         ELSE External(Ids(spec'.nodes), existing, Node, rename')
  PROVE  Told'
<1>1. /\ fresh \in Fresh /\ i \in Places(fresh.nodes)
      /\ i \notin Folded /\ Folded \subseteq Places(fresh.nodes) /\ Folded' = Folded \cup {i}
  BY NodeTyped, FoldedGrows DEF IInv
<1>2. \A g : Final(g)' = Final(g)
  BY DEF Final
<1>3. ASSUME NEW j \in Folded
      PROVE  IF fresh.nodes[j].address # None
             THEN Became(spec', fresh.nodes[j], rename', Final(fresh.nodes[j].group))
             ELSE External(Ids(spec'.nodes), existing, fresh.nodes[j], rename')
  <2> DEFINE f == fresh.nodes[j]
  <2>1. f.id # Node.id /\ (f.address # None => f.address # Node.address)
    <3>1. j # i /\ j \in Places(fresh.nodes)
      BY <1>1
    <3> QED BY <1>1, <3>1, ClaimAssumption, FreshAssumption DEF Node
  <2>2. CASE f.address # None
    <3>1. Became(spec, f, rename, Final(f.group))
      BY <2>2 DEF Told
    <3> HIDE DEF f
    <3>2. PICK k \in Places(spec.nodes) :
            /\ spec.nodes[k].address = f.address /\ Agreed(spec.nodes[k], f, Final(f.group))
            /\ f.id \in DOMAIN rename /\ rename[f.id] = spec.nodes[k].id
      BY <3>1 DEF Became
    <3>3. k \in Places(spec'.nodes) /\ spec'.nodes[k] = spec.nodes[k]
      BY <2>1, <2>2, <3>2
    <3>4. f.id \in DOMAIN rename' /\ rename'[f.id] = rename[f.id]
      BY <2>1, <3>2
    <3>5. Became(spec', f, rename', Final(f.group))
      BY <3>2, <3>3, <3>4 DEF Became
    <3> QED BY <2>2, <3>5 DEF f
  <2>3. CASE f.address = None
    <3>1. External(Ids(spec.nodes), existing, f, rename)
      BY <2>3 DEF Told
    <3>2. f.type # Entry /\ f.id \in Ids(spec'.nodes) => f.id \in Ids(spec.nodes)
      BY <2>3
    <3> HIDE DEF f
    <3>3. f.id \in DOMAIN rename => f.id \in DOMAIN rename' /\ rename'[f.id] = rename[f.id]
      BY <2>1
    <3>4. External(Ids(spec'.nodes), existing, f, rename')
      <4>1. CASE f.id \in Ids(spec.nodes)
        BY <3>1, <3>3, <4>1 DEF External
      <4>2. CASE f.id \notin Ids(spec.nodes)
        <5>1. /\ Undecided(existing, f)
              /\ \A k \in Places(existing.nodes) :
                   Likely(existing, f) = {k}
                     => f.id \in DOMAIN rename /\ rename[f.id] = existing.nodes[k].id
          BY <3>1, <4>2 DEF External
        <5>2. f.id \notin Ids(spec'.nodes)
          BY <3>2, <4>2, <5>1 DEF Undecided
        <5> QED BY <3>3, <5>1, <5>2 DEF External
      <4> QED BY <4>1, <4>2
    <3> QED BY <2>3, <3>4 DEF f
  <2> QED BY <2>2, <2>3
<1>4. IF fresh.nodes[i].address # None
      THEN Became(spec', fresh.nodes[i], rename', Final(fresh.nodes[i].group))
      ELSE External(Ids(spec'.nodes), existing, fresh.nodes[i], rename')
  BY DEF Node
<1> QED BY <1>1, <1>2, <1>3, <1>4 DEF Told

\* The rest of Course, where a fresh node is folded in.
LEMMA CourseNode ==
  ASSUME IInv, Course, pc = "nodes", i <= Len(fresh.nodes), i' = i + 1,
         MergeKnown \/ AddNew \/ AddGenerated \/ Fold \/ LeaveOut,
         spec'.groups = spec.groups, Told', Added'
  PROVE  Course'
<1>1. UNCHANGED <<existing, fresh, pc, groupID>>
  BY DEF MergeKnown, AddNew, AddGenerated, Fold, LeaveOut, NextNode
<1>2. spec'.region = spec.region
  BY RegionStays DEF IInv, MergeStep, Begin
<1>3. Headed /\ Housed
  BY DEF Course, Merging
<1>4. Headed'
  BY <1>1, <1>2, <1>3 DEF Headed
<1>5. Housed'
  <2>1. Gathered' = Gathered
    BY <1>1 DEF Gathered
  <2> QED BY <1>1, <1>3, <2>1, GroupsStand
<1>6. Passed' = {}
  BY <1>1, FoldedGrows DEF IInv
<1> QED BY <1>4, <1>5, <1>6, NothingJoins DEF Course

LEMMA RenamedRest ==
  ASSUME NEW x, NEW y, rename' = Set(rename, x, y)
  PROVE  /\ \A z \in DOMAIN rename \ {x} : z \in DOMAIN rename' /\ rename'[z] = rename[z]
         /\ x \in DOMAIN rename' /\ rename'[x] = y
BY DEF Set

LEMMA CourseKnown ==
  ASSUME IInv, Course, MergeKnown
  PROVE  Course'
<1>1. PICK k \in Places(existing.nodes) :
           /\ k \in Places(spec.nodes)
           /\ Node \in Nodes /\ Node.address # None
           /\ existing.nodes[k].address = Node.address
           /\ spec.nodes[k] \in Nodes
           /\ NodeReplaced(spec, spec', k, Updated(spec.nodes[k], Node))
           /\ rename' = Set(rename, Node.id, spec.nodes[k].id)
  BY KnownStep DEF IInv
<1> DEFINE n == Updated(spec.nodes[k], Node)
<1>2. /\ n.id = spec.nodes[k].id /\ n.address = spec.nodes[k].address
      /\ Agreed(n, Node, Final(Node.group))
  BY <1>1, UpdatedNode, UpdatedAgrees DEF IInv, Base
<1>3. NodeReplaced(spec, spec', k, n)
  BY <1>1
<1> HIDE DEF n
<1>4. /\ UNCHANGED <<existing, fresh, pc, groupID>> /\ i' = i + 1
      /\ pc = "nodes" /\ i <= Len(fresh.nodes) /\ fresh # None
      /\ Told /\ Added
  BY DEF MergeKnown, NextNode, IInv, Base, Course, Merging
<1>5. spec.nodes[k].address = Node.address
  BY <1>1, <1>4, HandKept DEF IInv
<1>6. Ids(spec'.nodes) = Ids(spec.nodes)
  BY <1>1, <1>2, <1>3, ReplacedNames, NamesKeepUnique
<1>7. /\ Places(spec'.nodes) = Places(spec.nodes)
      /\ \A j \in Places(spec.nodes) : spec'.nodes[j] = IF j = k THEN n ELSE spec.nodes[j]
      /\ spec'.groups = spec.groups
  BY <1>3 DEF NodeReplaced, Places
<1>8. Became(spec', Node, rename', Final(Node.group))
  <2>1. Node.id \in DOMAIN rename' /\ rename'[Node.id] = n.id
    BY <1>1, <1>2, RenamedRest
  <2>2. k \in Places(spec'.nodes) /\ spec'.nodes[k] = n
    BY <1>1, <1>7
  <2> QED BY <1>2, <1>5, <2>1, <2>2 DEF Became
<1>9. Told'
  <2>1. \A x \in DOMAIN rename \ {Node.id} : x \in DOMAIN rename' /\ rename'[x] = rename[x]
    BY <1>1, RenamedRest
  <2>2. \A j \in Places(spec.nodes) :
          /\ j \in Places(spec'.nodes)
          /\ spec.nodes[j].address # None /\ spec.nodes[j].address # Node.address
               => spec'.nodes[j] = spec.nodes[j]
    BY <1>5, <1>7
  <2> QED BY <1>1, <1>4, <1>6, <1>8, <2>1, <2>2, ToldGrows
<1>10. Added'
  BY <1>1, <1>2, <1>4, <1>5, <1>7 DEF Added
<1> QED BY <1>4, <1>7, <1>9, <1>10, CourseNode

LEMMA CourseNew ==
  ASSUME IInv, Course, AddNew
  PROVE  Course'
<1>1. PICK n \in Nodes :
           /\ n.address = Node.address
           /\ n.group = Final(Node.group)
           /\ n = [Node EXCEPT !.id = n.id, !.group = n.group]
           /\ NodeAppended(spec, spec', n)
           /\ rename' = Set(rename, Node.id, n.id)
  BY NewStep DEF IInv
<1>2. /\ UNCHANGED <<existing, fresh, pc, groupID>> /\ i' = i + 1
      /\ pc = "nodes" /\ i <= Len(fresh.nodes) /\ fresh \in Fresh /\ i \in Places(fresh.nodes)
      /\ Node \in Nodes /\ ~ Node.stale /\ Node.address # None
      /\ Told /\ Added /\ spec \in Declarations
  BY NodeTyped DEF AddNew, NextNode, IInv, Base, TypeOK, Course, Merging
<1> DEFINE last == Len(spec.nodes) + 1
<1>3. /\ Places(spec'.nodes) = Places(spec.nodes) \cup {last}
      /\ Ids(spec'.nodes) = Ids(spec.nodes) \cup {n.id}
  BY <1>1, <1>2, AppendedNames
<1>4. /\ \A k \in Places(spec.nodes) : spec'.nodes[k] = spec.nodes[k]
      /\ spec'.nodes[last] = n /\ spec'.groups = spec.groups
  BY <1>1 DEF NodeAppended
<1> HIDE DEF last
<1>5. Agreed(n, Node, Final(Node.group))
  BY <1>1, <1>2, NewAgrees
<1>6. Became(spec', Node, rename', Final(Node.group))
  <2>1. Node.id \in DOMAIN rename' /\ rename'[Node.id] = n.id
    BY <1>1, RenamedRest
  <2> QED BY <1>1, <1>3, <1>4, <1>5, <2>1 DEF Became
<1>7. Told'
  <2>1. \A x \in DOMAIN rename \ {Node.id} : x \in DOMAIN rename' /\ rename'[x] = rename[x]
    BY <1>1, RenamedRest
  <2>2. \A j \in Folded : fresh.nodes[j].address = None => fresh.nodes[j].type = Entry
    <3>1. Folded = {j \in Places(fresh.nodes) : j < i}
      BY <1>2 DEF Folded
    <3> QED BY <1>2, <3>1, ClaimAssumption DEF Node
  <2>3. \A j \in Places(spec.nodes) :
          j \in Places(spec'.nodes) /\ spec'.nodes[j] = spec.nodes[j]
    BY <1>3, <1>4
  <2>4. Ids(spec.nodes) \subseteq Ids(spec'.nodes)
    BY <1>3
  <2> QED BY <1>2, <1>6, <2>1, <2>2, <2>3, <2>4, ToldGrows
<1>8. Added'
  BY <1>1, <1>2, <1>3, <1>4 DEF Added
<1> QED BY <1>2, <1>4, <1>7, <1>8, CourseNode

LEMMA CourseGenerated ==
  ASSUME IInv, Course, AddGenerated
  PROVE  Course'
<1>1. /\ Node \in Nodes /\ Node.address = None
      /\ rename' = Set(rename, Node.id, Node.id)
      /\ \/ Node.id \in Ids(spec.nodes) /\ UNCHANGED spec
         \/ Node.id \notin Ids(spec.nodes) /\ NodeAppended(spec, spec', Node)
  BY GeneratedStep DEF IInv
<1>2. /\ UNCHANGED <<existing, fresh, pc, groupID>> /\ i' = i + 1
      /\ pc = "nodes" /\ i <= Len(fresh.nodes) /\ fresh \in Fresh /\ i \in Places(fresh.nodes)
      /\ fresh # None /\ Told /\ Added /\ spec \in Declarations
      /\ Node.id \in Ids(spec.nodes) \/ ~ Undecided(existing, Node)
  BY NodeTyped, GeneratedOrNot DEF AddGenerated, NextNode, IInv, Base, TypeOK, Course, Merging
<1>3. /\ \A x \in DOMAIN rename \ {Node.id} : x \in DOMAIN rename' /\ rename'[x] = rename[x]
      /\ Node.id \in DOMAIN rename' /\ rename'[Node.id] = Node.id
  BY <1>1, RenamedRest
<1>4. /\ \A k \in Places(spec.nodes) :
           k \in Places(spec'.nodes) /\ spec'.nodes[k] = spec.nodes[k]
      /\ Ids(spec'.nodes) = Ids(spec.nodes) \cup {Node.id}
      /\ spec'.groups = spec.groups
      /\ Added'
  <2>1. CASE Node.id \in Ids(spec.nodes) /\ UNCHANGED spec
    BY <1>2, <2>1 DEF Added
  <2>2. CASE Node.id \notin Ids(spec.nodes) /\ NodeAppended(spec, spec', Node)
    <3> DEFINE last == Len(spec.nodes) + 1
    <3>1. /\ Places(spec'.nodes) = Places(spec.nodes) \cup {last}
          /\ Ids(spec'.nodes) = Ids(spec.nodes) \cup {Node.id}
      BY <1>2, <2>2, AppendedNames
    <3>2. /\ \A k \in Places(spec.nodes) : spec'.nodes[k] = spec.nodes[k]
          /\ spec'.nodes[last] = Node /\ spec'.groups = spec.groups
      BY <2>2 DEF NodeAppended
    <3> HIDE DEF last
    <3>3. Added'
      BY <1>2, <2>2, <3>1, <3>2 DEF Added
    <3> QED BY <3>1, <3>2, <3>3
  <2> QED BY <1>1, <2>1, <2>2
<1>5. External(Ids(spec'.nodes), existing, Node, rename')
  BY <1>3, <1>4 DEF External
<1>6. Told'
  <2>1. \A j \in Folded : fresh.nodes[j].id # Node.id
    <3>1. i \notin Folded /\ Folded \subseteq Places(fresh.nodes)
      BY <1>2, FoldedGrows DEF IInv
    <3> QED BY <1>2, <3>1, ClaimAssumption DEF Node
  <2>2. Ids(spec.nodes) \subseteq Ids(spec'.nodes)
    BY <1>4
  <2>3. \A j \in Folded :
          fresh.nodes[j].id \in Ids(spec'.nodes) => fresh.nodes[j].id \in Ids(spec.nodes)
    BY <1>4, <2>1
  <2> QED BY <1>1, <1>2, <1>3, <1>4, <1>5, <2>2, <2>3, ToldGrows
<1> QED BY <1>2, <1>4, <1>6, CourseNode

LEMMA CourseFolds ==
  ASSUME IInv, Course, Fold \/ LeaveOut
  PROVE  Course'
<1>1. /\ UNCHANGED <<spec, existing, fresh, pc, groupID>> /\ i' = i + 1
      /\ pc = "nodes" /\ i <= Len(fresh.nodes) /\ fresh # None
      /\ Node.address = None /\ Told /\ Added
      /\ Node.id \notin Ids(spec.nodes) /\ Undecided(existing, Node)
  BY GeneratedOrNot DEF Fold, LeaveOut, NextNode, IInv, Base, Course, Merging
<1>2. Agree(Node) = Likely(existing, Node)
  BY <1>1, GeneratedOrNot DEF IInv
<1>3. \A x \in DOMAIN rename \ {Node.id} : x \in DOMAIN rename' /\ rename'[x] = rename[x]
  BY RenamedRest DEF Fold, LeaveOut
<1>4. \A k \in Places(existing.nodes) :
        Likely(existing, Node) = {k}
          => Node.id \in DOMAIN rename' /\ rename'[Node.id] = existing.nodes[k].id
  <2>1. CASE Fold
    <3>1. PICK k \in Agree(Node) :
            Agree(Node) = {k} /\ rename' = Set(rename, Node.id, spec.nodes[k].id)
      BY <2>1 DEF Fold
    <3>2. k \in Places(existing.nodes)
      BY <3>1 DEF Agree, PlacedByHand
    <3>3. spec.nodes[k].id = existing.nodes[k].id
      BY <1>1, <3>2, HandKept DEF IInv
    <3>4. Node.id \in DOMAIN rename' /\ rename'[Node.id] = existing.nodes[k].id
      BY <3>1, <3>3, RenamedRest
    <3>5. \A m : Likely(existing, Node) = {m} => m = k
      BY <1>2, <3>1
    <3> QED BY <3>4, <3>5
  <2>2. CASE LeaveOut
    <3>1. Cardinality(Likely(existing, Node)) # 1
      BY <1>2, <2>2 DEF LeaveOut
    <3>2. \A k : Cardinality({k}) = 1
      BY FS_Singleton
    <3> QED BY <3>1, <3>2
  <2> QED BY <2>1, <2>2
<1>5. External(Ids(spec'.nodes), existing, Node, rename')
  BY <1>1, <1>4 DEF External
<1>6. Told'
  BY <1>1, <1>3, <1>5, ToldGrows
<1>7. Added'
  BY <1>1 DEF Added
<1> QED BY <1>1, <1>6, <1>7, CourseNode

LEMMA CourseNodesEnd ==
  ASSUME IInv, Course, NodesMerged
  PROVE  Course'
<1>1. /\ UNCHANGED <<spec, existing, fresh, rename, groupID>>
      /\ pc = "nodes" /\ pc' = "stale" /\ i > Len(fresh.nodes)
      /\ Headed /\ Told /\ Added /\ Housed /\ fresh \in Declarations
  BY WhileMerging DEF NodesMerged, IInv, Course, Merging
<1>2. Folded' = Folded
  <2>1. Folded = {j \in Places(fresh.nodes) : j < i} /\ Folded' = Places(fresh.nodes)
    BY <1>1 DEF Folded
  <2>2. Len(fresh.nodes) \in Nat /\ i \in Nat
    BY <1>1, Fields DEF IInv, Base, TypeOK
  <2>3. \A j \in Places(fresh.nodes) : j < i
    BY <1>1, <2>2 DEF Places
  <2> QED BY <2>1, <2>3
<1>3. Gathered' = Gathered /\ Passed' = {}
  BY <1>1 DEF Gathered, Passed, Merged
<1>4. Told' /\ Added' /\ Headed'
  <2>1. \A g : Final(g)' = Final(g)
    BY <1>1 DEF Final
  <2> QED BY <1>1, <1>2, <2>1 DEF Told, Added, Headed
<1> QED BY <1>1, <1>3, <1>4, GroupsStand, NothingJoins DEF Course

\* What a fresh node became is seen, or new, and so not marked.
LEMMA CourseStale ==
  ASSUME IInv, Course, MarkStale
  PROVE  Course'
<1>1. /\ UNCHANGED <<existing, fresh, seen, rename, groupID>>
      /\ pc = "stale" /\ pc' = "edges" /\ i' = 1 /\ fresh # None /\ fresh \in Declarations
      /\ Headed /\ Told /\ Added /\ Housed /\ SeenSoFar
  BY WhileMerging DEF MarkStale, IInv, Base, Sound, Midway, Course, Merging
<1>2. /\ Len(spec'.nodes) = Len(spec.nodes) /\ spec'.groups = spec.groups
      /\ \A k \in Places(spec.nodes) :
           spec'.nodes[k] = IF k <= Len(existing.nodes) /\ Gone(k)
                            THEN [spec.nodes[k] EXCEPT !.stale = TRUE] ELSE spec.nodes[k]
  BY StaleStep DEF IInv
<1>3. /\ \A k \in Places(spec.nodes) : spec.nodes[k] \in Nodes
      /\ Len(existing.nodes) \in Nat /\ Len(spec.nodes) \in Nat
  BY Fields DEF IInv, Base, TypeOK
<1>4. Ids(spec'.nodes) = Ids(spec.nodes) /\ Places(spec'.nodes) = Places(spec.nodes)
  <2>1. Places(spec'.nodes) = Places(spec.nodes)
    BY <1>2 DEF Places
  <2>2. \A k \in Places(spec.nodes) : spec'.nodes[k].id = spec.nodes[k].id
    BY <1>2, <1>3 DEF Nodes
  <2> QED BY <2>1, <2>2 DEF Ids
<1>5. Folded = Places(fresh.nodes) /\ Folded' = Places(fresh.nodes)
  BY <1>1 DEF Folded
<1>6. \A k \in Places(spec.nodes) :
        k <= Len(existing.nodes) => k \in Places(existing.nodes)
  BY <1>3 DEF Places
<1>7. ASSUME NEW k \in Places(spec.nodes), NEW j \in Places(fresh.nodes),
             fresh.nodes[j].address # None, spec.nodes[k].address = fresh.nodes[j].address
      PROVE  spec'.nodes[k] = spec.nodes[k]
  <2> SUFFICES ASSUME k <= Len(existing.nodes), Gone(k) PROVE FALSE
    BY <1>2
  <2>1. k \in Places(existing.nodes)
    BY <1>6
  <2>2. existing.nodes[k].address = fresh.nodes[j].address
    BY <1>1, <1>7, <2>1, HandKept DEF IInv
  <2>3. k \in seen
    BY <1>1, <1>5, <1>7, <2>1, <2>2 DEF SeenSoFar
  <2> QED BY <2>3 DEF Gone
<1>8. Told'
  <2> SUFFICES ASSUME NEW j \in Places(fresh.nodes)
               PROVE  IF fresh.nodes[j].address # None
                      THEN Became(spec', fresh.nodes[j], rename, Final(fresh.nodes[j].group))
                      ELSE External(Ids(spec'.nodes), existing, fresh.nodes[j], rename)
    <3>1. \A g : Final(g)' = Final(g)
      BY <1>1 DEF Final
    <3> QED BY <1>1, <1>5, <3>1 DEF Told
  <2> DEFINE f == fresh.nodes[j]
  <2>1. CASE f.address # None
    <3>1. Became(spec, f, rename, Final(f.group))
      BY <1>1, <1>5, <2>1 DEF Told
    <3>2. PICK k \in Places(spec.nodes) :
            /\ spec.nodes[k].address = f.address /\ Agreed(spec.nodes[k], f, Final(f.group))
            /\ f.id \in DOMAIN rename /\ rename[f.id] = spec.nodes[k].id
      BY <3>1 DEF Became
    <3>3. k \in Places(spec'.nodes) /\ spec'.nodes[k] = spec.nodes[k]
      BY <1>4, <1>7, <2>1, <3>2
    <3> HIDE DEF f
    <3>4. Became(spec', f, rename, Final(f.group))
      BY <3>2, <3>3 DEF Became
    <3> QED BY <2>1, <3>4 DEF f
  <2>2. CASE f.address = None
    BY <1>1, <1>4, <1>5, <2>2 DEF Told
  <2> QED BY <2>1, <2>2
<1>9. Added'
  <2>1. \A k \in Places(spec.nodes) : k > Len(existing.nodes) => spec'.nodes[k] = spec.nodes[k]
    <3>1. \A k \in Places(spec.nodes) : k > Len(existing.nodes) => ~ k <= Len(existing.nodes)
      BY <1>3 DEF Places
    <3> QED BY <1>2, <3>1
  <2> QED BY <1>1, <1>4, <2>1 DEF Added
<1>10. Housed'
  <2>1. Gathered' = Gathered
    BY <1>1 DEF Gathered
  <2> QED BY <1>1, <1>2, <2>1, GroupsStand
<1>11. Passed' = {}
  <2>1. Len(fresh.edges) \in Nat
    BY <1>1, Fields
  <2> QED BY <1>1, <2>1 DEF Passed, Places
<1>12. Headed'
  BY <1>1, RegionStays DEF Headed, IInv, MergeStep, Begin
<1> QED BY <1>8, <1>9, <1>10, <1>11, <1>12, NothingJoins DEF Course

LEMMA CourseEdge ==
  ASSUME IInv, Course, MergeEdge
  PROVE  Course'
<1> DEFINE e == fresh.edges[i]
           a == [from |-> rename[e.from], to |-> rename[e.to]]
<1>1. /\ UNCHANGED <<existing, fresh, pc, seen, rename, groupID, leftOut>>
      /\ pc = "edges" /\ i' = i + 1 /\ spec \in Declarations
      /\ Headed /\ Told /\ Added /\ Housed /\ Joins
  BY DEF MergeEdge, IInv, Base, TypeOK, Course, Merging
<1>2. /\ i \in Places(fresh.edges)
      /\ \/ UNCHANGED spec /\ (Named(e) => Drawn(rename[e.from], rename[e.to]))
         \/ EdgeAppended(spec, spec', a)
  BY EdgeStep DEF IInv
<1>3. /\ spec'.nodes = spec.nodes /\ spec'.groups = spec.groups
      /\ Named(e) => IsDrawn(spec', rename[e.from], rename[e.to])
      /\ \A from, to : IsDrawn(spec, from, to) => IsDrawn(spec', from, to)
  <2>1. CASE UNCHANGED spec /\ (Named(e) => Drawn(rename[e.from], rename[e.to]))
    BY <2>1 DEF Drawn, IsDrawn
  <2>2. CASE EdgeAppended(spec, spec', a)
    <3>1. a.from = rename[e.from] /\ a.to = rename[e.to]
      OBVIOUS
    <3> HIDE DEF a
    <3>2. /\ \A k \in Places(spec.edges) : spec'.edges[k] = spec.edges[k]
          /\ spec'.edges[Len(spec.edges) + 1] = a
          /\ spec'.nodes = spec.nodes /\ spec'.groups = spec.groups
      BY <2>2 DEF EdgeAppended
    <3>3. /\ Places(spec.edges) \subseteq Places(spec'.edges)
          /\ Len(spec.edges) + 1 \in Places(spec'.edges)
      <4>1. Len(spec.edges) \in Nat /\ Len(spec'.edges) = Len(spec.edges) + 1
        BY <1>1, <2>2, Fields DEF EdgeAppended
      <4> QED BY <4>1 DEF Places
    <3> QED BY <3>1, <3>2, <3>3 DEF IsDrawn
  <2> QED BY <1>2, <2>1, <2>2
<1>4. Folded' = Folded /\ Gathered' = Gathered
  BY <1>1 DEF Folded, Gathered
<1>5. Told' /\ Added'
  <2>1. \A g : Final(g)' = Final(g)
    BY <1>1 DEF Final
  <2> QED BY <1>1, <1>3, <1>4, <2>1 DEF Told, Added, Became
<1>6. Housed'
  BY <1>1, <1>3, <1>4, GroupsStand
<1>7. Headed'
  BY <1>1, RegionStays DEF Headed, IInv, MergeStep, Begin
<1>8. Joins'
  <2>1. \A k \in Passed' : k \in Passed \/ k = i
    <3>1. /\ Passed' = {k \in Places(fresh.edges) : k < i + 1}
          /\ Passed = {k \in Places(fresh.edges) : k < i}
      BY <1>1 DEF Passed
    <3>2. \A k \in Places(fresh.edges) : k < i + 1 => k < i \/ k = i
      BY <1>2 DEF Places
    <3> QED BY <3>1, <3>2
  <2>2. \A k \in Passed' :
          Named(fresh.edges[k])
            => IsDrawn(spec', rename[fresh.edges[k].from], rename[fresh.edges[k].to])
    BY <1>1, <1>3, <2>1 DEF Joins
  <2> QED BY <1>1, <2>2 DEF Joins, Named
<1> QED BY <1>5, <1>6, <1>7, <1>8 DEF Course

LEMMA CourseStep ==
  ASSUME IInv, Course, [Next]_vars
  PROVE  Course'
<1>1. CASE Finish \/ People
  BY <1>1, PeopleEdit DEF Finish, Course, Merging, IInv
<1>2. CASE UNCHANGED vars
  <2>1. \A g : Final(g)' = Final(g)
    BY <1>2 DEF Final, vars
  <2> QED BY <1>2, <2>1
      DEF vars, Course, Merging, Headed, Told, Added, Housed, Joins, Folded, Gathered, Passed,
          Merged, Named
<1> QED
  BY <1>1, <1>2, CourseBegins, CourseGroups, CourseNodesBegin, CourseKnown, CourseNew,
     CourseGenerated, CourseFolds, CourseNodesEnd, CourseStale, CourseEdge
     DEF Next, MergeStep, Rest

-----------------------------------------------------------------------------
(***************************************************************************)
(* The end of a merge: what Course says is what Resting asks for.           *)
(***************************************************************************)
\* The groups that stay are those in use, and the first of a kind and label stays so.
LEMMA FirstsStay ==
  ASSUME Base, Finish, NEW k \in Used, NEW what, k \in First(spec, what)
  PROVE  \E r \in First(spec', what) : spec'.groups[r].id = spec.groups[k].id
<1>1. spec \in Declarations /\ spec.groups \in Seq(Groups) /\ Len(spec.groups) \in Nat
  BY Fields DEF Base, TypeOK
<1>2. Used \in SUBSET (1 .. Len(spec.groups))
  BY DEF Used, Places
<1> DEFINE kept == Filtered(spec.groups, Used)
<1>3. /\ Len(kept) = Cardinality(Used)
      /\ \A r \in 1 .. Len(kept) : Nth(r, Used) \in Used /\ kept[r] = spec.groups[Nth(r, Used)]
      /\ \A j \in Used : \E r \in 1 .. Len(kept) : Nth(r, Used) = j
  BY <1>1, <1>2, FilteredKeeps
<1>4. spec' = [spec EXCEPT !.groups = kept]
  BY DEF Finish
<1> HIDE DEF kept
<1>5. spec'.groups = kept
  BY <1>1, <1>4 DEF Declarations
<1>6. PICK r \in 1 .. Len(kept) : Nth(r, Used) = k
  BY <1>3
<1>7. spec'.groups[r] = spec.groups[k]
  BY <1>3, <1>5, <1>6
<1>8. spec.groups[k].what = what
  BY DEF First
<1>9. ASSUME NEW m \in 1 .. Len(kept), kept[m].what = what
      PROVE  r <= m
  <2>1. Nth(m, Used) \in Places(spec.groups) /\ spec.groups[Nth(m, Used)].what = what
    BY <1>2, <1>3, <1>9 DEF Places
  <2>2. k <= Nth(m, Used)
    BY <2>1 DEF First
  <2> QED BY <1>1, <1>2, <1>3, <1>6, <2>2, NthGrows
<1>10. r \in First(spec', what)
  BY <1>5, <1>7, <1>8, <1>9 DEF First, Places
<1> QED BY <1>7, <1>10

LEMMA RestsAtLast ==
  ASSUME IInv, Course, Finish
  PROVE  Resting(spec', fresh, rename)
<1>1. /\ fresh # None /\ fresh \in Fresh /\ fresh \in Declarations
      /\ pc = "edges" /\ i > Len(fresh.edges) /\ Base
      /\ Headed /\ Told /\ Added /\ Housed /\ Joins /\ Live = Addresses(fresh.nodes)
  BY WhileMerging DEF Finish, IInv, Base, Sound, Course, Merging
<1>2. /\ spec'.nodes = spec.nodes /\ spec'.edges = spec.edges
      /\ \A r \in Places(spec'.groups) :
           Nth(r, Used) \in Used /\ spec'.groups[r] = spec.groups[Nth(r, Used)]
  BY FinishStep DEF GroupsFiltered, IInv
<1>3. spec'.region = None => fresh.region = None
  BY <1>1, RegionStays DEF Headed, MergeStep, Begin, Finish
<1>4. \A k \in Places(spec'.groups) :
        \E j \in Places(spec'.nodes) : spec'.nodes[j].group = spec'.groups[k].id
  BY <1>2 DEF Used
<1>5. Folded = Places(fresh.nodes) /\ Gathered = Places(fresh.groups)
  BY <1>1 DEF Folded, Gathered
<1>6. ASSUME NEW j \in Places(fresh.nodes), fresh.nodes[j].address # None
      PROVE  KnownIn(spec', fresh, fresh.nodes[j], rename)
  <2> DEFINE f == fresh.nodes[j]
             id == Final(f.group)
  <2>1. Became(spec, f, rename, id)
    BY <1>1, <1>5, <1>6 DEF Told
  <2>2. Became(spec', f, rename, id)
    BY <1>2, <2>1 DEF Became
  <2>3. id \in Id \cup {None}
    BY <1>1, FinalTyped DEF Base
  <2>4. Home(spec', fresh, f.group, id)
    <3>1. CASE \A l \in Places(fresh.groups) : fresh.groups[l].id # f.group
      <4>1. f.group \in DOMAIN groupID => f.group = None
        BY <1>1, <1>5, <3>1 DEF Housed
      <4>2. id = None
        BY <1>1, <4>1 DEF Final, Housed
      <4> QED BY <3>1, <4>2 DEF Home
    <3>2. CASE \E l \in Places(fresh.groups) : fresh.groups[l].id = f.group
      <4>1. PICK l \in Places(fresh.groups) : fresh.groups[l].id = f.group
        BY <3>2
      <4>2. PICK k \in First(spec, fresh.groups[l].what) : groupID[f.group] = spec.groups[k].id
        BY <1>1, <1>5, <4>1 DEF Housed
      <4>3. f.group \in DOMAIN groupID
        BY <1>1, <1>5, <4>1 DEF Housed
      <4>4. id = spec.groups[k].id
        BY <4>2, <4>3 DEF Final
      <4>5. k \in Used
        <5>1. \E m \in Places(spec.nodes) : spec.nodes[m].group = id
          BY <2>1 DEF Became, Agreed
        <5> QED BY <4>2, <4>4, <5>1 DEF Used, First
      <4>6. \E r \in First(spec', fresh.groups[l].what) : spec'.groups[r].id = id
        BY <1>1, <4>2, <4>4, <4>5, FirstsStay
      <4> QED BY <4>1, <4>6 DEF Home
    <3> QED BY <3>1, <3>2
  <2> QED BY <2>2, <2>3, <2>4 DEF KnownIn
<1>7. ASSUME NEW j \in Places(fresh.nodes), fresh.nodes[j].address = None
      PROVE  External(Ids(spec'.nodes), spec', fresh.nodes[j], rename)
  <2> DEFINE f == fresh.nodes[j]
  <2>1. External(Ids(spec.nodes), existing, f, rename)
    BY <1>1, <1>5, <1>7 DEF Told
  <2> HIDE DEF f
  <2>2. External(Ids(spec.nodes), spec, f, rename)
    <3>1. CASE f.id \in Ids(spec.nodes)
      BY <2>1, <3>1 DEF External
    <3>2. CASE f.id \notin Ids(spec.nodes)
      <4>1. /\ Undecided(existing, f)
            /\ \A k \in Places(existing.nodes) :
                 Likely(existing, f) = {k}
                   => f.id \in DOMAIN rename /\ rename[f.id] = existing.nodes[k].id
        BY <2>1, <3>2 DEF External
      <4>2. Undecided(spec, f) /\ Likely(spec, f) = Likely(existing, f)
        BY <1>1, <4>1, StillUndecided
      <4>3. ASSUME NEW k, Likely(existing, f) = {k}
            PROVE  k \in Places(existing.nodes) /\ spec.nodes[k].id = existing.nodes[k].id
        <5>1. k \in Places(existing.nodes)
          BY <4>3 DEF Likely, ByHand
        <5> QED BY <1>1, <5>1, HandKept
      <4> QED BY <3>2, <4>1, <4>2, <4>3 DEF External
    <3> QED BY <3>1, <3>2
  <2>3. Undecided(spec', f) = Undecided(spec, f) /\ Likely(spec', f) = Likely(spec, f)
    BY <1>2 DEF Undecided, Likely, ByHand
  <2>4. External(Ids(spec'.nodes), spec', f, rename)
    BY <1>2, <2>2, <2>3 DEF External
  <2> QED BY <2>4 DEF f
<1>8. \A k \in Places(spec'.nodes) :
        spec'.nodes[k].address # None
          => spec'.nodes[k].address \in Addresses(fresh.nodes) \/ spec'.nodes[k].stale
  BY <1>1, <1>2 DEF Live
<1>9. ASSUME NEW k \in Places(fresh.edges),
             fresh.edges[k].from \in DOMAIN rename, fresh.edges[k].to \in DOMAIN rename
      PROVE  IsDrawn(spec', rename[fresh.edges[k].from], rename[fresh.edges[k].to])
  <2>1. k \in Passed
    <3>1. Len(fresh.edges) \in Nat /\ i \in Nat
      BY <1>1, Fields DEF Base, TypeOK
    <3>2. k < i
      BY <1>1, <3>1 DEF Places
    <3> QED BY <1>1, <3>2 DEF Passed
  <2>2. IsDrawn(spec, rename[fresh.edges[k].from], rename[fresh.edges[k].to])
    BY <1>1, <1>9, <2>1 DEF Joins, Named
  <2> QED BY <1>2, <2>2 DEF IsDrawn
<1> QED BY <1>3, <1>4, <1>6, <1>7, <1>8, <1>9 DEF Resting

LEMMA RestsStep ==
  ASSUME IInv, Course, Rests, [Next]_vars
  PROVE  Rests'
<1>1. CASE Finish
  <2>1. fresh' = fresh /\ rename' = rename
    BY <1>1 DEF Finish
  <2> QED BY <1>1, <2>1, RestsAtLast DEF Rests
<1>2. CASE UNCHANGED vars
  BY <1>2 DEF Rests, Merged, vars
<1>3. CASE People
  BY <1>3, PeopleEdit DEF Rests, Merged, IInv
<1>4. CASE MergeStep /\ ~ Finish
  <2>1. pc' # "idle"
    BY <1>4
       DEF MergeStep, Begin, MergeGroup, GroupsMerged, MergeKnown, AddNew, AddGenerated, Fold,
           LeaveOut, NextNode, NodesMerged, MarkStale, MergeEdge
  <2> QED BY <2>1 DEF Rests, Merged
<1> QED BY <1>1, <1>2, <1>3, <1>4 DEF Next, Rest

-----------------------------------------------------------------------------
(***************************************************************************)
(* The second merge of a reading, action by action.                         *)
(***************************************************************************)
\* A second merge begins where the first one came to rest.
LEMMA RepeatsBegin ==
  ASSUME IInv, Rests, Begin
  PROVE  Repeats'
<1> SUFFICES ASSUME again'
             PROVE  /\ Unchanged' /\ Grouped(existing')
                    /\ \E r : Resting(existing', fresh', r) /\ Traced(r)'
  BY DEF Repeats
<1>1. /\ fresh' = fresh /\ fresh' \in Fresh /\ existing' = spec /\ rename' = <<>>
      /\ spec'.nodes = spec.nodes /\ spec'.groups = spec.groups /\ spec'.edges = spec.edges
      /\ spec \in Declarations
  BY BeginStep DEF Begin, IInv, Base, TypeOK
<1>2. Resting(spec, fresh, rename)
  BY <1>1, FreshAssumption DEF Begin, Rests, Merged
<1>3. spec'.region = spec.region
  <2>1. spec' = [spec EXCEPT !.region = IF spec.region = None THEN fresh.region ELSE spec.region]
    BY <1>1 DEF Begin
  <2>2. spec'.region = IF spec.region = None THEN fresh.region ELSE spec.region
    BY <1>1, <2>1 DEF Declarations
  <2> QED BY <1>2, <2>2 DEF Resting
<1>4. Unchanged'
  <2>1. Len(spec.groups) <= Len(spec.groups)
    BY <1>1, Fields
  <2> QED BY <1>1, <1>3, <2>1 DEF Unchanged
<1>5. Grouped(existing')
  BY <1>1 DEF IInv, Sound, Accepted
<1>6. \A r : Traced(r)'
  BY <1>1 DEF Traced
<1> QED BY <1>1, <1>2, <1>4, <1>5, <1>6

\* It goes on while what it folds in leaves spec and says of each id what r does.
LEMMA RepeatsGoOn ==
  ASSUME Repeats, again /\ Merging, UNCHANGED <<existing, fresh>>, Unchanged',
         \A r : Resting(existing, fresh, r) /\ Traced(r) => Traced(r)'
  PROVE  Repeats'
BY DEF Repeats

LEMMA StillUnchanged ==
  ASSUME Unchanged, UNCHANGED <<spec, existing>>
  PROVE  Unchanged'
BY DEF Unchanged

LEMMA StillTraced ==
  ASSUME UNCHANGED rename, NEW r, Traced(r)
  PROVE  Traced(r)'
BY DEF Traced

LEMMA OnceMoreTraced ==
  ASSUME NEW r, Traced(r), NEW x, x \in DOMAIN r, rename' = Set(rename, x, r[x])
  PROVE  Traced(r)'
BY DEF Traced, Set

LEMMA RepeatsGroups ==
  ASSUME IInv, Repeats, again, MergeGroup
  PROVE  Repeats'
<1>1. Merging /\ UNCHANGED <<existing, fresh, rename>> /\ spec \in Declarations
  BY DEF MergeGroup, Merging, IInv, Base, TypeOK
<1>2. Unchanged
  BY <1>1 DEF Repeats
<1>3. spec'.region = spec.region
  BY RegionStays DEF IInv, MergeStep, Begin, MergeGroup
<1>4. Unchanged'
  <2>1. /\ Len(existing.groups) \in Nat /\ Len(spec.groups) \in Nat /\ Len(spec'.groups) \in Nat
    <3>1. spec' \in Declarations
      BY TypesKept DEF IInv, TypeOK, Next, MergeStep
    <3> QED BY <3>1, Fields DEF IInv, Base, TypeOK
  <2>2. /\ \A k \in Places(spec.groups) : spec'.groups[k] = spec.groups[k]
        /\ Len(spec.groups) <= Len(spec'.groups)
        /\ spec'.nodes = spec.nodes /\ spec'.edges = spec.edges
    BY GroupHoused DEF IInv
  <2>3. Len(existing.groups) <= Len(spec'.groups)
    BY <1>2, <2>1, <2>2 DEF Unchanged
  <2>4. \A k \in Places(existing.groups) : k \in Places(spec.groups)
    BY <1>2, <2>1 DEF Unchanged, Places
  <2> QED BY <1>1, <1>2, <1>3, <2>2, <2>3, <2>4 DEF Unchanged
<1> QED BY <1>1, <1>4, StillTraced, RepeatsGoOn

\* The group a fresh node had before is the one it is given again.
LEMMA SameHome ==
  ASSUME Base, Housed, Unchanged, pc = "nodes", NEW group, NEW id, Home(existing, fresh, group, id)
  PROVE  Final(group) = id
<1>1. Gathered = Places(fresh.groups)
  BY DEF Gathered
<1>2. CASE (\A j \in Places(fresh.groups) : fresh.groups[j].id # group) /\ id = None
  <2>1. group \in DOMAIN groupID => group = None
    BY <1>1, <1>2 DEF Housed
  <2> QED BY <1>2, <2>1 DEF Final, Housed
<1>3. CASE \E j \in Places(fresh.groups) :
             /\ fresh.groups[j].id = group
             /\ \E k \in First(existing, fresh.groups[j].what) : existing.groups[k].id = id
  <2>1. PICK j \in Places(fresh.groups) :
             /\ fresh.groups[j].id = group
             /\ \E k \in First(existing, fresh.groups[j].what) : existing.groups[k].id = id
    BY <1>3
  <2> DEFINE what == fresh.groups[j].what
  <2>2. PICK k \in First(existing, what) : existing.groups[k].id = id
    BY <2>1
  <2>3. PICK m \in First(spec, what) : groupID[group] = spec.groups[m].id
    BY <1>1, <2>1 DEF Housed
  <2> HIDE DEF what
  <2>4. /\ Len(existing.groups) \in Nat /\ Len(spec.groups) \in Nat
        /\ Len(existing.groups) <= Len(spec.groups)
        /\ \A l \in Places(existing.groups) : spec.groups[l] = existing.groups[l]
    BY Fields DEF Base, TypeOK, Unchanged
  <2>5. k \in Places(spec.groups) /\ spec.groups[k].what = what /\ spec.groups[k].id = id
    BY <2>2, <2>4 DEF First, Places
  <2>6. m <= k
    BY <2>3, <2>5 DEF First
  <2>7. m \in Places(existing.groups) /\ existing.groups[m].what = what
    <3>1. m \in Places(spec.groups) /\ k \in Places(existing.groups)
      BY <2>2, <2>3 DEF First
    <3>2. m \in Places(existing.groups)
      BY <2>4, <2>6, <3>1 DEF Places
    <3> QED BY <2>3, <2>4, <3>2 DEF First
  <2>8. k <= m
    BY <2>2, <2>7 DEF First
  <2>9. m = k
    BY <2>4, <2>5, <2>6, <2>7, <2>8 DEF Places
  <2>10. group \in DOMAIN groupID
    BY <1>1, <2>1 DEF Housed
  <2> QED BY <2>3, <2>5, <2>9, <2>10 DEF Final
<1> QED BY <1>2, <1>3 DEF Home

\* What a known node was told before it is told again, and nothing of it changes.
LEMMA RepeatsKnown ==
  ASSUME IInv, Course, Repeats, again, MergeKnown
  PROVE  Repeats'
<1>1. PICK k \in Found(Node) :
           /\ spec' = [spec EXCEPT !.nodes[k] = Updated(spec.nodes[k], Node)]
           /\ rename' = Set(rename, Node.id, spec.nodes[k].id)
  BY DEF MergeKnown
<1>2. /\ Merging /\ UNCHANGED <<existing, fresh>> /\ pc = "nodes" /\ i <= Len(fresh.nodes)
      /\ fresh # None /\ Node.address # None /\ Node \in Nodes /\ i \in Places(fresh.nodes)
      /\ Housed /\ Unchanged /\ Base /\ spec \in Declarations
  BY NodeTyped DEF MergeKnown, NextNode, Merging, IInv, Base, TypeOK, Course, Repeats
<1>3. k \in Places(existing.nodes) /\ existing.nodes[k].address = Node.address
  BY <1>1 DEF Found
<1>4. k \in Places(spec.nodes) /\ spec.nodes[k] = existing.nodes[k] /\ spec.nodes[k] \in Nodes
  BY <1>2, <1>3, HandKept, Fields DEF Unchanged
<1>5. ASSUME NEW r, Resting(existing, fresh, r)
      PROVE  /\ Agreed(spec.nodes[k], Node, Final(Node.group))
             /\ Node.id \in DOMAIN r /\ r[Node.id] = spec.nodes[k].id
  <2>1. KnownIn(existing, fresh, Node, r)
    BY <1>2, <1>5 DEF Resting, Node
  <2>2. PICK id : Home(existing, fresh, Node.group, id) /\ Became(existing, Node, r, id)
    BY <2>1 DEF KnownIn
  <2>3. Final(Node.group) = id
    BY <1>2, <2>2, SameHome
  <2>4. PICK m \in Places(existing.nodes) :
          /\ existing.nodes[m].address = Node.address /\ Agreed(existing.nodes[m], Node, id)
          /\ Node.id \in DOMAIN r /\ r[Node.id] = existing.nodes[m].id
    BY <2>2 DEF Became
  <2>5. m = k
    BY <1>2, <1>3, <2>4, ExistingStand
  <2> QED BY <1>4, <2>3, <2>4, <2>5
<1>6. PICK r : Resting(existing, fresh, r)
  BY <1>2 DEF Repeats
<1>7. Updated(spec.nodes[k], Node) = spec.nodes[k]
  BY <1>2, <1>4, <1>5, <1>6, AgreedStays
<1>8. spec' = spec
  <2>1. [spec.nodes EXCEPT ![k] = spec.nodes[k]] = spec.nodes
    <3>1. spec.nodes \in Seq(Nodes)
      BY <1>2, Fields
    <3> QED BY <1>4, <3>1
  <2>2. spec' = [spec EXCEPT !.nodes = [spec.nodes EXCEPT ![k] = spec.nodes[k]]]
    BY <1>1, <1>7
  <2>3. spec' = [spec EXCEPT !.nodes = spec.nodes]
    BY <2>1, <2>2
  <2> QED BY <1>2, <2>3 DEF Declarations
<1>9. Unchanged'
  BY <1>2, <1>8, StillUnchanged
<1>10. ASSUME NEW q, Resting(existing, fresh, q), Traced(q)
       PROVE  Traced(q)'
  BY <1>1, <1>5, <1>10, OnceMoreTraced
<1> QED BY <1>2, <1>9, <1>10, RepeatsGoOn

\* Every fresh node with an address is known.
LEMMA NothingNew ==
  ASSUME IInv, Repeats, again, AddNew
  PROVE  FALSE
<1>1. /\ Merging /\ fresh # None /\ Node.address # None /\ Found(Node) = {}
      /\ i \in Places(fresh.nodes)
  BY NodeTyped DEF AddNew, Merging, IInv, Base
<1>2. PICK r : Resting(existing, fresh, r)
  BY <1>1 DEF Repeats
<1>3. KnownIn(existing, fresh, Node, r)
  BY <1>1, <1>2 DEF Resting, Node
<1>4. PICK k \in Places(existing.nodes) : existing.nodes[k].address = Node.address
  BY <1>3 DEF KnownIn, Became
<1>5. \A j \in Places(existing.nodes) : existing.nodes[j].address = Node.address => j = k
  BY <1>1, <1>4, ExistingStand
<1>6. k \in Int
  BY DEF Places
<1>7. k \in Found(Node)
  BY <1>4, <1>5, <1>6 DEF Found
<1> QED BY <1>1, <1>7

\* Stubs and users become what they became.
LEMMA RepeatsExternal ==
  ASSUME IInv, Repeats, again, AddGenerated \/ Fold \/ LeaveOut
  PROVE  Repeats'
<1>1. /\ Merging /\ UNCHANGED <<existing, fresh>> /\ pc = "nodes" /\ i <= Len(fresh.nodes)
      /\ fresh # None /\ Node.address = None /\ i \in Places(fresh.nodes)
      /\ Unchanged /\ Base
  BY NodeTyped DEF AddGenerated, Fold, LeaveOut, NextNode, Merging, IInv, Base, Repeats
<1>2. /\ Agree(Node) = Likely(existing, Node)
      /\ Generated(Node) <=> Node.id \in Ids(spec.nodes) \/ ~ Undecided(existing, Node)
      /\ Ids(spec.nodes) = Ids(existing.nodes)
  BY <1>1, GeneratedOrNot DEF Unchanged
<1>3. ASSUME NEW r, Resting(existing, fresh, r)
      PROVE  External(Ids(existing.nodes), existing, Node, r)
  BY <1>1, <1>3 DEF Resting, Node
<1>4. PICK r : Resting(existing, fresh, r)
  BY <1>1 DEF Repeats
<1>5. CASE AddGenerated
  <2>1. Node.id \in Ids(existing.nodes)
    BY <1>2, <1>3, <1>4, <1>5 DEF External, AddGenerated
  <2>2. UNCHANGED spec /\ rename' = Set(rename, Node.id, Node.id)
    BY <1>2, <1>5, <2>1 DEF AddGenerated
  <2>3. ASSUME NEW q, Resting(existing, fresh, q), Traced(q)
        PROVE  Traced(q)'
    <3>1. Node.id \in DOMAIN q /\ q[Node.id] = Node.id
      BY <1>3, <2>1, <2>3 DEF External
    <3> QED BY <2>2, <2>3, <3>1, OnceMoreTraced
  <2> QED BY <1>1, <2>2, <2>3, StillUnchanged, RepeatsGoOn
<1>6. CASE Fold
  <2>1. PICK k \in Agree(Node) :
          Agree(Node) = {k} /\ rename' = Set(rename, Node.id, spec.nodes[k].id)
    BY <1>6 DEF Fold
  <2>2. k \in Places(existing.nodes) /\ spec.nodes[k].id = existing.nodes[k].id
    BY <1>1, <2>1, HandKept DEF Agree, PlacedByHand
  <2>3. UNCHANGED spec /\ Node.id \notin Ids(existing.nodes)
    BY <1>2, <1>6 DEF Fold
  <2>4. ASSUME NEW q, Resting(existing, fresh, q), Traced(q)
        PROVE  Traced(q)'
    <3>1. Node.id \in DOMAIN q /\ q[Node.id] = spec.nodes[k].id
      BY <1>2, <1>3, <2>1, <2>2, <2>3, <2>4 DEF External
    <3> QED BY <2>1, <2>4, <3>1, OnceMoreTraced
  <2> QED BY <1>1, <2>3, <2>4, StillUnchanged, RepeatsGoOn
<1>7. CASE LeaveOut
  <2>1. UNCHANGED <<spec, rename>>
    BY <1>7 DEF LeaveOut
  <2> QED BY <1>1, <2>1, StillUnchanged, StillTraced, RepeatsGoOn
<1> QED BY <1>5, <1>6, <1>7

\* What is not seen was stale.
LEMMA RepeatsStale ==
  ASSUME IInv, Repeats, again, MarkStale
  PROVE  Repeats'
<1>1. /\ Merging /\ UNCHANGED <<existing, fresh, rename>> /\ pc = "stale" /\ fresh # None
      /\ Unchanged /\ SeenSoFar /\ spec \in Declarations
  BY DEF MarkStale, Merging, IInv, Base, TypeOK, Sound, Midway, Repeats
<1>2. PICK r : Resting(existing, fresh, r)
  BY <1>1 DEF Repeats
<1>3. Folded = Places(fresh.nodes)
  BY <1>1 DEF Folded
<1>4. \A k \in Places(spec.nodes) :
        k <= Len(existing.nodes) /\ Gone(k) => spec.nodes[k].stale
  <2> SUFFICES ASSUME NEW k \in Places(existing.nodes), Gone(k), ~ existing.nodes[k].stale
               PROVE  FALSE
    BY <1>1 DEF Unchanged
  <2>1. existing.nodes[k].address # None /\ k \notin seen
    BY DEF Gone
  <2>2. existing.nodes[k].address \in Addresses(fresh.nodes)
    BY <1>2, <2>1 DEF Resting
  <2> QED BY <1>1, <1>3, <2>1, <2>2 DEF SeenSoFar, Addresses
<1>5. /\ spec' \in Declarations /\ Len(spec'.nodes) = Len(spec.nodes)
      /\ spec'.groups = spec.groups /\ spec'.edges = spec.edges
      /\ \A k \in Places(spec.nodes) :
           spec'.nodes[k] = IF k <= Len(existing.nodes) /\ Gone(k)
                            THEN [spec.nodes[k] EXCEPT !.stale = TRUE] ELSE spec.nodes[k]
  BY StaleStep DEF IInv
<1>6. \A k \in Places(spec.nodes) : spec'.nodes[k] = spec.nodes[k]
  <2> SUFFICES ASSUME NEW k \in Places(spec.nodes), k <= Len(existing.nodes), Gone(k)
               PROVE  [spec.nodes[k] EXCEPT !.stale = TRUE] = spec.nodes[k]
    BY <1>5
  <2>1. spec.nodes[k] \in Nodes
    BY <1>1, Fields
  <2>2. spec.nodes[k].stale = TRUE
    BY <1>4, <2>1 DEF Nodes
  <2> QED BY <2>1, <2>2 DEF Nodes
<1>7. spec'.nodes = spec.nodes
  <2>1. spec.nodes \in Seq(Nodes) /\ spec'.nodes \in Seq(Nodes)
    BY <1>1, <1>5, Fields
  <2> QED BY <1>5, <1>6, <2>1, SeqEqual DEF Places
<1>8. spec'.region = spec.region
  BY RegionStays DEF IInv, MergeStep, Begin, MarkStale
<1>9. Unchanged'
  BY <1>1, <1>5, <1>7, <1>8 DEF Unchanged
<1> QED BY <1>1, <1>9, StillTraced, RepeatsGoOn

\* Every edge between what became something is drawn.
LEMMA RepeatsEdge ==
  ASSUME IInv, Repeats, again, MergeEdge
  PROVE  Repeats'
<1> DEFINE e == fresh.edges[i]
<1>1. /\ Merging /\ UNCHANGED <<existing, fresh, rename>> /\ Unchanged
  BY DEF MergeEdge, Merging, Repeats
<1>2. PICK r : Resting(existing, fresh, r) /\ Traced(r)
  BY <1>1 DEF Repeats
<1>3. i \in Places(fresh.edges)
  BY EdgeStep DEF IInv
<1>4. Named(e) => Drawn(rename[e.from], rename[e.to])
  <2> SUFFICES ASSUME Named(e) PROVE Drawn(rename[e.from], rename[e.to])
    OBVIOUS
  <2>1. /\ e.from \in DOMAIN r /\ rename[e.from] = r[e.from]
        /\ e.to \in DOMAIN r /\ rename[e.to] = r[e.to]
    BY <1>2 DEF Named, Traced
  <2>2. IsDrawn(existing, r[e.from], r[e.to])
    BY <1>2, <1>3, <2>1 DEF Resting
  <2> QED BY <1>1, <2>1, <2>2 DEF IsDrawn, Drawn, Unchanged
<1>5. UNCHANGED spec
  BY <1>4 DEF MergeEdge
<1> QED BY <1>1, <1>5, StillUnchanged, StillTraced, RepeatsGoOn

\* The groups that were there are in use, and those the merge put after them are not.
LEMMA RepeatsFinish ==
  ASSUME IInv, Repeats, again, Finish
  PROVE  spec' = existing
<1>1. /\ Merging /\ Unchanged /\ Grouped(existing) /\ GroupsUnique(spec)
      /\ spec \in Declarations /\ existing \in Declarations
  BY DEF Finish, Merging, Repeats, IInv, Base, TypeOK, Sound, Accepted
<1>2. PICK r : Resting(existing, fresh, r)
  BY <1>1 DEF Repeats
<1> DEFINE n == Len(existing.groups)
<1>3. /\ n \in Nat /\ Len(spec.groups) \in Nat /\ n <= Len(spec.groups)
      /\ \A k \in 1 .. n : spec.groups[k] = existing.groups[k]
      /\ spec.nodes = existing.nodes /\ spec.edges = existing.edges
      /\ spec.region = existing.region
  BY <1>1, Fields DEF Unchanged, Places
<1> HIDE DEF n
<1>4. 1 .. n \subseteq Used
  <2> SUFFICES ASSUME NEW k \in 1 .. n PROVE k \in Used
    OBVIOUS
  <2>1. \E j \in Places(existing.nodes) : existing.nodes[j].group = existing.groups[k].id
    BY <1>2 DEF Resting, Places, n
  <2>2. k \in Places(spec.groups)
    BY <1>3 DEF Places
  <2> QED BY <1>3, <2>1, <2>2 DEF Used
<1>5. Used \subseteq 1 .. n
  <2> SUFFICES ASSUME NEW k \in Used, k \notin 1 .. n PROVE FALSE
    OBVIOUS
  <2>1. PICK j \in Places(spec.nodes) : spec.nodes[j].group = spec.groups[k].id
    BY DEF Used
  <2>2. k \in Places(spec.groups) /\ spec.groups[k].id \in Id
    BY <1>1, Fields DEF Used, Groups
  <2>3. GroupNamed(existing, spec.groups[k].id)
    BY <1>1, <1>3, <2>1, <2>2, MergeAssumption DEF Grouped
  <2>4. PICK m \in 1 .. n : existing.groups[m].id = spec.groups[k].id
    BY <2>3 DEF GroupNamed, Places, n
  <2>5. m \in Places(spec.groups) /\ spec.groups[m].id = spec.groups[k].id
    BY <1>3, <2>4 DEF Places
  <2>6. m = k
    BY <1>1, <2>2, <2>5 DEF GroupsUnique
  <2> QED BY <2>4, <2>6
<1>6. Filtered(spec.groups, Used) = existing.groups
  <2>1. Used = 1 .. n
    BY <1>4, <1>5
  <2>2. Filtered(spec.groups, Used) = [k \in 1 .. n |-> spec.groups[k]]
    BY <1>3, <2>1, FilteredPrefix
  <2>3. existing.groups \in [1 .. n -> Groups]
    <3>1. existing.groups \in Seq(Groups)
      BY <1>1, Fields
    <3> QED BY <3>1, LenProperties DEF n
  <2> QED BY <1>3, <2>2, <2>3
<1>7. spec' = [spec EXCEPT !.groups = existing.groups]
  BY <1>6 DEF Finish
<1> QED BY <1>1, <1>3, <1>7 DEF Declarations

LEMMA TwiceStep ==
  ASSUME TwiceInv, [Next]_vars
  PROVE  TwiceInv'
<1>1. IInv /\ Course /\ Rests /\ Repeats /\ TwiceChangesNothing
  BY DEF TwiceInv
<1>2. IInv' /\ Course' /\ Rests'
  BY <1>1, IInvStep, CourseStep, RestsStep
<1> SUFFICES Repeats' /\ TwiceChangesNothing'
  BY <1>2 DEF TwiceInv
<1>3. CASE UNCHANGED vars
  BY <1>1, <1>3
     DEF vars, Repeats, Merging, Unchanged, Traced, TwiceChangesNothing, Merged
<1>4. CASE People
  <2>1. pc' = "idle" /\ fresh' = None
    BY <1>1, <1>4, PeopleEdit DEF IInv
  <2> QED BY <2>1 DEF Repeats, Merging, TwiceChangesNothing, Merged
<1>5. CASE Begin
  <2>1. Repeats'
    BY <1>1, <1>5, RepeatsBegin
  <2>2. pc' # "idle"
    BY <1>5 DEF Begin
  <2> QED BY <2>1, <2>2 DEF TwiceChangesNothing, Merged
<1>6. CASE Finish
  <2>1. again' => spec' = existing'
    <3>1. again' = again /\ existing' = existing
      BY <1>6 DEF Finish, counts
    <3> QED BY <1>1, <1>6, <3>1, RepeatsFinish
  <2>2. pc' = "idle"
    BY <1>6 DEF Finish
  <2> QED BY <2>1, <2>2 DEF Repeats, Merging, TwiceChangesNothing
<1>7. CASE MergeStep /\ ~ Begin /\ ~ Finish
  <2>1. again' = again /\ pc' # "idle"
    BY <1>7
       DEF MergeStep, MergeGroup, GroupsMerged, MergeKnown, AddNew, AddGenerated, Fold, LeaveOut,
           NextNode, NodesMerged, MarkStale, MergeEdge, counts
  <2>2. CASE ~ again
    BY <2>1, <2>2 DEF Repeats, TwiceChangesNothing, Merged
  <2>3. CASE again
    <3>1. ASSUME GroupsMerged \/ NodesMerged
          PROVE  Repeats'
      <4>1. UNCHANGED <<spec, existing, fresh, rename>> /\ Merging
        BY <3>1 DEF GroupsMerged, NodesMerged, Merging
      <4>2. Unchanged
        BY <1>1, <2>3, <4>1 DEF Repeats
      <4> QED BY <1>1, <2>3, <4>1, <4>2, StillUnchanged, StillTraced, RepeatsGoOn
    <3>2. Repeats'
      BY <1>1, <1>7, <2>3, <3>1, RepeatsGroups, RepeatsKnown, NothingNew, RepeatsExternal,
         RepeatsStale, RepeatsEdge DEF MergeStep
    <3> QED BY <2>1, <3>2 DEF TwiceChangesNothing, Merged
  <2> QED BY <2>2, <2>3
<1> QED BY <1>3, <1>4, <1>5, <1>6, <1>7 DEF Next, Rest

\* "Merging twice must not add anything" (merge_test.go), nor change, drop or reorder
\* anything: whatever was imported and edited before, a reading that is merged again
\* with no edit in between leaves the declaration exactly as it was.
THEOREM MergesOnce == Spec => []TwiceChangesNothing
<1>1. ASSUME Init PROVE Course /\ Rests /\ Repeats /\ TwiceChangesNothing
  BY <1>1 DEF Init, Course, Rests, Repeats, TwiceChangesNothing, Merging, Merged
<1>2. TwiceInv /\ [Next]_vars => TwiceInv'
  BY TwiceStep
<1>3. IInv /\ Course /\ Rests /\ Repeats /\ TwiceChangesNothing => TwiceInv
  BY DEF TwiceInv
<1>4. TwiceInv => TwiceChangesNothing
  BY DEF TwiceInv
<1>5. Init => IInv
  BY StartsSound
<1> QED BY <1>1, <1>2, <1>3, <1>4, <1>5, PTL DEF Spec
=============================================================================
