--------------------------- MODULE WorkspaceProofs ---------------------------
(***************************************************************************)
(* The workspace, for every set of documents, of ids and of loads, and any  *)
(* number of edits, documents opened and reloads: no edit makes the graph   *)
(* one the engine refuses, what is saved comes back, and a cost is shown    *)
(* only beside the readings it belongs to.                                  *)
(***************************************************************************)
EXTENDS Workspace, LibraryProofs, TLAPS

PageTypeOK ==
  /\ phase \in {"loading", "ready", "fatal"}
  /\ spec \in Declarations
  /\ generation \in Nat
  /\ shown \in Declarations \cup {None}
  /\ idle.key \in Declarations \cup {None} /\ pause \in Declarations \cup {None}
  /\ opening \subseteq Documents
  /\ stored \in Declarations \cup {None} /\ seen \in Declarations \cup {None}
  /\ storage \in BOOLEAN /\ committed \in BOOLEAN
  /\ edits \in Nat /\ loads \in Nat /\ reloads \in Nat

\* Storage, where the page may use it, holds what the last effects ran with.
SavedIsSeen == storage => stored = seen

\* The readings on screen are of this declaration whenever it can be read, and a
\* cost is the one of the declaration it is kept with.
ReadingsCurrent == phase = "ready" /\ Readable(spec) => shown = spec
CostOfItsKey == idle.usd # None => idle.usd = Cost(idle.key)

PInv == PageTypeOK /\ SavedIsSeen /\ ReadingsCurrent /\ CostOfItsKey

-----------------------------------------------------------------------------
(***************************************************************************)
(* What a declaration holds, and what the edits make of it.                 *)
(***************************************************************************)
LEMMA Fields ==
  ASSUME NEW s \in Declarations
  PROVE  /\ s.nodes \in Seq(Cards) /\ s.edges \in Seq(Edges)
         /\ s = [nodes |-> s.nodes, edges |-> s.edges]
         /\ Len(s.nodes) \in Nat /\ Len(s.edges) \in Nat
         /\ \A k \in Places(s.nodes) : s.nodes[k] \in Cards
         /\ \A k \in Places(s.edges) : s.edges[k] \in Edges
         /\ Ids(s) \subseteq Id /\ Arrows(s) \subseteq Edges
<1>1. s.nodes \in Seq(Cards) /\ s.edges \in Seq(Edges) /\ s = [nodes |-> s.nodes, edges |-> s.edges]
  BY DEF Declarations
<1>2. /\ \A k \in Places(s.nodes) : s.nodes[k] \in Cards
      /\ \A k \in Places(s.edges) : s.edges[k] \in Edges
  BY <1>1 DEF Places
<1> QED BY <1>1, <1>2 DEF Ids, Arrows, Cards

LEMMA EmptyStands == EmptySpec \in Declarations /\ Sound(EmptySpec)
<1>1. <<>> \in Seq(Cards) /\ <<>> \in Seq(Edges) /\ Len(<<>>) = 0
  OBVIOUS
<1>2. EmptySpec \in Declarations /\ EmptySpec.nodes = <<>> /\ EmptySpec.edges = <<>>
  BY <1>1 DEF EmptySpec, Declarations
<1>3. Places(EmptySpec.nodes) = {} /\ Places(EmptySpec.edges) = {}
  BY <1>1, <1>2 DEF Places
<1> QED BY <1>2, <1>3 DEF Sound, Arrows

LEMMA WithoutLoadTyped ==
  ASSUME NEW s \in Declarations
  PROVE  WithoutLoad(s) \in Declarations
<1> DEFINE still(k) == IF s.nodes[k].load = None THEN s.nodes[k]
                       ELSE [s.nodes[k] EXCEPT !.load = 0]
           nodes == [k \in Places(s.nodes) |-> still(k)]
<1>1. \A k \in Places(s.nodes) : still(k) \in Cards
  <2> SUFFICES ASSUME NEW k \in Places(s.nodes) PROVE still(k) \in Cards
    OBVIOUS
  <2>1. s.nodes[k] \in Cards
    BY Fields
  <2> QED BY <2>1 DEF Cards
<1>2. WithoutLoad(s) = [s EXCEPT !.nodes = nodes]
  BY DEF WithoutLoad
<1> HIDE DEF still
<1>3. nodes \in [1 .. Len(s.nodes) -> Cards] /\ Len(s.nodes) \in Nat
  BY <1>1, Fields DEF Places
<1>4. nodes \in Seq(Cards)
  BY <1>3, SeqDef
<1> HIDE DEF nodes
<1> QED BY <1>2, <1>4 DEF Declarations

\* A declaration with the ids and the arrows of a sound one, or fewer arrows, is sound.
LEMMA FewerArrows ==
  ASSUME NEW s, NEW t, Sound(s), Arrows(t) \subseteq Arrows(s),
         \A j, k \in Places(t.nodes) : t.nodes[j].id = t.nodes[k].id => j = k,
         \A e \in Arrows(t) : e.from \in Ids(t) /\ e.to \in Ids(t)
  PROVE  Sound(t)
<1>1. \A e \in Arrows(t) : ~ Reaches(Arrows(t), e.to, e.from)
  <2> SUFFICES ASSUME NEW e \in Arrows(t), Reaches(Arrows(t), e.to, e.from) PROVE FALSE
    OBVIOUS
  <2>1. Reaches(Arrows(s), e.to, e.from)
    BY ReachesMore
  <2> QED BY <2>1 DEF Sound
<1> QED BY <1>1 DEF Sound

-----------------------------------------------------------------------------
LEMMA AddNodeSound ==
  ASSUME PageTypeOK, AddNode
  PROVE  spec' \in Declarations /\ (Sound(spec) => Sound(spec'))
<1>1. PICK id \in Id \ Ids(spec) :
        spec' = [spec EXCEPT !.nodes = Append(@, [id |-> id, load |-> None])]
  BY DEF AddNode, Edit, Commit
<1> DEFINE n == [id |-> id, load |-> None]
           nodes == Append(spec.nodes, n)
           last == Len(spec.nodes) + 1
<1>2. spec \in Declarations /\ spec.nodes \in Seq(Cards) /\ Len(spec.nodes) \in Nat
  BY Fields DEF PageTypeOK
<1>3. n \in Cards /\ n.id = id
  BY DEF Cards
<1> HIDE DEF n
<1>4. /\ nodes \in Seq(Cards) /\ Len(nodes) = last /\ nodes[last] = n
      /\ \A k \in 1 .. Len(spec.nodes) : nodes[k] = spec.nodes[k]
  BY <1>2, <1>3, AppendProperties
<1>5. spec' = [spec EXCEPT !.nodes = nodes]
  BY <1>1 DEF n
<1> HIDE DEF nodes
<1>6. spec' \in Declarations /\ spec'.nodes = nodes /\ spec'.edges = spec.edges
  BY <1>2, <1>4, <1>5 DEF Declarations
<1>7. Places(nodes) = Places(spec.nodes) \cup {last} /\ last \notin Places(spec.nodes)
  BY <1>2, <1>4 DEF Places
<1>8. \A k \in Places(spec.nodes) : nodes[k] = spec.nodes[k] /\ spec.nodes[k].id # id
  BY <1>4 DEF Places, Ids
<1> HIDE DEF last
<1>9. ASSUME Sound(spec) PROVE Sound(spec')
  <2>1. Arrows(spec') = Arrows(spec)
    BY <1>6 DEF Arrows
  <2>2. Ids(spec) \subseteq Ids(spec')
    BY <1>6, <1>7, <1>8 DEF Ids
  <2>3. \A j, k \in Places(spec'.nodes) : spec'.nodes[j].id = spec'.nodes[k].id => j = k
    BY <1>3, <1>4, <1>6, <1>7, <1>8, <1>9 DEF Sound
  <2>4. \A e \in Arrows(spec') : e.from \in Ids(spec') /\ e.to \in Ids(spec')
    BY <1>9, <2>1, <2>2 DEF Sound
  <2> QED BY <1>9, <2>1, <2>3, <2>4, FewerArrows
<1> QED BY <1>6, <1>9

LEMMA ConnectSound ==
  ASSUME PageTypeOK, Connect
  PROVE  spec' \in Declarations /\ (Sound(spec) => Sound(spec'))
<1>1. PICK from, to \in Ids(spec) :
        /\ ~ Refused(from, to)
        /\ spec' = [spec EXCEPT !.edges = Append(@, [from |-> from, to |-> to])]
  BY DEF Connect, Edit, Commit
<1> DEFINE e == [from |-> from, to |-> to]
           edges == Append(spec.edges, e)
           last == Len(spec.edges) + 1
<1>2. /\ spec \in Declarations /\ spec.edges \in Seq(Edges) /\ Len(spec.edges) \in Nat
      /\ from \in Id /\ to \in Id
  BY Fields DEF PageTypeOK
<1>3. e \in Edges /\ e.from = from /\ e.to = to
  BY <1>2 DEF Edges
<1> HIDE DEF e
<1>4. /\ edges \in Seq(Edges) /\ Len(edges) = last /\ edges[last] = e
      /\ \A k \in 1 .. Len(spec.edges) : edges[k] = spec.edges[k]
  BY <1>2, <1>3, AppendProperties
<1>5. spec' = [spec EXCEPT !.edges = edges]
  BY <1>1 DEF e
<1> HIDE DEF edges
<1>6. spec' \in Declarations /\ spec'.edges = edges /\ spec'.nodes = spec.nodes
  BY <1>2, <1>4, <1>5 DEF Declarations
<1>7. Arrows(spec') = Arrows(spec) \cup {e}
  <2>1. Places(edges) = Places(spec.edges) \cup {last}
    BY <1>2, <1>4 DEF Places
  <2>2. \A k \in Places(spec.edges) : edges[k] = spec.edges[k]
    BY <1>4 DEF Places
  <2> HIDE DEF last
  <2> QED BY <1>4, <1>6, <2>1, <2>2 DEF Arrows
<1>8. Ids(spec') = Ids(spec)
  BY <1>6 DEF Ids
<1>9. ASSUME Sound(spec) PROVE Sound(spec')
  <2>1. ~ Reaches(Arrows(spec), e.to, e.from)
    BY <1>1, <1>3 DEF Refused
  <2>2. \A a \in Arrows(spec) : ~ Reaches(Arrows(spec), a.to, a.from)
    BY <1>9 DEF Sound
  <2>3. \A a \in Arrows(spec') : ~ Reaches(Arrows(spec'), a.to, a.from)
    <3> DEFINE K == Arrows(spec)
    <3>1. \A a \in K : ~ Reaches(K, a.to, a.from)
      BY <2>2
    <3>2. ~ Reaches(K, e.to, e.from)
      BY <2>1
    <3> HIDE DEF K
    <3>3. \A a \in K \cup {e} : ~ Reaches(K \cup {e}, a.to, a.from)
      BY <3>1, <3>2, PlacedWithoutCycle
    <3> QED BY <1>7, <3>3 DEF K
  <2>4. \A a \in Arrows(spec') : a.from \in Ids(spec') /\ a.to \in Ids(spec')
    BY <1>3, <1>7, <1>8, <1>9 DEF Sound
  <2> QED BY <1>6, <1>9, <2>3, <2>4 DEF Sound
<1> QED BY <1>6, <1>9

LEMMA SetLoadSound ==
  ASSUME PageTypeOK, SetLoad
  PROVE  spec' \in Declarations /\ (Sound(spec) => Sound(spec'))
<1>1. PICK id \in Chosen, l \in LoadValue \cup {None} : spec' = Loaded(id, l)
  BY DEF SetLoad, Edit, Commit
<1> DEFINE loaded(k) == IF spec.nodes[k].id = id THEN [spec.nodes[k] EXCEPT !.load = l]
                        ELSE spec.nodes[k]
           nodes == [k \in Places(spec.nodes) |-> loaded(k)]
<1>2. spec \in Declarations /\ Len(spec.nodes) \in Nat
  BY Fields DEF PageTypeOK
<1>3. \A k \in Places(spec.nodes) : loaded(k) \in Cards /\ loaded(k).id = spec.nodes[k].id
  <2> SUFFICES ASSUME NEW k \in Places(spec.nodes)
               PROVE  loaded(k) \in Cards /\ loaded(k).id = spec.nodes[k].id
    OBVIOUS
  <2>1. spec.nodes[k] \in Cards
    BY <1>2, Fields
  <2>2. l \in Int \cup {None}
    BY WorkspaceAssumption
  <2> QED BY <2>1, <2>2 DEF Cards
<1>4. spec' = [spec EXCEPT !.nodes = nodes]
  BY <1>1 DEF Loaded
<1> HIDE DEF loaded
<1>5. nodes \in [1 .. Len(spec.nodes) -> Cards]
  BY <1>3 DEF Places
<1>6. nodes \in Seq(Cards) /\ Len(nodes) = Len(spec.nodes)
  BY <1>2, <1>5, SeqDef, LenProperties
<1>7. \A k \in Places(spec.nodes) : nodes[k].id = spec.nodes[k].id
  BY <1>3
<1> HIDE DEF nodes
<1>8. spec' \in Declarations /\ spec'.nodes = nodes /\ spec'.edges = spec.edges
  BY <1>2, <1>4, <1>6 DEF Declarations
<1>9. Places(spec'.nodes) = Places(spec.nodes)
  BY <1>6, <1>8 DEF Places
<1>10. Arrows(spec') = Arrows(spec) /\ Ids(spec') = Ids(spec)
  BY <1>7, <1>8, <1>9 DEF Arrows, Ids
<1>11. ASSUME Sound(spec) PROVE Sound(spec')
  <2>1. \A j, k \in Places(spec'.nodes) : spec'.nodes[j].id = spec'.nodes[k].id => j = k
    BY <1>7, <1>8, <1>9, <1>11 DEF Sound
  <2> QED BY <1>10, <1>11, <2>1 DEF Sound
<1> QED BY <1>8, <1>11

LEMMA RemoveNodeSound ==
  ASSUME PageTypeOK, RemoveNode
  PROVE  spec' \in Declarations /\ (Sound(spec) => Sound(spec'))
<1>1. PICK id \in Ids(spec) : spec' = Without(id)
  BY DEF RemoveNode, Edit, Commit, Chosen
<1> DEFINE at == OtherNodes(id)
           apart == Apart(id)
           nodes == Filtered(spec.nodes, at)
           edges == Filtered(spec.edges, apart)
<1>2. spec.nodes \in Seq(Cards) /\ spec.edges \in Seq(Edges)
  BY Fields DEF PageTypeOK
<1>3. at \in SUBSET (1 .. Len(spec.nodes)) /\ apart \in SUBSET (1 .. Len(spec.edges))
  BY DEF OtherNodes, Apart, Places
<1>4. /\ \A k \in Places(spec.nodes) : spec.nodes[k].id # id => k \in at
      /\ \A k \in apart : spec.edges[k].from # id /\ spec.edges[k].to # id
  BY DEF OtherNodes, Apart
<1>5. spec' = [nodes |-> nodes, edges |-> edges]
  BY <1>1 DEF Without
<1> HIDE DEF at, apart
<1>6. /\ nodes \in Seq(Cards)
      /\ \A r \in 1 .. Len(nodes) : Nth(r, at) \in at /\ nodes[r] = spec.nodes[Nth(r, at)]
      /\ \A q, r \in 1 .. Len(nodes) : Nth(q, at) = Nth(r, at) => q = r
      /\ \A k \in at : \E r \in 1 .. Len(nodes) : Nth(r, at) = k
  <2>1. nodes \in Seq(Cards)
    BY <1>2, <1>3, FilteredKeeps
  <2>2. \A r \in 1 .. Len(nodes) : Nth(r, at) \in at /\ nodes[r] = spec.nodes[Nth(r, at)]
    BY <1>2, <1>3, FilteredKeeps
  <2>3. \A q, r \in 1 .. Len(nodes) : Nth(q, at) = Nth(r, at) => q = r
    BY <1>2, <1>3, FilteredKeeps
  <2>4. \A k \in at : \E r \in 1 .. Len(nodes) : Nth(r, at) = k
    BY <1>2, <1>3, FilteredKeeps
  <2> QED BY <2>1, <2>2, <2>3, <2>4
<1>7. /\ edges \in Seq(Edges)
      /\ \A r \in 1 .. Len(edges) : Nth(r, apart) \in apart /\ edges[r] = spec.edges[Nth(r, apart)]
  BY <1>2, <1>3, FilteredKeeps
<1> HIDE DEF nodes, edges
<1>8. spec' \in Declarations /\ spec'.nodes = nodes /\ spec'.edges = edges
  BY <1>5, <1>6, <1>7 DEF Declarations
<1>9. ASSUME Sound(spec) PROVE Sound(spec')
  <2>1. \A j, k \in Places(spec'.nodes) : spec'.nodes[j].id = spec'.nodes[k].id => j = k
    <3> SUFFICES ASSUME NEW j \in 1 .. Len(nodes), NEW k \in 1 .. Len(nodes),
                        nodes[j].id = nodes[k].id
                 PROVE  j = k
      BY <1>8 DEF Places
    <3>1. Nth(j, at) \in Places(spec.nodes) /\ Nth(k, at) \in Places(spec.nodes)
      BY <1>3, <1>6 DEF Places
    <3>2. Nth(j, at) = Nth(k, at)
      BY <1>6, <1>9, <3>1 DEF Sound
    <3> QED BY <1>6, <3>2
  <2>2. \A x \in Ids(spec) : x # id => x \in Ids(spec')
    <3> SUFFICES ASSUME NEW k \in Places(spec.nodes), spec.nodes[k].id # id
                 PROVE  spec.nodes[k].id \in Ids(spec')
      BY DEF Ids
    <3>1. PICK r \in 1 .. Len(nodes) : Nth(r, at) = k
      BY <1>6, <1>4
    <3>2. nodes[r].id = spec.nodes[k].id
      BY <1>6, <3>1
    <3> QED BY <1>8, <3>2 DEF Ids, Places
  <2>3. \A e \in Arrows(spec') : e \in Arrows(spec) /\ e.from # id /\ e.to # id
    BY <1>3, <1>7, <1>8, <1>4 DEF Arrows, Places
  <2>4. \A e \in Arrows(spec') : e.from \in Ids(spec') /\ e.to \in Ids(spec')
    BY <1>9, <2>2, <2>3 DEF Sound
  <2> QED BY <1>9, <2>1, <2>3, <2>4, FewerArrows
<1> QED BY <1>8, <1>9

LEMMA RemoveEdgeSound ==
  ASSUME PageTypeOK, RemoveEdge
  PROVE  spec' \in Declarations /\ (Sound(spec) => Sound(spec'))
<1>1. PICK k \in Places(spec.edges) :
        spec' = [spec EXCEPT !.edges = Filtered(@, Places(spec.edges) \ {k})]
  BY DEF RemoveEdge, Edit, Commit
<1> DEFINE rest == Places(spec.edges) \ {k}
           edges == Filtered(spec.edges, rest)
<1>2. spec \in Declarations /\ spec.edges \in Seq(Edges)
  BY Fields DEF PageTypeOK
<1>3. rest \in SUBSET (1 .. Len(spec.edges))
  BY DEF Places
<1>4. spec' = [spec EXCEPT !.edges = edges]
  BY <1>1
<1> HIDE DEF rest
<1>5. /\ edges \in Seq(Edges)
      /\ \A r \in 1 .. Len(edges) : Nth(r, rest) \in rest /\ edges[r] = spec.edges[Nth(r, rest)]
  BY <1>2, <1>3, FilteredKeeps
<1> HIDE DEF edges
<1>6. spec' \in Declarations /\ spec'.nodes = spec.nodes /\ spec'.edges = edges
  BY <1>2, <1>4, <1>5 DEF Declarations
<1>7. Arrows(spec') \subseteq Arrows(spec)
  BY <1>3, <1>5, <1>6 DEF Arrows, Places
<1>8. Ids(spec') = Ids(spec)
  BY <1>6 DEF Ids
<1>9. ASSUME Sound(spec) PROVE Sound(spec')
  <2>1. /\ \A i, j \in Places(spec'.nodes) : spec'.nodes[i].id = spec'.nodes[j].id => i = j
        /\ \A e \in Arrows(spec') : e.from \in Ids(spec') /\ e.to \in Ids(spec')
    BY <1>6, <1>7, <1>8, <1>9 DEF Sound
  <2> QED BY <1>7, <1>9, <2>1, FewerArrows
<1> QED BY <1>6, <1>9

\* A name nobody has is given to one node, and a cycle of its edges would be one
\* of the edges before.
LEMMA RenameSound ==
  ASSUME PageTypeOK, Rename
  PROVE  spec' \in Declarations /\ (Sound(spec) => Sound(spec'))
<1>1. PICK id \in Ids(spec), new \in Id \ Ids(spec) : spec' = Renamed(id, new)
  BY DEF Rename, Edit, Commit, Chosen
<1> DEFINE swap(x) == Swap(x, id, new)
           node(k) == [spec.nodes[k] EXCEPT !.id = swap(spec.nodes[k].id)]
           edge(k) == [from |-> swap(spec.edges[k].from), to |-> swap(spec.edges[k].to)]
           nodes == [k \in Places(spec.nodes) |-> node(k)]
           edges == [k \in Places(spec.edges) |-> edge(k)]
<1>2. /\ spec \in Declarations /\ Len(spec.nodes) \in Nat /\ Len(spec.edges) \in Nat
      /\ Ids(spec) \subseteq Id
  BY Fields DEF PageTypeOK
<1>3. /\ \A x \in Id : swap(x) \in Id
      /\ \A x, y \in Ids(spec) : swap(x) = swap(y) => x = y
  BY <1>2 DEF Swap
<1>4. spec' = [nodes |-> nodes, edges |-> edges]
  BY <1>1 DEF Renamed
<1> HIDE DEF swap
<1>5. \A k \in Places(spec.nodes) : node(k) \in Cards /\ node(k).id = swap(spec.nodes[k].id)
  <2> SUFFICES ASSUME NEW k \in Places(spec.nodes)
               PROVE  node(k) \in Cards /\ node(k).id = swap(spec.nodes[k].id)
    OBVIOUS
  <2>1. spec.nodes[k] \in Cards
    BY <1>2, Fields
  <2>2. swap(spec.nodes[k].id) \in Id
    BY <1>3, <2>1 DEF Cards
  <2> QED BY <2>1, <2>2 DEF Cards
<1>6. \A k \in Places(spec.edges) :
        /\ edge(k) \in Edges
        /\ edge(k).from = swap(spec.edges[k].from) /\ edge(k).to = swap(spec.edges[k].to)
  <2> SUFFICES ASSUME NEW k \in Places(spec.edges)
               PROVE  /\ edge(k) \in Edges
                      /\ edge(k).from = swap(spec.edges[k].from)
                      /\ edge(k).to = swap(spec.edges[k].to)
    OBVIOUS
  <2>1. spec.edges[k] \in Edges
    BY <1>2, Fields
  <2>2. swap(spec.edges[k].from) \in Id /\ swap(spec.edges[k].to) \in Id
    BY <1>3, <2>1 DEF Edges
  <2> QED BY <2>2 DEF Edges
<1> HIDE DEF node, edge
<1>7. nodes \in [1 .. Len(spec.nodes) -> Cards] /\ edges \in [1 .. Len(spec.edges) -> Edges]
  BY <1>5, <1>6 DEF Places
<1>8. /\ nodes \in Seq(Cards) /\ Len(nodes) = Len(spec.nodes)
      /\ edges \in Seq(Edges) /\ Len(edges) = Len(spec.edges)
  BY <1>2, <1>7, SeqDef, LenProperties
<1>9. /\ \A k \in Places(spec.nodes) : nodes[k].id = swap(spec.nodes[k].id)
      /\ \A k \in Places(spec.edges) : /\ edges[k].from = swap(spec.edges[k].from)
                                       /\ edges[k].to = swap(spec.edges[k].to)
  BY <1>5, <1>6
<1> HIDE DEF nodes, edges
<1>10. spec' \in Declarations /\ spec'.nodes = nodes /\ spec'.edges = edges
  BY <1>4, <1>8 DEF Declarations
<1>11. Places(spec'.nodes) = Places(spec.nodes) /\ Places(spec'.edges) = Places(spec.edges)
  BY <1>8, <1>10 DEF Places
<1>12. \A x \in Ids(spec) : swap(x) \in Ids(spec')
  BY <1>9, <1>10, <1>11 DEF Ids
<1>13. \A f \in Arrows(spec') : \E e \in Arrows(spec) : f.from = swap(e.from) /\ f.to = swap(e.to)
  BY <1>9, <1>10, <1>11 DEF Arrows
<1>14. ASSUME Sound(spec) PROVE Sound(spec')
  <2>1. \A j, k \in Places(spec'.nodes) : spec'.nodes[j].id = spec'.nodes[k].id => j = k
    <3>1. \A k \in Places(spec.nodes) : spec.nodes[k].id \in Ids(spec)
      BY DEF Ids
    <3> QED BY <1>3, <1>9, <1>10, <1>11, <1>14, <3>1 DEF Sound
  <2>2. \A e \in Arrows(spec) : e.from \in Ids(spec) /\ e.to \in Ids(spec)
    BY <1>14 DEF Sound
  <2>3. ASSUME NEW f \in Arrows(spec')
        PROVE  f.from \in Ids(spec') /\ f.to \in Ids(spec') /\ ~ Reaches(Arrows(spec'), f.to, f.from)
    <3>1. PICK e \in Arrows(spec) : f.from = swap(e.from) /\ f.to = swap(e.to)
      BY <1>13
    <3>2. ~ Reaches(Arrows(spec), e.to, e.from)
      BY <1>14 DEF Sound
    <3>3. PICK S : e.to \in S /\ Closed(Arrows(spec), S) /\ e.from \notin S
      BY <3>2, Escape
    <3> DEFINE T == {swap(x) : x \in S \cap Ids(spec)}
    <3>4. Closed(Arrows(spec'), T)
      <4> SUFFICES ASSUME NEW g \in Arrows(spec'), g.from \in T PROVE g.to \in T
        BY DEF Closed
      <4>1. PICK a \in Arrows(spec) : g.from = swap(a.from) /\ g.to = swap(a.to)
        BY <1>13
      <4>2. a.from \in S
        BY <1>3, <2>2, <4>1
      <4>3. a.to \in S \cap Ids(spec)
        BY <2>2, <3>3, <4>2 DEF Closed
      <4> QED BY <4>1, <4>3
    <3>5. f.to \in T /\ f.from \notin T
      BY <1>3, <2>2, <3>1, <3>3
    <3> HIDE DEF T
    <3>6. ~ Reaches(Arrows(spec'), f.to, f.from)
      BY <3>4, <3>5, Unreached
    <3> QED BY <1>12, <2>2, <3>1, <3>6
  <2> QED BY <2>1, <2>3 DEF Sound
<1> QED BY <1>10, <1>14

-----------------------------------------------------------------------------
(***************************************************************************)
(* What every step keeps.                                                   *)
(***************************************************************************)
Edits == AddNode \/ Connect \/ Rename \/ SetLoad \/ RemoveNode \/ RemoveEdge

LEMMA EditSound ==
  ASSUME PageTypeOK, Edits
  PROVE  spec' \in Declarations /\ (Sound(spec) => Sound(spec'))
BY AddNodeSound, ConnectSound, RenameSound, SetLoadSound, RemoveNodeSound, RemoveEdgeSound DEF Edits

\* An edit is a commit of what it makes.
LEMMA EditCommits ==
  ASSUME PageTypeOK, Edits
  PROVE  /\ phase = "ready" /\ edits' = edits + 1
         /\ UNCHANGED <<phase, generation, opening, loads>> /\ Commit(spec')
BY DEF Edits, AddNode, Connect, Rename, SetLoad, RemoveNode, RemoveEdge, Edit, Commit, ReadyFor

\* A document that is shown is one of the documents.
LEMMA Shows ==
  ASSUME PageTypeOK, NewDocument \/ FileRead
  PROVE  /\ spec' \in Declarations /\ phase = "ready" /\ generation' = generation + 1
         /\ opening' \subseteq Documents /\ loads' \in Nat
         /\ UNCHANGED <<phase, edits>> /\ Commit(spec')
<1>1. Documents \subseteq Declarations
  BY WorkspaceAssumption
<1>2. CASE NewDocument
  BY <1>1, <1>2 DEF NewDocument, Show, Commit, ReadyFor, PageTypeOK
<1>3. CASE FileRead
  BY <1>1, <1>3 DEF FileRead, Show, Commit, ReadyFor, PageTypeOK
<1> QED BY <1>2, <1>3

LEMMA Loads ==
  ASSUME PageTypeOK, EngineLoaded
  PROVE  /\ spec' \in Declarations /\ spec' = ReadSaved /\ phase = "loading" /\ phase' = "ready"
         /\ generation' = generation + 1
         /\ UNCHANGED <<opening, edits, loads>> /\ Commit(spec')
<1>1. ReadSaved \in Declarations
  BY EmptyStands DEF ReadSaved, PageTypeOK
<1> QED BY <1>1 DEF EngineLoaded, Commit, ReadyFor

LEMMA CommitKeeps ==
  ASSUME PInv, spec' \in Declarations, Commit(spec'), phase' = "ready",
         generation' \in Nat, opening' \subseteq Documents, edits' \in Nat, loads' \in Nat
  PROVE  PInv'
<1>1. PageTypeOK'
  BY DEF PInv, PageTypeOK, Commit
<1>2. SavedIsSeen' /\ CostOfItsKey'
  BY DEF PInv, SavedIsSeen, CostOfItsKey, Commit
<1>3. ReadingsCurrent'
  BY DEF ReadingsCurrent, Commit, ReadyFor
<1> QED BY <1>1, <1>2, <1>3 DEF PInv

LEMMA PInvStep ==
  ASSUME PInv, [Next]_vars
  PROVE  PInv'
<1>1. PageTypeOK
  BY DEF PInv
<1>2. generation + 1 \in Nat /\ edits + 1 \in Nat
  BY <1>1 DEF PageTypeOK
<1>3. CASE EngineLoaded
  BY <1>1, <1>2, <1>3, Loads, CommitKeeps DEF PageTypeOK
<1>4. CASE NewDocument \/ FileRead
  BY <1>1, <1>2, <1>4, Shows, CommitKeeps DEF PageTypeOK
<1>5. CASE Edits
  BY <1>1, <1>2, <1>5, EditSound, EditCommits, CommitKeeps DEF PageTypeOK
<1>6. CASE EngineFailed
  BY <1>6 DEF EngineFailed, PInv, PageTypeOK, SavedIsSeen, ReadingsCurrent, CostOfItsKey, counted
<1>7. CASE Effects
  <2>1. WithoutLoad(spec) \in Declarations
    BY <1>1, WithoutLoadTyped DEF PageTypeOK
  <2>2. /\ UNCHANGED <<phase, spec, generation, shown, idle, opening, storage, edits, loads, reloads>>
        /\ committed' = FALSE
        /\ stored' = IF storage /\ phase = "ready" THEN spec ELSE stored
        /\ seen' = IF phase = "ready" THEN spec ELSE seen
        /\ pause' \in {None, WithoutLoad(spec)}
    BY <1>7 DEF Effects, Save, AwaitPause, counted
  <2>3. PageTypeOK'
    BY <1>1, <2>1, <2>2 DEF PageTypeOK
  <2>4. SavedIsSeen'
    BY <2>2 DEF PInv, SavedIsSeen
  <2>5. ReadingsCurrent' /\ CostOfItsKey'
    BY <2>2 DEF PInv, ReadingsCurrent, CostOfItsKey
  <2> QED BY <2>3, <2>4, <2>5 DEF PInv
<1>8. CASE Paused
  <2>1. /\ UNCHANGED <<phase, spec, generation, shown, opening, storage, stored, seen, edits, loads, reloads>>
        /\ committed' = TRUE /\ pause' = None /\ pause # None
        /\ idle' = [key |-> pause, usd |-> IF Readable(pause) THEN Cost(pause) ELSE None]
    BY <1>8 DEF Paused, counted
  <2>2. idle'.key = pause /\ idle'.usd = IF Readable(pause) THEN Cost(pause) ELSE None
    BY <2>1
  <2>3. PageTypeOK'
    BY <1>1, <2>1, <2>2 DEF PageTypeOK
  <2>4. SavedIsSeen' /\ ReadingsCurrent'
    BY <2>1 DEF PInv, SavedIsSeen, ReadingsCurrent
  <2>5. CostOfItsKey'
    BY <2>2 DEF CostOfItsKey
  <2> QED BY <2>3, <2>4, <2>5 DEF PInv
<1>9. CASE FlashExpires \/ Select \/ Done \/ UNCHANGED vars
  <2>1. UNCHANGED <<phase, spec, generation, shown, idle, pause, opening, committed, storage, stored,
                    seen, edits, loads, reloads>>
    BY <1>9 DEF FlashExpires, Select, Done, vars, page, counted
  <2> QED BY <2>1 DEF PInv, PageTypeOK, SavedIsSeen, ReadingsCurrent, CostOfItsKey
<1>10. CASE ChooseFile
  <2>1. /\ UNCHANGED <<phase, spec, generation, shown, idle, pause, committed, storage, stored,
                       seen, edits, reloads>>
        /\ loads' = loads + 1 /\ opening' \subseteq opening \cup Documents
    BY <1>10 DEF ChooseFile
  <2> QED BY <2>1 DEF PInv, PageTypeOK, SavedIsSeen, ReadingsCurrent, CostOfItsKey
<1>11. CASE Reload
  <2>1. /\ UNCHANGED <<storage, stored, seen, edits, loads>>
        /\ phase' = "loading" /\ spec' = EmptySpec /\ generation' = 0 /\ shown' = None
        /\ idle' = NotRead /\ pause' = None /\ opening' = {} /\ committed' = TRUE
        /\ reloads' = reloads + 1
    BY <1>11 DEF Reload
  <2>2. idle'.key = None /\ idle'.usd = None
    BY <2>1 DEF NotRead
  <2>3. PageTypeOK'
    BY <1>1, <2>1, <2>2, EmptyStands DEF PageTypeOK
  <2> QED BY <2>1, <2>2, <2>3 DEF PInv, SavedIsSeen, ReadingsCurrent, CostOfItsKey
<1> QED BY <1>3, <1>4, <1>5, <1>6, <1>7, <1>8, <1>9, <1>10, <1>11 DEF Next, Edits

LEMMA PInvHolds == Spec => []PInv
<1>1. ASSUME Init PROVE PInv
  <2>1. /\ phase = "loading" /\ spec = EmptySpec /\ generation = 0 /\ shown = None
        /\ idle = NotRead /\ pause = None /\ opening = {} /\ committed = TRUE
        /\ storage \in BOOLEAN /\ stored \in Kept /\ seen = stored
        /\ edits = 0 /\ loads = 0 /\ reloads = 0
    BY <1>1 DEF Init
  <2>2. NotRead.key = None /\ NotRead.usd = None
    BY DEF NotRead
  <2>3. stored \in Declarations \cup {None}
    BY <2>1, WorkspaceAssumption
  <2>4. PageTypeOK
    BY <2>1, <2>2, <2>3, EmptyStands DEF PageTypeOK
  <2> QED BY <2>1, <2>2, <2>4 DEF PInv, SavedIsSeen, ReadingsCurrent, CostOfItsKey
<1> QED BY <1>1, PInvStep, PTL DEF Spec

\* Whatever is edited, opened, timed and reloaded, the page's state is of its types.
THEOREM WorkspaceTypes == Spec => []PageTypeOK
<1>1. PInv => PageTypeOK
  BY DEF PInv
<1> QED BY <1>1, PInvHolds, PTL

\* "only against readings of this very declaration, never the last good ones": a
\* no-load cost on screen stands beside the readings of the declaration being
\* edited, and is what that declaration costs standing still.
THEOREM IdleCostIsOfThis == Spec => []IdleIsOfThis
<1>1. PInv => IdleIsOfThis
  BY DEF PInv, ReadingsCurrent, CostOfItsKey, IdleIsOfThis, IdleUsd, Result
<1> QED BY <1>1, PInvHolds, PTL

\* An opening page shows the declaration last on screen, of this page or one
\* before it, and the empty one only where there was none.
THEOREM WhatWasSavedComesBack == Spec => SavedComesBack
<1>1. PInv /\ [Next]_vars =>
        [phase = "loading" /\ phase' = "ready" /\ storage
           => spec' = IF seen = None THEN EmptySpec ELSE seen]_vars
  <2> SUFFICES ASSUME PInv, [Next]_vars, phase = "loading", phase' = "ready", storage
               PROVE  spec' = IF seen = None THEN EmptySpec ELSE seen
    OBVIOUS
  <2>1. EngineLoaded
    BY Shows, EditCommits
       DEF PInv, Next, EngineFailed, Effects, Paused, FlashExpires, page, ChooseFile, Select,
           Reload, Done, vars, Edits
  <2>2. spec' = ReadSaved /\ stored = seen
    BY <2>1, Loads DEF PInv, SavedIsSeen
  <2> QED BY <2>2 DEF ReadSaved
<1> QED BY <1>1, PInvHolds, PTL DEF Spec, SavedComesBack

\* No edit makes of a graph the engine takes one that it refuses: ids stay distinct,
\* edges keep their ends, and no new edge or name closes a cycle.
THEOREM EditsKeepSound == Spec => EditsStaySound
<1>1. PInv /\ [Next]_vars =>
        [generation' = generation /\ phase' = phase /\ Sound(spec) => Sound(spec')]_vars
  <2> SUFFICES ASSUME PInv, [Next]_vars, generation' = generation, phase' = phase, Sound(spec)
               PROVE  Sound(spec')
    OBVIOUS
  <2>1. PageTypeOK /\ generation + 1 # generation
    BY DEF PInv, PageTypeOK
  <2>2. ~ (EngineLoaded \/ NewDocument \/ FileRead)
    BY <2>1, Loads, Shows
  <2>3. CASE Edits
    BY <2>1, <2>3, EditSound
  <2>4. CASE Reload
    BY <2>4, EmptyStands DEF Reload
  <2>5. CASE UNCHANGED spec
    BY <2>5
  <2> QED
    BY <2>2, <2>3, <2>4, <2>5
       DEF Next, EngineFailed, Effects, Paused, FlashExpires, page, ChooseFile, Select, Done, vars, Edits
<1> QED BY <1>1, PInvHolds, PTL DEF Spec, EditsStaySound
=============================================================================
