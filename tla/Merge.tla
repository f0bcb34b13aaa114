-------------------------------- MODULE Merge --------------------------------
(***************************************************************************)
(* terraform/merge/merge.go: a declaration that people edit lives on while  *)
(* Terraform changes.  Each import builds a fresh declaration and folds it  *)
(* into the one people have, group by group, node by node, edge by edge.    *)
(*                                                                         *)
(* Of what a node holds, one assumption stands for all of them (the one     *)
(* that tells stubs of a type apart), and a kind of traffic for its value.  *)
(* An id is the sequence of its name and the numbers put after it, so       *)
(* "x-2" is <<"x", 2>>.                                                     *)
(***************************************************************************)
EXTENDS Integers, Sequences, FiniteSets, Library

CONSTANTS
  None,        \* a field people or Terraform left out
  Asked,       \* an assumption that is there without a value
  Entry,       \* entryType
  Schedules,   \* the kinds of traffic that are schedules
  Address,     \* Terraform's addresses
  Id,          \* the ids nodes and groups may have
  Value,       \* what the other fields of a node or a group may hold
  Fresh,       \* the declarations Terraform may be read as
  Starts,      \* the declarations people may start from
  HandNodes,   \* the nodes people may place
  Names,       \* the ids people may give
  MaxNumber,   \* bound on the number put after an id
  MaxMerges,   \* bound on the imports
  MaxEdits     \* bound on people's edits

UnknownInstances == -1   \* a count not known before apply

Places(s) == 1 .. Len(s)
Ids(nodes) == {nodes[k].id : k \in Places(nodes)}
Addresses(nodes) == {nodes[k].address : k \in Places(nodes)} \ {None}
Numbered(id, n) == IF n = 1 THEN id ELSE Append(id, n)

Nodes ==
  [id : Id, address : Address \cup {None}, type : Value, group : Id \cup {None}, stale : BOOLEAN,
   instances : Int, answer : Value, load : Value, traffic : Value]
Groups == [id : Id, what : Value]
Edges == [from : Id, to : Id]
Declarations == [region : Value, groups : Seq(Groups), nodes : Seq(Nodes), edges : Seq(Edges)]

(***************************************************************************)
(* What the engine takes: an id and an address name one node, an id one     *)
(* group; a node sits in a group that is there; an edge joins nodes that    *)
(* are there, and none is drawn twice.                                      *)
(***************************************************************************)
NodesUnique(s) ==
  /\ \A j, k \in Places(s.nodes) : s.nodes[j].id = s.nodes[k].id => j = k
  /\ \A j, k \in Places(s.nodes) :
       s.nodes[j].address = s.nodes[k].address /\ s.nodes[j].address # None => j = k
GroupsUnique(s) == \A j, k \in Places(s.groups) : s.groups[j].id = s.groups[k].id => j = k
GroupNamed(s, id) == \E k \in Places(s.groups) : s.groups[k].id = id
Grouped(s) ==
  \A k \in Places(s.nodes) : s.nodes[k].group # None => GroupNamed(s, s.nodes[k].group)
Joined(s) ==
  /\ \A k \in Places(s.edges) : s.edges[k].from \in Ids(s.nodes) /\ s.edges[k].to \in Ids(s.nodes)
  /\ \A j, k \in Places(s.edges) : s.edges[j] = s.edges[k] => j = k
Accepted(s) == NodesUnique(s) /\ GroupsUnique(s) /\ Grouped(s) /\ Joined(s)

ASSUME MergeAssumption ==
  /\ {None, "load"} \subseteq Value
  /\ None \notin Address /\ None \notin Id
  /\ MaxNumber \in Nat /\ MaxMerges \in Nat /\ MaxEdits \in Nat

\* terraform/infer: a resource is one node, and not stale; what has no address
\* (users, stubs) is put in no boundary; edges join nodes of the reading.
ASSUME FreshAssumption ==
  /\ Fresh \subseteq Declarations
  /\ None \notin Fresh
  /\ \A f \in Fresh :
       /\ \A j, k \in Places(f.nodes) :
            f.nodes[j].address = f.nodes[k].address /\ f.nodes[j].address # None => j = k
       /\ \A k \in Places(f.nodes) :
            ~ f.nodes[k].stale /\ (f.nodes[k].address = None => f.nodes[k].group = None)
       /\ \A k \in Places(f.edges) :
            f.edges[k].from \in Ids(f.nodes) /\ f.edges[k].to \in Ids(f.nodes)
       /\ \A n \in 1 .. MaxNumber :
            /\ \A k \in Places(f.nodes) : Numbered(f.nodes[k].id, n) \in Id
            /\ \A k \in Places(f.groups) : Numbered(f.groups[k].id, n) \in Id

\* terraform/infer: every node and every boundary claims an id of its own (claim,
\* groupID), users come first and stubs after the configuration's own nodes.
ASSUME ClaimAssumption ==
  \A f \in Fresh :
    /\ \A j, k \in Places(f.nodes) : f.nodes[j].id = f.nodes[k].id => j = k
    /\ \A j, k \in Places(f.groups) : f.groups[j].id = f.groups[k].id => j = k
    /\ \A j, k \in Places(f.nodes) :
         j < k /\ f.nodes[j].address = None /\ f.nodes[j].type # Entry
           => f.nodes[k].address = None

\* People start from what the engine takes; what they place has no address
\* and no boundary yet.
ASSUME PeopleAssumption ==
  /\ Starts \subseteq {s \in Declarations : Accepted(s)}
  /\ HandNodes \subseteq {n \in Nodes : n.address = None /\ n.group = None}
  /\ Names \subseteq Id

VARIABLES
  spec,      \* the declaration: region, groups, nodes, edges
  existing,  \* the declaration the merge in progress began with
  fresh,     \* the one it folds in
  pc,        \* where Merge is, "idle" between merges
  i,         \* the group, node or edge its loop is at
  seen,      \* existing nodes Terraform still declares
  rename,    \* fresh id -> final id
  groupID,   \* fresh group id -> final group id
  leftOut,   \* ids of the fresh nodes left out, each with a warning
  again,     \* the merge is of what was merged last, with no edit between
  merges,    \* imports made
  edits      \* edits made

vars == <<spec, existing, fresh, pc, i, seen, rename, groupID, leftOut, again, merges, edits>>
counts == <<again, merges, edits>>

Set(f, x, y) == [z \in DOMAIN f \cup {x} |-> IF z = x THEN y ELSE f[z]]

-----------------------------------------------------------------------------
(***************************************************************************)
(* newMerger and mergeHeader.                                               *)
(***************************************************************************)
Begin ==
  /\ pc = "idle"
  /\ merges < MaxMerges
  /\ fresh' \in Fresh
  /\ existing' = spec
  /\ spec' = [spec EXCEPT !.region = IF @ = None THEN fresh'.region ELSE @]
  /\ pc' = "groups"
  /\ i' = 1
  /\ seen' = {}
  /\ rename' = <<>>
  /\ groupID' = [g \in {None} |-> None]
  /\ leftOut' = {}
  /\ again' = (fresh' = fresh)
  /\ merges' = merges + 1
  /\ UNCHANGED edits

(***************************************************************************)
(* mergeGroups: the same kind and label is the same group, and a different  *)
(* group with a taken id gets a number.                                     *)
(***************************************************************************)
\* Mutant: no group is found again.
SameGroupNever(g) == {}

SameGroup(g) == {k \in Places(spec.groups) : spec.groups[k].what = g.what}
GroupTaken(id) == GroupNamed(spec, id)

MergeGroup ==
  /\ pc = "groups"
  /\ i <= Len(fresh.groups)
  /\ LET g == fresh.groups[i]
     IN  \/ \E k \in SameGroup(g) :
              /\ \A j \in SameGroup(g) : k <= j
              /\ groupID' = Set(groupID, g.id, spec.groups[k].id)
              /\ UNCHANGED spec
         \/ /\ SameGroup(g) = {}
            /\ \E n \in 1 .. MaxNumber :
                 LET id == Numbered(g.id, n)
                 IN  /\ ~ GroupTaken(id)
                     /\ \A m \in 1 .. n - 1 : GroupTaken(Numbered(g.id, m))
                     /\ spec' = [spec EXCEPT !.groups = Append(@, [g EXCEPT !.id = id])]
                     /\ groupID' = Set(groupID, g.id, id)
  /\ i' = i + 1
  /\ UNCHANGED <<existing, fresh, pc, seen, rename, leftOut, counts>>

GroupsMerged ==
  /\ pc = "groups"
  /\ i > Len(fresh.groups)
  /\ pc' = "nodes"
  /\ i' = 1
  /\ UNCHANGED <<spec, existing, fresh, seen, rename, groupID, leftOut, counts>>

-----------------------------------------------------------------------------
Final(group) == IF group \in DOMAIN groupID THEN groupID[group] ELSE None
Node == fresh.nodes[i]
NextNode == i' = i + 1 /\ UNCHANGED <<existing, fresh, pc, groupID, counts>>

(***************************************************************************)
(* updateNode: Terraform's type, group and count, and only the assumptions  *)
(* and traffic people left out; but a schedule follows Terraform.           *)
(***************************************************************************)
Instances(written, terraform) ==
  IF terraform = UnknownInstances /\ written > 0 THEN written ELSE terraform

Follows(n, f) ==
  f.traffic # None /\ n.load = None /\ (n.traffic = None \/ n.traffic \in Schedules)

\* Mutant: an assumption Terraform asks for is asked again.
UpdatedAsking(n, f) ==
  [n EXCEPT !.type = f.type, !.stale = FALSE, !.group = Final(f.group), !.answer = f.answer]

Updated(n, f) ==
  LET load == IF n.load = None THEN f.load ELSE n.load
  IN  [n EXCEPT !.type = f.type, !.stale = FALSE, !.group = Final(f.group),
                !.instances = Instances(@, f.instances),
                !.answer = IF @ = None THEN f.answer ELSE @,
                !.load = load,
                !.traffic = IF Follows([n EXCEPT !.load = load], f) THEN f.traffic ELSE @]

\* byAddr: of existing nodes with one address, the last.
Found(f) ==
  {k \in Places(existing.nodes) :
     /\ existing.nodes[k].address = f.address
     /\ \A j \in Places(existing.nodes) : existing.nodes[j].address = f.address => j <= k}

MergeKnown ==
  /\ pc = "nodes" /\ i <= Len(fresh.nodes)
  /\ Node.address # None
  /\ \E k \in Found(Node) :
       /\ spec' = [spec EXCEPT !.nodes[k] = Updated(@, Node)]
       /\ seen' = seen \cup {k}
       /\ rename' = Set(rename, Node.id, spec.nodes[k].id)
  /\ NextNode /\ UNCHANGED leftOut

AddNew ==
  /\ pc = "nodes" /\ i <= Len(fresh.nodes)
  /\ Node.address # None
  /\ Found(Node) = {}
  /\ \E n \in 1 .. MaxNumber :
       LET id == Numbered(Node.id, n)
       IN  /\ id \notin Ids(spec.nodes)
           /\ \A m \in 1 .. n - 1 : Numbered(Node.id, m) \in Ids(spec.nodes)
           /\ spec' = [spec EXCEPT !.nodes =
                         Append(@, [Node EXCEPT !.id = id, !.group = Final(@)])]
           /\ rename' = Set(rename, Node.id, id)
  /\ NextNode /\ UNCHANGED <<seen, leftOut>>

(***************************************************************************)
(* addExternal: a node without an address is the users entry or a stub.  A  *)
(* node with its id stands for it; else, where people placed nodes of its   *)
(* type, the one that agrees does, and with none to tell it is left out.    *)
(***************************************************************************)
PlacedByHand(type) ==
  {k \in Places(existing.nodes) : spec.nodes[k].address = None /\ spec.nodes[k].type = type}

Identified(f) == f.answer \notin {None, Asked}
Agree(f) == {k \in PlacedByHand(f.type) : Identified(f) /\ spec.nodes[k].answer = f.answer}

Generated(f) ==
  \/ f.id \in Ids(spec.nodes) \/ f.type = Entry
  \/ PlacedByHand(f.type) = {}
  \/ Agree(f) = {} /\ Identified(f)

\* Mutant: a generated entry is added though a node has its id.
AddGeneratedAgain ==
  /\ pc = "nodes" /\ i <= Len(fresh.nodes)
  /\ Node.address = None /\ Generated(Node)
  /\ rename' = Set(rename, Node.id, Node.id)
  /\ spec' = [spec EXCEPT !.nodes = Append(@, Node)]
  /\ NextNode /\ UNCHANGED <<seen, leftOut>>

AddGenerated ==
  /\ pc = "nodes" /\ i <= Len(fresh.nodes)
  /\ Node.address = None /\ Generated(Node)
  /\ rename' = Set(rename, Node.id, Node.id)
  /\ spec' = IF Node.id \in Ids(spec.nodes) THEN spec
             ELSE [spec EXCEPT !.nodes = Append(@, Node)]
  /\ NextNode /\ UNCHANGED <<seen, leftOut>>

Fold ==
  /\ pc = "nodes" /\ i <= Len(fresh.nodes)
  /\ Node.address = None /\ ~ Generated(Node)
  /\ \E k \in Agree(Node) :
       /\ Agree(Node) = {k}
       /\ rename' = Set(rename, Node.id, spec.nodes[k].id)
  /\ NextNode /\ UNCHANGED <<spec, seen, leftOut>>

LeaveOut ==
  /\ pc = "nodes" /\ i <= Len(fresh.nodes)
  /\ Node.address = None /\ ~ Generated(Node)
  /\ Cardinality(Agree(Node)) # 1
  /\ leftOut' = leftOut \cup {Node.id}
  /\ NextNode /\ UNCHANGED <<spec, seen, rename>>

NodesMerged ==
  /\ pc = "nodes"
  /\ i > Len(fresh.nodes)
  /\ pc' = "stale"
  /\ UNCHANGED <<spec, existing, fresh, i, seen, rename, groupID, leftOut, counts>>

-----------------------------------------------------------------------------
Gone(k) == existing.nodes[k].address # None /\ k \notin seen

\* Mutant: a node that left Terraform is not marked.
MarkNothing ==
  /\ pc = "stale"
  /\ pc' = "edges"
  /\ i' = 1
  /\ UNCHANGED <<spec, existing, fresh, seen, rename, groupID, leftOut, counts>>

MarkStale ==
  /\ pc = "stale"
  /\ spec' = [spec EXCEPT !.nodes =
                [k \in Places(spec.nodes) |->
                   IF k <= Len(existing.nodes) /\ Gone(k)
                   THEN [spec.nodes[k] EXCEPT !.stale = TRUE] ELSE spec.nodes[k]]]
  /\ pc' = "edges"
  /\ i' = 1
  /\ UNCHANGED <<existing, fresh, seen, rename, groupID, leftOut, counts>>

(***************************************************************************)
(* mergeEdges: people's edges stay, and a fresh one is added unless its     *)
(* pair is drawn or one of its ends was left out.                           *)
(***************************************************************************)
Drawn(from, to) ==
  \E k \in Places(spec.edges) : spec.edges[k].from = from /\ spec.edges[k].to = to
Named(e) == e.from \in DOMAIN rename /\ e.to \in DOMAIN rename

MergeEdge ==
  /\ pc = "edges"
  /\ i <= Len(fresh.edges)
  /\ LET e == fresh.edges[i]
     IN  \/ /\ Named(e)
            /\ ~ Drawn(rename[e.from], rename[e.to])
            /\ spec' = [spec EXCEPT !.edges =
                          Append(@, [from |-> rename[e.from], to |-> rename[e.to]])]
         \/ /\ Named(e) => Drawn(rename[e.from], rename[e.to])
            /\ UNCHANGED spec
  /\ i' = i + 1
  /\ UNCHANGED <<existing, fresh, pc, seen, rename, groupID, leftOut, counts>>

\* usedGroups: a boundary with nothing in it draws nothing.
Used == {k \in Places(spec.groups) :
           \E j \in Places(spec.nodes) : spec.nodes[j].group = spec.groups[k].id}

Finish ==
  /\ pc = "edges"
  /\ i > Len(fresh.edges)
  /\ spec' = [spec EXCEPT !.groups = Filtered(@, Used)]
  /\ pc' = "idle"
  /\ UNCHANGED <<existing, fresh, i, seen, rename, groupID, leftOut, counts>>

MergeStep ==
  \/ Begin \/ MergeGroup \/ GroupsMerged
  \/ MergeKnown \/ AddNew \/ AddGenerated \/ Fold \/ LeaveOut \/ NodesMerged
  \/ MarkStale \/ MergeEdge \/ Finish

-----------------------------------------------------------------------------
(***************************************************************************)
(* People, between imports: they place nodes, give and take names, answer,  *)
(* draw and erase edges, and delete nodes with their edges.                 *)
(***************************************************************************)
Edit(changed) ==
  /\ pc = "idle"
  /\ edits < MaxEdits
  /\ spec' = changed
  /\ edits' = edits + 1
  /\ fresh' = None
  /\ UNCHANGED <<existing, pc, i, seen, rename, groupID, leftOut, again, merges>>

Place ==
  \E n \in HandNodes :
    n.id \notin Ids(spec.nodes) /\ Edit([spec EXCEPT !.nodes = Append(@, n)])

Swap(id, old, new) == IF id = old THEN new ELSE id
Rename ==
  \E k \in Places(spec.nodes), new \in Names \ Ids(spec.nodes) :
    LET old == spec.nodes[k].id
    IN  Edit([spec EXCEPT
          !.nodes[k].id = new,
          !.edges = [e \in Places(spec.edges) |->
                       [from |-> Swap(spec.edges[e].from, old, new),
                        to |-> Swap(spec.edges[e].to, old, new)]]])

Answer ==
  \E k \in Places(spec.nodes) :
    \/ \E n \in HandNodes : n.answer # None /\ Edit([spec EXCEPT !.nodes[k].answer = n.answer])
    \/ Edit([spec EXCEPT !.nodes[k] = [@ EXCEPT !.load = "load", !.traffic = None]])

Draw ==
  \E j, k \in Places(spec.nodes) :
    /\ j # k
    /\ ~ Drawn(spec.nodes[j].id, spec.nodes[k].id)
    /\ Edit([spec EXCEPT !.edges =
               Append(@, [from |-> spec.nodes[j].id, to |-> spec.nodes[k].id])])

OtherNodes(id) == {k \in Places(spec.nodes) : spec.nodes[k].id # id}
Apart(id) == {k \in Places(spec.edges) : spec.edges[k].from # id /\ spec.edges[k].to # id}
Delete ==
  \E id \in Ids(spec.nodes) :
    Edit([spec EXCEPT !.nodes = Filtered(@, OtherNodes(id)), !.edges = Filtered(@, Apart(id))])

People == Place \/ Rename \/ Answer \/ Draw \/ Delete

Init ==
  /\ spec \in Starts
  /\ existing = spec
  /\ fresh = None
  /\ pc = "idle"
  /\ i = 1
  /\ seen = {}
  /\ rename = <<>>
  /\ groupID = <<>>
  /\ leftOut = {}
  /\ again = FALSE
  /\ merges = 0
  /\ edits = 0

\* The bounds are reached.
Rest == pc = "idle" /\ merges = MaxMerges /\ UNCHANGED vars

Next == MergeStep \/ People \/ Rest
Spec == Init /\ [][Next]_vars

-----------------------------------------------------------------------------
Merging == pc # "idle"
Merged == pc = "idle" /\ fresh # None

(***************************************************************************)
(* Whatever was imported, renamed and placed before, an id and an address   *)
(* name one node, and a node sits in a group that is there: the engine      *)
(* refuses a declaration where they do not.  Every edge Terraform declares  *)
(* is drawn between the nodes its ends became unless an end was left out    *)
(* with a warning, none is drawn twice, and none hangs from a missing node. *)
(***************************************************************************)
WellFormed ==
  /\ Accepted(spec)
  /\ Merged =>
       \A k \in Places(fresh.edges) :
         LET e == fresh.edges[k]
         IN  \/ e.from \in leftOut \/ e.to \in leftOut
             \/ Named(e) /\ Drawn(rename[e.from], rename[e.to])

(***************************************************************************)
(* "People own ids, assumptions, load and other traffic, notes, positions   *)
(* and edges.  Nodes that left Terraform are kept" (Merge): at no point of  *)
(* a merge, and in none of its ends, is any of them other than it was.      *)
(***************************************************************************)
Kept(n, m) ==
  /\ m.id = n.id /\ m.address = n.address
  /\ n.answer # None => m.answer = n.answer
  /\ n.load # None => m.load = n.load
  /\ n.traffic \notin Schedules \cup {None} => m.traffic = n.traffic
  /\ n.address = None => m = n

PeopleKept ==
  fresh # None =>
    /\ Len(existing.nodes) <= Len(spec.nodes)
    /\ \A k \in Places(existing.nodes) : Kept(existing.nodes[k], spec.nodes[k])
    /\ Len(existing.edges) <= Len(spec.edges)
    /\ \A k \in Places(existing.edges) : spec.edges[k] = existing.edges[k]

(***************************************************************************)
(* "Merging twice must not add anything" (merge_test.go), nor change it.    *)
(***************************************************************************)
TwiceChangesNothing == Merged /\ again => spec = existing

(***************************************************************************)
(* A merge keeps the promise of Ledger.                                     *)
(***************************************************************************)
Live == {spec.nodes[k].address : k \in {j \in Places(spec.nodes) : ~ spec.nodes[j].stale}} \ {None}
Abstract == INSTANCE Ledger WITH
       recorded <- Addresses(spec.nodes),
       live <- Live,
       importing <- Merging,
       declared <- IF Merging THEN Addresses(fresh.nodes) ELSE {}
KeepsLedger == Abstract!LSpec
=============================================================================
