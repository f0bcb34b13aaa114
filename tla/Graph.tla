-------------------------------- MODULE Graph --------------------------------
(***************************************************************************)
(* engine/graph.go, buildGraph: how a declaration becomes an ordered graph, *)
(* or is refused.  The declaration's groups, nodes and edges are checked in *)
(* the order they are written, in-degrees are counted as edges are added,   *)
(* and Kahn's algorithm orders the nodes so every edge goes forward.        *)
(*                                                                         *)
(* The code keeps a queue and an order; every id that leaves the queue goes *)
(* straight to the order, so one sequence holds both: `line' is the order   *)
(* followed by the queue, and `popped' is where the order ends.             *)
(***************************************************************************)
EXTENDS Integers, Sequences, FiniteSets

CONSTANTS
  Id,            \* ids a node may have
  Group,         \* ids a group may have
  Kind,          \* kinds of work
  None,          \* a field that is absent: the empty string, a nil pointer
  Unreadable,    \* traffic that traffic.Resolve cannot read
  Declarations   \* the declarations the engine is given

Request == "request"   \* the default kind of a type without kinds
UnknownInstances == -1 \* a count not known before apply

(***************************************************************************)
(* A node's kinds are those its type's scouter accepts, None without one.   *)
(***************************************************************************)
Op == [kind: Kind \cup {None}, perUnit: Int \cup {None}, kb: Int \cup {None}]
Blank == [kind |-> None, perUnit |-> None, kb |-> None]

NodeDecl == [id: Id \cup {None}, group: Group \cup {None}, instances: Int,
             load: Int \cup {None}, traffic: Int \cup {None, Unreadable},
             kinds: Seq(Kind) \cup {None}]
EdgeDecl == [from: Id, to: Id, ops: Seq(Op), short: Op]
Declaration == [groups: Seq(Group \cup {None}), nodes: Seq(NodeDecl), edges: Seq(EdgeDecl)]

ASSUME GraphAssumption ==
  /\ Request \in Kind
  /\ None \notin Int \cup Id \cup Group \cup Kind \cup Seq(Kind)
  /\ Declarations \subseteq Declaration

VARIABLES
  decl,       \* the declaration, its traffic turned into load
  pc,         \* where buildGraph is
  i,          \* the node or edge its loop is at
  known,      \* ids in g.nodes
  indegree,   \* edges into a node that its sources have not given up yet
  line,       \* g.order, then the queue
  popped,     \* how many ids of line are in g.order
  relaxed,    \* edges whose decrement the sort has done
  refusal     \* the kind of error buildGraph returned, "none" before

vars == <<decl, pc, i, known, indegree, line, popped, relaxed, refusal>>

Edges == 1 .. Len(decl.edges)
From(e) == decl.edges[e].from
To(e) == decl.edges[e].to
Outgoing(n) == {e \in Edges : From(e) = n}
Incoming(n) == {e \in Edges : To(e) = n}

Init ==
  /\ decl \in Declarations
  /\ pc = "traffic"
  /\ i = 1
  /\ known = {}
  /\ indegree = [n \in Id |-> 0]
  /\ line = <<>>
  /\ popped = 0
  /\ relaxed = {}
  /\ refusal = "none"

Refuse(why) ==
  /\ pc' = "refused"
  /\ refusal' = why
  /\ UNCHANGED <<decl, i, known, indegree, line, popped, relaxed>>

Goto(next) ==
  /\ pc' = next
  /\ i' = 1
  /\ UNCHANGED <<decl, known, indegree, line, popped, relaxed, refusal>>

-----------------------------------------------------------------------------
(***************************************************************************)
(* resolveTraffic: traffic becomes load; a node cannot give both, and one   *)
(* whose traffic cannot be read brings none.                                *)
(***************************************************************************)
Resolved(n) ==
  IF n.traffic \in {None, Unreadable} THEN n ELSE [n EXCEPT !.load = n.traffic]

GivesBoth(n) == n.traffic # None /\ n.load # None

ResolveTraffic ==
  /\ pc = "traffic"
  /\ \/ /\ \E k \in 1 .. Len(decl.nodes) : GivesBoth(decl.nodes[k])
        /\ Refuse("both")
     \/ /\ \A k \in 1 .. Len(decl.nodes) : ~ GivesBoth(decl.nodes[k])
        /\ decl' = [decl EXCEPT !.nodes =
                      [k \in 1 .. Len(decl.nodes) |-> Resolved(decl.nodes[k])]]
        /\ pc' = "groups"
        /\ UNCHANGED <<i, known, indegree, line, popped, relaxed, refusal>>

GroupsOK ==
  \A j \in 1 .. Len(decl.groups) :
    /\ decl.groups[j] # None
    /\ \A k \in 1 .. j - 1 : decl.groups[k] # decl.groups[j]

GroupIDs ==
  /\ pc = "groups"
  /\ \/ GroupsOK /\ Goto("nodes")
     \/ ~ GroupsOK /\ Refuse("groups")

NodeOK(n) ==
  /\ n.id # None
  /\ n.id \notin known
  /\ n.group # None => \E k \in 1 .. Len(decl.groups) : decl.groups[k] = n.group
  /\ n.instances >= UnknownInstances
  /\ n.load # None => n.load >= 0

AddNode ==
  /\ pc = "nodes"
  /\ i <= Len(decl.nodes)
  /\ \/ /\ NodeOK(decl.nodes[i])
        /\ known' = known \cup {decl.nodes[i].id}
        /\ i' = i + 1
        /\ UNCHANGED <<decl, pc, indegree, line, popped, relaxed, refusal>>
     \/ ~ NodeOK(decl.nodes[i]) /\ Refuse("nodes")

NodesAdded == pc = "nodes" /\ i > Len(decl.nodes) /\ Goto("edges")

(***************************************************************************)
(* An edge's work is its ops, or the one its short form says; it gives one  *)
(* or the other.  The target's scouter, when it has one, names the kinds.   *)
(***************************************************************************)
Operations(e) == IF e.ops # <<>> THEN e.ops ELSE <<e.short>>
Factor(op) == IF op.perUnit = None THEN 1 ELSE op.perUnit
NodeOf(id) == decl.nodes[CHOOSE k \in 1 .. Len(decl.nodes) : decl.nodes[k].id = id]

OpOK(op, kinds) ==
  /\ Factor(op) >= 0
  /\ op.kb # None => op.kb >= 0
  /\ (kinds # None /\ op.kind # None) => \E k \in 1 .. Len(kinds) : kinds[k] = op.kind

EdgeOK(e) ==
  /\ e.from \in known /\ e.to \in known
  /\ e.ops # <<>> => e.short = Blank
  /\ \A k \in 1 .. Len(Operations(e)) : OpOK(Operations(e)[k], NodeOf(e.to).kinds)

AddEdgeBy(count) ==
  /\ pc = "edges"
  /\ i <= Len(decl.edges)
  /\ EdgeOK(decl.edges[i])
  /\ indegree' = [indegree EXCEPT ![To(i)] = count]
  /\ i' = i + 1
  /\ UNCHANGED <<decl, pc, known, line, popped, relaxed, refusal>>

\* Mutants: the edge counted once a target, counted for every operation.
AddEdgeOnce == AddEdgeBy(1)
AddEdgePerOp == AddEdgeBy(indegree[To(i)] + Len(Operations(decl.edges[i])))

AddEdge ==
  /\ pc = "edges"
  /\ i <= Len(decl.edges)
  /\ \/ /\ EdgeOK(decl.edges[i])
        /\ indegree' = [indegree EXCEPT ![To(i)] = @ + 1]
        /\ i' = i + 1
        /\ UNCHANGED <<decl, pc, known, line, popped, relaxed, refusal>>
     \/ ~ EdgeOK(decl.edges[i]) /\ Refuse("edges")

EdgesAdded == pc = "edges" /\ i > Len(decl.edges) /\ Goto("queue")

-----------------------------------------------------------------------------
(***************************************************************************)
(* sort: the ids without incoming edges start the queue, in declaration     *)
(* order; each id popped gives up its outgoing edges in declaration order,  *)
(* and an id whose last incoming edge goes joins the queue.                 *)
(***************************************************************************)
StartQueue ==
  /\ pc = "queue"
  /\ IF i <= Len(decl.nodes)
     THEN /\ line' = IF indegree[decl.nodes[i].id] = 0
                     THEN Append(line, decl.nodes[i].id) ELSE line
          /\ i' = i + 1
          /\ pc' = pc
     ELSE pc' = "sort" /\ UNCHANGED <<line, i>>
  /\ UNCHANGED <<decl, known, indegree, popped, relaxed, refusal>>

Unrelaxed == IF popped = 0 THEN {} ELSE Outgoing(line[popped]) \ relaxed

\* Mutant: an id queued when first met, not when its last edge goes.
RelaxAtOnce ==
  /\ pc = "sort"
  /\ \E e \in Unrelaxed :
       /\ \A f \in Unrelaxed : e <= f
       /\ indegree' = [indegree EXCEPT ![To(e)] = @ - 1]
       /\ line' = IF \E j \in 1 .. Len(line) : line[j] = To(e) THEN line ELSE Append(line, To(e))
       /\ relaxed' = relaxed \cup {e}
  /\ UNCHANGED <<decl, pc, i, known, popped, refusal>>

Relax ==
  /\ pc = "sort"
  /\ \E e \in Unrelaxed :
       /\ \A f \in Unrelaxed : e <= f
       /\ indegree' = [indegree EXCEPT ![To(e)] = @ - 1]
       /\ line' = IF indegree[To(e)] = 1 THEN Append(line, To(e)) ELSE line
       /\ relaxed' = relaxed \cup {e}
  /\ UNCHANGED <<decl, pc, i, known, popped, refusal>>

Pop ==
  /\ pc = "sort"
  /\ Unrelaxed = {}
  /\ popped < Len(line)
  /\ popped' = popped + 1
  /\ UNCHANGED <<decl, pc, i, known, indegree, line, relaxed, refusal>>

Sorted ==
  /\ pc = "sort"
  /\ Unrelaxed = {}
  /\ popped = Len(line)
  /\ \/ popped = Len(decl.nodes) /\ Goto("ordered")
     \/ popped # Len(decl.nodes) /\ Refuse("cycle")

Build ==
  \/ ResolveTraffic \/ GroupIDs \/ AddNode \/ NodesAdded \/ AddEdge \/ EdgesAdded
  \/ StartQueue \/ Relax \/ Pop \/ Sorted

\* The ids the cycle error names.
Cyclic == {n \in known : indegree[n] > 0}

-----------------------------------------------------------------------------
GraphTypeOK ==
  /\ decl \in Declaration
  /\ pc \in {"traffic", "groups", "nodes", "edges", "queue", "sort", "ordered", "refused"}
  /\ i \in Nat \ {0}
  /\ known \subseteq Id
  /\ indegree \in [Id -> Nat]
  /\ line \in Seq(Id)
  /\ popped \in 0 .. Len(line)
  /\ relaxed \subseteq Edges
  /\ refusal \in {"none", "both", "groups", "nodes", "edges", "cycle"}

(***************************************************************************)
(* An id is ordered once, and only after the source of every edge into it:  *)
(* what "every edge goes forward" means for buildGraph's result, and for    *)
(* what the order already holds while the queue still runs (sort).          *)
(***************************************************************************)
ForwardOrder ==
  /\ \A j, k \in 1 .. Len(line) : line[j] = line[k] => j = k
  /\ \A k \in 1 .. Len(line) : \A e \in Incoming(line[k]) :
       \E j \in 1 .. k - 1 : j <= popped /\ line[j] = From(e)

(***************************************************************************)
(* A refusal for a cycle is a real one: among the ids the error names, each *)
(* is fed by another, so the edges go round (graph.go, sort).               *)
(***************************************************************************)
RefusedOnlyForCycle ==
  refusal = "cycle" =>
    /\ Cyclic # {}
    /\ \A n \in Cyclic : \E e \in Incoming(n) : From(e) \in Cyclic
=============================================================================
