----------------------------- MODULE Propagation -----------------------------
(***************************************************************************)
(* engine/graph.go, propagate, over the graph that Graph builds: each node  *)
(* in order takes its own load, then passes its total on along its edges.   *)
(* A load's peak per second goes through the same sums and products as its  *)
(* monthly volume, so one number stands for both; the operation sizes it    *)
(* carries are abstracted to how much of the load came with a size.         *)
(***************************************************************************)
EXTENDS Graph, Functions

VARIABLES
  demand,   \* load that reached each node, by kind
  at,       \* the place in the order propagate is at
  out,      \* the load that node passes on
  pushed    \* edges already pushed along

flow == <<demand, at, out, pushed>>
allvars == <<vars, flow>>

Load == [monthly: Nat, sized: Nat]
NoLoad == [monthly |-> 0, sized |-> 0]
AddLoad(l, m) == [monthly |-> l.monthly + m.monthly, sized |-> l.sized + m.sized]
Total(d) == SumFunctionOnSet([k \in Kind |-> d[k].monthly], Kind)

DefaultKind(n) ==
  LET kinds == NodeOf(n).kinds
  IN  IF kinds = None THEN Request ELSE IF kinds = <<>> THEN Request ELSE kinds[1]

OpKind(e, op) == IF op.kind = None THEN DefaultKind(To(e)) ELSE op.kind

(***************************************************************************)
(* What edge e brings of kind k per unit of the plain load of its source:   *)
(* all of it, or what comes with a size.                                    *)
(***************************************************************************)
PerUnit(e, k, sizedOnly) ==
  LET ops == Operations(decl.edges[e])
  IN  SumFunctionOnSet([j \in DOMAIN ops |-> Factor(ops[j])],
        {j \in DOMAIN ops : OpKind(e, ops[j]) = k /\ (sizedOnly => ops[j].kb # None)})

Carried(e, k) ==
  [monthly |-> out * PerUnit(e, k, FALSE),
   sized   |-> out * PerUnit(e, k, TRUE)]

(***************************************************************************)
(* own: what reached the node, plus the load it brings in, by default kind. *)
(***************************************************************************)
\* Mutant: the load the node brings in replaces what reached it.
OwnedOnly(n) ==
  LET l == NodeOf(n).load
  IN  IF l = None THEN demand[n]
      ELSE [demand[n] EXCEPT ![DefaultKind(n)] = [monthly |-> l, sized |-> 0]]

Owned(n) ==
  LET l == NodeOf(n).load
  IN  IF l = None THEN demand[n]
      ELSE [demand[n] EXCEPT ![DefaultKind(n)] = AddLoad(@, [monthly |-> l, sized |-> 0])]

Unpushed == IF at = 0 THEN {} ELSE Outgoing(line[at]) \ pushed

Take ==
  /\ pc = "ordered"
  /\ Unpushed = {}
  /\ at < popped
  /\ at' = at + 1
  /\ demand' = [demand EXCEPT ![line[at']] = Owned(line[at'])]
  /\ out' = Total(Owned(line[at']))
  /\ UNCHANGED <<vars, pushed>>

Push ==
  /\ pc = "ordered"
  /\ \E e \in Unpushed :
       /\ \A f \in Unpushed : e <= f
       /\ demand' = [demand EXCEPT ![To(e)] =
                       [k \in Kind |-> AddLoad(@[k], Carried(e, k))]]
       /\ pushed' = pushed \cup {e}
  /\ UNCHANGED <<vars, at, out>>

Propagated == pc = "ordered" /\ at = popped /\ Unpushed = {}

-----------------------------------------------------------------------------
FlowInit ==
  /\ demand = [n \in Id |-> [k \in Kind |-> NoLoad]]
  /\ at = 0
  /\ out = 0
  /\ pushed = {}

Done == Propagated \/ pc = "refused"
Return == Done /\ UNCHANGED allvars

Next == (Build /\ UNCHANGED flow) \/ Take \/ Push \/ Return

Begin == Init /\ FlowInit
Spec == Begin /\ [][Next]_allvars

-----------------------------------------------------------------------------
(***************************************************************************)
(* Once a node has taken its demand, nothing adds to it: "each node's       *)
(* demand is complete before it passes it on" (graph.go, propagate).        *)
(***************************************************************************)
DemandComplete ==
  [][\A j \in 1 .. at : demand'[line[j]] = demand[line[j]]]_allvars

(***************************************************************************)
(* Load is neither lost nor made up on the way: in the end a node has what  *)
(* it brings in itself and, of every edge into it, the total of the edge's  *)
(* source times what the edge brings per unit; and with a size, only what   *)
(* came with one ("the sizes of what it received stay with it", propagate). *)
(***************************************************************************)
BroughtIn(n, k) ==
  IF NodeOf(n).load = None \/ k # DefaultKind(n) THEN 0 ELSE NodeOf(n).load
Passed(e, k, sizedOnly) == Total(demand[From(e)]) * PerUnit(e, k, sizedOnly)
PassedAlong(k, sizedOnly, E) == SumFunctionOnSet([e \in E |-> Passed(e, k, sizedOnly)], E)
LoadConserved ==
  Propagated =>
    \A n \in known : \A k \in Kind :
      /\ demand[n][k].monthly = BroughtIn(n, k) + PassedAlong(k, FALSE, Incoming(n))
      /\ demand[n][k].sized = PassedAlong(k, TRUE, Incoming(n))

(***************************************************************************)
(* Propagation settles nodes as the abstract specification allows.          *)
(***************************************************************************)
Feeds == {<<From(e), To(e)>> : e \in Edges}
Abstract == INSTANCE Settling WITH
       feeds <- Feeds,
       settled <- {line[j] : j \in 1 .. at}
Settles == Abstract!SSpec
=============================================================================
