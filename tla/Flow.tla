-------------------------------- MODULE Flow --------------------------------
(***************************************************************************)
(* model.Spec.In: a declaration under one of its scenarios, and flow.Read:  *)
(* how fast each queue is drained against how fast work arrives, the        *)
(* backlog a burst leaves, and the connections callers can hold at once.    *)
(*                                                                         *)
(* A declaration is [nodes, edges, scenarios], three sequences.  A node's   *)
(* load and traffic are None or what they say; attributes and assumptions   *)
(* are functions of the keys that are set.  Rates are fractions.            *)
(***************************************************************************)
EXTENDS Traffic, TLC

CONSTANTS
  Queues,    \* the types that are queues
  Consumers, \* type -> [caps, duration]: where its cap and duration are kept
  Limited    \* the types with a limit on connections

Plus(a, b) == Frac(a[1] * b[2] + b[1] * a[2], a[2] * b[2])
By(a, n) == Frac(a[1] * n, a[2])
Over(a, b) == Frac(a[1] * b[2], a[2] * b[1])
Above(a, b) == a[1] * b[2] > b[1] * a[2]
Zero == <<0, 1>>

Ids(spec) == {n.id : n \in Range(spec.nodes)}
Node(spec, id) == CHOOSE n \in Range(spec.nodes) : n.id = id
Count(n) == Max({1, n.instances})

(***************************************************************************)
(* In: the first scenario of the name; the loads it names replaced, whether *)
(* they were a load or traffic, and the scenarios dropped.                  *)
(***************************************************************************)
Under(n, sc) ==
  IF n.id \in DOMAIN sc.load THEN [n EXCEPT !.load = sc.load[n.id], !.traffic = None] ELSE n

In(spec, name) ==
  LET named == SelectSeq(spec.scenarios, LAMBDA sc : sc.name = name)
  IN  IF named = <<>> \/ \E id \in DOMAIN named[1].load : id \notin Ids(spec) THEN Refused
      ELSE [spec |-> [nodes |-> [i \in DOMAIN spec.nodes |-> Under(spec.nodes[i], named[1])],
                      edges |-> spec.edges, scenarios |-> <<>>],
            minutes |-> named[1].minutes]

(***************************************************************************)
(* What engine.Run leaves for flow and gaps: the peak that reaches a node,  *)
(* its own and what the edges to it carry.  A node with a load and traffic  *)
(* is refused; traffic that is refused is the node's error and no load.     *)
(***************************************************************************)
Runs(spec) == \A n \in Range(spec.nodes) : n.traffic = None \/ n.load = None
Unloadable(n) == n.traffic # None /\ ~ OK(Resolve(n.traffic))
PeakOf(load) == IF OK(load) THEN load.peak ELSE Zero
Own(n) ==
  CASE n.traffic # None -> PeakOf(Resolve(n.traffic))
    [] n.traffic = None /\ n.load # None -> n.load
    [] OTHER -> Zero
Factor(e) == IF e.perUnit = None THEN 1 ELSE e.perUnit

Demand(spec) ==
  LET peak[id \in Ids(spec)] ==
        FoldLeft(LAMBDA sum, e : IF e.to = id THEN Plus(sum, By(peak[e.from], Factor(e))) ELSE sum,
                 Own(Node(spec, id)), spec.edges)
  IN  peak

-----------------------------------------------------------------------------
Fed(spec, id) == \E e \in Range(spec.edges) : e.to = id

\* capOf: the first of the type's attributes with a number above 0.
Number(values, key) == IF key \in DOMAIN values THEN values[key] ELSE 0
CapOf(n) ==
  LET caps == SelectSeq(Consumers[n.type].caps, LAMBDA a : Number(n.attributes, a) > 0)
  IN  IF caps = <<>> THEN 0 ELSE n.attributes[caps[1]]

Drain(n) == [node |-> n.id, cap |-> CapOf(n),
             ms |-> Number(n.assumptions, Consumers[n.type].duration)]
Lacks(d) == CASE d.cap = 0 -> "cap" [] d.cap # 0 /\ d.ms <= 0 -> "duration" [] OTHER -> "nothing"

(***************************************************************************)
(* Read: a queue nothing consumes, feeds or loads is outside the flow.  One *)
(* consumer without a cap or a duration makes the capacity unknown.         *)
(***************************************************************************)
ToConsumers(spec, q) ==
  SelectSeq(spec.edges, LAMBDA e : e.from = q /\ Node(spec, e.to).type \in DOMAIN Consumers)
DrainsOf(spec, calls) == [i \in DOMAIN calls |-> Drain(Node(spec, calls[i].to))]
WhyUnknown(lacking) == IF lacking = <<>> THEN <<>> ELSE <<Last(lacking).node, Lacks(Last(lacking))>>
Drained(drains, lacking) ==
  [consumers |-> drains,
   unknown |-> IF drains = <<>> THEN <<"no consumer">> ELSE WhyUnknown(lacking),
   capacity |-> IF lacking # <<>> THEN Zero
                ELSE FoldLeft(LAMBDA c, d : Plus(c, Frac(1000 * d.cap, d.ms)), Zero, drains)]
Drains(drains) == Drained(drains, SelectSeq(drains, LAMBDA d : Lacks(d) # "nothing"))

Left(backlog, capacity) == [backlog |-> backlog, wait |-> Over(backlog, By(capacity, 60))]
Burst(arrival, capacity, minutes) ==
  IF minutes > 0 /\ capacity # Zero /\ Above(arrival, capacity)
  THEN Left(By(Plus(arrival, By(capacity, -1)), 60 * minutes), capacity)
  ELSE [backlog |-> Zero, wait |-> Zero]
Queue(q, arrival, minutes, d) ==
  [node |-> q, arrival |-> arrival, minutes |-> minutes,
   utilization |-> IF d.capacity = Zero THEN Zero ELSE Over(arrival, d.capacity)]
    @@ d @@ Burst(arrival, d.capacity, minutes)
ReadQueue(spec, demand, minutes, q) ==
  Queue(q, demand[q], minutes, Drains(DrainsOf(spec, ToConsumers(spec, q))))

Outside(spec, demand, q) ==
  /\ ToConsumers(spec, q) = <<>>
  /\ demand[q] = Zero /\ ~ Fed(spec, q)

Callers(spec, s) ==
  SelectSeq(spec.edges, LAMBDA e : e.to = s /\ Node(spec, e.from).type \in DOMAIN Consumers)
Store(s, callers) ==
  [node |-> s, callers |-> [i \in DOMAIN callers |-> callers[i].id],
   connections |-> FoldLeft(LAMBDA sum, n : sum + CapOf(n) * Count(n), 0, callers),
   uncapped |-> {n.id : n \in {m \in Range(callers) : CapOf(m) = 0}}]
ReadStore(spec, s) == Store(s, FoldLeft(LAMBDA ns, e : Append(ns, Node(spec, e.from)), <<>>, Callers(spec, s)))

OfTypes(spec, types) ==
  FoldLeft(LAMBDA ids, n : IF n.type \in types THEN Append(ids, n.id) ELSE ids, <<>>, spec.nodes)
Each(ids, Read(_)) == FoldLeft(LAMBDA rs, id : Append(rs, Read(id)), <<>>, ids)

ReadFlow(spec, demand, minutes, name) ==
  [scenario |-> name,
   queues |-> Each(SelectSeq(OfTypes(spec, Queues), LAMBDA q : ~ Outside(spec, demand, q)),
                   LAMBDA q : ReadQueue(spec, demand, minutes, q)),
   stores |-> SelectSeq(Each(OfTypes(spec, Limited), LAMBDA s : ReadStore(spec, s)), LAMBDA s : s.callers # <<>>)]
=============================================================================
