-------------------------------- MODULE Gaps --------------------------------
(***************************************************************************)
(* gaps.Find: what a declaration does not know yet.  Nodes are judged with  *)
(* the patterns expanded, ratios on the edges as written; the two are one   *)
(* declaration here, which patterns do not concern (see Patterns).          *)
(*                                                                         *)
(* A type is [kinds, assumptions, lines]: its fields with what a form says  *)
(* of them, and the lines its scouter reads, each fixed + times * demand,   *)
(* multiplied by the assumption it is about.                                *)
(***************************************************************************)
EXTENDS Flow

CONSTANTS
  Scouters,  \* type -> [kinds, assumptions, lines, sound]
  EntryType  \* scouter.EntryType

FieldsOf(n) == Scouters[n.type].assumptions
IsSet(n, key) == key \in DOMAIN n.assumptions

Gap(kind, n, key) == [kind |-> kind, node |-> n.id, key |-> key]

(***************************************************************************)
(* readings: the quantities and demands a node reads at some demand, or an  *)
(* error when a number it needs is neither set nor has a default.           *)
(***************************************************************************)
Default(n, key) ==
  LET f == SelectSeq(FieldsOf(n), LAMBDA g : g.key = key) IN f[1].default
Value(n, key) == IF IsSet(n, key) THEN n.assumptions[key] ELSE Default(n, key)
Needs(n) == {l.about : l \in Range(Scouters[n.type].lines)} \ {None}
Unreadable(n) == ~ Scouters[n.type].sound \/ \E key \in Needs(n) : Value(n, key) = None

Readings(n, d) ==
  LET lines == Scouters[n.type].lines
  IN  [i \in DOMAIN lines |->
         (lines[i].fixed + lines[i].times * d) * (IF lines[i].about = None THEN 1
                                                 ELSE Value(n, lines[i].about))]

\* withTrialNumbers: numbers that are neither set nor have a default are 1.
WithTrialNumbers(n) ==
  LET trial == {f.key : f \in {g \in Range(FieldsOf(n)) :
                                 g.number /\ g.default = None /\ ~ IsSet(n, g.key)}}
  IN  [n EXCEPT !.assumptions = [k \in DOMAIN @ \cup trial |-> IF k \in trial THEN 1 ELSE @[k]]]

\* takesWork: read idle and busy, the readings differ, or cannot be read.
Varies(n) == Unreadable(n) \/ Readings(n, 0) # Readings(n, 10)
TakesWork(n) == Scouters[n.type].kinds # {} /\ Varies(WithTrialNumbers(n))

-----------------------------------------------------------------------------
\* Mutant: a node that has callers is still said to have none.
SourceGapFed(spec, n) ==
  IF n.load # None \/ n.traffic # None THEN <<>>
  ELSE IF n.type = EntryType THEN <<Gap("load", n, None)>>
  ELSE IF TakesWork(n) THEN <<Gap("caller", n, None)>> ELSE <<>>

\* Mutant: the nodes that send work count as the ones it is sent to.
FedBackwards(spec, id) == \E e \in Range(spec.edges) : id \in {e.to, e.from}
SourceGapBackwards(spec, n) ==
  IF n.load # None \/ n.traffic # None THEN <<>>
  ELSE IF n.type = EntryType THEN <<Gap("load", n, None)>>
  ELSE IF ~ FedBackwards(spec, n.id) /\ TakesWork(n) THEN <<Gap("caller", n, None)>> ELSE <<>>

SourceGap(spec, n) ==
  IF n.load # None \/ n.traffic # None THEN <<>>
  ELSE IF n.type = EntryType THEN <<Gap("load", n, None)>>
  ELSE IF ~ Fed(spec, n.id) /\ TakesWork(n) THEN <<Gap("caller", n, None)>> ELSE <<>>

AssumptionGaps(n) ==
  LET unset == SelectSeq(FieldsOf(n), LAMBDA f : f.required /\ f.default = None /\ ~ IsSet(n, f.key))
  IN  [i \in DOMAIN unset |-> Gap("assumption", n, unset[i].key)]

OverrideGaps(n) ==
  LET over == SelectSeq(FieldsOf(n), LAMBDA f : /\ f.overrides # None /\ IsSet(n, f.key)
                                              /\ f.overrides \in DOMAIN n.attributes)
  IN  [i \in DOMAIN over |-> Gap("override", n, over[i].key)]

InstanceGaps(n) == IF n.instances = -1 THEN <<Gap("instances", n, None)>> ELSE <<>>

\* The engine's error, unless a gap of the node already says why.
Failed(n) == Unreadable(n) \/ Unloadable(n) \/ (n.type = EntryType /\ n.load = None /\ n.traffic = None)
FailedGaps(n) ==
  LET unfedEntry == n.type = EntryType /\ n.load = None /\ n.traffic = None
  IN  IF Failed(n) /\ AssumptionGaps(n) = <<>> /\ ~ unfedEntry
      THEN <<Gap("failed", n, None)>> ELSE <<>>

NodeGaps(spec, n) ==
  SourceGap(spec, n) \o AssumptionGaps(n) \o OverrideGaps(n) \o InstanceGaps(n) \o FailedGaps(n)

\* A ratio nobody set, and no note that says why one call per unit holds.
RatioGaps(spec) ==
  LET loose == SelectSeq(spec.edges, LAMBDA e : e.perUnit = None /\ ~ e.note)
  IN  [i \in DOMAIN loose |-> [kind |-> "ratio", from |-> loose[i].from, to |-> loose[i].to]]

Order == <<"load", "caller", "assumption", "instances", "ratio", "failed", "override">>

InOrder(gaps) == FoldLeft(LAMBDA gs, kind : gs \o SelectSeq(gaps, LAMBDA g : g.kind = kind), <<>>, Order)
FindGaps(spec) ==
  InOrder(FoldLeft(LAMBDA gs, n : gs \o NodeGaps(spec, n), <<>>,
                   SelectSeq(spec.nodes, LAMBDA n : n.type \in DOMAIN Scouters)) \o RatioGaps(spec))
=============================================================================
