------------------------------ MODULE Patterns ------------------------------
(***************************************************************************)
(* pattern/pattern.go: a declaration's pattern nodes are replaced, pass by  *)
(* pass, with the fragments they expand into, and after the engine's run    *)
(* each gets one result that sums what it expanded into.                    *)
(*                                                                         *)
(* An id is the sequence of names that the code joins with Sep, so an inner *)
(* id is its host's id and one name more.  A node's parameters are either   *)
(* complete or not; an edge's work is left out, edges are only rewired.     *)
(***************************************************************************)
EXTENDS Integers, Sequences, SequencesExt

CONSTANTS
  Registry,      \* pattern type -> fragment [nodes, edges, in, out]
  None,          \* an absent field
  MaxDepth,      \* maxDepth: passes that may find a pattern
  Declarations   \* the declarations that are read

ASSUME PatternsAssumption == MaxDepth \in Nat

VARIABLES
  declared,   \* the declaration as written
  spec,       \* what it has become
  depth,      \* passes made
  exp,        \* Expansion: pattern node id -> its group
  outcome,    \* what Expand returned, "expanding" before
  rollups     \* the results added for pattern nodes

vars == <<declared, spec, depth, exp, outcome, rollups>>

IsPattern(n) == n.type \in DOMAIN Registry
Fragment(n) == Registry[n.type]
Placed == {k \in DOMAIN spec.nodes : IsPattern(spec.nodes[k])}
HostOf(id) == {k \in Placed : spec.nodes[k].id = id}

-----------------------------------------------------------------------------
Entering(n, host, f) == n.id = f.in /\ host.load # None
Sum(l, m) == IF m = None THEN l ELSE l + m

\* Mutant: the host's load replaces what the fragment's own node brings in.
InnerReplacing(host) ==
  LET f == Fragment(host)
  IN  [k \in DOMAIN f.nodes |->
        [f.nodes[k] EXCEPT
           !.id = host.id \o @,
           !.group = IF @ = None THEN host.group ELSE @,
           !.load = IF Entering(f.nodes[k], host, f) THEN host.load ELSE @]]

Inner(host) ==
  LET f == Fragment(host)
  IN  [k \in DOMAIN f.nodes |->
        [f.nodes[k] EXCEPT
           !.id = host.id \o @,
           !.group = IF @ = None THEN host.group ELSE @,
           !.load = IF Entering(f.nodes[k], host, f) THEN Sum(host.load, @) ELSE @]]

InnerEdges(host) ==
  LET f == Fragment(host)
  IN  [k \in DOMAIN f.edges |->
        [from |-> host.id \o f.edges[k].from, to |-> host.id \o f.edges[k].to]]

(***************************************************************************)
(* rewire: an edge into a pattern enters at its inlet, one out of it leaves *)
(* from its outlet, which a sink does not have.                             *)
(***************************************************************************)
In(id) == LET k == CHOOSE h \in HostOf(id) : TRUE IN Fragment(spec.nodes[k]).in
Out(id) == LET k == CHOOSE h \in HostOf(id) : TRUE IN Fragment(spec.nodes[k]).out

\* Mutants: an edge out of a pattern leaves from its inlet; an edge into a
\* pattern is not moved.
RewireFromInlet(e) ==
  [from |-> IF HostOf(e.from) = {} THEN e.from ELSE e.from \o In(e.from),
   to   |-> IF HostOf(e.to) = {} THEN e.to ELSE e.to \o In(e.to)]

Rewire(e) ==
  [from |-> IF HostOf(e.from) = {} THEN e.from ELSE e.from \o Out(e.from),
   to   |-> IF HostOf(e.to) = {} THEN e.to ELSE e.to \o In(e.to)]

LeavesSink(e) == HostOf(e.from) # {} /\ Out(e.from) = None

(***************************************************************************)
(* Expansion.add: the group of one pattern node; the patterns it is inside  *)
(* of own its members too.                                                  *)
(***************************************************************************)
Members(host) == [k \in DOMAIN Inner(host) |-> Inner(host)[k].id]

\* Mutant: the outer pattern does not take over the inner one's members.
AddAlone(x, host) ==
  LET g == [members |-> Members(host), in |-> host.id \o Fragment(host).in,
            out |-> IF Fragment(host).out = None THEN None
                    ELSE host.id \o Fragment(host).out]
  IN  [o \in DOMAIN x \cup {host.id} |-> IF o = host.id THEN g ELSE x[o]]

Add(x, host) ==
  LET g == [members |-> Members(host), in |-> host.id \o Fragment(host).in,
            out |-> IF Fragment(host).out = None THEN None
                    ELSE host.id \o Fragment(host).out]
  IN  [o \in DOMAIN x \cup {host.id} |->
        IF o = host.id THEN g
        ELSE IF Contains(x[o].members, host.id)
             THEN [x[o] EXCEPT !.members = @ \o g.members] ELSE x[o]]

-----------------------------------------------------------------------------
(***************************************************************************)
(* expandOnce: one pass.  The new declaration starts from the name, region  *)
(* and groups of the old one; nothing else of it is copied.                 *)
(***************************************************************************)
Replaced(n) == IF IsPattern(n) THEN Inner(n) ELSE <<n>>
Between(n) == IF IsPattern(n) THEN InnerEdges(n) ELSE <<>>

Expanded ==
  LET nodes == spec.nodes
  IN  [nodes |-> FlattenSeq([k \in DOMAIN nodes |-> Replaced(nodes[k])]),
       edges |-> FlattenSeq([k \in DOMAIN nodes |-> Between(nodes[k])])
                 \o [k \in DOMAIN spec.edges |-> Rewire(spec.edges[k])],
       groups |-> spec.groups,
       quotas |-> {},
       scenarios |-> {}]

MissingParameter == \E k \in Placed : ~ spec.nodes[k].complete
NoOutlet == \E k \in DOMAIN spec.edges : LeavesSink(spec.edges[k])

Fail(why) == outcome' = why /\ UNCHANGED <<declared, spec, depth, exp, rollups>>

Refused ==
  \/ Placed = {} /\ Fail("expanded")
  \/ MissingParameter /\ Fail("parameter")
  \/ ~ MissingParameter /\ NoOutlet /\ Fail("outlet")

Opens == Placed # {} /\ ~ MissingParameter /\ ~ NoOutlet

Open ==
  /\ spec' = Expanded
  /\ exp' = FoldLeft(Add, exp, SelectSeq(spec.nodes, IsPattern))
  /\ depth' = depth + 1
  /\ UNCHANGED <<declared, outcome, rollups>>

ExpandOnceAgain ==
  /\ outcome = "expanding"
  /\ Refused \/ (Opens /\ IF depth = MaxDepth THEN UNCHANGED vars ELSE Open)

ExpandOnce ==
  /\ outcome = "expanding"
  /\ Refused \/ (Opens /\ IF depth = MaxDepth THEN Fail("deep") ELSE Open)

(***************************************************************************)
(* Rollup, after the engine's run: one result per pattern node as written,  *)
(* over those of its members the engine has a result for.  Every node costs *)
(* one, so a result's cost is how many it sums.                             *)
(***************************************************************************)
Read == {spec.nodes[k].id : k \in DOMAIN spec.nodes}
Rolled(n) ==
  LET g == exp[n.id]
      end == IF g.out = None THEN g.in ELSE g.out
  IN  [id |-> n.id,
       usd |-> Len(SelectSeq(g.members, LAMBDA m : m \in Read)),
       demandOf |-> IF end \in Read THEN end ELSE None]

Rollup ==
  /\ outcome = "expanded"
  /\ outcome' = "rolled"
  /\ LET placed == SelectSeq(declared.nodes, LAMBDA n : n.id \in DOMAIN exp)
     IN  rollups' = [k \in DOMAIN placed |-> Rolled(placed[k])]
  /\ UNCHANGED <<declared, spec, depth, exp>>

-----------------------------------------------------------------------------
Init ==
  /\ declared \in Declarations
  /\ spec = declared
  /\ depth = 0
  /\ exp = <<>>
  /\ outcome = "expanding"
  /\ rollups = <<>>

Stopped == outcome \notin {"expanding", "expanded"}
Return == Stopped /\ UNCHANGED vars
Next == ExpandOnce \/ Rollup \/ Return
Spec == Init /\ [][Next]_vars /\ WF_vars(Next)

(***************************************************************************)
(* Nesting either ends or is refused: a pattern that contains itself does   *)
(* not hang the reading (maxDepth "bounds patterns that expand into         *)
(* patterns").                                                              *)
(***************************************************************************)
ExpansionEnds == <>Stopped
=============================================================================
