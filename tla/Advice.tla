------------------------------- MODULE Advice -------------------------------
(***************************************************************************)
(* api: what a declaration is asked once it is written.  Flow reads it as   *)
(* declared and then under each of its scenarios, and one that cannot be    *)
(* read refuses them all; Gaps lists what it does not know, which people    *)
(* fill in one at a time and ask again; Review and reconcile read it        *)
(* against the providers' practices and the account's bill; Export draws it. *)
(***************************************************************************)
EXTENDS Gaps, Review

CONSTANTS
  Codes, Names, Synced, Short,  \* the bill's side, see Reconcile
  Catalog, Labels               \* what a drawing reads of the types, see Diagram

INSTANCE Reconcile
Drawing == INSTANCE Diagram

VARIABLES
  asked,   \* the question: [call, ...] and what it is about
  spec,    \* the declaration
  answer,  \* what has been answered, a record of its own per question
  state    \* "reading", "done" or "refused"

vars == <<asked, spec, answer, state>>

Answer(a) == answer' = a /\ state' = "done" /\ UNCHANGED <<asked, spec>>
Asking(call) == state = "reading" /\ asked.call = call

-----------------------------------------------------------------------------
(***************************************************************************)
(* Flow: minutes 0 and no scenarios first, then each scenario, found again  *)
(* by its name.                                                             *)
(***************************************************************************)
FlowOf(sp, minutes, name) == ReadFlow(sp, Demand(sp), minutes, name)

ReadBase ==
  /\ Asking("flow")
  /\ answer = [flows |-> <<>>]
  /\ IF Runs(spec)
     THEN /\ answer' = [flows |-> <<FlowOf(spec, 0, "as declared")>>]
          /\ UNCHANGED state
     ELSE /\ state' = "refused"
          /\ answer' = [flows |-> <<>>]
  /\ UNCHANGED <<asked, spec>>

\* Mutant: a scenario is written into the declaration it is read from.
InPlace(sp, under) == [under EXCEPT !.scenarios = sp.scenarios]

After(sp, under) == sp

ReadScenario ==
  /\ Asking("flow")
  /\ Len(answer.flows) \in 1..Len(spec.scenarios)
  /\ LET name == spec.scenarios[Len(answer.flows)].name
         under == In(spec, name)
     IN  IF OK(under) /\ Runs(under.spec)
         THEN /\ answer' = [flows |-> Append(answer.flows, FlowOf(under.spec, under.minutes, name))]
              /\ spec' = After(spec, under.spec)
              /\ UNCHANGED state
         ELSE /\ state' = "refused"
              /\ answer' = [flows |-> <<>>]
              /\ UNCHANGED spec
  /\ UNCHANGED asked

FlowDone ==
  /\ Asking("flow")
  /\ Len(answer.flows) = Len(spec.scenarios) + 1
  /\ Answer(answer)

-----------------------------------------------------------------------------
(***************************************************************************)
(* Gaps, and the person or agent who does what a gap's hint says: a load, a *)
(* call the infrastructure code does not show, a number, how many there     *)
(* will be, a measured ratio, an override taken away.                       *)
(***************************************************************************)
Nodes(sp, id, changed) ==
  [sp EXCEPT !.nodes = [i \in DOMAIN @ |-> IF @[i].id = id THEN changed ELSE @[i]]]

Filled(sp, g) ==
  LET n == Node(sp, g.node)
      entries == {m \in Range(sp.nodes) : m.type = EntryType}
  IN  CASE g.kind = "load" -> Nodes(sp, g.node, [n EXCEPT !.load = <<5, 1>>])
        [] g.kind = "caller" ->
             IF entries = {} THEN Nodes(sp, g.node, [n EXCEPT !.load = <<5, 1>>])
             ELSE [sp EXCEPT !.edges = Append(@, [from |-> (CHOOSE m \in entries : TRUE).id, to |-> g.node,
                                                  perUnit |-> 1, note |-> TRUE])]
        [] g.kind = "assumption" ->
             Nodes(sp, g.node, [n EXCEPT !.assumptions =
               [k \in DOMAIN @ \cup {g.key} |-> IF k = g.key THEN 100 ELSE @[k]]])
        [] g.kind = "override" ->
             Nodes(sp, g.node, [n EXCEPT !.assumptions = [k \in DOMAIN @ \ {g.key} |-> @[k]]])
        [] g.kind = "instances" -> Nodes(sp, g.node, [n EXCEPT !.instances = 2])
        [] g.kind = "ratio" ->
             [sp EXCEPT !.edges = [i \in DOMAIN @ |->
                IF @[i].from = g.from /\ @[i].to = g.to THEN [@[i] EXCEPT !.perUnit = 1] ELSE @[i]]]

AskGaps ==
  /\ Asking("gaps")
  /\ Runs(spec)
  /\ answer' = [gaps |-> FindGaps(spec)]
  /\ state' = "listed"
  /\ UNCHANGED <<asked, spec>>

Fill ==
  /\ state = "listed"
  /\ \E g \in Range(answer.gaps) :
       /\ g.kind # "failed"
       /\ spec' = Filled(spec, g)
       /\ asked' = [asked EXCEPT !.filled = @ \cup {g}]
  /\ state' = "reading"
  /\ UNCHANGED answer

NothingToFill ==
  /\ state = "listed"
  /\ \A g \in Range(answer.gaps) : g.kind = "failed"
  /\ Answer(answer)

-----------------------------------------------------------------------------
AskLoad == Asking("traffic") /\ Answer([load |-> Resolve(asked.traffic)])

Review ==
  /\ Asking("review")
  /\ Answer([findings |-> Departures(spec, ReviewResources(asked.evaluated), ReviewRules)])

Reconciled ==
  /\ Asking("reconcile")
  /\ Answer([report |-> Compare(asked.reading, ParseBill(asked.export))])

Export ==
  /\ Asking("export")
  /\ IF Drawing!Refused(spec)
     THEN state' = "refused" /\ UNCHANGED <<asked, spec, answer>>
     ELSE Answer(Drawing!Draw(spec))

Next ==
  \/ ReadBase \/ ReadScenario \/ FlowDone
  \/ AskGaps \/ Fill \/ NothingToFill
  \/ AskLoad \/ Review \/ Reconciled \/ Export
=============================================================================
