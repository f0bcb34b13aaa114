------------------------------ MODULE MCMerge ------------------------------
(***************************************************************************)
(* Small imports for Merge: nodes that come, go and come back, an id that   *)
(* another resource takes over, groups of one id and different labels,      *)
(* schedules that change, stubs that say which model they are and a stub    *)
(* that does not, and edges that turn round.                                *)
(***************************************************************************)
EXTENDS Merge

MCSchedules == {"hourly", "daily"}
MCId ==
  LET names == {"users", "a", "b", "any", "haiku", "sonnet", "net", "own", "handler", "ours", "clock",
                "mine", "kept"}
  IN  {<<x>> : x \in names} \cup {<<x, n>> : x \in names, n \in 2 .. MaxNumber}
MCValue ==
  {None, Asked, "r1", "r2", "fn", "queue", "model", Entry, "vpc one", "vpc two", "mine", "given",
   "m1", "m2", "load", "rate"} \cup MCSchedules

Empty(id, type) ==
  [id |-> id, address |-> None, type |-> type, group |-> None, stale |-> FALSE,
   instances |-> 0, answer |-> None, load |-> None, traffic |-> None]
Tf(name, address, type) ==
  [Empty(<<name>>, type) EXCEPT !.address = address, !.answer = Asked]
Model(name, answer) == [Empty(<<name>>, "model") EXCEPT !.answer = answer]
Users == Empty(<<"users">>, Entry)
Frame(name, what) == [id |-> <<name>>, what |-> what]
Arrow(a, b) == [from |-> <<a>>, to |-> <<b>>]
Read(groups, nodes, edges) ==
  [region |-> "r1", groups |-> groups, nodes |-> nodes, edges |-> edges]

MCFresh == {
  Read(<<Frame("net", "vpc one")>>,
       <<Users, [Tf("a", "A", "fn") EXCEPT !.group = <<"net">>],
         [Tf("b", "B", "queue") EXCEPT !.traffic = "hourly"]>>,
       <<Arrow("users", "a"), Arrow("a", "b")>>),
  Read(<<Frame("net", "vpc two"), Frame("own", "vpc one")>>,
       <<[Tf("b", "B", "queue") EXCEPT !.group = <<"net">>, !.instances = UnknownInstances],
         [Tf("a", "C", "fn") EXCEPT !.group = <<"own">>], Model("any", Asked)>>,
       <<Arrow("b", "a"), Arrow("a", "any")>>),
  Read(<<>>,
       <<Tf("a", "A", "fn"), [Tf("b", "B", "queue") EXCEPT !.traffic = "daily"],
         Model("haiku", "m1")>>,
       <<Arrow("b", "a"), Arrow("a", "haiku")>>),
  Read(<<>>,
       <<[Tf("b", "A", "fn") EXCEPT !.instances = 2], Model("sonnet", "m2"), Model("any", Asked)>>,
       <<Arrow("b", "sonnet"), Arrow("b", "any")>>) }

MCStarts == {
  [region |-> None, groups |-> <<>>, nodes |-> <<>>, edges |-> <<>>],
  [region |-> "r2",
   groups |-> <<Frame("net", "mine"), Frame("kept", "vpc two")>>,
   nodes |-> <<[Tf("handler", "A", "fn") EXCEPT !.answer = "given", !.load = "load",
                                              !.group = <<"net">>],
               [Model("ours", "m1") EXCEPT !.group = <<"kept">>],
               [Tf("clock", "B", "queue") EXCEPT !.traffic = "rate", !.instances = 3]>>,
   edges |-> <<Arrow("handler", "ours")>>] }

MCHandNodes == {Model("any", None), Model("mine", "m1"), Empty(<<"a">>, "queue")}
MCNames == {<<"a", 2>>, <<"haiku">>}

-----------------------------------------------------------------------------
(***************************************************************************)
(* "Cycles are broken by dropping the closing edge" (docs/terraform.md),    *)
(* because "the engine refuses cyclic graphs" (cycles.go): with no edge of  *)
(* people's, what an import leaves has no cycle.                            *)
(***************************************************************************)
ImportsLeaveNoCycle ==
  Merged =>
    \A s \in SUBSET Ids(spec.nodes) \ {{}} :
      \E n \in s : \A k \in Places(spec.edges) : spec.edges[k].from = n => spec.edges[k].to \notin s
=============================================================================
