---------------------------- MODULE MCEvaluation ----------------------------
(***************************************************************************)
(* Small configurations for Evaluation: chains of locals, resources and     *)
(* module calls in the worst order; calls and resources that are counted,   *)
(* off or not known; attributes that name resources in every way an         *)
(* expression can; documents; conditionals of two types; and variables set  *)
(* in every file.                                                           *)
(***************************************************************************)
EXTENDS Evaluation

MCNames == <<"a", "b", "c", "d", "e", "f", "h", "k", "m", "n", "net", "on", "out", "p1", "p2", "sub", "v", "w", "x", "y", "z">>
One == Lit(Num(1))
Var(n) == Ref("var", <<At(n)>>)
Loc(n) == Ref("local", <<At(n)>>)
Variable(n, default) == Block("variable", <<n>>, IF default = None THEN EmptyBody ELSE "default" :> default)
Locals(args) == Block("locals", <<>>, args)
Res(type, name, args) == Block("resource", <<type, name>>, args)
Mod(name, dir, args) == Block("module", <<name>>, "source" :> Lit(Str(dir)) @@ args)
OutOf(n) == Ref("module", <<At(n), At("out")>>)
Output(n, e) == Block("output", <<n>>, "value" :> e)

NoFiles == [k \in ToSet(AutoKinds) |-> EmptyBody]
Pass == "x" :> <<Variable("x", Lit(Num(5))), Output("out", Var("x"))>>
In(files, dirs) ==
  [dirs |-> "root" :> files @@ dirs, manifest |-> EmptyBody, root |-> "root",
   auto |-> NoFiles, varFiles |-> <<>>, cli |-> EmptyBody]
Main(blocks) == "a" :> blocks

-----------------------------------------------------------------------------
\* Chains: every item reads the next one, which is written after it.
Item(kind, n) ==
  CASE kind = "local" -> Loc(n)
    [] kind = "resource" -> Ref("q", <<At(n), At("a")>>)
    [] kind = "call" -> Ref("module", <<At(n), At("out")>>)
Write(kind, n, e) ==
  CASE kind = "local" -> Locals(n :> e)
    [] kind = "resource" -> Res("q", n, "a" :> e)
    [] kind = "call" -> Mod(n, "pass", "x" :> e)
Links == <<"a", "b", "c", "d", "e", "f">>
ChainOf(kinds, last) ==
  [i \in DOMAIN kinds |->
     Write(kinds[i], Links[i], IF i = Len(kinds) THEN last ELSE Item(kinds[i + 1], Links[i + 1]))]
Chain(kinds, last) == In(Main(ChainOf(kinds, last) \o <<Output("out", Item(kinds[1], "a"))>>), "pass" :> Pass)
Kinds == {"local", "resource", "call"}
Chains ==
  {Chain(kinds, One) : kinds \in [1 .. 6 -> Kinds \ {"local"}] \cup [1 .. 4 -> Kinds]}
  \cup {Chain(kinds, Call("file", <<One>>)) : kinds \in [1 .. 2 -> Kinds]}

-----------------------------------------------------------------------------
\* A module that calls a module, each counted in some way, or off.
Empty == Lit(Strings({}))
Counts(n) == {EmptyBody, "count" :> Lit(Num(0)), "count" :> n, "for_each" :> Lit(Strings({"a", "b"})), "for_each" :> Empty,
              "count" :> Cond(Call("gt", <<n, One>>), n, Lit(Num(0)))}
Sizes == {"a" :> s @@ "b" :> t : s \in {1, 2}, t \in {1, 2}}
Plans(f) == Lit(Obj([n \in DOMAIN f |-> Obj("x" :> Num(f[n]))]))
Sub == "x" :> <<Res("q", "z", EmptyBody), Block("data", <<"q", "z">>, EmptyBody)>>
Net(sub, res) ==
  "n" :> <<Variable("k", One), Mod("sub", "sub", sub), Res("q", "z", res), Output("out", Ref("q", <<At("z"), At("x")>>)), Output("n", Var("k"))>>
Counted ==
  {In("a" :> <<Variable("n", n), Mod("net", "net", call @@ ("k" :> k))>> @@ "b" :> <<Res("q", "y", own)>>,
      "net" :> Net(sub, res) @@ "sub" :> Sub) :
     n \in {None, Lit(Num(0)), Lit(Num(2))}, k \in {Var("n"), Lit(Num(2))},
     call \in Counts(Var("n")) \ {"for_each" :> Empty}, sub \in {EmptyBody, "count" :> Var("k"), "for_each" :> Lit(Strings({"a", "b"}))},
     own \in {EmptyBody, "count" :> Ref("module", <<At("net"), At("n")>>), "for_each" :> Cond(Call("gt", <<Var("n"), One>>), Lit(Strings({"a"})), Empty)},
     res \in {"x" :> One, "count" :> Var("k") @@ "x" :> Ref("count", <<At("index")>>)}
               \cup {"for_each" :> Plans(f) @@ "x" :> Ref("each", <<At("value"), At("x")>>) : f \in {"a" :> 1 @@ "b" :> 1, "a" :> 1 @@ "b" :> 2}}}

-----------------------------------------------------------------------------
\* A module's resource takes what it is configured with from what is passed.
P(n) == Ref("q", <<At(n), At("a")>>)
Row(e) == ObjE("x" :> e @@ "y" :> P("p2"))
Maps == {ObjE("a" :> Row(P("p1")) @@ "b" :> Row(Loc("m"))), Loc("m"),
         Call("merge", <<ObjE("a" :> Row(P("p1"))), ObjE("b" :> Row(P("p2")))>>),
         Cond(Var("on"), ObjE("a" :> Row(P("p1"))), ObjE("b" :> Row(P("p2")))),
         ForE(ObjE("a" :> Row(P("p1")) @@ "b" :> Row(One)), Ref("k", <<>>), Ref("v", <<>>)),
         ForE(ObjE("a" :> Row(P("p1"))), Lit(Bool(TRUE)), Ref("v", <<>>)),
         ForE(ObjE("a" :> Row(P("p1"))), Lit(Bool(TRUE)), ObjE("x" :> Ref("v", <<At("y")>>)))}
Uses ==
  {"w" :> Ref("var", <<At("v"), At("a"), At("x")>>), "w" :> Var("v"), "w" :> Ref("local", <<At("h"), At("x")>>),
   "w" :> TupE(<<Call("try", <<Ref("var", <<At("v"), At("b"), At("x")>>), One>>), Ref("var", <<At("v"), At("n")>>)>>)}
  \cup {"for_each" :> coll @@ "w" :> Ref("each", <<At("value"), At("x")>>) : coll \in {Var("v"), Loc("k")}}
Producers == <<Res("q", "p1", "a" :> One), Res("q", "p2", "a" :> P("p1")), Block("data", <<"q", "p1">>, EmptyBody)>>
Rows == <<[Block("row", <<>>, "x" :> P("p2")) EXCEPT !.blocks = <<Block("row", <<>>, "y" :> Ref("var", <<At("v"), At("a"), At("x")>>))>>],
          [Block("dynamic", <<"row">>, "for_each" :> Var("v")) EXCEPT !.blocks = <<Block("content", <<>>, "x" :> Ref("row", <<At("value"), At("x")>>))>>],
          Block("lifecycle", <<>>, "x" :> P("p1"))>>
Consumer(use) == <<Locals("h" :> Ref("var", <<At("v"), At("a")>>) @@ "k" :> Var("v")), [Res("w", "c", use) EXCEPT !.blocks = Rows]>>
Referring ==
  {In(Main(Producers \o <<Locals("m" :> ObjE("a" :> Row(P("p2"))) @@ "f" :> a), Variable("on", on),
                          Mod("net", "net", "v" :> arg), Mod("d", "pass", "x" :> a),
                          Res("w", "e", "w" :> Ref("module", <<At("net"), At("out"), At("a"), At("x")>>))>>),
      "pass" :> Pass @@ "net" :> Main(<<Variable("v", None), Output("out", Var("v"))>> \o Consumer(use))) :
     a \in Maps, arg \in {Ref("module", <<At("d"), At("out")>>), Loc("f"), ObjE("a" :> Row(Ref("data", <<At("q"), At("p1"), At("a")>>)))},
     on \in {Lit(Bool(TRUE)), None}, use \in Uses}
  \cup {In(Main(Producers \o <<Locals("m" :> ObjE("a" :> Row(P("p2")))), Variable("on", on), Variable("v", Lit(Obj("a" :> Obj(EmptyBody)))),
                               Res("w", "e", args @@ "w" :> use)>>), EmptyBody) :
          on \in {Lit(Bool(TRUE)), None}, args \in {"for_each" :> a : a \in Maps},
          use \in {Ref("each", <<At("value"), At("x")>>), Ref("each", <<At("key")>>), P("p2")}}
  \cup {In(Main(Producers \o <<Locals("m" :> ObjE("a" :> Row(P("p2")))), Variable("on", None), Variable("v", None),
                               Res("w", "e", "w" :> a)>> \o Consumer("w" :> a)), EmptyBody) : a \in Maps}

-----------------------------------------------------------------------------
\* Documents, written out, behind a local or a module, known or not.
Text1 == Lit(Str("x"))
Parts == {ObjE("a" :> One @@ "b" :> TupE(<<One, P("p1")>>)), Call("merge", <<ObjE("a" :> One), ObjE("b" :> Call("file", <<One>>))>>),
          Cond(Var("on"), ObjE("a" :> One), TupE(<<One, One>>)), Loc("m"), TupE(<<Cond(Var("on"), One, P("p1")), Loc("m")>>),
          Cond(Var("on"), One, Text1), ObjE("a" :> Cond(Var("on"), One, Text1) @@ "b" :> Cond(Var("on"), ObjE("a" :> One), ObjE("b" :> Text1)))}
Documented ==
  {In(Main(Producers \o <<Locals("m" :> m @@ "f" :> Call("jsonencode", <<part>>)), Variable("on", on), Mod("d", "pass", "x" :> Loc("f")),
                          Res("w", "e", "w" :> [own |-> Call("jsonencode", <<part>>), loc |-> Loc("f"),
                                                mod |-> OutOf("d")][w])>>), "pass" :> Pass) :
     part \in Parts, on \in {Lit(Bool(TRUE)), Lit(Bool(FALSE)), None}, m \in {One, ObjE("c" :> Call("file", <<One>>))},
     w \in {"own", "loc", "mod"}}

\* A conditional that is one type while a call is not evaluated yet, and then
\* another: a number its text, an object a map.
Of(n, f) == Mod(n, "pass", "x" :> f)
Branches ==
  {<<One, Text1>>, <<Lit(Bool(TRUE)), Text1>>, <<Lit(Null), One>>, <<TupE(<<One>>), TupE(<<Text1, One>>)>>, <<TupE(<<One, One>>), TupE(<<Text1, One>>)>>,
   <<ObjE("a" :> One), ObjE("b" :> Text1)>>, <<ObjE("a" :> One @@ "b" :> Text1), ObjE("a" :> Text1 @@ "b" :> One)>>}
Converting ==
  {In(Main(<<Locals("n" :> Cond(Var("on"), b[1], OutOf("d"))), Variable("on", on), Of("c", Loc("n")), Of("d", b[2]),
             Res("q", "z", "for_each" :> Loc("n") @@ "w" :> Ref("each", <<At("value")>>)), Res("w", "e", "w" :> TupE(<<Loc("n"), OutOf("c")>>))>>),
      "pass" :> Pass) : b \in Branches, on \in {Lit(Bool(TRUE)), Lit(Bool(FALSE)), None}}
\* A count made so: 0, and later the text of it.
Count0 == "count" :> Cond(Var("on"), Lit(Num(0)), OutOf("d"))
ConvertedCounts ==
  {In(Main(<<Variable("on", Lit(Bool(TRUE))), Mod("net", "sub", Count0), Of("d", Lit(v))>>), "pass" :> Pass @@ "sub" :> Sub) :
     v \in {Num(2), Str("2")}}

\* The variable a count depends on, set in some of the places it can be.
File(n) == "n" :> Lit(Num(n))
Varied ==
  {[In("a" :> <<Variable("n", One), Locals("k" :> Var("n")), Mod("net", "away", "count" :> Loc("k") @@ "x" :> Var("n")),
                Res("q", "z", "count" :> Var("n"))>>,
       "sub" :> Sub)
    EXCEPT !.auto = ("terraform.tfvars" :> ts @@ "*.auto.tfvars" :> as) @@ NoFiles, !.varFiles = vs, !.cli = cli,
           !.manifest = (<<"net">> :> "sub")] :
     ts \in {EmptyBody, "a" :> File(0)}, as \in {EmptyBody, "a" :> File(2) @@ "b" :> File(0), "a" :> ("n" :> Var("n"))},
     vs \in {<<>>, <<File(2), File(0)>>}, cli \in {EmptyBody, "n" :> [expr |-> Lit(Num(3)), text |-> "3"], "n" :> [expr |-> Var("x"), text |-> "x"]}}

MCInputs ==
  Chains \cup Counted \cup Referring \cup Documented \cup Converting \cup ConvertedCounts \cup Varied

-----------------------------------------------------------------------------
\* A root module evaluated whole: with its blocks as given, or its variables.
WholeOf(mod, vs) == Rounds(<<[Instance(mod, <<>>, EmptyBody, EmptyBody, 1) EXCEPT !.vars = vs]>>, 0)
WithValues(mod) == WholeOf(mod, RootValues(mod))
Whole(blocks) == WithValues(ParseModule(input.root, "a" :> blocks))
Valued(vs) == WholeOf(root.mod, vs)
RootBlocks == FoldLeft(LAMBDA bs, f : bs \o input.dirs[input.root][f], <<>>, Sorted(DOMAIN input.dirs[input.root]))

\* The calls that one round found off and a later one evaluated.
Turned(in) == in.removed \cap DOMAIN in.children

\* "They can depend on each other in any order": what a configuration is
\* worth does not depend on the order its blocks are written in, unless a call
\* turns in one of the two (KnownStays says which can).
RECURSIVE SameValues(_, _)
SameValues(a, b) ==
  /\ \A f \in {"vars", "locals", "resources", "removed", "outputs"} : a[f] = b[f]
  /\ DOMAIN a.children = DOMAIN b.children
  /\ \A n \in DOMAIN a.children : SameValues(a.children[n], b.children[n])
AnyOrder ==
  phase = "done" =>
    \E other \in {Whole(Reverse(RootBlocks))} : SameValues(root, other) \/ Turned(root) \cup Turned(other) # {}

\* A round only makes more known: a value that is known stays what it is, or
\* becomes the same in the type of a conditional whose other branch is known
\* by then; and a call that is off stays off and has no instance, unless its
\* count is such a conditional: 0 when the call was found off, and text by now.
RECURSIVE Refines(_, _)
Refines(v, w) ==
  \/ v = Unknown \/ TextOf(v) = TextOf(w)
  \/ v.k = "obj" /\ w.k = "obj" /\ DOMAIN v.obj = DOMAIN w.obj /\ \A n \in DOMAIN v.obj : Refines(v.obj[n], w.obj[n])
  \/ v.k = "list" /\ w.k = "list" /\ Len(v.list) = Len(w.list) /\ \A i \in DOMAIN v.list : Refines(v.list[i], w.list[i])
CountIsText(call, in) == call.count # None /\ Eval(call.count, <<in>>, EmptyBody).k = "str"
KnownStays ==
  [][/\ \A n \in DOMAIN root.locals : Refines(root.locals[n], root'.locals[n])
     /\ \A t \in DOMAIN root.resources : \A n \in DOMAIN root.resources[t] :
          Refines(root.resources[t][n], root'.resources[t][n])
     /\ \A n \in DOMAIN root.children \cap DOMAIN root'.children : \A o \in DOMAIN root.children[n].outputs :
          Refines(root.children[n].outputs[o], root'.children[n].outputs[o])
     /\ root.removed \subseteq root'.removed
     /\ \A call \in ToSet(root'.mod.calls) : call.name \in Turned(root') => CountIsText(call, root')]_vars

Addresses(rs) == [i \in DOMAIN rs |-> rs[i].address]
RECURSIVE Declared(_)
Declared(stack) ==
  {AddressOf(rb, stack) : rb \in ToSet(Last(stack).mod.resources)}
  \cup UNION {Declared(Append(stack, Last(stack).children[n])) : n \in DOMAIN Last(stack).children}
\* The calls that are off: their keys and the directories of their modules.
RECURSIVE OffCalls(_)
OffCalls(stack) ==
  {<<CallKey(stack, c), CallDir(stack, c)>> : c \in {d \in ToSet(Last(stack).mod.calls) : d.name \in Last(stack).removed}}
  \cup UNION {OffCalls(Append(stack, Last(stack).children[n])) : n \in DOMAIN Last(stack).children}
\* The resources of a module, and of the modules it calls.
WrittenIn(path, dir) ==
  {[path |-> path, mode |-> rb.mode, type |-> rb.type, name |-> rb.name] : rb \in ToSet(Load(dir).resources)}
RECURSIVE Beneath(_, _)
Beneath(path, dir) ==
  WrittenIn(path, dir)
  \cup UNION {Beneath(key, Resolve(input, c, key)) : <<c, key>> \in {<<c, Append(path, c.name)>> : c \in ToSet(Load(dir).calls)}}
OwnOff == UNION {WrittenIn(off[1], off[2]) : off \in OffCalls(<<root>>)}
AllOff == UNION {Beneath(off[1], off[2]) : off \in OffCalls(<<root>>)}

RECURSIVE Factors(_, _)
Factors(stack, path) ==
  IF path = <<>> THEN <<>>
  ELSE LET call == CHOOSE c \in ToSet(Last(stack).mod.calls) : c.name = Head(path)
       IN  <<Instances(call, stack)>> \o Factors(Append(stack, Last(stack).children[Head(path)]), Tail(path))
Product(s) == IF \E i \in DOMAIN s : s[i] = UnknownInstances THEN UnknownInstances ELSE FoldLeft(LAMBDA x, y : x * y, 1, s)
RECURSIVE StackTo(_, _)
StackTo(stack, path) == IF path = <<>> THEN stack ELSE StackTo(Append(stack, Last(stack).children[Head(path)]), Tail(path))
\* Every block of every instance is listed once, as a resource or as removed
\* (as both, of a call that turned), and so are the resources of a call that is
\* off; those of a module it would call may be listed or not ("every resource
\* of a module call that is off", eval.go:65; the code leaves them out).  A
\* resource is made as often as the counts on the way to it multiply to, and
\* its variants part exactly those instances.
CopiesMultiply ==
  phase = "done" =>
    /\ LET made == Addresses(out.resources)
           off == Addresses(out.removed)
           listed == ToSet(made) \cup ToSet(off)
       IN  /\ IsInjective(made) /\ IsInjective(off)
           /\ \A a \in ToSet(made) \cap ToSet(off) : a.path # <<>> /\ Head(a.path) \in Turned(root)
           /\ Declared(<<root>>) \cup OwnOff \subseteq listed
           /\ listed \subseteq Declared(<<root>>) \cup AllOff
    /\ \A r \in ToSet(out.resources) :
         LET stack == StackTo(<<root>>, r.address.path)
             rb == CHOOSE b \in ToSet(Last(stack).mod.resources) : AddressOf(b, stack) = r.address
         IN  /\ r.instances = Product(Append(Factors(<<root>>, r.address.path), Instances(rb, stack)))
             /\ r.variants # <<>> => FoldLeft(LAMBDA n, v : n + v.instances, 0, r.variants) = r.instances

Producer == {"p1", "p2"}
Changed(name) ==
  [i \in DOMAIN RootBlocks |->
     LET b == RootBlocks[i] IN
     IF b.type = "resource" /\ b.labels = <<"q", name>> THEN [b EXCEPT !.args["a"] = Lit(Num(7))] ELSE b]
Reaching(rs, x) ==
  LET Back(S, i) == S \cup {r.address : r \in {q \in rs : \E path \in DOMAIN q.refs : q.refs[path] \cap S # {}}}
  IN  FoldLeft(Back, {x}, <<1, 2, 3>>)
\* A resource whose configuration changes with what another resource sets
\* refers to that resource, itself or through the resources it refers to.  And
\* what is off is off because of variables its listing names: with every other
\* variable set differently, it is still off.
Explained(rs, then, x) ==
  \A r \in rs, q \in then :
    r.address = q.address /\ [r EXCEPT !.refs = q.refs] # q => r.address \in Reaching(rs, x)
RefsExplain ==
  phase = "done" =>
    /\ \A name \in Producer :
         Explained(ToSet(out.resources), ToSet(Collect(<<Whole(Changed(name))>>, [out EXCEPT !.resources = <<>>]).resources),
                   Address(<<root>>, "managed", "q", name))
    /\ \A r \in ToSet(out.removed) : r.address.path = <<>> =>
         r.address \in ToSet(Addresses(Collect(<<Valued([n \in DOMAIN root.vars |-> IF n \in r.off THEN root.vars[n] ELSE Num(2)])>>,
                                               [out EXCEPT !.removed = <<>>]).removed))

RECURSIVE AsText(_)
AsText(v) ==
  CASE v.k = "obj" -> Obj([n \in DOMAIN v.obj |-> AsText(v.obj[n])])
    [] v.k = "list" -> List([i \in DOMAIN v.list |-> AsText(v.list[i])])
    [] OTHER -> TextOf(v)
\* A document is read as it is written: when all of it is known, its
\* structure is its value, but for a number that a conditional turns into
\* text, which the structure leaves a number; and a name for it reads the same.
DocumentAgrees ==
  phase = "done" => \A rb \in ToSet(root.mod.resources) : "w" \in DOMAIN rb.body.args =>
    LET e == rb.body.args["w"]
        written == IF e = Loc("f") \/ e = OutOf("d") THEN root.mod.locals["f"] ELSE e
    IN  \E doc \in {Document(e, <<root>>, EmptyBody, 0)} :
          /\ \A v \in {Eval(e, <<root>>, EmptyBody)} : v.k = "json" => doc # Nothing /\ AsText(doc) = AsText(ToGo(v.json))
          /\ doc = Document(written, <<root>>, EmptyBody, 0)

=============================================================================
