----------------------------- MODULE Evaluation -----------------------------
(***************************************************************************)
(* terraform/eval: a root module and the modules it calls are evaluated in  *)
(* rounds of locals, resource arguments and module calls, until nothing     *)
(* changes or MaxPasses rounds are over; then their resources are           *)
(* collected.  The root's rounds are the steps of the machine; a called     *)
(* module is evaluated whole inside the step that evaluates its call.       *)
(***************************************************************************)
EXTENDS References

CONSTANTS
  Inputs,     \* what can be read: [dirs, manifest, root, varFiles, cli]
  MaxPasses,  \* maxPasses in module.go
  MaxDocumentHops

VARIABLES
  input,
  phase,    \* "vars", "locals", "resources", "calls", "outputs", "collect", "done"
  root,     \* the root instance
  pass, at, \* the round, the next call in it
  changed,  \* whether the round has changed anything
  out       \* [resources, removed, providers], in the order they were found

vars == <<input, phase, root, pass, at, changed, out>>

UnknownInstances == -1
TimesKnown(a, b) == a * b
Times(a, b) == IF UnknownInstances \in {a, b} THEN UnknownInstances ELSE a * b

\* Settled: a block whose arguments are read as its value.
Settled(rb) == rb.mode = "managed" /\ rb.count = None /\ rb.forEach = None
ByType(rs) == [t \in {r.type : r \in rs} |-> {r.name : r \in {q \in rs : q.type = t}}]

Instance(mod, path, args, vs, copies) ==
  [mod |-> mod, path |-> path, args |-> args, vars |-> vs, copies |-> copies,
   locals |-> [n \in DOMAIN mod.locals |-> Unknown],
   resources |-> LET names == ByType({r \in ToSet(mod.resources) : Settled(r)})
                 IN  [t \in DOMAIN names |-> [n \in names[t] |-> Unknown]],
   children |-> EmptyBody, counted |-> {}, removed |-> {}, outputs |-> EmptyBody]

-----------------------------------------------------------------------------
\* ctx, addInstanceVars, moduleObject, resourceObjects: what can be named.
ModuleObject(in) ==
  Obj([n \in {c.name : c \in ToSet(in.mod.calls)} |->
    CASE n \in in.removed -> List(<<>>)
      [] n \notin DOMAIN in.children \/ n \in in.counted -> Unknown
      [] OTHER -> Obj(in.children[n].outputs)])

ResourceObjects(in, mode) ==
  LET names == ByType({r \in ToSet(in.mod.resources) : r.mode = mode})
      Read(t, n) == IF mode = "managed" /\ t \in DOMAIN in.resources /\ n \in DOMAIN in.resources[t]
                    THEN in.resources[t][n] ELSE Unknown
  IN  [t \in DOMAIN names |-> Obj([n \in names[t] |-> Read(t, n)])]

Ctx(stack, extra) ==
  LET in == Last(stack)
      always == "count" :> Obj("index" :> Num(0)) @@ "self" :> Unknown
                @@ "each" :> Obj("key" :> Unknown @@ "value" :> Unknown)
      own == "var" :> Obj(in.vars) @@ "local" :> Obj(in.locals) @@ "module" :> ModuleObject(in)
             @@ "data" :> Obj(ResourceObjects(in, "data"))
  IN  extra @@ (IF stack = <<>> THEN always ELSE ResourceObjects(in, "managed") @@ own @@ always)

\* eval: any error but a missing attribute leaves the whole value unknown.
Lenient(r) == IF r.errs \subseteq {"Unsupported attribute"} THEN r.v ELSE Unknown
Eval(e, stack, extra) == Lenient(Value(e, Ctx(stack, extra)))

\* instances: what count or for_each makes of a block or a call.
TimesOf(v) == IF v.k = "num" THEN v.num ELSE UnknownInstances
SizeOf(v) == IF Iterable(v) THEN Len(Elements(v)) ELSE UnknownInstances
Instances(x, stack) ==
  CASE x.count # None -> TimesOf(Eval(x.count, stack, EmptyBody))
    [] x.count = None /\ x.forEach # None -> SizeOf(Eval(x.forEach, stack, EmptyBody))
    [] OTHER -> 1

-----------------------------------------------------------------------------
\* nestedBlock: the name a nested block is stored under, its body and the
\* variables in effect there; a block that carries no attributes is left out.
Nested(blk, extra) ==
  IF IsDynamic(blk)
  THEN [name |-> blk.labels[1], body |-> Head(Contents(blk)),
        extra |-> (IteratorName(blk) :> Obj("key" :> Unknown @@ "value" :> Unknown)) @@ extra]
  ELSE [name |-> blk.type, body |-> blk, extra |-> extra]
Carrying(blocks) ==
  SelectSeq(blocks, LAMBDA b : b.type \notin SkipBlocks /\ ~ (IsDynamic(b) /\ Contents(b) = <<>>))

\* bodyValue; body is its known part, and toGo keeps a list for every block.
AddBlock(f, name, v) == (name :> Append(IF name \in DOMAIN f THEN f[name] ELSE <<>>, v)) @@ f
BlocksAndArgs(lists, own) == Obj([n \in DOMAIN lists |-> List(lists[n])] @@ own)
RECURSIVE BodyValue(_, _, _)
BodyValue(b, stack, extra) ==
  LET Add(f, x) == AddBlock(f, x.name, BodyValue(x.body, stack, x.extra))
  IN  BlocksAndArgs(FoldLeft(LAMBDA f, blk : Add(f, Nested(blk, extra)), EmptyBody, Carrying(b.blocks)),
                    [n \in DOMAIN b.args \ MetaArgs |-> Eval(b.args[n], stack, extra)])
Body(b, stack, extra) == ToGo(BodyValue(b, stack, extra))

\* settleLocals: the locals again until they stop changing, at most once more
\* than there are locals.
SettleLocals(stack) ==
  LET Again(ls, i) == LET s == Append(Front(stack), [Last(stack) EXCEPT !.locals = ls])
                      IN  [n \in DOMAIN ls |-> Eval(Last(stack).mod.locals[n], s, EmptyBody)]
  IN  FoldLeft(Again, Last(stack).locals, [i \in 1 .. Cardinality(DOMAIN Last(stack).locals) + 1 |-> i])

\* settleResources: each settled resource once, in the order of the files.
SettleResources(stack) ==
  LET One(rs, rb) ==
        IF ~ Settled(rb) THEN rs
        ELSE LET v == BodyValue(rb.body, Append(Front(stack), [Last(stack) EXCEPT !.resources = rs]), EmptyBody)
             IN  (rb.type :> ((rb.name :> v) @@ rs[rb.type])) @@ rs
  IN  FoldLeft(One, Last(stack).resources, Last(stack).mod.resources)

CallMeta == {"source", "version", "count", "for_each", "providers", "depends_on"}
CallArgs(call) == [n \in DOMAIN call.body.args \ CallMeta |-> call.body.args[n]]

ChildVarsEager(mod, args, stack) ==
  [n \in DOMAIN mod.variables |->
     IF n \in DOMAIN args /\ Eval(args[n], stack, EmptyBody) # Unknown THEN Eval(args[n], stack, EmptyBody)
     ELSE IF mod.variables[n] # None THEN Eval(mod.variables[n], <<>>, EmptyBody) ELSE Unknown]
\* childVars: the value passed in, else the default, else unknown.
ChildVars(mod, args, stack) ==
  [n \in DOMAIN mod.variables |->
     CASE n \in DOMAIN args -> Eval(args[n], stack, EmptyBody)
       [] n \notin DOMAIN args /\ mod.variables[n] # None -> Eval(mod.variables[n], <<>>, EmptyBody)
       [] OTHER -> Unknown]

CallKey(stack, call) == Append(Last(stack).path, call.name)
Load(dir) == ParseModule(dir, input.dirs[dir])

\* What a module's outputs are worth.
Outputs(stack) == [o \in DOMAIN Last(stack).mod.outputs |-> Eval(Last(stack).mod.outputs[o], stack, EmptyBody)]

\* The call's instance, not evaluated yet, and evalCall with the instance it
\* comes to: the caller with the call evaluated, and whether its outputs changed.
Child(stack, call, mod, n) ==
  Instance(mod, CallKey(stack, call), CallArgs(call), ChildVars(mod, CallArgs(call), stack), Times(Last(stack).copies, n))
Others(in, call) == [m \in DOMAIN in.children \ {call.name} |-> in.children[m]]
WithChild(in, call, child) ==
  [in |-> [in EXCEPT !.children = (call.name :> child) @@ Others(in, call)],
   changed |-> call.name \notin DOMAIN in.children \/ in.children[call.name].outputs # child.outputs]
Counting(in, call) ==
  IF call.count # None \/ call.forEach # None THEN [in EXCEPT !.counted = @ \cup {call.name}] ELSE in

\* evalInstance of a called module: its rounds, of locals, resources and calls.
Under(stack, in) == Append(Front(stack), in)
WithLocals(stack) == Under(stack, [Last(stack) EXCEPT !.locals = SettleLocals(stack)])
WithResources(stack) == Under(stack, [Last(stack) EXCEPT !.resources = SettleResources(stack)])
WithOutputs(stack) == [Last(stack) EXCEPT !.outputs = Outputs(stack)]

RECURSIVE Rounds(_, _), EvalCall(_, _)
Called(stack, call, n, dir) ==
  LET in == Last(stack) IN
  CASE n = 0 -> [in |-> [in EXCEPT !.removed = @ \cup {call.name}, !.children = Others(in, call)],
                 changed |-> call.name \notin in.removed]
    [] n # 0 /\ dir = NotFound -> [in |-> Counting(in, call), changed |-> FALSE]
    [] OTHER -> WithChild(Counting(in, call), call, Rounds(Append(stack, Child(stack, call, Load(dir), n)), 0))
EvalCall(stack, call) ==
  Called(stack, call, Instances(call, stack), Resolve(input, call, CallKey(stack, call)))

EvalCalls(stack, was) ==
  LET Then(r, x) == [in |-> x.in, changed |-> r.changed \/ x.changed]
  IN  FoldLeft(LAMBDA r, call : Then(r, EvalCall(Under(stack, r.in), call)),
               [in |-> Last(stack), changed |-> Last(stack) # was], Last(stack).mod.calls)
AfterRound(stack, n, r) ==
  IF n > 0 /\ ~ r.changed THEN WithOutputs(Under(stack, r.in)) ELSE Rounds(Under(stack, r.in), n + 1)
Rounds(stack, n) ==
  IF n = MaxPasses THEN WithOutputs(stack)
  ELSE AfterRound(stack, n, EvalCalls(WithResources(WithLocals(stack)), Last(stack)))

-----------------------------------------------------------------------------
\* autoVarFiles and the files passed, in the order they are applied.
AutoKinds == <<"terraform.tfvars", "terraform.tfvars.json", "*.auto.tfvars", "*.auto.tfvars.json">>
VarFiles ==
  LET InOrder(fs) == [i \in DOMAIN Sorted(DOMAIN fs) |-> fs[Sorted(DOMAIN fs)[i]]]
  IN  FlattenSeq([i \in 1 .. 4 |-> InOrder(input.auto[AutoKinds[i]])]) \o input.varFiles

Readable(r) == [n \in {m \in DOMAIN r : r[m].errs = {}} |-> r[n].v]
\* applyVarFile: what needs evaluation is left as it was.
ApplyVarFile(vs, file) ==
  Readable([n \in DOMAIN file |-> Value(file[n], EmptyBody)]) @@ vs
\* cliValue: an expression, or a plain string when it is not one.
Else(r, v) == IF r.errs = {} THEN r.v ELSE v
CliValue(raw) == Else(Value(raw.expr, EmptyBody), Str(raw.text))

DefaultVars(mod) ==
  [n \in DOMAIN mod.variables |->
     IF mod.variables[n] = None THEN Unknown ELSE Else(Value(mod.variables[n], EmptyBody), Unknown)]
RootValues(mod) ==
  [n \in DOMAIN input.cli |-> CliValue(input.cli[n])] @@ FoldLeft(ApplyVarFile, DefaultVars(mod), VarFiles)

-----------------------------------------------------------------------------
\* allInstances: the key of each instance and the variables it sees.
EachOf(x) == "each" :> Obj("key" :> x.key @@ "value" :> x.value)
FirstOf(xs) == IF xs = <<>> THEN EmptyBody ELSE EachOf(Head(xs))
KnownElements(v) == IF WhollyKnown(v) /\ Iterable(v) THEN Elements(v) ELSE <<>>
OfElements(xs) ==
  IF \A x \in ToSet(xs) : x.key.k = "str" THEN [i \in DOMAIN xs |-> [key |-> xs[i].key, extra |-> EachOf(xs[i])]]
  ELSE <<>>
OfCount(n) == [i \in 1 .. n |-> [key |-> Num(i - 1), extra |-> "count" :> Obj("index" :> Num(i - 1))]]
AllInstances(rb, stack) ==
  CASE rb.forEach # None -> OfElements(KnownElements(Eval(rb.forEach, stack, EmptyBody)))
    [] rb.forEach = None /\ rb.count # None -> OfCount(TimesOf(Eval(rb.count, stack, EmptyBody)))
    [] OTHER -> <<>>

\* variants: the instances grouped by configuration; none when all are alike.
AddVariant(groups, key, attrs, copies) ==
  LET i == SelectInSeq(groups, LAMBDA g : g.attrs = attrs)
  IN  IF i # 0 THEN [groups EXCEPT ![i].instances = @ + copies]
      ELSE Append(groups, [key |-> key, attrs |-> attrs, instances |-> copies])
IfTheyDiffer(groups) == IF Len(groups) < 2 THEN <<>> ELSE groups
Variants(rb, stack) ==
  IfTheyDiffer(FoldLeft(LAMBDA groups, x : AddVariant(groups, x.key, Body(rb.body, stack, x.extra), Last(stack).copies),
                        <<>>, AllInstances(rb, stack)))

\* firstEach: the each object of the first element.
FirstEach(rb, stack) ==
  IF rb.forEach = None THEN EmptyBody ELSE FirstOf(KnownElements(Eval(rb.forEach, stack, EmptyBody)))

AddressOf(rb, stack) == Address(stack, rb.mode, rb.type, rb.name)

\* collectResource, of n instances; removedResource where there are none.
CollectAs(stack, rb, o, n) ==
  IF n = 0
  THEN [o EXCEPT !.removed = Append(@, [address |-> AddressOf(rb, stack), off |-> OffBy(rb, stack)])]
  ELSE [o EXCEPT !.resources = Append(@,
         [address |-> AddressOf(rb, stack),
          attrs |-> Body(rb.body, stack, FirstEach(rb, stack)),
          refs |-> BodyRefs(rb.body, stack, <<>>, EmptyBody, rb.forEach),
          instances |-> Times(Last(stack).copies, n),
          variants |-> IF Last(stack).copies = UnknownInstances THEN <<>> ELSE Variants(rb, stack)])]
CollectResource(stack, rb, o) == CollectAs(stack, rb, o, Instances(rb, stack))

\* collectRemoved: what a module call that is off leaves out.
RemovedIn(key, rs, off) ==
  [i \in DOMAIN rs |-> [address |-> [path |-> key, mode |-> rs[i].mode, type |-> rs[i].type, name |-> rs[i].name], off |-> off]]
CallDir(stack, call) == Resolve(input, call, CallKey(stack, call))
CollectRemoved(stack, call, o) ==
  IF CallDir(stack, call) = NotFound THEN o
  ELSE [o EXCEPT !.removed = @ \o RemovedIn(CallKey(stack, call), Load(CallDir(stack, call)).resources, OffBy(call, stack))]

CollectOwn(stack, o) == FoldLeft(LAMBDA p, rb : CollectResource(stack, rb, p), o, Last(stack).mod.resources)
CollectOff(stack, o) ==
  FoldLeft(LAMBDA p, call : CollectRemoved(stack, call, p), o,
           SelectSeq(Last(stack).mod.calls, LAMBDA call : call.name \in Last(stack).removed))
RECURSIVE Collect(_, _)
Collect(stack, o) ==
  CollectOff(stack, FoldLeft(LAMBDA p, n : Collect(Append(stack, Last(stack).children[n]), p), CollectOwn(stack, o),
                             Sorted(DOMAIN Last(stack).children)))

\* providers: the unaliased provider blocks of the root module.
Providers(stack) ==
  FoldLeft(LAMBDA f, p : (p.labels[1] :> Body(p, stack, EmptyBody)) @@ f, EmptyBody,
           SelectSeq(Last(stack).mod.providers, LAMBDA p : Len(p.labels) = 1 /\ "alias" \notin DOMAIN p.args))

-----------------------------------------------------------------------------
\* document.go: an attribute that holds a JSON document is read for its
\* structure, which is written before apply even when values in it are not.
\* Templates and files are left out: text is one value.
\* size: entries of a map or list, one for a scalar.
Size(v) == CASE v = Nothing -> 0 [] v.k = "obj" -> Cardinality(DOMAIN v.obj) [] v.k = "list" -> Len(v.list) [] OTHER -> 1

\* structure: item by item, the branch a condition selects, or the larger one
\* when the condition is not known before apply.
Larger(a, b) == IF Size(a) >= Size(b) THEN a ELSE b
ItemsOf(v) == IF v.k = "obj" THEN v.obj ELSE EmptyBody
RECURSIVE Structure(_, _, _)
Structure(e, stack, extra) ==
  LET S(x) == Structure(x, stack, extra)
      Branch(c) == CASE c = Bool(TRUE) -> S(e.then)
                     [] c = Bool(FALSE) -> S(e.else)
                     [] OTHER -> Larger(S(e.then), S(e.else))
  IN
  CASE e.e = "obj" -> SomeOf([n \in DOMAIN e.items |-> S(e.items[n])])
    [] e.e = "tuple" -> SomeIn([i \in DOMAIN e.elems |-> S(e.elems[i])])
    [] e.e = "call" /\ e.fn = "merge" -> Obj(FoldLeft(LAMBDA f, x : ItemsOf(S(x)) @@ f, EmptyBody, e.args))
    [] e.e = "cond" -> Branch(Eval(e.if, stack, extra))
    [] OTHER -> ToGo(Eval(e, stack, extra))

\* document, documentCall: Nothing when no document can be read.
RECURSIVE Document(_, _, _, _)
Document(e, stack, extra, depth) ==
  LET Of(d) == Document(d[1], d[2], EmptyBody, depth + 1)
      Read(v) == IF v.k = "json" THEN ToGo(v.json) ELSE Nothing
      direct == e.e = "ref" /\ \E d \in {Definition(e, stack)} : d # <<>> /\ d[3] = <<>>
  IN
  CASE depth > MaxDocumentHops -> Nothing
    [] direct -> Of(Definition(e, stack))
    [] e.e = "call" /\ e.fn = "jsonencode" -> Structure(e.args[1], stack, extra)
    [] OTHER -> Read(Eval(e, stack, extra))

-----------------------------------------------------------------------------
Init ==
  /\ input \in Inputs
  /\ root = Instance(ParseModule(input.root, input.dirs[input.root]), <<>>, EmptyBody, EmptyBody, 1)
  /\ phase = "vars" /\ pass = 0 /\ at = 1 /\ changed = FALSE
  /\ out = [resources |-> <<>>, removed |-> <<>>, providers |-> EmptyBody]

ReadVars ==
  /\ phase = "vars"
  /\ root' = [root EXCEPT !.vars = RootValues(root.mod)]
  /\ phase' = "locals"
  /\ UNCHANGED <<input, pass, at, changed, out>>

EvalLocals ==
  /\ phase = "locals"
  /\ root' = [root EXCEPT !.locals = SettleLocals(<<root>>)]
  /\ changed' = (root' # root)
  /\ phase' = "resources"
  /\ UNCHANGED <<input, pass, at, out>>

EvalResourcesQuietly ==
  /\ phase = "resources"
  /\ root' = [root EXCEPT !.resources = SettleResources(<<root>>)]
  /\ phase' = "calls" /\ at' = 1
  /\ UNCHANGED <<input, pass, changed, out>>
EvalResources ==
  /\ phase = "resources"
  /\ root' = [root EXCEPT !.resources = SettleResources(<<root>>)]
  /\ changed' = (changed \/ root' # root)
  /\ phase' = "calls" /\ at' = 1
  /\ UNCHANGED <<input, pass, out>>

EvalNextCall ==
  /\ phase = "calls" /\ at \in DOMAIN root.mod.calls
  /\ \E r \in {EvalCall(<<root>>, root.mod.calls[at])} :
       root' = r.in /\ changed' = (changed \/ r.changed)
  /\ at' = at + 1
  /\ UNCHANGED <<input, phase, pass, out>>

EndPass ==
  /\ phase = "calls" /\ at \notin DOMAIN root.mod.calls
  /\ IF pass + 1 = MaxPasses \/ (~ changed /\ pass > 0)
     THEN phase' = "outputs" /\ UNCHANGED pass
     ELSE phase' = "locals" /\ pass' = pass + 1
  /\ UNCHANGED <<input, root, at, changed, out>>

EvalOutputs ==
  /\ phase = "outputs"
  /\ root' = [root EXCEPT !.outputs = Outputs(<<root>>)]
  /\ phase' = "collect"
  /\ UNCHANGED <<input, pass, at, changed, out>>

CollectAll ==
  /\ phase = "collect"
  /\ out' = [Collect(<<root>>, out) EXCEPT !.providers = Providers(<<root>>)]
  /\ phase' = "done"
  /\ UNCHANGED <<input, root, pass, at, changed>>

Done == phase = "done" /\ UNCHANGED vars

Next ==
  \/ ReadVars \/ EvalLocals \/ EvalResources \/ EvalNextCall \/ EndPass
  \/ EvalOutputs \/ CollectAll \/ Done

Spec == Init /\ [][Next]_vars
=============================================================================
