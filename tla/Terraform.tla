------------------------------ MODULE Terraform ------------------------------
(***************************************************************************)
(* Terraform as terraform/config and terraform/eval see it: values, some of *)
(* them known only after apply; expressions, with HCL's rules for the ones  *)
(* the operators below read; and modules, read from the blocks of files.    *)
(* A path step is an attribute (index -1), an index, or every element (-2). *)
(***************************************************************************)
EXTENDS Integers, SequencesExt

CONSTANT Names   \* keys and names, in alphabetical order

Sorted(S) == SelectSeq(Names, LAMBDA n : n \in S)

-----------------------------------------------------------------------------
\* Values.
Unknown == [k |-> "unknown"]
Null == [k |-> "null"]
Num(n) == [k |-> "num", num |-> n]
Str(s) == [k |-> "str", str |-> s]
Bool(b) == [k |-> "bool", bool |-> b]
Obj(f) == [k |-> "obj", obj |-> f]
Mapping(f) == [k |-> "obj", obj |-> f, map |-> TRUE]   \* elements of one type
IsMap(v) == "map" \in DOMAIN v
List(s) == [k |-> "list", list |-> s]
Strings(S) == [k |-> "set", set |-> S]   \* a set of strings
Json(v) == [k |-> "json", json |-> v]    \* the text of a document
Nothing == [k |-> "nothing"]             \* Go's nil
EmptyBody == <<>>

RECURSIVE WhollyKnown(_)
WhollyKnown(v) ==
  CASE v.k = "obj" -> \A n \in DOMAIN v.obj : WhollyKnown(v.obj[n])
    [] v.k = "list" -> \A i \in DOMAIN v.list : WhollyKnown(v.list[i])
    [] OTHER -> v.k # "unknown"

\* What is left of an object, or of a list, without Go's nil.
SomeOf(f) == Obj([n \in {m \in DOMAIN f : f[m] # Nothing} |-> f[n]])
SomeIn(s) == List(SelectSeq(s, LAMBDA x : x # Nothing))
\* toGo: the known parts of a value; unknown and null become nil.
RECURSIVE ToGo(_)
ToGo(v) ==
  CASE v.k \in {"unknown", "null"} -> Nothing
    [] v.k = "obj" -> SomeOf([n \in DOMAIN v.obj |-> ToGo(v.obj[n])])
    [] v.k = "list" -> SomeIn([i \in DOMAIN v.list |-> ToGo(v.list[i])])
    [] v.k = "set" -> List([i \in 1 .. Cardinality(v.set) |-> Str(Sorted(v.set)[i])])
    [] OTHER -> v

Iterable(v) == v.k \in {"obj", "list", "set"}
Keyed(ks, f) == [i \in DOMAIN ks |-> [key |-> Str(ks[i]), value |-> f[ks[i]]]]
\* ElementIterator: the elements with their keys, in order.
Elements(v) ==
  CASE v.k = "obj" -> Keyed(Sorted(DOMAIN v.obj), v.obj)
    [] v.k = "list" -> [i \in DOMAIN v.list |-> [key |-> Num(i - 1), value |-> v.list[i]]]
    [] v.k = "set" -> Keyed(Sorted(v.set), [s \in v.set |-> Str(s)])

-----------------------------------------------------------------------------
\* Expressions, and their values in a context of variables.  errs says which
\* errors HCL reports; a missing attribute leaves the rest of the value.
At(n) == [attr |-> n, index |-> -1]
Ix(i) == [attr |-> "", index |-> i]
Every == Ix(-2)
None == [e |-> "none"]
Lit(v) == [e |-> "lit", lit |-> v]
Ref(root, steps) == [e |-> "ref", root |-> root, steps |-> steps]
ObjE(items) == [e |-> "obj", items |-> items]
TupE(elems) == [e |-> "tuple", elems |-> elems]
Cond(if, then, else) == [e |-> "cond", if |-> if, then |-> then, else |-> else]
Call(fn, args) == [e |-> "call", fn |-> fn, args |-> args]
ForE(coll, keep, body) == [e |-> "for", coll |-> coll, keep |-> keep, body |-> body]

Good(v) == [v |-> v, errs |-> {}]
Bad == [v |-> Unknown, errs |-> {"other"}]

RECURSIVE Traverse(_, _)
Traverse(v, steps) ==
  IF steps = <<>> \/ v.k = "unknown" THEN Good(v)
  ELSE LET s == Head(steps) IN
       CASE v.k = "null" -> Bad
         [] v.k = "obj" /\ s.index = -1 /\ s.attr \in DOMAIN v.obj -> Traverse(v.obj[s.attr], Tail(steps))
         [] v.k = "list" /\ s.index + 1 \in DOMAIN v.list -> Traverse(v.list[s.index + 1], Tail(steps))
         [] s.index = -1 /\ ~ IsMap(v) -> [v |-> Unknown, errs |-> {"Unsupported attribute"}]
         [] OTHER -> Bad

-----------------------------------------------------------------------------
\* Types.  A conditional has one type, the one both branches convert to: the
\* text of a number, a map of two objects that name different attributes.
\* Nothing is said of the type of an unknown, and a list is a tuple.
Dynamic == [t |-> "any"]
Text == [t |-> "str"]
Clash == [t |-> "none"]
ObjType(f) == [t |-> "obj", attrs |-> f]
TupleType(s) == [t |-> "tuple", elems |-> s]
MapType(ty) == [t |-> "map", elem |-> ty]
ListType(ty) == [t |-> "list", elem |-> ty]
Inside(ty) ==
  CASE ty.t = "obj" -> Range(ty.attrs) [] ty.t = "tuple" -> Range(ty.elems)
    [] ty.t \in {"map", "list"} -> {ty.elem} [] OTHER -> {}
Sound(ty) == IF Clash \in Inside(ty) THEN Clash ELSE ty

\* convert.UnifyUnsafe, of a set of types.  Where one is not known, only a
\* scalar can be told.
RECURSIVE Unify(_)
Unify(types) ==
  LET known == types \ {Dynamic}
      kinds == {ty.t : ty \in known}
      one == CHOOSE ty \in known : TRUE
      inside == UNION {Inside(ty) : ty \in known}
      unified ==
        CASE Cardinality(known) = 1 -> one
          [] kinds \subseteq {"str", "num", "bool"} -> IF Text \in known THEN Text ELSE Clash
          [] kinds = {"obj"} /\ \A ty \in known : DOMAIN ty.attrs = DOMAIN one.attrs ->
               Sound(ObjType([n \in DOMAIN one.attrs |-> Unify({ty.attrs[n] : ty \in known})]))
          [] kinds = {"tuple"} /\ \A ty \in known : Len(ty.elems) = Len(one.elems) ->
               Sound(TupleType([i \in DOMAIN one.elems |-> Unify({ty.elems[i] : ty \in known})]))
          [] kinds \subseteq {"obj", "map"} -> Sound(MapType(Unify(inside)))
          [] kinds \subseteq {"tuple", "list"} -> Sound(ListType(Unify(inside)))
          [] kinds \subseteq {"set", "tuple", "list"} /\ Unify(inside \cup {Text}) = Text -> [t |-> "set"]
          [] OTHER -> Clash
  IN  CASE known = {} -> Dynamic
        [] Dynamic \in types /\ unified.t \notin {"str", "num", "bool"} ->
             IF {"obj", "tuple"} \subseteq kinds THEN Clash ELSE Dynamic
        [] OTHER -> unified

RECURSIVE TypeOf(_)
TypeOf(v) ==
  CASE v.k \in {"unknown", "null"} -> Dynamic
    [] v.k = "json" -> Text
    [] v.k = "obj" /\ IsMap(v) -> MapType(Unify({TypeOf(v.obj[n]) : n \in DOMAIN v.obj}))
    [] v.k = "obj" -> ObjType([n \in DOMAIN v.obj |-> TypeOf(v.obj[n])])
    [] v.k = "list" -> TupleType([i \in DOMAIN v.list |-> TypeOf(v.list[i])])
    [] OTHER -> [t |-> v.k]

\* convert.Convert, to a type Unify gave.
TextOf(v) ==
  CASE v.k = "num" -> Str(ToString(v.num)) [] v.k = "bool" -> Str(IF v.bool THEN "true" ELSE "false") [] OTHER -> v
RECURSIVE Convert(_, _)
Convert(v, ty) ==
  CASE v.k \in {"unknown", "null"} \/ ty = Dynamic -> v
    [] ty = Text -> TextOf(v)
    [] ty.t = "obj" -> Obj([n \in DOMAIN v.obj |-> Convert(v.obj[n], ty.attrs[n])])
    [] ty.t = "map" -> Mapping([n \in DOMAIN v.obj |-> Convert(v.obj[n], ty.elem)])
    [] ty.t = "tuple" -> List([i \in DOMAIN v.list |-> Convert(v.list[i], ty.elems[i])])
    [] ty.t = "list" -> List([i \in DOMAIN v.list |-> Convert(v.list[i], ty.elem)])
    [] ty.t = "set" /\ v.k = "list" ->
         IF WhollyKnown(v) THEN Strings({TextOf(x).str : x \in ToSet(v.list)}) ELSE Unknown
    [] OTHER -> v

-----------------------------------------------------------------------------
\* The functions, over the values of their arguments.
Merged(a, f) == IF \A i \in DOMAIN a : IsMap(a[i]) /\ TypeOf(a[i]) = TypeOf(a[1]) THEN Mapping(f) ELSE Obj(f)
Applied(fn, a) ==
  CASE fn \in {"file", "timestamp"} -> Good(Unknown)
    [] fn # "length" /\ \E i \in DOMAIN a : a[i].k = "unknown" -> Good(Unknown)
    [] fn = "merge" /\ \A i \in DOMAIN a : a[i].k = "obj" ->
         Good(Merged(a, FoldLeft(LAMBDA f, v : v.obj @@ f, EmptyBody, a)))
    [] fn = "concat" /\ \A i \in DOMAIN a : a[i].k = "list" ->
         Good(List(FoldLeft(LAMBDA s, v : s \o v.list, <<>>, a)))
    [] fn = "jsonencode" -> Good(IF WhollyKnown(a[1]) THEN Json(a[1]) ELSE Unknown)
    [] fn = "toset" /\ a[1].k = "list" ->
         Good(IF WhollyKnown(a[1]) THEN Strings({x.str : x \in ToSet(a[1].list)}) ELSE Unknown)
    [] fn = "length" /\ (Iterable(a[1]) \/ a[1].k = "unknown") ->
         Good(IF Iterable(a[1]) THEN Num(Len(Elements(a[1]))) ELSE Unknown)
    [] fn = "gt" /\ a[1].k = "num" /\ a[2].k = "num" -> Good(Bool(a[1].num > a[2].num))
    [] OTHER -> Bad

\* Results of parts, made one result of the whole.
ErrorsOf(r) == UNION {r[x].errs : x \in DOMAIN r}
ValuesOf(r) == [x \in DOMAIN r |-> r[x].v]
Result(v, errs) == [v |-> v, errs |-> errs]

CallOf(fn, r) ==
  IF ErrorsOf(r) = {} THEN Applied(fn, ValuesOf(r)) ELSE Result(Unknown, ErrorsOf(r))
\* try: the first argument without an error, unless some of it is not known.
FirstGood(rs) == IF rs = <<>> THEN Bad ELSE Good(IF WhollyKnown(Head(rs).v) THEN Head(rs).v ELSE Unknown)
Comprehended(r) == Result(Obj(ValuesOf(r)), ErrorsOf(r))
Truths == {Bool(TRUE), Str("true"), Str("1")}
Falses == {Bool(FALSE), Str("false"), Str("0")}
NotBoolean(v) == v # Unknown /\ v \notin Truths \cup Falses
\* { for k, v in coll : k => body if keep }, from the elements' key, keep and
\* body: not known where a condition is not, and an error where it is no boolean.
Comprehension(xs) ==
  LET kept == {x \in xs : x.keep.v \in Truths}
      errs == UNION {x.keep.errs : x \in xs} \cup UNION {x.body.errs : x \in kept}
  IN  IF \E x \in xs : NotBoolean(x.keep.v) THEN Bad
      ELSE Result(IF \E x \in xs : x.keep.v = Unknown THEN Unknown
                  ELSE Obj([n \in {x.key : x \in kept} |-> (CHOOSE x \in kept : x.key = n).body.v]), errs)

\* A conditional, of the results of its parts: the chosen branch, converted to
\* the type of both; refused, whatever is chosen, when there is none.
Common(a, b) == IF Dynamic \in {a, b} THEN Dynamic ELSE Unify({a, b})
Taken(c, r, ty) == Result(Convert(r.v, ty), c.errs \cup r.errs)
Chosen(c, then, else, ty) ==
  CASE ty = Clash -> Bad
    [] ty # Clash /\ c.v \in Truths -> Taken(c, then, ty)
    [] ty # Clash /\ c.v \in Falses -> Taken(c, else, ty)
    [] ty # Clash /\ c.v = Unknown -> Result(Unknown, c.errs)
    [] OTHER -> Bad

RECURSIVE Value(_, _)
Value(e, ctx) ==
  LET In(x) == ("k" :> x.key) @@ ("v" :> x.value) @@ ctx
      Conditional(c, then, else) == Chosen(c, then, else, Common(TypeOf(then.v), TypeOf(else.v)))
      Over(c) ==
        IF Iterable(c)
        THEN Comprehension({[key |-> x.key.str, keep |-> Value(e.keep, In(x)), body |-> Value(e.body, In(x))] :
                              x \in ToSet(Elements(c))})
        ELSE IF c = Unknown THEN Good(Unknown) ELSE Bad
      Parts(es) == [x \in DOMAIN es |-> Value(es[x], ctx)]
  IN  CASE e.e = "lit" -> Good(e.lit)
        [] e.e = "ref" -> IF e.root \in DOMAIN ctx THEN Traverse(ctx[e.root], e.steps) ELSE Bad
        [] e.e = "obj" -> Comprehended(Parts(e.items))
        [] e.e = "tuple" -> LET r == Parts(e.elems) IN Result(List(ValuesOf(r)), ErrorsOf(r))
        [] e.e = "cond" -> Conditional(Value(e.if, ctx), Value(e.then, ctx), Value(e.else, ctx))
        [] e.e = "call" /\ e.fn = "try" -> FirstGood(SelectSeq(Parts(e.args), LAMBDA x : x.errs = {}))
        [] e.e = "call" -> CallOf(e.fn, Parts(e.args))
        [] e.e = "for" -> Over(Value(e.coll, ctx).v)

\* Variables: the traversals an expression reads, without a for's own.
RECURSIVE Variables(_)
Variables(e) ==
  CASE e.e \in {"lit", "none"} -> {}
    [] e.e = "ref" -> {e}
    [] e.e = "obj" -> UNION {Variables(e.items[n]) : n \in DOMAIN e.items}
    [] e.e = "tuple" -> UNION {Variables(x) : x \in ToSet(e.elems)}
    [] e.e = "cond" -> Variables(e.if) \cup Variables(e.then) \cup Variables(e.else)
    [] e.e = "call" -> UNION {Variables(x) : x \in ToSet(e.args)}
    [] e.e = "for" -> Variables(e.coll) \cup {t \in Variables(e.keep) \cup Variables(e.body) : t.root \notin {"k", "v"}}

-----------------------------------------------------------------------------
\* Modules.  A block has a type, labels and a body of arguments and blocks;
\* parseModule reads those of a directory's files, the files by name.
Block(type, labels, args) == [type |-> type, labels |-> labels, args |-> args, blocks |-> <<>>]
Arg(b, n) == IF n \in DOMAIN b.args THEN b.args[n] ELSE None

Repeated(b) == [count |-> Arg(b, "count"), forEach |-> Arg(b, "for_each")]
ResourceOf(b) ==
  [mode |-> IF b.type = "data" THEN "data" ELSE "managed", type |-> b.labels[1], name |-> b.labels[2], body |-> b]
    @@ Repeated(b)
ModuleCall(b) == [name |-> b.labels[1], source |-> Arg(b, "source").lit.str, body |-> b] @@ Repeated(b)
\* The argument of each block, by name; the last block of a name counts.
Said(bs, n) == FoldLeft(LAMBDA f, b : (b.labels[1] :> Arg(b, n)) @@ f, EmptyBody, bs)

Module(dir, blocks) ==
  LET Of(types) == SelectSeq(blocks, LAMBDA b : b.type \in types)
  IN  [dir |-> dir,
       variables |-> Said(Of({"variable"}), "default"),
       locals |-> FoldLeft(LAMBDA f, b : b.args @@ f, EmptyBody, Of({"locals"})),
       resources |-> FoldLeft(LAMBDA s, b : Append(s, ResourceOf(b)), <<>>, Of({"resource", "data"})),
       calls |-> FoldLeft(LAMBDA s, b : Append(s, ModuleCall(b)), <<>>, Of({"module"})),
       outputs |-> Said(SelectSeq(Of({"output"}), LAMBDA b : Arg(b, "value") # None), "value"),
       providers |-> Of({"provider"})]
ParseModule(dir, files) == Module(dir, FoldLeft(LAMBDA bs, f : bs \o files[f], <<>>, Sorted(DOMAIN files)))

\* Resolve and Load: a local source is a directory of the files, any other
\* one is looked up in what terraform init installed.
NotFound == "not found"
Resolve(files, call, key) ==
  CASE call.source \in DOMAIN files.dirs -> call.source
    [] key \in DOMAIN files.manifest -> files.manifest[key]
    [] OTHER -> NotFound

Has(mod, mode, type, name) ==
  \E r \in ToSet(mod.resources) : r.mode = mode /\ r.type = type /\ r.name = name
=============================================================================
