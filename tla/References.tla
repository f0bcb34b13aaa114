----------------------------- MODULE References -----------------------------
(***************************************************************************)
(* terraform/eval, what an expression refers to: the resources an edge is   *)
(* made of, followed through variables, locals and module outputs to where  *)
(* they are written, and the root variables a count depends on.             *)
(* An instance is given by the instances above it and itself, a stack.      *)
(***************************************************************************)
EXTENDS Terraform

Address(stack, mode, type, name) == [path |-> Last(stack).path, mode |-> mode, type |-> type, name |-> name]

\* step: the name of the i-th step of a traversal, "" for an index.
Step(t, i) == IF i \in DOMAIN t.steps THEN t.steps[i].attr ELSE ""
\* module.x[0].out and module.x.out name the same output.
OutputName(t) == IF Step(t, 2) = "" THEN Step(t, 3) ELSE Step(t, 2)

ResourceRef(stack, mode, type, name) ==
  {a \in {Address(stack, mode, type, name)} : Has(Last(stack).mod, mode, type, name)}

\* refs and resolve.  memoRefs only remembers, definitions being acyclic.
RECURSIVE Refs(_, _), RefsOf(_, _)
OfOutputs(t, outs) == IF OutputName(t) \in outs THEN {OutputName(t)} ELSE outs
RefsOf(t, stack) ==
  LET in == Last(stack)  name == Step(t, 1) IN
  CASE t.root \in {"count", "each", "path", "terraform", "self"} -> {}
    [] t.root = "var" -> IF Len(stack) > 1 /\ name \in DOMAIN in.args
                         THEN Refs(in.args[name], Front(stack)) ELSE {}
    [] t.root = "local" -> IF name \in DOMAIN in.mod.locals THEN Refs(in.mod.locals[name], stack) ELSE {}
    [] t.root = "module" ->
         IF name \notin DOMAIN in.children THEN {}
         ELSE UNION {Refs(in.children[name].mod.outputs[o], Append(stack, in.children[name])) :
                       o \in OfOutputs(t, DOMAIN in.children[name].mod.outputs)}
    [] t.root = "data" -> ResourceRef(stack, "data", name, Step(t, 2))
    [] OTHER -> ResourceRef(stack, "managed", t.root, name)
Refs(e, stack) == UNION {RefsOf(t, stack) : t \in Variables(e)}

DefinitionHere(t, stack) ==
  LET in == Last(stack)  name == Step(t, 1) IN
  CASE t.root = "var" /\ Len(stack) > 1 /\ name \in DOMAIN in.args -> <<in.args[name], stack, <<>>>>
    [] t.root = "local" /\ name \in DOMAIN in.mod.locals -> <<in.mod.locals[name], stack, <<>>>>
    [] OTHER -> <<>>
\* definition: the expression var.x, local.x or module.m.out stands for, the
\* instance it is written in and the steps left; <<>> when there is none.
Definition(t, stack) ==
  LET in == Last(stack)  name == Step(t, 1) IN
  CASE t.root = "var" /\ Len(stack) > 1 /\ name \in DOMAIN in.args ->
         <<in.args[name], Front(stack), SubSeq(t.steps, 2, Len(t.steps))>>
    [] t.root = "local" /\ name \in DOMAIN in.mod.locals ->
         <<in.mod.locals[name], stack, SubSeq(t.steps, 2, Len(t.steps))>>
    [] t.root = "module" /\ name \in DOMAIN in.children /\ Step(t, 2) \in DOMAIN in.children[name].mod.outputs ->
         <<in.children[name].mod.outputs[Step(t, 2)], Append(stack, in.children[name]), SubSeq(t.steps, 3, Len(t.steps))>>
    [] OTHER -> <<>>

\* navigate: the references of one element inside a structure; every
\* reference of the expression where the structure cannot be followed.
RECURSIVE Navigate(_, _, _)
Navigate(e, stack, path) ==
  LET s == Head(path)
      Into(es) == UNION {Navigate(x, stack, Tail(path)) : x \in es}
      Through(d) == Navigate(d[1], d[2], d[3] \o path)
  IN
  CASE path = <<>> -> Refs(e, stack)
    [] e.e = "tuple" /\ s.index + 1 \in DOMAIN e.elems -> Into({e.elems[s.index + 1]})
    [] e.e = "tuple" /\ s = Every -> Into(ToSet(e.elems))
    [] e.e = "obj" /\ s = Every -> Into({e.items[n] : n \in DOMAIN e.items})
    [] e.e = "obj" /\ s.index = -1 -> Into({e.items[n] : n \in DOMAIN e.items \cap {s.attr}})
    [] e.e = "ref" /\ Definition(e, stack) # <<>> ->
         Through(Definition(e, stack))
    [] e.e = "cond" -> Navigate(e.then, stack, path) \cup Navigate(e.else, stack, path)
    [] e.e = "call" /\ e.fn \in {"tomap", "toset", "tolist", "merge", "concat", "flatten"} ->
         UNION {Navigate(a, stack, path) : a \in ToSet(e.args)}
    [] e.e = "for" /\ s = Every /\ e.body = Ref("v", <<>>) -> Navigate(e.coll, stack, path)
    [] OTHER -> Refs(e, stack)

IterRefsPlain(e, stack, it, forEach) == Refs(e, stack)
\* iterRefs: the iterator it stands for every element of what it ranges over.
IterRefs(e, stack, it, forEach) ==
  UNION {CASE t.root # it -> Refs(t, stack)
           [] Step(t, 1) = "value" -> Navigate(forEach, stack, <<Every>> \o SubSeq(t.steps, 2, Len(t.steps)))
           [] OTHER -> {} : t \in Variables(e)}

\* addRefs: an empty list adds no entry.
AddRefs(refs, path, found) ==
  IF found = {} THEN refs
  ELSE (path :> (found \cup IF path \in DOMAIN refs THEN refs[path] ELSE {})) @@ refs

MetaArgs == {"count", "for_each", "depends_on", "provider"}
SkipBlocks == {"lifecycle", "provisioner", "connection"}
IsDynamic(blk) == blk.type = "dynamic" /\ Len(blk.labels) = 1
\* dynamicContent: the first content block, or nil.
Contents(blk) == SelectSeq(blk.blocks, LAMBDA c : c.type = "content")
IteratorName(blk) == IF "iterator" \in DOMAIN blk.args THEN blk.args["iterator"].root ELSE blk.labels[1]

\* bodyRefs and dynamicRefs; forEach is the resource's, or None.
ArgRefs(e, stack, forEach) == IF forEach = None THEN Refs(e, stack) ELSE IterRefs(e, stack, "each", forEach)
DynamicRefs(refs, content, blk, stack, prefix) ==
  FoldLeft(LAMBDA f, n : AddRefs(f, prefix \o <<blk.labels[1], n>>,
                                 IterRefs(content[n], stack, IteratorName(blk), blk.args["for_each"])),
           refs, Sorted(DOMAIN content))
IsRead(blk) == blk.type \notin SkipBlocks
               /\ (IsDynamic(blk) => Contents(blk) # <<>> /\ "for_each" \in DOMAIN blk.args)

RECURSIVE BodyRefs(_, _, _, _, _)
BodyRefs(b, stack, prefix, refs, forEach) ==
  FoldLeft(LAMBDA f, blk : IF IsDynamic(blk) THEN DynamicRefs(f, Head(Contents(blk)).args, blk, stack, prefix)
                           ELSE BodyRefs(blk, stack, prefix \o <<blk.type>>, f, forEach),
           FoldLeft(LAMBDA f, n : AddRefs(f, prefix \o <<n>>, ArgRefs(b.args[n], stack, forEach)),
                    refs, Sorted(DOMAIN b.args \ MetaArgs)),
           SelectSeq(b.blocks, IsRead))

-----------------------------------------------------------------------------
\* rootVars: the root module's variables an expression depends on.  What it
\* reads of a resource is not followed.
RECURSIVE RootVars(_, _), RootVarsOf(_, _)
RootVarsOf(t, stack) ==
  LET in == Last(stack)  name == Step(t, 1) IN
  CASE t.root = "var" -> IF Len(stack) = 1 THEN {name}
                         ELSE IF name \in DOMAIN in.args THEN RootVars(in.args[name], Front(stack)) ELSE {}
    [] t.root = "local" /\ name \in DOMAIN in.mod.locals -> RootVars(in.mod.locals[name], stack)
    [] t.root = "module" /\ name \in DOMAIN in.children
         /\ OutputName(t) \in DOMAIN in.children[name].mod.outputs ->
              RootVars(in.children[name].mod.outputs[OutputName(t)], Append(stack, in.children[name]))
    [] OTHER -> {}
RootVars(e, stack) == UNION {RootVarsOf(t, stack) : t \in Variables(e)}

\* offBy: the variables that switch a count or for_each off.
OffBy(x, stack) == IF x.count # None THEN RootVars(x.count, stack) ELSE RootVars(x.forEach, stack)
=============================================================================
