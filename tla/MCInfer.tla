------------------------------- MODULE MCInfer -------------------------------
(***************************************************************************)
(* Small configurations for Infer: an API and a queue that call functions   *)
(* which have permissions back; references through an alias, a forwarding   *)
(* container, a secret, a parameter with versions and a link that is a node *)
(* itself; and functions and queues of several sizes.                       *)
(***************************************************************************)
EXTENDS Infer, TLC

CONSTANTS api, itg, f, g, q, m, d, sec, par, ver, al, url, acct, box, page, sub, pipe, back, r, model

MCPaths == {"api", "fn", "queue", "value", "owner", "account", "role"}
MCName == {api, itg, f, g, q, m, r, d, sec, par, ver, al, url, acct, box, page, sub, pipe, back, model, Users}

MCRules ==
  [NodeTypes |-> {"api", "fn", "queue", "db", "secret", "param", "account", "box", "page", "sub", "pipe"},
   FrontDoors |-> {"api", "page"}, Mentioned |-> {"page"}, Passive |-> {}, IgnoreRefs |-> {"role"},
   Links |-> {[type |-> "integration", from |-> "api", to |-> {"fn"}],
              [type |-> "mapping", from |-> "queue", to |-> {"fn"}],
              [type |-> "sub", from |-> "queue", to |-> {"fn"}],
              [type |-> "pipe", from |-> "owner", to |-> {Self}],
              [type |-> "pipe", from |-> Self, to |-> {"queue"}]},
   Aliases |-> ("alias" :> "fn"), Forward |-> ("box" :> "account"), FrontDoorAliases |-> ("url" :> "fn"),
   Carriers |-> ("secret" :> [path |-> "value", via |-> None, owner |-> None, types |-> {"db"}])
                @@ ("param" :> [path |-> "value", via |-> "version", owner |-> "owner", types |-> {"db", "box"}])]

NoRefs == [path \in MCPaths |-> {}]
R(type, refs) == [type |-> type, data |-> FALSE, refs |-> refs @@ NoRefs, variants |-> {}]
Size(key, signature, n) == [key |-> key, signature |-> signature, instances |-> n]
Hint(a, b, kind) == [from |-> a, to |-> b, kind |-> kind]
Input(resources, hints, stubs) == [resources |-> resources, hints |-> hints, stubs |-> stubs]

\* An API and its functions, the callback URL of the API in one of them, a
\* queue with its mapping, and permissions back.
Round ==
  {Input((api :> R("api", <<>>)) @@ (itg :> R("integration", "api" :> {api} @@ "fn" :> fs))
           @@ (f :> R("fn", "api" :> fa)) @@ (g :> R("fn", <<>>)) @@ (q :> R("queue", "fn" :> qf))
           @@ (m :> R("mapping", "queue" :> {q} @@ "fn" :> {g})), hints, {}) :
     fs \in {{f}, {f, g}}, fa \in {{}, {api}}, qf \in {{}, {f}},
     hints \in SUBSET {Hint(f, q, "write"), Hint(g, q, "read"), Hint(g, f, "read"), Hint(f, g, "write")}}

\* References through aliases, a forwarding container and a link that is a node.
Named ==
  {Input((f :> R("fn", "value" :> fv)) @@ (al :> R("alias", "fn" :> {f})) @@ (url :> R("url", "fn" :> uf))
           @@ (acct :> R("account", <<>>)) @@ (box :> [R("box", "account" :> {acct}) EXCEPT !.data = looked])
           @@ (page :> R("page", "api" :> {f})) @@ (q :> R("queue", <<>>)) @@ (sub :> R("sub", "queue" :> {q} @@ "fn" :> {al})),
         {}, stubs) :
     fv \in {{box}, {box, page}}, uf \in {{}, {al}}, looked \in BOOLEAN, stubs \in {{}, {Hint(f, model, None)}}}

\* A database whose connection details are in a secret and in a parameter's version.
Carried ==
  {Input((f :> R("fn", "value" :> fv @@ "role" :> {d})) @@ (d :> R("db", <<>>)) @@ (sec :> R("secret", "value" :> {d} @@ "owner" :> {box}))
           @@ (par :> R("param", <<>>)) @@ (ver :> R("version", "owner" :> {par} @@ "value" :> vv))
           @@ (box :> R("box", "account" :> {acct})) @@ (acct :> R("account", <<>>)), hints, {}) :
     fv \in {{sec}, {d}, {par, box}}, vv \in {{d}, {box}, {acct}}, hints \in {{}, {Hint(f, par, "read")}, {Hint(f, d, "write")}}}

Sizes == {{}, {Size("a", "small", 1), Size("b", "large", 2)},
          {Size("a", "small", 2), Size("b", "large", 1), Size("c", "small", 1)}, {Size("a", "small", 1), Size("b", "small", 1)}}
\* Two queues piped into each other, and a function that reads one and writes the other.
Piped ==
  {Input((q :> R("queue", <<>>)) @@ (r :> R("queue", "fn" :> rf)) @@ (f :> R("fn", <<>>))
           @@ (pipe :> R("pipe", "owner" :> {q} @@ "queue" :> {r})) @@ (back :> R("pipe", "owner" :> {r} @@ "queue" :> {q})),
         hints, {}) : rf \in {{}, {f}}, hints \in SUBSET {Hint(f, q, "write"), Hint(r, f, "read")}}

\* Every caller and callee may come in several sizes.
Split3 ==
  {Input((api :> R("api", "fn" :> {f})) @@ (f :> [R("fn", "queue" :> {q, d}) EXCEPT !.variants = fz])
           @@ (q :> [R("queue", <<>>) EXCEPT !.variants = qz]) @@ (d :> [R("db", <<>>) EXCEPT !.variants = dz]),
         {Hint(f, q, "read"), Hint(f, q, "write")}, {}) : fz \in Sizes, qz \in Sizes, dz \in Sizes}

MCInputs == Round \cup Named \cup Carried \cup Piped \cup Split3
=============================================================================
