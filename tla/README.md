# Archgopher, specified

A TLA+ development of [archgopher](../src/README.md): modules that model the
program, TLC configurations that check them on small instances, and theorems
that TLAPS proves for every value of the constants. `PROJECT.json` lists the
components, the runs, the source lines behind every definition, one mutant for
every checked property, the hazards and the findings.

    tlc -config MCReadings.cfg MCReadings    # any run: its module and cfg are in PROJECT.json
    tlapm PropagationProofs.tla                    # any *Proofs.tla

## The system

Archgopher turns a declaration of an architecture (`*.scouter.yaml`, written by
hand, drawn in the browser, or built from Terraform) into numbers: monthly cost,
headroom to quotas, latency and availability along paths. Most of it is a
sequential pipeline. What runs concurrently or is cut off in the middle is the
price lists' cache, the writing of price books, and the browser's page.

    Terraform --config--> --eval--> --infer--> fresh declaration
                                                 | merge
    people --- web, YAML ---------------> declaration --pattern--> nodes and edges
                                                 | engine: graph, propagation
       price lists --sync--> books -----------> | readings, pools, paths
                                             result --> report, diagram, flow, gaps,
                                                        review, reconcile, web

### Inventory

| Component | State it keeps | Operations | Talks to | What is hard, what makes it correct |
| --- | --- | --- | --- | --- |
| `engine/graph.go`, building | known ids, edges, in-degrees, the queue, the order | resolve traffic, check groups, nodes, edges, sort (Kahn) | takes the declaration, gives the order to propagation | order of parallel edges and of operations on one edge; the order goes forward and a refusal has a cycle |
| `engine/graph.go`, propagation | demand of every node by kind | own, push | `model.Load` | demand is read once: all of it must have come; equals the sum over routes |
| `engine`, readings | results, lines, limits, pools, paths, warnings | read a node, read a group, share pools, sum, walk paths | scouters, books, `meter` | bills computed three times for pooled lines; errors blamed on the right node; every unit billed once |
| `meter` | a recorder per node | Cost, Limit, Bill, Share | books | tier boundaries, free grants, included units |
| `pattern` | the expansion of each placed pattern | expand (passes up to `maxDepth`), roll up | before and after the engine | patterns in patterns; reads as the nodes it stands for |
| `terraform/config`, `terraform/eval` | modules of blocks; locals, module instances, resources | build modules from files, rounds until nothing changes, collect, follow references, read documents | gives infer and review their resources | rounds are bounded; a call counted in one round is off in the next; references run through instances the last round made |
| `terraform/infer` | nodes, edges, declared pairs | references, hints, stubs, links, front doors, cycles, variants | provider rules; its result goes to merge | which edge of a cycle goes; load shared over parts |
| `terraform/merge` | the declaration people edit | fold groups, nodes, stale ones, edges | infer, people's edits | sequences of imports and edits: nothing of people's is lost, nothing doubled |
| price-list clients | files shared by processes, a mutex, the list read last | refresh, download, rename, read | sync, `quotas` | several processes, kills, midnight, damaged files |
| `sync` | the books on disk | look up every price, write the book | price-list clients | partial failure, tables, kills between truncation and write |
| `quotas`, `stale`, `reconcile`, ... commands | none between runs | one package each | files | errors in the middle of a run |
| `definition`, `facet`, `field`, `scouter`, providers, catalog | none (data) | compile a resource into a scouter | engine, infer | order of lets and readings |
| `traffic` | none | a rate, users, people at work, a schedule or batches to a load | before the engine | windows that overlap or pass midnight; one volume however it is said, a peak not below its average |
| `flow`, scenarios | none | queues, backlog, connections, the declaration and then each scenario | engine, provider rules | one declaration read many times: nothing of one scenario in the next |
| `gaps` | none | find gaps, with trial readings; people fill them and ask again | engine, scouters | what one answer changes for the others; a node without work is explained |
| `review` | none | checks of settings, references, companions and edges | eval, provider rules | attributes that are not known before apply |
| `reconcile` | none | parse an export, lay a reading next to it | engine, synced prices | the same money met by node, pattern, price and service |
| `book` | none | look up prices, quotas and SLAs by region | readings | entries of every region |
| `web` | declaration, readings, selection, storage, timers | edits, open, save, load the engine | `api` through wasm | renders, effects, timers and file reads in any order, reloads |
| `diagram` | none | fold, columns, order, heights, routes, frames, saved places | export, the canvas | passes that move what earlier passes placed; nothing may lie on or under another's place |
| `api` | none | pass a request to a package; flow, gaps, review, export | all packages, the page | refusals in the middle of a list |
| `report`, `icons`, a drawing's marks | none | format, encode | results, drawings | nothing reads their outcome |

Every part is listed in `PROJECT.json` under `components`, with what is left out
of it or why it is not modelled; every place where something can go wrong that a
test would hardly reach is under `hazards`, at its line.

## The modules

`Foo.tla` is the specification, `MCFoo.tla` its instance for TLC,
`FooProofs.tla` its theorems. Definitions keep the names of the source. A
comment `\* Mutant: ...` marks a changed copy of the definition below it;
nothing of the specification uses it.

### Graph, Propagation (`engine/graph.go`), and Settling

`Graph` is `buildGraph` and `sort`, one action per iteration of each loop:
`ResolveTraffic`, `GroupIDs`, `AddNode`, `AddEdge`, `StartQueue`, `Relax`,
`Pop`, `Sorted` or `Cyclic`, and `Refuse` wherever the code returns an error.
`Propagation` extends it with `Take` (a node's demand is read, once) and `Push`
(an edge carries its share on). `Settling` is the abstract promise: nodes settle
one at a time, after all that feed them; `Settles` says that `Propagation`
implements it, with `settled` the nodes taken so far. A load is its monthly
volume and the part of it that came with a size; peaks follow the same sums.
Numbers are naturals.

`MCReadings` restates the demand without steps: `LoadOverRoutes` sums, over
every route of edges into a node, the load that enters times the multiples on
the way. One run checks the graph, the demand and what is read of it.

### Readings, Billing (`engine`, `meter`)

`Readings` extends `Propagation` with all of `Run` after `propagate`: quotas
applied, one `ReadNode` and `ReadGroup` at a time, `SharePool`, `Blame`,
`SumCosts`, and the recursive walk of paths as an explicit stack (`Walk`,
`Cut`). A scouter is a constant: what it reads of a demand. `Billing` holds the
rules for a quantity (`Bill`) and for pools (`ShareOut`). Prices are whole
numbers of a fine unit. `Billing` also states the bill a second time, unit by
unit (`UnitByUnit`: which tier each unit falls in), and `MCReadings` the total over
the declaration from it.

### Patterns (`pattern/pattern.go`)

`ExpandOnce` is one pass over the whole declaration, with its error returns in
their order; `Rollup` follows the engine's run. An id is a sequence of names.
`MCPatterns` holds the declaration a reader would write by hand, by recursion
over the registry.

### Terraform, References, Evaluation (`terraform/config`, `terraform/eval`)

`Terraform` is the language: expressions, values with unknown parts, modules as
`config` makes them of a directory's blocks, sources and the init manifest. A
conditional has the type its two branches unify to, and the chosen one is
converted to it (`Unify`, `Convert`: `true ? 1 : "x"` is `"1"`); the condition of
a `for` must be a boolean, known for every element. A list is a tuple; a set
is one of texts; and an unknown has no type, so a conditional with an unknown
branch converts once that is known, where HCL may have known its type before.
`References` is `refs.go`: what an expression names, followed through locals,
variables, outputs and indexes to resources, and the variables a condition rests
on. `Evaluation` is the machine: variables from defaults, files and the command
line, rounds of locals, resource arguments and module calls (`MaxPasses` of them
at most), outputs, and the collection with counts and variants. The root's
rounds are its steps; a called module is evaluated whole within the step of its
call, as in the code. `Structure` reads an expression by structure, as policies
and workflows are read. `MCEvaluation` states the
answers again: the same blocks in the reverse order, the product of the counts
on the way, what changes when a resource's settings change, and the value beside
the structure.

### Infer (`terraform/infer`)

`Gather` is `Build` up to `frontDoors`: references through aliases and
forwarding, hints, stubs, carriers, links, kindless edges dropped, and the users
entry. `Place` is one iteration of `breakCycles` - among the declared edges, and
then among the others, in any order, since the code's order is that of the
configuration's files. `CyclesBroken` folds edges of a pair; `Split` is one
iteration of `splitVariants`; a share is a fraction kept as two naturals. The
rules of a provider are one constant, `Rules`, by the source's names.

### Library (`reaches`, the loops that keep some)

Operators that several modules share. `Reaches` says what infer's `reaches` and
the page's `createsCycle` compute without their stacks: b is in every set that
holds a and is closed under the edges. `Filtered` is the loop that goes over a
list and appends what it keeps. Both are written without recursion, so that
`LibraryProofs` can say what they are known for.

### Merge (`terraform/merge/merge.go`), and Ledger

One action per group, node, stale node and edge of an import, and people's edits
(place, rename, remove, answer, load, connect) between imports. An import of an
unchanged configuration sets `again`. An id is its name and the numbers put
after it. `Ledger` is the promise about addresses: what has been seen stays,
live or stale as Terraform says; `KeepsLedger` is the refinement.

### PriceLists, PriceCache, Listings (price-list clients)

`PriceCache` has the three clients of AWS, Azure and GCP over one cache: `Ask`,
opening or refreshing a file, downloading and copying it to a temporary file,
the rename, failures, and the reading; processes begin, end and are killed
anywhere, a file can be damaged or removed by something else (`Hurt`), days pass
(`Tick`). What a client keeps in memory is in `memory`, per process and list: those of AWS
and Azure keep the list they read last (`Client.last`), GCP's every list for as
long as the command lives (`Client.skus`, and in `Client.matched` what was found
in them), and an ask for a list that is kept is answered from there. `Listings`
is what their callers may rely on: a listing is whole, is
of the list asked for, and was the provider's no more than `Oldest` days before
the command began; and a client answers from what it keeps. `KeepsPromise` is
`PriceCache => Listings` with `Oldest = MaxAge + Longest`. `PriceLists` holds
what both share.

### Sync (`cmd/archgopher/sync*.go`)

Composed with `Listings`, not with the files: a price lookup is an `LAsk`,
`LAnswer` or `LRefuse` and `LTake` of the process `Syncer`. The loops of the code
are positions: `book` in the books, `here` in a book's entries, `place` in the
regions of an entry (`order`, laid out once by `BeginEntry`, as the code does
before it looks anything up), `row` in the rows of a table, `part` in what a
price is composed of. `ReadBook`, `BeginEntry` or `SkipEntry`, then per value
`PassOver`, `NotOffered`, or `AskPart` and `TakePart`, then `EntryDone`;
`Truncate`, `NextBook`, `Done`; `Killed` anywhere, `Midnight` at any time. A book
is empty between `Truncate` and the write.

### Workspace, Flash (`web/src/app`, `web/src/ui/useFlash.ts`)

A commit is a render on screen; `Effects` run after it and before the next.
`EngineLoaded`, `EngineFailed`, `FileRead`, `Paused` and `FlashExpires` come
when they will, people edit and open documents, `Reload` opens the page again
with what storage holds. `Flash` is instantiated for the header's total.

### Traffic, Flow, Gaps, Review, Reconcile, Advice (`traffic`, `flow`, `gaps`, `review`, `reconcile`, `api`)

What a declaration is asked once it is written. `Traffic` turns each of the five
shapes into a volume and a peak: volumes are counted in parts of one arrival so
that a month of 730/24 days is a whole number, peaks are fractions. `Flow` reads
queues, backlogs and connections over a declaration, and `In` is a declaration
under a scenario. `Gaps` finds what is missing, with its trial readings.
`Review` has every shape of rule (`settings`, `links`, `companions`, `edges`)
and the rules of the AWS provider. `Reconcile` parses an export and
compares. `Advice` is the machine over them: `ReadBase`, one `ReadScenario` per
scenario, `FlowDone`; `AskGaps` and `Fill`, a person who does what one hint says
and asks again; `Review`, `Reconciled`, `AskLoad` and `Export`. A call that
cannot be answered is `"refused"`.

### Diagram (`diagram/diagram.go`, `diagram/layout.go`)

`Draw` is `build` and the layout: attached nodes fold into their owners, arrows
join, groups become frames; then columns by longest path, dummies
for long arrows, the order that crosses least, packing into heights, tracks
between columns, the ports of frames, and the boxes of frames and cloud. A
declaration with saved places keeps them, and nodes inside another's frame are
pushed below it for at most five rounds. Lengths are tenths of a pixel, halves
rounded down where the code has floats.

### How the modules compose

    Graph <- Propagation <- Readings (uses Billing)     Settling  <= Propagation
    PriceLists <- PriceCache                            Listings  <= PriceCache
    PriceLists <- Listings <- Sync                      Listings  <= Sync
    Terraform <- References <- Evaluation
    Library <- Billing, Readings, Infer, Merge,         Ledger    <= Merge
               Workspace, Sync
    Traffic <- Flow <- Gaps <- Advice
    Review <- Advice                        Reconcile, Diagram, instantiated in Advice
    Flash, instantiated in Workspace

`<-` extends, `<=` is implemented by. Sync rests on `Listings` alone, so what is
checked and proved of it holds whatever the cache does within that promise, and
its own steps keep the part of the promise that is asked of a caller
(`SyncUsesListings`). Together with `ClientsKeepPromise` the chain is closed:
files, promise, books.

## The runs

| Run | What it shows | Bounds, and why they are enough |
| --- | --- | --- |
| `readings` | `ForwardOrder`, `RefusedOnlyForCycle`, `LoadOverRoutes`, `Settles`: any graph is ordered forward or refused for a real cycle, and a node's demand is the sum over routes. `UnpricedExplained`, `TotalBillsEveryUnitOnce`, `PathsComplete`: what is read of it | Every sequence of up to 4 edges over 3 nodes without self edges (up to 2 with them), every set of 4 over 4 nodes, in two orders of nodes; declarations that are refused or nearly; diamonds, parallel edges, several operations, zero multiples and cycles with nodes downstream all occur. For the readings 3 nodes, 4 possible edges, six ways to type the nodes, a missing count and a doubled one; prices with tiers, a free tier, included units, pools and fees; `MaxPaths = 3` so that the walk is cut in some graphs and not in others |
| `patterns` | `ExpandsToNodesByHand`, `RollupSumsEachOnce`, `ExpansionEnds` | Users and two nodes over six types, `MaxDepth = 2`: one level, two, one too many, and one without end |
| `evaluate` | `AnyOrder`, `CopiesMultiply`, `RefsExplain`, `DocumentAgrees`, `KnownStays`: values do not depend on the order of blocks, copies multiply, references explain values, a document reads as it is written, and no round takes back what is known, except that a conditional may turn it into the type of a branch known later (counts included, see below) | Chains of up to six locals, resources and calls in the worst order, `MaxPasses = 6`, exactly what the longest needs; two nested calls that are counted, repeated or off; every way an attribute names a resource; conditionals over seven pairs of branches of two types, one behind a call, and a count made so; documents of up to two levels with `MaxDocumentHops = 8`; every order of variable files and the command line |
| `infer` | `NoCycleKept`, `DeclaredFirst`, `SharesAddUp` | Five families: permissions back from consumers and callback URLs, aliases and forwarding, carriers, pipes in a ring, and nodes split on both ends of an edge into up to two parts; every order of placing |
| `merge` | `WellFormed` (addresses, ids and edges), `PeopleKept`, `TwiceChangesNothing`, `KeepsLedger` | Two imports out of four readings of Terraform, two edits anywhere, an empty and a hand-written start: the smallest history in which an id, an address or a group returns with another meaning |
| `prices` | `WholeUnlessHurt`, `KeepsPromise` | Two processes, two lists (one of a client that keeps the last, one of GCP's, which keeps all), three days, a download over midnight, one file hurt; symmetric in the processes |
| `sync` | `SyncedWasListed` (and a table comes from one listing), `PricesKept` (and a sync that changes nothing leaves the file), `SyncEnds` | Two runs over four days and five small catalogs (one of rows composed from two lists of GCP's, one a table of one of its lists), one process of the promise (other commands show only in how old its answers are); prices that rise, vanish and are ambiguous; `Oldest = 1` |
| `workspace` | `IdleIsOfThis`, `SavedComesBack`, `EditsStaySound`, `ComesToRest` | Three ids, two edits, one document opened, one reload; with and without storage, engine load that succeeds or fails |
| `advice` | `SameWork`, `PeakCoversAverage`: load as it is said. `ScenarioAlone`: flow and scenarios. `UnreadExplained`, `GapsAnswered`: gaps and whoever fills them. `KnownFindingsStand`: review before apply. `BillAddsUp`: reconcile. `EveryNodeShown`, `Legible`: drawings | Every shape of traffic with windows that overlap, meet or pass midnight (minutes of 6 seconds and hours of 10 minutes: a step and a range still fit in each field); a queue-driven design under every pair of four scenarios; designs with each kind of gap, filled in any order; each attribute unwritten, unknown, known or a reference, and two settings not known inside a block or a list; every month out of seven rows of a bill; drawings of up to six nodes with every subset of seven edges, three groupings, attached nodes in chains and circles, and saved places |
| `pattern_written` | violation: a placed pattern loses what was written on it | see findings |
| `merge_cycle` | violation: an edge that Terraform turns round leaves a cycle | see findings |
| `table_unread` | violation: with `--regions` naming a region the table lacks, the table is verified with no value read | see findings |

Counters that only bound the model (`MaxEdits`, `MaxMerges`, `MaxRuns`,
`LastDay`, `MaxHurt`, `MaxLoads`, `MaxReloads`, `MaxNumber`) stand in guards,
and no property of a run mentions them. The modules state their types
(`GraphTypeOK`, `CacheTypeOK`, ...) for the reader and for the proofs; the runs
check what could be wrong beyond them. `prices`, `sync`, `infer`, `advice` and
`table_unread` run with deadlock off: commands, days, imports and questions come
to an end.

### Fairness

`readings`, `evaluate`, `infer`, `merge`, `prices` and `advice` check safety and
action properties, and assume none. `Patterns`: `WF(Next)`, sequential code that
runs until it returns. `Sync`: `WF(run # "off" /\ Syncing)`: a sync that was
started goes on until it is done or killed, and a price list that hangs is ended
by the HTTP client's timeout, which is one of the answers; nothing obliges
anyone to start one. `Workspace`: React runs the effects of every commit
(`Effects`), the browser fires timers that are not cleared (`Paused`,
`FlashExpires`), and the engine's load ends one way or the other; people are
under no obligation.

## What is proved

| Theorem | Module | Establishes |
| --- | --- | --- |
| `GraphTypes`, `OrderGoesForward`, `CycleIsReal` | `PropagationProofs` | `[]GraphTypeOK`, `[]ForwardOrder`, `[]RefusedOnlyForCycle`, for every set of ids, groups and kinds and every declaration |
| `DemandIsComplete`, `PropagationSettles` | `PropagationProofs` | the action property `DemandComplete`; `Spec => Settles`, the refinement |
| `CacheTypes`, `CacheStaysWhole` | `PriceCacheProofs` | `[]CacheTypeOK`, `[]WholeUnlessHurt`, for any number of processes, lists and days |
| `ClientsKeepPromise` | `PriceCacheProofs` | `Spec => KeepsPromise`, the refinement of `Listings` |
| `LoadIsConserved` | `ReadingsProofs` | `[]LoadConserved`: a settled demand is the node's own load and what each edge into it brings, nothing twice and nothing lost |
| `UnpricedIsExplained` | `ReadingsProofs` | `[]UnpricedExplained`, for every declaration, price book and set of scouters |
| `PathsAreComplete`, `RoutesFit` | `ReadingsProofs` | `[]PathsComplete`: below `MaxPaths` every route is listed, once; that no route is longer than `AllRoutes` looks |
| `BillsEveryUnitOnce` | `ReadingsProofs` | the bill of a price, tier by tier, is that of its units one by one, for any tiers, quantity and included units |
| `RunPropagates` | `ReadingsProofs` | `RunSpec => Spec`: what comes after propagate leaves what it hands over alone |
| `NoCycles`, `DeclaredEdgesFirst` | `InferProofs` | `[]NoCycleKept` (of the edges kept and of those between parts, each of which has its two nodes), `[]DeclaredFirst`, for any rules and configurations |
| `PartsShareAll` | `InferProofs` | `[]SharesAddUp`, for any variants of any instances, split in any order |
| `MergeTypes`, `KeepsPeople`, `StaysWellFormed` | `MergeProofs` | the types of a merge, `[]PeopleKept`, `[]WellFormed`, for any readings of Terraform, any start, any number of imports and edits |
| `MergeKeepsLedger` | `MergeProofs` | `Spec => KeepsLedger`, the refinement of `Ledger` |
| `MergesOnce` | `MergeProofs` | `[]TwiceChangesNothing`: a reading merged again at once changes nothing, whatever was imported and edited before |
| `WorkspaceTypes`, `IdleCostIsOfThis` | `WorkspaceProofs` | the types of the page, `[]IdleIsOfThis` |
| `WhatWasSavedComesBack`, `EditsKeepSound` | `WorkspaceProofs` | the action properties `SavedComesBack` and `EditsStaySound` |
| `DatedPricesWereListed`, `SyncedPricesWereListed` | `SyncProofs` | `[]DatedWasListed`, `[]SyncedWasListed`, for any catalog, price lists, days and runs |
| `NoPriceForgotten`, `SyncKeepsPrices` | `SyncProofs` | `[]PricesStand`, `[]PricesKept` |
| `SyncUsesListings` | `SyncProofs` | `Spec => LSpec`: sync never breaks what the clients rely on |
| `FilteredKeeps`, `PlacedWithoutCycle` | `LibraryProofs` | what is kept by a loop is what was asked for, in order, once each; an edge that closes no cycle leaves none |

**Propagation.** `ForwardOrder` is not inductive: that an id is queued when its
in-degree reaches zero says nothing unless in-degrees count what is left. `GInv`
adds that (`Counted`: an in-degree is the number of incoming edges not yet
relaxed; `Queued`: the ids in line are those with none left, once each;
`Relaxation`: only edges out of popped ids are relaxed). `RefusedOnlyForCycle`
follows: an id that was never queued has an incoming edge never relaxed, hence
from another such id. `DemandComplete` and `Settles` need `ForwardOrder` and
that `at` is zero until the order is there (`FInv`), whose `Whole` and `AllInLine`
say that in the end the order holds every known node.

`LoadConserved` is about the end of two nested loops. `CInv` says how far they are:
a node's demand is its own load, once the loop took it (`Got`), and what was passed
along the edges into it that were pushed so far (`Balanced`); edges are pushed
from taken nodes only, in order (`PushedInOrder`). What was passed along an
edge is read off its source's demand now, not then, so the balance holds only
because a node that was taken never changes again: whatever is pushed later goes
to a node further down the line (`ForwardOrder`). Taking a node and pushing an edge
change one summand each (`SumSplit`). No run lists `LoadConserved`, for
`LoadOverRoutes`, which follows each load along every route, says more of the
small instances.

**Readings.** At the end of a run a line can be without a price for two reasons
that lie far back: its own reading, or a pool billed after its node was read.
`EInv` carries both along. `Belongs`: a line is of a result with its node's name;
`ResultsNamed`: results have the names of the nodes in their order, then of
groups, each once, so the result `byID` finds is the line's own (`OwnResult`,
where no group has a node's id). `AllTold`: a line without a price, and a pooled
one whose price has a tier that is not verified (`Doubtful`), is among the
unverified; pooled lines have to be told of before anyone knows whether their
pool can be billed. `PoolsBilled`: a pool shared out leaves a line without a price
only for an error or a doubtful tier (`PoolBillIs`); sharing it disturbs no other
pool and changes no pool's lines (`SharedOut`, `PoolsStay`). `AllBlamed`: its error
is on every result that shares it. That a bill is a number at all, where it is not
unknown, takes the types of demands (`DInv`) and of sums over finite sets
(`SumIsNumber`).

`PathsComplete` is about a walk that keeps a stack of trails. Its invariant (`WInv`)
follows every route from the start: it is listed, or a trail on the stack is its
beginning (`NoneLost`), never two of those (`NoneTwice`); and every trail runs
forward in the order, its j-th node no earlier than the j-th place (`Trails`), so
the walk goes no deeper than there are nodes. A step replaces the top trail by
its continuations: they part the routes it began (`TrailWalked`), because `Hops`
names each next node once however many edges lead there. Only `Cut` drops routes,
and then `MaxPaths` are listed.

`BillsEveryUnitOnce` is about operators alone. A price's tiers part the units:
each falls in exactly one (`TierOfIs`), which takes that they start in order. What
`InTier` says of a tier grows by one with each unit that falls in it and is not
included (`NextUnit`), so tier by tier or unit by unit is one sum (`UnitSums`, from
the least quantity at which it would not be); a tier has a part exactly when such
a unit falls in it (`UnitFalls`), so both are unknown, or unsold, for the same
quantities; and a free grant is priced alike (`UnitPrice`).

**PriceCache.** `CInv` adds what holds while a process is inside a client:
`Waits` (it has asked, and was not told yet), `Good` (a file it is about to read
was young enough when the process began, whoever replaces it meanwhile),
`Copying` (what it copies was listed after it began, no more than `Longest` days
ago); and of every file, `Dated` (it was modified no more than `Longest` days
after what it lists). With a file served for `MaxAge` days after that, an answer
is at most `MaxAge + Longest` days older than the command's beginning, which is
why `Oldest` is their sum. The step lemmas map each action to an action of
`Listings` or to a stutter.

**Library.** A sequence kept by a loop is reasoned about by ranks: the k-th kept
is at the place that k kept places are not after (`EveryRankIsTaken`), which
takes finite sets and their cardinalities. `Least` (a set of naturals has a
least element, from the finite subset order being well-founded in the library)
stands in for induction where a particular recursion is unfolded: `Sums` of Sync
is shown to be what its equation says (`SumsUnfold`) by looking at the first
place where it would not be. `Count` and the shares of `Infer` are folds over a
set that take an element by `CHOOSE`, as are bills and loads; that they are the
same whatever comes first (`SumTakes`), and one for two sets whose elements pair up at equal weights
(`SumMoves`), is shown at a smallest subset where it would fail.

**Infer.** `Reaches` by closed sets makes "no cycle among the kept" inductive on
its own.
Let T hold the new edge's end, be closed, and miss its start. An older edge that
was on no cycle has such a set S too; whichever of S, S cap T or S cup T is
closed under the new edge shows that it still is on none (`PlacedWithoutCycle`).
`DeclaredFirst` needs `InTurn`: while a declared edge waits, all that is kept
was declared; and that more edges reach no less (`ReachesMore`). What the split
leaves is known by `SInv`: at any time the edges are exactly the folded ones from
each part of the caller to each part of the callee, as far as the two are split
(`Whole`), so nothing depends on the order of nodes. A part belongs to one node,
so a set closed under the folded edges holds its parts' closed set
(`PiecesApart`), and what enters the parts of a node from one part of a caller
pairs up with them (`SharesSum`).

**Merge.** `PeopleKept` is inductive with the types (`Base`): every loop replaces
a node by one that keeps what people gave, or appends. `WellFormed` is not, for
the merge ends with all live addresses being Terraform's only if each loop did
its part. `Sound` says how far it is: `Newcomers` and `SeenSoFar` (the nodes that
have an address are those folded so far, so that marking the unseen ones stale
leaves exactly Terraform's live), `Brought`, `Settled` and `GroupsFound` (every
fresh id is renamed to one that is there, or left out with a warning, so that an
edge has both ends), `EdgesDrawn` (no edge of the reading is lost), and that
people's part stays one the engine accepts. `MergeKeepsLedger` maps a known or a
new node to `Bring`, marking stale to `Leave`, the end to `Close` (whose guard is
`Live = Addresses(fresh.nodes)` of `Sound`), a deletion to `TakeOut`, and all else to a stutter.

`MergesOnce` relates two whole merges. `TwiceInv` carries from the first what keeps
the second idle. While a merge runs, `Course`: a fresh node that was folded is one
that folding would leave as it is (`Told`; `UpdatedAgrees` says updateNode's result
agrees with its reading, `AgreedStays` that an agreeing node is not touched); the
group it went to is the first of its kind and label, so a search by those finds it
again (`Housed`); no node a merge added is one that would have been taken for
people's (`Added`), although once it is there it counts as placed by hand
(`merge.go:146`). At its end that is `Resting`. When the reading is merged again,
`Repeats`: nodes and edges are those the merge began with, groups were at most
added behind the ones in use (dropping the unused ones gives those back,
`FilteredPrefix`), and every id became what it became the first time. A stub
that was left out or folded must not find its id taken by a resource numbered
later, for the second merge would take that for the stub: it rests on stubs
coming last (`ClaimAssumption`).

**Workspace.** `PInv`: readings on screen are of the declaration on screen while
it is readable (so a cost that is asked for later is asked for this one), a cost
is that of its key, storage holds what the last effects ran with. `EditsStaySound`
is proved edit by edit; `connect` is `PlacedWithoutCycle`, and renaming maps
every closed set to a closed set.

**Sync.** Four invariants, each on the ones before. `Base`: types, where every
loop is, and that what a row comes to so far is one of the sums its parts could
come to on days a client may have read. `History`: a date is that of a value that
could cost this on days up to it; the days only grow with `now`, so what was
listed stays so. `Faithful`: a value is looked up once at most, because the rows
are distinct and so are the regions, except for added ones, which are passed over
when they are there; so what is still to come is as it was read, and a value that
was changed is not changed back - without this, `SameLeavesFile` is not
inductive. `ReadOnce`: the lists of a table that is not composed are one for all
regions or one for each, so between two rows of one list no other list makes the
client forget it; GCP's client forgets none.

`GraphTypes`, `DemandIsComplete`, the other `...Types`, and the inductive
invariants of Readings, Merge and Sync have no run of their own: the runs' properties say
more of the small instances, and the theorems hold for all.

**Assumed.** Only the named assumptions of the constants, which TLC evaluates in
the runs. `GraphAssumption`, `PriceListsAssumption`, `PriceCacheAssumption`:
types and bounds. `ReadingsAssumption`: books and scouters are of whole numbers, a
book's ids are distinct, a price has a tier (one without is one from zero, see
Billing), and its tiers start at zero and ascend (`tiersOf`, `flatten.go:87`, sorts
them and refuses a table that starts later; nothing else makes tiers); `MaxPaths` is
a natural. `MergeAssumption`: None is no address and no id.
`FreshAssumption`: what infer hands over; a resource has one node, edges join
nodes of the reading, and what has no address (users, stubs) is in no boundary
(`groups.go:20`, `stubs.go`). `ClaimAssumption`: infer gives no id twice
(`claim`, `stubs.go:117`; `id`, `node.go:89`; `partID`, `variants.go:70`;
`groupID`, `groups.go:181`) and writes users first, then resources, then stubs
(`infer.go:203`, `cycles.go:34`). `PeopleAssumption`: people start from a declaration
the engine takes, and what they place has an id, a type and a position
(`App.tsx:67`), no address. `WorkspaceAssumption`: documents have the shape of
`lib/types.ts`. `SyncAssumption`: the books' shape (rows are distinct, no table
is empty, a price is composed of one part or more, what is verified has a date;
true of every synced entry in `src/catalog`), and that a row's lists are one for
all regions or one for each, as `{row}` stands only in filters and tiers and
`Spec.For` puts in the region or leaves it fixed. `InferAssumption`: a variant
counts for one instance at least (`variants.go:48`), hints join nodes
(`iam/edges.go`, `azure/rbac.go`), a stub's caller is a node and its key no
address, and a part has an id nothing else has (`partID`). `LibraryProofs` assumes
nothing.

**Only model-checked.** Liveness (`ExpansionEnds`, `SyncEnds`, `ComesToRest`)
and everything that needs `ENABLED` are out of the prover's reach, as is what
recursive operators compute for every input: hand-written declarations
(`MCPatterns`), sums over routes (`MCReadings`). So is the total over pools and
their shares (`TotalBillsEveryUnitOnce`): `BillsEveryUnitOnce` proves the bill that is
shared out, but in whole numbers a share rounds, and that shares add up to it is
true only where, as in the run, they come out even. `Evaluation`, `Flow`, `Traffic` and `Diagram` are recursive
themselves (expressions, modules, schedules, folding, layouts), so they and what
extends them are checked only.

## Findings

- **`pattern_written`** (`pattern.go:116`, `:175`): expanding rebuilds the
  declaration from name, region and groups, so one placed pattern anywhere drops
  the account's quotas and the scenarios, and the host's traffic and instances
  are dropped too; `docs/architecture.md:45` says a pattern reads exactly like
  the nodes it expands into.
- **`merge_cycle`** (`merge.go:247`): edges of an earlier import stay beside
  those of the next one, so an edge that Terraform turned round makes a cycle
  the engine refuses, though infer had broken all cycles.
- **`table_unread`** (`sync_table.go:36`): with `--regions` naming a region that
  a table lacks (`sync_table.go:33`), it has no row to read; it is then marked
  verified and dated.

## Met while modelling

Where the code surprised, without a run of its own. Those among the hazards have
a note there.

- Front doors are looked for before cycles are broken (`cycles.go:13`), though
  `infer.go:41` gives users to every front door nothing calls. A function that
  holds its API's callback URL calls the API at that moment; its edge is then
  dropped, and the API has neither a caller nor a users entry. The import's
  warning names the dropped edge, not the missing entry.
- Of a module call that is off, the module's own resources are listed as
  removed, those of the modules it would have called are not
  (`resources.go:86`), though `eval.go:65` speaks of every resource of such a
  call. `CopiesMultiply` asks for its own and allows the others: it does not
  say which of the two is right.
- A count that a conditional makes 0 in the first round, and the text `"0"` once
  its other branch is known to be text, is off and then, not being a number
  (`module.go:154`), unknown: the call is evaluated, nothing takes it out of
  `removed` (`module.go:79`), and its resources are listed as both. Written
  after the module its other branch reads, the same call is never off. Terraform
  would convert the text; `module.go:12` says a round can only make more values
  known. The run has such a count: `KnownStays` allows only a call with a
  count that became text to turn (`Turned`), and `AnyOrder` and `CopiesMultiply`
  except calls that did.
- Only attributes at the top of a block are looked at for what is not known
  (`api.go:169`). A nested one (`scaling_config { maximum_concurrency = var.x }`)
  is read as not written, and a list with an unknown element keeps the rest
  (`convert.go:44`); the rules judge both (`review.go:289`), and a departure may go
  away once they are known, though `api.go:158` and `review.go:28` say no rule
  judges them. The run has both; `KnownFindingsStand` excepts the departures of
  such a setting (`JudgedInPart`), and no other.
- A document reads the branch of a conditional as it is written
  (`document.go:176`): `jsonencode({a = true ? 1 : "x"})` is `{"a":"1"}`, and the
  structure of it has the number 1, though `document.go:131` speaks of the document
  jsonencode would write. So `DocumentAgrees` takes a number or a boolean for
  equal to its text.
- A companion rule reads a companion's name without asking whether it is known
  (`review.go:31`): a finding that a companion is missing can go away once it
  is. So `KnownFindingsStand` leaves companions out.
- Two synced prices with one service and filter both bill the same rows of a
  bill by usage type (`reconcile.go:47`). So `BillAddsUp` asks for the usage
  rows' sum only where what they read is disjoint.
- A schedule's peak comes from runs evenly spaced; the comment at
  `schedule.go:14` speaks of the shortest gap between runs.
- A queue's drain ignores how many instances a consumer stands for, while its
  connections are multiplied by them (`flow.go:43`).
- Two scenarios of one name are both read as the first (`api.go:128`).
- The hours `24-0` parse and are none at all, and a peak over them divides by
  zero (`traffic.go:253`); the run's windows leave them out.
- Cells without edges stay where they are when the first order has the fewest
  crossings (`layout.go:557`), though the comment sends them to the bottom of
  their column.
- Two groups placed by hand one among the other leap over each other when nodes
  are pushed out of frames; after five rounds a node of one can lie in the other
  (`layout.go:99`). `Legible` therefore speaks of nodes of no group there.
- A pool's error goes to a group that has the id of its node (`engine.go:242`),
  so `UnpricedExplained` asks that no group has one;
  a flash whose value becomes undefined meanwhile never ends (`useFlash.ts:21`);
  `stale.go:19` expects a fresh date every week where `sync.go:204` keeps the
  old date of an unchanged value; a cycle's error also names nodes downstream of
  it (`graph.go:131`).
- Links are read after carriers have passed their calls on (`edges.go:64`): a
  link to a carrier does not reach what it carries. Two files chosen one after
  the other are shown in the order their texts come (`App.tsx:88`). An AWS price
  file that is recent but cannot be read fails every command until it is a day
  old (`pricelist.go:155`).

## What is not modelled, and why

- Text: `report`, `icons`, a drawing's marks and files (`scene.go`, `svg.go`,
  `raster.go`, fonts), the words `describe` puts a load in. Written once, read
  by nothing. Of a drawing the dots of shared tracks and the labels' places are
  left out too.
- Data: `catalog`, provider rules other than the AWS ones of flow and review,
  books. Constants of the modules that read them.
- `book`, `field`, `facet`, `scouter`, `definition`: what they return is an
  input (`Scouters`, `PriceBook`); `definition` is planned.
- String matching whose outcome is an input of `Infer`: policies (`iam`),
  workflows (`asl`, `wdl`), the readers of the other providers.
- Parsing HCL and calling Terraform's functions: expressions arrive parsed, the
  functions the runs use are external definitions, a file read as text is one
  value.
- `servicequotas`: the same write-then-rename as the price lists. The other
  commands and `cmd/wasm`: arguments, one call, one output. The page's canvas
  and forms.
- Within modelled parts: positions, notes and labels in `Merge`; groups,
  positions, drags and notes in `Workspace`; ids, fields, schedules, groups and
  warnings in `Infer`; what a report shows of a bill beyond its price in
  `Billing`; peaks in `Propagation`, which follow the same sums as volumes.

## Plan

Written first, in this order, because each rests on the one before or carries
the most consequence: Graph and Propagation with Settling, Patterns, Readings
with Billing, Merge with Ledger, Workspace with Flash, PriceCache with Listings,
Sync on Listings, Infer; theorems on the core, the readings, the cache, the
importer, the merge, the page and the books. Then
Terraform, References and Evaluation in front of Infer; Traffic,
Flow, Gaps, Review and Reconcile behind Readings, with Advice over them;
Diagram.

Left:

1. `book` lookups and the flattening of tables, beside `Sync`; quotas.
2. `Definition`: lets, readings, fail and continue as a small interpreter, whose
   scouters `Readings` then reads.
3. `Evaluation` feeding `Infer` in one run, and a refinement of the rounds to a
   least fixpoint.
