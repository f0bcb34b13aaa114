------------------------------ MODULE Workspace ------------------------------
(***************************************************************************)
(* web/src/app: the declaration edited in the browser, what the engine      *)
(* makes of it, what browser storage keeps, and what is selected.           *)
(*                                                                         *)
(* A commit is one render that React has put on screen; its effects run     *)
(* afterwards, and always before the next render.  The engine's load, a     *)
(* file's text and timers arrive when they will, and the page may be        *)
(* reloaded at any time.                                                    *)
(*                                                                         *)
(* A node is its id and the load people gave it; groups, positions and the  *)
(* fields that change no reading are left out.                              *)
(***************************************************************************)
EXTENDS Integers, Sequences, FiniteSets, SequencesExt, Library

CONSTANTS
  None,
  Id,          \* ids of nodes
  LoadValue,   \* what people may type as a load
  Documents,   \* declarations: the examples, files, what Terraform reads as
  Kept,        \* what storage may hold when the page is first opened
  MaxEdits,    \* bound on edits
  MaxLoads,    \* bound on documents opened
  MaxReloads   \* bound on reloads of the page

Cards == [id : Id, load : Int \cup {None}]
Edges == [from : Id, to : Id]
Declarations == [nodes : Seq(Cards), edges : Seq(Edges)]

\* A document that opens is of the shape the page gives its own (lib/types.ts).
ASSUME WorkspaceAssumption ==
  /\ None \notin Id /\ None \notin Int
  /\ LoadValue \subseteq Int
  /\ Documents \subseteq Declarations /\ Kept \subseteq Declarations \cup {None}
  /\ None \notin Declarations
  /\ MaxEdits \in Nat /\ MaxLoads \in Nat /\ MaxReloads \in Nat

VARIABLES
  phase,       \* "loading", "ready", "fatal": the engine
  spec,        \* the declaration
  generation,  \* documents shown since the page opened
  shown,       \* last.current: the declaration of the last good readings
  idle,        \* the no-load cost read last, and the declaration it is of
  pause,       \* what the timer that waits for a pause will read, None without
  selection,   \* what is selected on the canvas
  opening,     \* files chosen whose text has not come
  storage,     \* the browser lets the page store
  stored,      \* what it holds
  committed,   \* a commit whose effects have not run
  flashRan, flashLast, flashOn, flashFrom, flashTimer,  \* useFlash in Header
  seen,        \* history: what effects last ran with, over reloads
  edits, loads, reloads

flash == <<flashRan, flashLast, flashOn, flashFrom, flashTimer>>
page == <<phase, spec, generation, shown, idle, pause, selection, opening, committed>>
counted == <<edits, loads, reloads>>
vars == <<page, storage, stored, flash, seen, counted>>

EmptySpec == [nodes |-> <<>>, edges |-> <<>>]

-----------------------------------------------------------------------------
(***************************************************************************)
(* What the engine makes of a declaration (api, engine): it refuses ids     *)
(* that repeat, edges without ends, cycles and negative loads.              *)
(***************************************************************************)
Places(s) == 1 .. Len(s)
Ids(s) == {s.nodes[k].id : k \in Places(s.nodes)}
Arrows(s) == {s.edges[k] : k \in Places(s.edges)}

Sound(s) ==
  /\ \A j, k \in Places(s.nodes) : s.nodes[j].id = s.nodes[k].id => j = k
  /\ \A e \in Arrows(s) :
       e.from \in Ids(s) /\ e.to \in Ids(s) /\ ~ Reaches(Arrows(s), e.to, e.from)

Readable(s) == Sound(s) /\ \A k \in Places(s.nodes) : s.nodes[k].load # None => s.nodes[k].load >= 0

\* A card costs one standing still, and its load on top.
Cost(s) == FoldLeft(LAMBDA usd, n : usd + 1 + (IF n.load = None THEN 0 ELSE n.load), 0, s.nodes)

\* withoutLoad: every load at zero.
WithoutLoad(s) ==
  [s EXCEPT !.nodes = [k \in Places(s.nodes) |->
     IF s.nodes[k].load = None THEN s.nodes[k] ELSE [s.nodes[k] EXCEPT !.load = 0]]]

ReadyFor(s) == phase' = "ready" /\ Readable(s)
Result == IF phase = "ready" /\ Readable(spec) THEN spec ELSE None
Total == IF shown = None THEN 0 ELSE Cost(shown)

\* Mutant: the no-load cost is shown without readings of this declaration.
IdleUsdOfAny == IF idle.key = WithoutLoad(spec) THEN idle.usd ELSE None

IdleUsd == IF Result # None /\ idle.key = WithoutLoad(spec) THEN idle.usd ELSE None

Header == INSTANCE Flash WITH
  value <- Total, reset <- generation, ran <- flashRan, last <- flashLast,
  on <- flashOn, from <- flashFrom, timer <- flashTimer

-----------------------------------------------------------------------------
Commit(s) ==
  /\ ~ committed
  /\ spec' = s
  /\ shown' = IF ReadyFor(s) THEN s ELSE shown
  /\ committed' = TRUE
  /\ UNCHANGED <<idle, pause, storage, stored, seen, reloads>>

ReadSaved == IF storage /\ stored # None THEN stored ELSE EmptySpec

EngineLoaded ==
  /\ phase = "loading"
  /\ phase' = "ready"
  /\ generation' = generation + 1
  /\ Commit(ReadSaved)
  /\ Header!Mount
  /\ UNCHANGED <<selection, opening, edits, loads>>

EngineFailed ==
  /\ phase = "loading"
  /\ phase' = "fatal"
  /\ UNCHANGED <<spec, generation, shown, idle, pause, selection, opening, committed,
                 storage, stored, flash, seen, counted>>

(***************************************************************************)
(* The effects of a commit, in the order React runs them: the header's      *)
(* flash, the save, the timer that waits for a pause.                       *)
(***************************************************************************)
\* Mutant: the declaration is saved before the engine is there.
SaveAlways == stored' = IF storage THEN spec ELSE stored

Save == stored' = IF storage /\ phase = "ready" THEN spec ELSE stored

\* Mutant: what was read once is not read again.
AwaitOnce ==
  pause' = IF phase # "ready" \/ idle.key # None THEN None ELSE WithoutLoad(spec)

AwaitPause ==
  pause' = IF phase # "ready" \/ idle.key = WithoutLoad(spec) THEN None ELSE WithoutLoad(spec)

Effects ==
  /\ committed
  /\ committed' = FALSE
  /\ \/ Header!Effect
     \/ flashRan = Header!Props /\ UNCHANGED flash
  /\ Save
  /\ seen' = IF phase = "ready" THEN spec ELSE seen
  /\ AwaitPause
  /\ UNCHANGED <<phase, spec, generation, shown, idle, selection, opening, storage, counted>>

\* The timer's reading commits too, and the effects run again.
Paused ==
  /\ pause # None
  /\ idle' = [key |-> pause, usd |-> IF Readable(pause) THEN Cost(pause) ELSE None]
  /\ pause' = None
  /\ committed' = TRUE
  /\ UNCHANGED <<phase, spec, generation, shown, selection, opening, storage, stored,
                 flash, seen, counted>>

FlashExpires ==
  /\ Header!Expire
  /\ UNCHANGED <<page, storage, stored, seen, counted>>

-----------------------------------------------------------------------------
(***************************************************************************)
(* A document takes the declaration's place: New and the examples at once,  *)
(* a file when its text has come, Terraform when the engine has read it.    *)
(***************************************************************************)
Show(s) ==
  /\ phase = "ready"
  /\ generation' = generation + 1
  /\ selection' = None
  /\ UNCHANGED <<phase, flash, edits>>
  /\ Commit(s)

NewDocument ==
  /\ loads < MaxLoads
  /\ loads' = loads + 1
  /\ \E s \in Documents : Show(s)
  /\ UNCHANGED opening

ChooseFile ==
  /\ phase = "ready"
  /\ loads < MaxLoads
  /\ loads' = loads + 1
  /\ \E s \in Documents : opening' = opening \cup {s}
  /\ UNCHANGED <<phase, spec, generation, shown, idle, pause, selection, committed,
                 storage, stored, flash, seen, edits, reloads>>

FileRead ==
  \E s \in opening :
    /\ opening' = opening \ {s}
    /\ Show(s)
    /\ UNCHANGED loads

-----------------------------------------------------------------------------
(***************************************************************************)
(* Edits (lib/state.ts), from the canvas and the inspector.                 *)
(***************************************************************************)
Edit(s, sel) ==
  /\ phase = "ready"
  /\ edits < MaxEdits
  /\ edits' = edits + 1
  /\ selection' = sel
  /\ UNCHANGED <<phase, generation, opening, flash, loads>>
  /\ Commit(s)

NodeAt(id) == [kind |-> "node", id |-> id]
EdgeAt(k) == [kind |-> "edge", index |-> k]
Chosen == {id \in Ids(spec) : selection = NodeAt(id)}

AddNode ==
  \E id \in Id \ Ids(spec) :
    Edit([spec EXCEPT !.nodes = Append(@, [id |-> id, load |-> None])], NodeAt(id))

\* Mutant: only a second edge between two nodes is refused.
RefusedUnlessNew(from, to) == from = to \/ [from |-> from, to |-> to] \in Arrows(spec)
Refused(from, to) ==
  \/ from = to
  \/ [from |-> from, to |-> to] \in Arrows(spec)
  \/ Reaches(Arrows(spec), to, from)

Connect ==
  \E from, to \in Ids(spec) :
    /\ ~ Refused(from, to)
    /\ Edit([spec EXCEPT !.edges = Append(@, [from |-> from, to |-> to])],
            EdgeAt(Len(spec.edges) + 1))

Swap(x, id, new) == IF x = id THEN new ELSE x
Renamed(id, new) ==
  [nodes |-> [k \in Places(spec.nodes) |-> [spec.nodes[k] EXCEPT !.id = Swap(@, id, new)]],
   edges |-> [k \in Places(spec.edges) |-> [from |-> Swap(spec.edges[k].from, id, new),
                                            to |-> Swap(spec.edges[k].to, id, new)]]]
Rename ==
  \E id \in Chosen, new \in Id \ Ids(spec) : Edit(Renamed(id, new), selection)

Loaded(id, l) ==
  [spec EXCEPT !.nodes = [k \in Places(spec.nodes) |->
     IF spec.nodes[k].id = id THEN [spec.nodes[k] EXCEPT !.load = l] ELSE spec.nodes[k]]]
SetLoad ==
  \E id \in Chosen, l \in LoadValue \cup {None} :
    Loaded(id, l) # spec /\ Edit(Loaded(id, l), selection)

OtherNodes(id) == {k \in Places(spec.nodes) : spec.nodes[k].id # id}
Apart(id) == {k \in Places(spec.edges) : spec.edges[k].from # id /\ spec.edges[k].to # id}
Without(id) ==
  [nodes |-> Filtered(spec.nodes, OtherNodes(id)), edges |-> Filtered(spec.edges, Apart(id))]

\* From the form the selection stays; from the canvas it goes with an edge.
RemoveNode ==
  \E id \in Ids(spec) :
    \/ id \in Chosen /\ Edit(Without(id), selection)
    \/ Edit(Without(id), IF Without(id).edges = spec.edges THEN selection ELSE None)

RemoveEdge ==
  \E k \in Places(spec.edges) :
    LET s == [spec EXCEPT !.edges = Filtered(@, Places(spec.edges) \ {k})]
    IN  \/ selection = EdgeAt(k) /\ Edit(s, selection)
        \/ Edit(s, None)

Select ==
  /\ phase = "ready"
  /\ ~ committed
  /\ \/ \E id \in Ids(spec) : selection' = NodeAt(id)
     \/ \E k \in Places(spec.edges) : selection' = EdgeAt(k)
  /\ selection' # selection
  /\ UNCHANGED <<phase, spec, generation, shown, idle, pause, opening, committed,
                 storage, stored, flash, seen, counted>>

-----------------------------------------------------------------------------
\* A page as it opens: nothing but storage is left of the one before.
NotRead == [key |-> None, usd |-> None]

Reload ==
  /\ reloads < MaxReloads
  /\ reloads' = reloads + 1
  /\ phase' = "loading"
  /\ spec' = EmptySpec
  /\ generation' = 0
  /\ shown' = None
  /\ idle' = NotRead
  /\ pause' = None
  /\ selection' = None
  /\ opening' = {}
  /\ committed' = TRUE
  /\ Header!Mount
  /\ UNCHANGED <<storage, stored, seen, edits, loads>>

Init ==
  /\ phase = "loading"
  /\ spec = EmptySpec
  /\ generation = 0
  /\ shown = None
  /\ idle = NotRead
  /\ pause = None
  /\ selection = None
  /\ opening = {}
  /\ committed = TRUE
  /\ Header!Mounted
  /\ storage \in BOOLEAN
  /\ stored \in Kept
  /\ seen = stored
  /\ edits = 0 /\ loads = 0 /\ reloads = 0

Done == (phase = "fatal" \/ edits = MaxEdits) /\ ~ committed /\ UNCHANGED vars

Next ==
  \/ EngineLoaded \/ EngineFailed \/ Effects \/ Paused \/ FlashExpires
  \/ NewDocument \/ ChooseFile \/ FileRead
  \/ AddNode \/ Connect \/ Rename \/ SetLoad \/ RemoveNode \/ RemoveEdge \/ Select
  \/ Reload \/ Done

(***************************************************************************)
(* React runs the effects of every commit, the browser fires its timers,    *)
(* and the engine's load ends one way or the other.                         *)
(***************************************************************************)
Spec ==
  /\ Init /\ [][Next]_vars
  /\ WF_vars(EngineLoaded \/ EngineFailed)
  /\ WF_vars(Effects) /\ WF_vars(Paused) /\ WF_vars(FlashExpires)
-----------------------------------------------------------------------------
(***************************************************************************)
(* Opening the page again brings back the declaration last on screen, in    *)
(* this page or one before it (workspace.ts, storage.ts): the empty one the *)
(* page starts with never takes its place, however often it is reloaded and *)
(* whether or not the engine came.                                          *)
(***************************************************************************)
SavedComesBack ==
  [][phase = "loading" /\ phase' = "ready" /\ storage
       => spec' = IF seen = None THEN EmptySpec ELSE seen]_vars

(***************************************************************************)
(* "An edge needs two different nodes", "These nodes are already connected",*)
(* "That edge would close a cycle" (Canvas.tsx): no edit on screen makes of *)
(* a graph the engine takes one that it refuses.                            *)
(***************************************************************************)
EditsStaySound ==
  [][generation' = generation /\ phase' = phase /\ Sound(spec) => Sound(spec')]_vars

(***************************************************************************)
(* The no-load cost is shown "only against readings of this very            *)
(* declaration, never the last good ones" (workspace.ts).                   *)
(***************************************************************************)
IdleIsOfThis ==
  IdleUsd # None => shown = spec /\ IdleUsd = Cost(WithoutLoad(spec))

(***************************************************************************)
(* When editing stops, the page comes to rest: the total stops flashing     *)
(* (useFlash.ts), and the no-load cost, whose reading "waits until editing  *)
(* pauses" (workspace.ts), is there for the declaration on screen.          *)
(***************************************************************************)
ComesToRest ==
  /\ <>[](phase = "ready" /\ Readable(spec) => IdleUsd = Cost(WithoutLoad(spec)))
  /\ <>[](~ flashOn)
=============================================================================
