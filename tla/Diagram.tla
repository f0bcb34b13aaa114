------------------------------ MODULE Diagram ------------------------------
(***************************************************************************)
(* diagram: what is drawn of a declaration, and where.  A picture is its    *)
(* drawn nodes, arrows and frames (build); a lay is one run of the layered  *)
(* layout over cells, from columns to heights (layout.go).  Lengths are in  *)
(* tenths of a pixel, divisions rounded down.  What is written to a file is *)
(* left out, as are the dots where arrows branch; a text is the number of   *)
(* its characters.                                                          *)
(***************************************************************************)
EXTENDS Integers, FiniteSets, SequencesExt

CONSTANTS
  None,
  EntryType,
  Catalog,   \* by type, what the catalog says of it that a drawing reads
  Labels     \* the types in the order of their labels

Computed(s) == s \o <<>>   \* a sequence with every element computed
\* A fold whose every step is computed before the next.
Steps(op(_, _), start, s) == FoldLeft(LAMBDA y, x : IF y = None THEN None ELSE op(y, x), start, s)

First(s, degree(_)) ==
  FoldLeft(LAMBDA best, x : IF best = None THEN x ELSE IF degree(x) > degree(best) THEN x ELSE best, None, s)

Meta(n) ==
  IF n.type \in DOMAIN Catalog THEN Catalog[n.type]
  ELSE [attach |-> FALSE, external |-> FALSE, provider |-> "", chars |-> 0]

-----------------------------------------------------------------------------
(***************************************************************************)
(* build: attached nodes fold into their owners.                            *)
(***************************************************************************)
Ids(sp) == {n.id : n \in Range(sp.nodes)}
NodeOf(sp, id) == CHOOSE n \in Range(sp.nodes) : n.id = id
Linked(sp) == {k \in DOMAIN sp.edges : sp.edges[k].from # sp.edges[k].to
                                        /\ {sp.edges[k].from, sp.edges[k].to} \subseteq Ids(sp)}
OutOf(sp, id) == {sp.edges[k].to : k \in {j \in Linked(sp) : sp.edges[j].from = id}}
Near(sp, id) == OutOf(sp, id) \cup {sp.edges[k].from : k \in {j \in Linked(sp) : sp.edges[j].to = id}}
Degree(sp, id) == Cardinality({k \in Linked(sp) : id \in {sp.edges[k].from, sp.edges[k].to}})

Busiest(sp, n) ==
  LET best == First(SelectSeq(sp.nodes, LAMBDA d : d.id # n.id /\ ~ Meta(d).attach /\ d.module = n.module),
                    LAMBDA d : Degree(sp, d.id))
  IN  IF best = None THEN None ELSE best.id

\* The one node it points at, else the one it is connected to, else the
\* busiest of its module.
Candidate(sp, n) ==
  IF Cardinality(OutOf(sp, n.id)) = 1 THEN CHOOSE id \in OutOf(sp, n.id) : TRUE
  ELSE IF Cardinality(Near(sp, n.id)) = 1 THEN CHOOSE id \in Near(sp, n.id) : TRUE
  ELSE Busiest(sp, n)

RECURSIVE Owner(_, _, _)
Owner(sp, id, seen) ==
  LET n == NodeOf(sp, id) IN
  IF ~ Meta(n).attach THEN id
  ELSE IF id \in seen \/ Candidate(sp, n) = None THEN None
  ELSE Owner(sp, Candidate(sp, n), seen \cup {id})

\* rep: the drawn node that stands for a node; one without owner for itself.
StandsFor(sp) ==
  Steps(LAMBDA rep, n : (n.id :> (IF Owner(sp, n.id, {}) = None THEN n.id ELSE Owner(sp, n.id, {}))) @@ rep,
           <<>>, sp.nodes)

Label(e) ==
  IF e.kind = "" /\ e.perUnit \in {None, 1} THEN <<>>
  ELSE <<[kind |-> e.kind, per |-> IF e.perUnit = None THEN 1 ELSE e.perUnit]>>

\* Mutant: an edge of an attached node does not reach the owner.
ArrowsDirect(sp, rep) ==
  LET direct == SelectSeq(sp.edges, LAMBDA e : e.from # e.to /\ {e.from, e.to} \subseteq Ids(sp)
                                              /\ rep[e.from] = e.from /\ rep[e.to] = e.to)
  IN  Computed([i \in DOMAIN direct |-> [from |-> direct[i].from, to |-> direct[i].to, labels |-> Label(direct[i])]])

\* One arrow per pair of drawn nodes, with the labels of every edge between.
Arrows(sp, rep) ==
  LET Draw(arrows, e) ==
        IF ~ ({e.from, e.to} \subseteq Ids(sp)) THEN arrows
        ELSE IF rep[e.from] = rep[e.to] THEN arrows
        ELSE LET same == {k \in DOMAIN arrows : arrows[k].from = rep[e.from] /\ arrows[k].to = rep[e.to]}
             IN  IF same = {} THEN Append(arrows, [from |-> rep[e.from], to |-> rep[e.to], labels |-> Label(e)])
                 ELSE [arrows EXCEPT ![CHOOSE k \in same : TRUE].labels =
                         IF Range(Label(e)) \subseteq Range(@) THEN @ ELSE @ \o Label(e)]
  IN  Steps(Draw, <<>>, sp.edges)

\* labelLines, wrap: the label, the id, then "label xn" chips, 30 characters a line.
Folded(sp, rep, id) ==
  [t \in Range(Labels) |-> Cardinality({n \in Range(sp.nodes) : n.id # id /\ rep[n.id] = id /\ n.type = t})]
Lines(folded) ==
  LET Chip(w, t) ==
        LET chars == Catalog[t].chars + 3
        IN  IF folded[t] = 0 THEN w
            ELSE IF w.lines = 0 \/ w.used + 3 + chars > 30 THEN [lines |-> w.lines + 1, used |-> chars]
            ELSE [w EXCEPT !.used = @ + 3 + chars]
  IN  2 + Steps(Chip, [lines |-> 0, used |-> 0], Labels).lines

OneProvider(nodes) ==
  LET named == {n.provider : n \in {m \in Range(nodes) : ~ m.ext}} \ {""}
  IN  IF Cardinality(named) = 1 THEN CHOOSE p \in named : TRUE ELSE ""

Refused(sp) == \E n \in Range(sp.nodes) : n.id = ""

Build(sp) ==
  LET rep == StandsFor(sp)
      arrows == Arrows(sp, rep)
      draw(n) == [id |-> n.id, module |-> n.module, group |-> n.group, at |-> n.at, provider |-> Meta(n).provider,
                  folded |-> Folded(sp, rep, n.id), lines |-> Lines(Folded(sp, rep, n.id)),
                  ext |-> (n.type = EntryType \/ Meta(n).external) /\ \A a \in Range(arrows) : a.to # n.id]
      kept == SelectSeq(sp.nodes, LAMBDA n : rep[n.id] = n.id)
      nodes == Computed([i \in DOMAIN kept |-> draw(kept[i])])
  IN  [nodes |-> nodes, arrows |-> arrows, provider |-> OneProvider(nodes),
       frames |-> Computed([i \in DOMAIN sp.groups |->
          [id |-> sp.groups[i], members |-> SelectSeq(nodes, LAMBDA n : n.group = sp.groups[i])]])]

-----------------------------------------------------------------------------
(***************************************************************************)
(* A lay: cells [name, module, kind, ext, w, h] and edges [from, to,        *)
(* fromOff, toOff, rev] between their numbers.  A cell is a node, a frame, a port of *)
(* a frame ("in", "out") or a lane of a long edge ("dummy").                *)
(***************************************************************************)
Icon == 480
Wide == 1760
Pad == 220      \* framePad
Title == 300    \* frameHead
Margin == 400
LaneHeight == 140
Height(lines) == Icon + 40 + 120 * lines
EdgesOut(l, c) == SelectSeq([k \in DOMAIN l.edges |-> k], LAMBDA k : l.edges[k].from = c)
EdgesIn(l, c) == SelectSeq([k \in DOMAIN l.edges |-> k], LAMBDA k : l.edges[k].to = c)
Cells(l) == [i \in DOMAIN l.cells |-> i]
IsPort(c) == c.kind \in {"in", "out"}

\* visit, depth first: an edge to a cell still on the stack closes a cycle.
RECURSIVE Visit(_, _, _)
Visit(l, at, c) ==
  LET Follow(s, k) ==
        CASE s.state[l.edges[k].to] = "new" -> Visit(l, s, l.edges[k].to)
          [] s.state[l.edges[k].to] = "stack" -> [s EXCEPT !.back = @ \cup {k}]
          [] OTHER -> s
  IN  [Steps(Follow, [at EXCEPT !.state[c] = "stack"], EdgesOut(l, c)) EXCEPT !.state[c] = "done"]

BackEdges(l) ==
  Steps(LAMBDA s, c : IF s.state[c] = "new" THEN Visit(l, s, c) ELSE s,
           [state |-> [c \in DOMAIN l.cells |-> "new"], back |-> {}], Cells(l)).back

BreakCycles(l) ==
  LET back == BackEdges(l)
      turn(e) == [from |-> e.to, to |-> e.from, fromOff |-> e.toOff, toOff |-> e.fromOff, rev |-> TRUE]
  IN  [l EXCEPT !.edges = Computed([k \in DOMAIN @ |-> IF k \in back THEN turn(@[k]) ELSE @[k]])]

(***************************************************************************)
(* layers: the column of every cell, from 0.                                *)
(***************************************************************************)
\* layers, its queue: the longest path from a source.
Depths(l) ==
  LET depth[c \in DOMAIN l.cells] ==
        Max({0} \cup {depth[l.edges[k].from] + 1 : k \in Range(EdgesIn(l, c))})
  IN  Computed([c \in DOMAIN l.cells |-> depth[c]])

Lo(l, layer, c) == Max({0} \cup {layer[l.edges[k].from] + 1 : k \in Range(EdgesIn(l, c))})
Hi(l, layer, c) == Min({layer[l.edges[k].to] - 1 : k \in Range(EdgesOut(l, c))})

\* Where a cell is nearest to the side with more edges.
Want(l, layer, c) ==
  IF Len(EdgesOut(l, c)) > Len(EdgesIn(l, c)) THEN Hi(l, layer, c) ELSE Lo(l, layer, c)

Shift(l, layer, c) ==
  IF l.cells[c].ext \/ IsPort(l.cells[c]) \/ Len(EdgesOut(l, c)) = Len(EdgesIn(l, c)) THEN layer
  ELSE LET fits == Want(l, layer, c) >= Lo(l, layer, c) /\ (EdgesOut(l, c) # <<>> => Want(l, layer, c) <= Hi(l, layer, c))
       IN  [layer EXCEPT ![c] = IF fits THEN Want(l, layer, c) ELSE @]

\* shorten: in passes, until one moves nothing.
RECURSIVE Passes(_, _, _)
Passes(l, layer, n) ==
  LET moved == Steps(LAMBDA ly, c : Shift(l, ly, c), layer, Cells(l))
  IN  IF n = 0 \/ moved = layer THEN layer ELSE Passes(l, moved, n - 1)

FromZero(layer) ==
  LET low == IF layer = <<>> THEN 0 ELSE Min(Range(layer))
  IN  Computed([c \in DOMAIN layer |-> layer[c] - low])
Shorten(l, layer) == FromZero(Passes(l, layer, 4 * Len(l.cells)))

CellDegree(l, c) == Len(EdgesIn(l, c)) + Len(EdgesOut(l, c))

\* A cell without edges goes beside the busiest of its module.
Beside(l, layer, c) ==
  LET busiest == First(SelectSeq(Cells(l), LAMBDA d : /\ d # c /\ CellDegree(l, d) > 0 /\ ~ IsPort(l.cells[d])
                                                      /\ l.cells[d].module = l.cells[c].module),
                       LAMBDA d : CellDegree(l, d))
  IN  IF busiest # None THEN layer[busiest]
      ELSE IF \E d \in DOMAIN l.cells : l.cells[d].ext THEN 1 ELSE layer[c]

\* What is outside comes first, the rest a column further right.
Outside(l, layer) ==
  IF \A c \in DOMAIN l.cells : ~ l.cells[c].ext THEN layer
  ELSE Computed([c \in DOMAIN layer |-> IF l.cells[c].ext THEN 0 ELSE layer[c] + 1])
Joined(l, layer) ==
  Computed([c \in DOMAIN layer |->
    IF CellDegree(l, c) > 0 \/ l.cells[c].ext THEN layer[c] ELSE Beside(l, layer, c)])
PortsLast(l, layer) ==
  LET last == Max({0} \cup {layer[c] : c \in {d \in DOMAIN layer : l.cells[d].kind # "out"}})
  IN  Computed([c \in DOMAIN layer |-> IF l.cells[c].kind = "out" THEN last + 1 ELSE layer[c]])

Layers(l) == PortsLast(l, Joined(l, Outside(l, Shorten(l, Depths(l)))))

(***************************************************************************)
(* split: a piece [from, to, fromOff, toOff] for every column an edge       *)
(* crosses, through a lane in each column between.  pieces are an edge's.   *)
(***************************************************************************)
Lane == [name |-> [lane |-> 0], module |-> [lane |-> 0], kind |-> "dummy", ext |-> FALSE, w |-> 0, h |-> LaneHeight]

Split(l, layer) ==
  LET Cut(s, e) ==
        LET n == Max({1, layer[e.to] - layer[e.from]})
            made == Len(s.cells)
            at(i) == IF i = 0 THEN e.from ELSE IF i = n THEN e.to ELSE made + i
            off(i) == IF i = 0 THEN e.fromOff ELSE IF i = n THEN e.toOff ELSE LaneHeight \div 2
        IN  [s EXCEPT
               !.cells = @ \o [i \in 1..(n - 1) |-> Lane],
               !.layer = @ \o [i \in 1..(n - 1) |-> layer[e.from] + i],
               !.segs = @ \o [i \in 1..n |-> [from |-> at(i - 1), to |-> at(i), fromOff |-> off(i - 1), toOff |-> off(i)]],
               !.pieces = Append(@, [i \in 1..n |-> Len(s.segs) + i])]
  IN  Steps(Cut, [cells |-> l.cells, layer |-> layer, segs |-> <<>>, pieces |-> <<>>, edges |-> l.edges], l.edges)

(***************************************************************************)
(* orderLayers: the place of every cell in its column.  s is a lay that was *)
(* split; beside are the cells a cell is connected to, once per piece.      *)
(***************************************************************************)
Neighbours(s) ==
  [pred |-> Computed([c \in DOMAIN s.cells |->
      Steps(LAMBDA ns, g : IF g.to = c THEN Append(ns, g.from) ELSE ns, <<>>, s.segs)]),
   succ |-> Computed([c \in DOMAIN s.cells |->
      Steps(LAMBDA ns, g : IF g.from = c THEN Append(ns, g.to) ELSE ns, <<>>, s.segs)])]
Alone(nb, c) == nb.pred[c] = <<>> /\ nb.succ[c] = <<>>

Columns(s, order) ==
  Computed([i \in 1..(Max({0} \cup Range(s.layer)) + 1) |->
     SortSeq(SelectSeq(Cells(s), LAMBDA c : s.layer[c] = i - 1), LAMBDA a, b : order[a] < order[b])])

Renumber(o, j, col) ==
  [cols |-> [o.cols EXCEPT ![j] = col],
   order |-> Steps(LAMBDA r, i : [r EXCEPT ![col[i]] = i - 1], o.order, [i \in DOMAIN col |-> i])]

\* The mean place of a cell's neighbours, <<sum, number>>; <<1, 0>> is last.
Mean(nb, near, o, c, i) ==
  IF Alone(nb, c) THEN <<1, 0>>
  ELSE IF near[c] = <<>> THEN <<i - 1, 1>>
  ELSE <<Steps(LAMBDA sum, n : sum + o.order[n], 0, near[c]), Len(near[c])>>

Sweep(nb, near, o, j) ==
  LET col == o.cols[j]
      key == Computed([i \in DOMAIN col |-> Mean(nb, near, o, col[i], i)])
      before(i, k) == key[i][1] * key[k][2] < key[k][1] * key[i][2]
      places == SortSeq([i \in DOMAIN col |-> i], LAMBDA i, k : before(i, k) \/ (~ before(k, i) /\ i < k))
  IN  Renumber(o, j, Computed([i \in DOMAIN col |-> col[places[i]]]))

PairsCrossed(order, a, b) == Cardinality({p \in (DOMAIN a) \X (DOMAIN b) : order[a[p[1]]] > order[b[p[2]]]})
Cross(nb, order, v, w) == PairsCrossed(order, nb.pred[v], nb.pred[w]) + PairsCrossed(order, nb.succ[v], nb.succ[w])

Swap(nb, o, j, i) ==
  LET v == o.cols[j][i]
      w == o.cols[j][i + 1]
  IN  IF Alone(nb, v) \/ Alone(nb, w) \/ Cross(nb, o.order, w, v) >= Cross(nb, o.order, v, w) THEN o
      ELSE Renumber(o, j, [o.cols[j] EXCEPT ![i] = w, ![i + 1] = v])

RECURSIVE Transpose(_, _, _)
Transpose(nb, o, n) ==
  LET Along(p, j) == Steps(LAMBDA q, i : Swap(nb, q, j, i), p, [i \in 1..(Len(o.cols[j]) - 1) |-> i])
      swapped == Steps(Along, o, [j \in DOMAIN o.cols |-> j])
  IN  IF n = 0 \/ swapped = o THEN o ELSE Transpose(nb, swapped, n - 1)

Crossings(nb, o) ==
  Steps(LAMBDA sum, col :
             sum + MapThenSumSet(LAMBDA p : PairsCrossed(o.order, nb.succ[col[p[1]]], nb.succ[col[p[2]]]),
                                 {p \in (DOMAIN col) \X (DOMAIN col) : p[1] < p[2]}),
           0, o.cols)

Reordered(nb, kept, o) ==
  LET now == Crossings(nb, o)
  IN  IF now < kept.fewest THEN [o |-> o, best |-> o.order, fewest |-> now] ELSE [kept EXCEPT !.o = o]

BestOrder(nb, start) ==
  LET n == Len(start.cols)
      Swept(o, r) == IF r % 2 = 0 THEN Steps(LAMBDA p, j : Sweep(nb, nb.pred, p, j + 1), o, [j \in 1..(n - 1) |-> j])
                     ELSE Steps(LAMBDA p, j : Sweep(nb, nb.succ, p, n - j), o, [j \in 1..(n - 1) |-> j])
  IN  Steps(LAMBDA kept, r : Reordered(nb, kept, Transpose(nb, Swept(kept.o, r), 8)),
            [o |-> start, best |-> start.order, fewest |-> Crossings(nb, start)], [r \in 1..24 |-> r - 1]).best

OrderLayers(s) ==
  LET first == Computed(Cells(s))
  IN  s @@ [order |-> BestOrder(Neighbours(s), [cols |-> Columns(s, first), order |-> first])]

\* spread: the arrows reaching a node arrive at their own heights.
Spread(s) ==
  LET first(i, k) ==
        LET a == s.segs[i].from
            b == s.segs[k].from
        IN  \/ s.layer[a] > s.layer[b]
            \/ s.layer[a] = s.layer[b] /\ s.order[a] < s.order[b]
            \/ s.layer[a] = s.layer[b] /\ s.order[a] = s.order[b] /\ i < k
      arriving(c) == SortSeq(SelectSeq([k \in DOMAIN s.segs |-> k], LAMBDA k : s.segs[k].to = c), first)
      off(k) ==
        LET ss == arriving(s.segs[k].to)
            n == Len(ss)
            j == CHOOSE i \in DOMAIN ss : ss[i] = k
        IN  IF s.cells[s.segs[k].to].kind # "node" \/ n < 2 THEN s.segs[k].toOff
            ELSE Icon \div 2 + ((2 * j - 1 - n) * Min({120, (Icon - 80) \div (n - 1)})) \div 2
  IN  [s EXCEPT !.segs = Computed([k \in DOMAIN @ |-> [@[k] EXCEPT !.toOff = off(k)]])]

-----------------------------------------------------------------------------
(***************************************************************************)
(* placeY: the top of every cell, keeping the order of its column.          *)
(***************************************************************************)
GapBetween(a, b) == IF "dummy" \in {a.kind, b.kind} \/ IsPort(a) \/ IsPort(b) THEN 100 ELSE 280

\* Each cell's top when the first of its column is at 0.
Offsets(s, col) ==
  Steps(LAMBDA off, i : Append(off, off[i] + s.cells[col[i]].h + GapBetween(s.cells[col[i]], s.cells[col[i + 1]])),
           <<0>>, [i \in 1..(Len(col) - 1) |-> i])

Stacked(s, cols, y) ==
  Steps(LAMBDA ys, col : Steps(LAMBDA z, i : [z EXCEPT ![col[i]] = Offsets(s, col)[i]], ys, [i \in DOMAIN col |-> i]),
           y, cols)

\* pack: cells that would overlap merge into a block at the mean of what they want.
Base(b) == b.swd \div b.sw
RECURSIVE Merged(_)
Merged(bs) ==
  IF Len(bs) < 2 THEN bs
  ELSE LET p == bs[Len(bs) - 1]
           q == bs[Len(bs)]
       IN  IF Base(q) >= Base(p) THEN bs
           ELSE Merged(Append(SubSeq(bs, 1, Len(bs) - 2),
                              [first |-> p.first, last |-> q.last, sw |-> p.sw + q.sw, swd |-> p.swd + q.swd]))

Pack(s, y, col, want, weight) ==
  LET off == Offsets(s, col)
      one(i) == [first |-> i, last |-> i, sw |-> weight[i], swd |-> weight[i] * (want[i] - off[i])]
      bs == Steps(LAMBDA blocks, i : Merged(Append(blocks, one(i))), <<>>, [i \in DOMAIN col |-> i])
  IN  Steps(LAMBDA ys, b : Steps(LAMBDA z, i : [z EXCEPT ![col[i]] = Base(b) + off[i]], ys, [k \in 1..(b.last - b.first + 1) |-> b.first + k - 1]),
               y, bs)

\* Where the pieces of one side would have a cell.
Pulls(s, y, c, side) ==
  Steps(LAMBDA ps, g : IF side = "pred" /\ g.to = c THEN Append(ps, y[g.from] + g.fromOff - g.toOff)
                          ELSE IF side = "succ" /\ g.from = c THEN Append(ps, y[g.to] + g.toOff - g.fromOff) ELSE ps,
           <<>>, s.segs)

Align(s, y, col, sides) ==
  LET pulls == Computed([i \in DOMAIN col |-> Steps(LAMBDA ps, side : ps \o Pulls(s, y, col[i], side), <<>>, sides)])
      cell(i) == s.cells[col[i]]
      want(i) ==
        IF pulls[i] # <<>> THEN Steps(LAMBDA sum, p : sum + p, 0, pulls[i]) \div Len(pulls[i])
        ELSE IF i = 1 THEN y[col[i]] ELSE y[col[i - 1]] + cell(i - 1).h + GapBetween(cell(i - 1), cell(i))
      weight(i) == IF pulls[i] = <<>> THEN 1 ELSE (IF cell(i).kind = "dummy" THEN 400 ELSE 100) * Len(pulls[i])
  IN  Pack(s, y, col, Computed([i \in DOMAIN col |-> want(i)]), Computed([i \in DOMAIN col |-> weight(i)]))

\* straighten: lanes and ports take the height of an end, where all have room.
Fits(s, cols, y, c, top) ==
  LET col == cols[s.layer[c] + 1]
      i == CHOOSE k \in DOMAIN col : col[k] = c
  IN  /\ i > 1 => y[col[i - 1]] + s.cells[col[i - 1]].h + GapBetween(s.cells[col[i - 1]], s.cells[c]) <= top
      /\ i < Len(col) => top + s.cells[c].h + GapBetween(s.cells[c], s.cells[col[i + 1]]) <= y[col[i + 1]]

StraightenEdge(s, cols, y, k) ==
  LET e == s.edges[k]
      firstSeg == s.segs[Head(s.pieces[k])]
      lastSeg == s.segs[Last(s.pieces[k])]
      between == [i \in 1..(Len(s.pieces[k]) - 1) |-> s.segs[s.pieces[k][i + 1]].from]
      fromY == y[e.from] + firstSeg.fromOff
      toY == y[e.to] + lastSeg.toOff
      lanes == IF IsPort(s.cells[e.from]) THEN Append(between, e.from)
               ELSE IF IsPort(s.cells[e.to]) THEN Append(between, e.to) ELSE between
      heights == IF IsPort(s.cells[e.from]) THEN <<toY>> ELSE IF IsPort(s.cells[e.to]) THEN <<fromY>> ELSE <<fromY, toY>>
      top(h, c) == h - s.cells[c].h \div 2
      fitting == SelectSeq(heights, LAMBDA h : \A c \in Range(lanes) : Fits(s, cols, y, c, top(h, c)))
  IN  IF fitting = <<>> THEN y ELSE Steps(LAMBDA ys, c : [ys EXCEPT ![c] = top(Head(fitting), c)], y, lanes)

Straighten(s, cols, y) ==
  Steps(LAMBDA ys, r : Steps(LAMBDA z, k : StraightenEdge(s, cols, z, k), ys, [k \in DOMAIN s.edges |-> k]),
           y, <<1, 2, 3>>)

FromTop(y) ==
  LET high == Min(Range(y))
  IN  Computed([c \in DOMAIN y |-> y[c] - high])

PlaceY(s) ==
  LET cols == Columns(s, s.order)
      n == Len(cols)
      Right(y) == Steps(LAMBDA ys, j : Align(s, ys, cols[j + 1], <<"pred">>), y, [j \in 1..(n - 1) |-> j])
      Back(y) == Steps(LAMBDA ys, j : Align(s, ys, cols[n - j], <<"succ">>), y, [j \in 1..(n - 1) |-> j])
      Both(y) == Steps(LAMBDA ys, col : Align(s, ys, col, <<"pred", "succ">>), y, cols)
      settled == Steps(LAMBDA y, r : IF r <= 8 THEN Back(Right(y)) ELSE Both(y),
                       Stacked(s, cols, Computed([c \in DOMAIN s.cells |-> 0])), [r \in 1..12 |-> r])
  IN  s @@ [y |-> FromTop(Straighten(s, cols, settled))]

-----------------------------------------------------------------------------
(***************************************************************************)
(* placeX: the left of every cell, and the points of every piece: across at *)
(* its source's height, along its track, across at its target's.            *)
(***************************************************************************)
StartY(s, y, k) == y[s.segs[k].from] + s.segs[k].fromOff
EndY(s, y, k) == y[s.segs[k].to] + s.segs[k].toOff
Pixel(h) == (h + 5) \div 10

\* Pieces leaving one point share a track, as do those that alone reach one.
Bundles(s, y, j) ==
  LET bent == SelectSeq([k \in DOMAIN s.segs |-> k],
                LAMBDA k : s.layer[s.segs[k].from] = j - 1 /\ StartY(s, y, k) - EndY(s, y, k) \notin -4..4)
      out(k) == <<"from", s.segs[k].from, Pixel(StartY(s, y, k))>>
      in(k) == <<"to", s.segs[k].to, Pixel(EndY(s, y, k))>>
      many(end(_), k) == \E i \in Range(bent) : i # k /\ end(i) = end(k)
      key(k) == IF many(out, k) THEN out(k) ELSE IF many(in, k) THEN in(k) ELSE <<"own", k, 0>>
      keys == Steps(LAMBDA ks, k : IF key(k) \in Range(ks) THEN ks ELSE Append(ks, key(k)), <<>>, bent)
      sum(ks, h(_, _, _)) == Steps(LAMBDA t, k : t + h(s, y, k), 0, ks)
      bundle(ks) ==
        LET ends == {StartY(s, y, k) : k \in Range(ks)} \cup {EndY(s, y, k) : k \in Range(ks)}
        IN  [pieces |-> ks, lo |-> Min(ends), hi |-> Max(ends), ref |-> sum(ks, StartY) \div Len(ks),
             down |-> sum(ks, EndY) > sum(ks, StartY)]
  IN  Computed([i \in DOMAIN keys |-> bundle(SelectSeq(bent, LAMBDA k : key(k) = keys[i]))])

\* Mutant: bundles whose stretches overlap share a track.
TracksShared(bs) == Computed([i \in DOMAIN bs |-> [bs[i] EXCEPT !.track = 0]])

Tracks(bs) ==
  Steps(LAMBDA done, b :
             Append(done, [b EXCEPT !.track = Max({0} \cup {p.track + 1 : p \in {q \in Range(done) :
                                                  q.lo < b.hi + 100 /\ b.lo < q.hi + 100}})]),
           <<>>, bs)

Sorted(bs) ==
  LET before(a, b) == IF bs[a].down # bs[b].down THEN bs[a].down
                      ELSE IF bs[a].ref = bs[b].ref THEN a < b
                      ELSE (bs[a].ref > bs[b].ref) = bs[a].down
      sorted == SortSeq([i \in DOMAIN bs |-> i], before)
  IN  Computed([i \in DOMAIN sorted |-> bs[sorted[i]] @@ [track |-> 0]])

Out(s, x, c) ==
  CASE s.cells[c].kind = "node" -> x[c] + (Wide + Icon) \div 2
    [] s.cells[c].kind = "frame" -> x[c] + s.cells[c].w
    [] OTHER -> x[c] + s.cells[c].w \div 2
Into(s, x, c) ==
  CASE s.cells[c].kind = "node" -> x[c] + (Wide - Icon) \div 2
    [] s.cells[c].kind = "frame" -> x[c]
    [] OTHER -> x[c] + s.cells[c].w \div 2

\* One column and the tracks right of it, from the left p.w.
Place(s, cols, p, j, bs) ==
  LET width == Max({0} \cup {s.cells[c].w : c \in Range(cols[j])})
      n == Max({0} \cup {b.track + 1 : b \in Range(bs)})
      apart == j = 1 /\ cols[1] # <<>> /\ s.cells[Head(cols[1])].ext
      gap == IF j = Len(cols) THEN 0 ELSE IF apart THEN 700 + n * 120 ELSE Max({400, (n + 1) * 120})
      left == p.w + width + (IF apart THEN 120 ELSE (gap - (n - 1) * 120) \div 2)
  IN  [x |-> Steps(LAMBDA x, c : [x EXCEPT ![c] = IF s.cells[c].kind = "in" THEN 0
                                                    ELSE p.w + (width - s.cells[c].w) \div 2], p.x, cols[j]),
       track |-> Steps(LAMBDA t, b : Steps(LAMBDA u, k : [u EXCEPT ![k] = left + b.track * 120], t, b.pieces),
                          p.track, bs),
       w |-> p.w + width + gap]

Points(s, placed, k) ==
  LET from == [x |-> Out(s, placed.x, s.segs[k].from), y |-> StartY(s, s.y, k)]
      into == [x |-> Into(s, placed.x, s.segs[k].to), y |-> EndY(s, s.y, k)]
      track == placed.track[k]
  IN  IF track = None THEN <<from, [into EXCEPT !.y = from.y]>>
      ELSE <<from, [x |-> track, y |-> from.y], [x |-> track, y |-> into.y], into>>
Pointed(s, placed) ==
  s @@ [x |-> placed.x, w |-> placed.w, pts |-> Computed([k \in DOMAIN s.segs |-> Points(s, placed, k)]),
        h |-> Max({s.y[c] + s.cells[c].h : c \in DOMAIN s.y})]

PlaceX(s) ==
  LET cols == Columns(s, s.order)
      nowhere == [x |-> Computed([c \in DOMAIN s.cells |-> 0]), track |-> Computed([k \in DOMAIN s.segs |-> None]), w |-> 0]
  IN  Pointed(s, Steps(LAMBDA p, j : Place(s, cols, p, j, Tracks(Sorted(Bundles(s, s.y, j)))), nowhere, [j \in DOMAIN cols |-> j]))

Run(l) == PlaceX(PlaceY(Spread(OrderLayers(Split(l, Layers(l))))))

-----------------------------------------------------------------------------
(***************************************************************************)
(* layout: the outer lay first, for the edges that close a cycle there,     *)
(* then every group on its own, with a port where an edge crosses its       *)
(* frame, then the outer lay with the groups as blocks.                     *)
(***************************************************************************)
NodeCell(n, ext) == [name |-> [node |-> n.id], module |-> [node |-> n.module], kind |-> "node", ext |-> ext,
                     w |-> Wide, h |-> Height(n.lines)]
FrameCell(f) == [name |-> [group |-> f.id], module |-> [group |-> f.id], kind |-> "frame", ext |-> FALSE, w |-> 0, h |-> 0]
PortCell(id, kind) == [name |-> [node |-> id], module |-> [node |-> id], kind |-> kind, ext |-> FALSE, w |-> 0, h |-> LaneHeight]

Named(cells, name, kind) == CHOOSE c \in DOMAIN cells : cells[c].name = name /\ cells[c].kind = kind
FrameOf(pic, id) == {k \in DOMAIN pic.frames : \E m \in Range(pic.frames[k].members) : m.id = id}
In(f, id) == \E m \in Range(f.members) : m.id = id
CellEdge(from, to, fromOff, toOff) == [from |-> from, to |-> to, fromOff |-> fromOff, toOff |-> toOff, rev |-> FALSE]

Outer(pic) ==
  LET free == SelectSeq(pic.nodes, LAMBDA n : FrameOf(pic, n.id) = {})
      framed == SelectSeq(pic.frames, LAMBDA f : f.members # <<>>)
      cells == Computed([i \in DOMAIN free |-> NodeCell(free[i], free[i].ext)] \o [i \in DOMAIN framed |-> FrameCell(framed[i])])
      cellOf(id) == IF FrameOf(pic, id) = {} THEN Named(cells, [node |-> id], "node")
                    ELSE Named(cells, [group |-> pic.frames[CHOOSE k \in FrameOf(pic, id) : TRUE].id], "frame")
      anchor(c) == IF cells[c].kind = "node" THEN Icon \div 2 ELSE 0
      across == SelectSeq([k \in DOMAIN pic.arrows |-> k],
                          LAMBDA k : cellOf(pic.arrows[k].from) # cellOf(pic.arrows[k].to))
      edge(k) == LET a == cellOf(pic.arrows[k].from)
                     b == cellOf(pic.arrows[k].to)
                 IN  CellEdge(a, b, anchor(a), anchor(b))
  IN  [lay |-> BreakCycles([cells |-> cells, edges |-> Computed([i \in DOMAIN across |-> edge(across[i])])]),
       across |-> across]

\* The number of an arrow's edge in the outer lay, 0 within a frame.
AcrossOf(outer, k) == IF \E i \in DOMAIN outer.across : outer.across[i] = k
                      THEN CHOOSE i \in DOMAIN outer.across : outer.across[i] = k ELSE 0
Turned(outer, k) == AcrossOf(outer, k) # 0 /\ outer.lay.edges[AcrossOf(outer, k)].rev

\* The lay of one frame; via is the number of every arrow's edge in it, or 0.
Port(l, id, kind) ==
  LET had == {c \in DOMAIN l.cells : l.cells[c] = PortCell(id, kind)}
      node == Named(l.cells, [node |-> id], "node")
      new == Len(l.cells) + 1
  IN  IF had # {}
      THEN [l EXCEPT !.via = Append(@, CHOOSE e \in DOMAIN l.edges : {l.edges[e].from, l.edges[e].to} \cap had # {})]
      ELSE [cells |-> Append(l.cells, PortCell(id, kind)),
            edges |-> Append(l.edges, IF kind = "in" THEN CellEdge(new, node, LaneHeight \div 2, Icon \div 2)
                                      ELSE CellEdge(node, new, Icon \div 2, LaneHeight \div 2)),
            via |-> Append(l.via, Len(l.edges) + 1)]

Inner(pic, outer, f) ==
  LET Draw(l, k) ==
        LET a == pic.arrows[k]
            from == IF Turned(outer, k) THEN a.to ELSE a.from
            to == IF Turned(outer, k) THEN a.from ELSE a.to
        IN  IF In(f, a.from) /\ In(f, a.to)
            THEN [l EXCEPT !.edges = Append(@, CellEdge(Named(l.cells, [node |-> a.from], "node"),
                                                        Named(l.cells, [node |-> a.to], "node"), Icon \div 2, Icon \div 2)),
                           !.via = Append(@, Len(l.edges) + 1)]
            ELSE IF AcrossOf(outer, k) # 0 /\ In(f, to) THEN Port(l, to, "in")
            ELSE IF AcrossOf(outer, k) # 0 /\ In(f, from) THEN Port(l, from, "out")
            ELSE [l EXCEPT !.via = Append(@, 0)]
      l == Steps(Draw, [cells |-> Computed([i \in DOMAIN f.members |-> NodeCell(f.members[i], FALSE)]),
                             edges |-> <<>>, via |-> <<>>], [k \in DOMAIN pic.arrows |-> k])
  IN  Run(BreakCycles([cells |-> l.cells, edges |-> l.edges])) @@ [via |-> l.via]

Number(pic, id) == CHOOSE k \in DOMAIN pic.frames : pic.frames[k].id = id

\* The outer lay with its frames' sizes, and its edges' ends at the frames' ports.
Framed(pic, outer, inner) ==
  LET cells == outer.lay.cells
      lay(c) == inner[Number(pic, cells[c].name.group)]
      sized(c) == IF cells[c].kind = "node" THEN cells[c]
                  ELSE [cells[c] EXCEPT !.w = lay(c).w + 2 * Pad, !.h = lay(c).h + 2 * Pad + Title]
      port(c, i, end) == IF cells[c].kind = "node" THEN Icon \div 2
                         ELSE Title + Pad + LaneHeight \div 2 + lay(c).y[lay(c).edges[lay(c).via[outer.across[i]]][end]]
  IN  [cells |-> Computed([c \in DOMAIN cells |-> sized(c)]),
       edges |-> Computed([i \in DOMAIN outer.lay.edges |->
          [outer.lay.edges[i] EXCEPT !.fromOff = port(outer.lay.edges[i].from, i, "to"),
                                     !.toOff = port(outer.lay.edges[i].to, i, "from")]])]

Moved(pts, by) == [i \in DOMAIN pts |-> [x |-> pts[i].x + by.x, y |-> pts[i].y + by.y]]
Route(l, k) == FlattenSeq([i \in DOMAIN l.pieces[k] |-> l.pts[l.pieces[k][i]]])

\* Where the outer lay, and the frame a node is in, have it and its part of arrow k.
Frame(pic, lay, i) ==
  LET c == Named(lay.cells, [group |-> pic.frames[i].id], "frame")
  IN  [x |-> lay.x[c], y |-> lay.y[c], w |-> lay.cells[c].w, h |-> lay.cells[c].h]
Origin(f) == [x |-> f.x + Pad, y |-> f.y + Title + Pad]
Spot(l, id, by) ==
  LET c == Named(l.cells, [node |-> id], "node")
  IN  [x |-> by.x + l.x[c] + Wide \div 2, y |-> by.y + l.y[c] + Icon \div 2]
At(pic, inner, lay, id) ==
  IF FrameOf(pic, id) = {} THEN Spot(lay, id, [x |-> 0, y |-> 0])
  ELSE LET i == CHOOSE f \in FrameOf(pic, id) : TRUE IN Spot(inner[i], id, Origin(Frame(pic, lay, i)))
InFrame(pic, inner, lay, id, k) ==
  IF FrameOf(pic, id) = {} THEN <<>>
  ELSE LET i == CHOOSE f \in FrameOf(pic, id) : TRUE
       IN  Moved(Route(inner[i], inner[i].via[k]), Origin(Frame(pic, lay, i)))

Path(pic, outer, inner, lay, k) ==
  LET a == pic.arrows[k]
      i == AcrossOf(outer, k)
      own == CHOOSE f \in FrameOf(pic, a.from) : TRUE
      rev == IF i = 0 THEN inner[own].edges[inner[own].via[k]].rev ELSE outer.lay.edges[i].rev
      part(id) == InFrame(pic, inner, lay, id, k)
      run == IF i = 0 THEN part(a.from)
             ELSE part(IF rev THEN a.to ELSE a.from) \o Route(lay, i) \o part(IF rev THEN a.from ELSE a.to)
  IN  IF rev THEN Reverse(run) ELSE run

Assembled(pic, outer, inner, lay) ==
  [at |-> [n \in {m.id : m \in Range(pic.nodes)} |-> At(pic, inner, lay, n)],
   frames |-> Computed([i \in DOMAIN pic.frames |-> IF pic.frames[i].members = <<>> THEN None ELSE Frame(pic, lay, i)]),
   paths |-> Computed([k \in DOMAIN pic.arrows |-> Path(pic, outer, inner, lay, k)]),
   lays |-> <<lay>> \o SelectSeq(inner, LAMBDA l : l # None)]

Nested(pic, outer, inner) == Assembled(pic, outer, inner, Run(Framed(pic, outer, inner)))
Outermost(pic, outer) ==
  Nested(pic, outer, Computed([i \in DOMAIN pic.frames |->
    IF pic.frames[i].members = <<>> THEN None ELSE Inner(pic, outer, pic.frames[i])]))
Layered(pic) == Outermost(pic, Outer(pic))

-----------------------------------------------------------------------------
(***************************************************************************)
(* Where every drawn node has a place of its own, the frames fit around     *)
(* their members and what fell inside one of others' is pushed below it.    *)
(***************************************************************************)
Corners(x0, y0, x1, y1) == [x0 |-> x0, y0 |-> y0, x1 |-> x1, y1 |-> y1]
BoxOf(n, c) == Corners(c.x - Wide \div 2, c.y - Icon \div 2, c.x + Wide \div 2, c.y - Icon \div 2 + Height(n.lines))
CornersOf(b) == Corners(b.x, b.y, b.x + b.w, b.y + b.h)
Around(bs) == Corners(Min({b.x0 : b \in bs}), Min({b.y0 : b \in bs}), Max({b.x1 : b \in bs}), Max({b.y1 : b \in bs}))
Padded(b) == [x |-> b.x0 - Pad, y |-> b.y0 - Pad - Title, w |-> b.x1 - b.x0 + 2 * Pad, h |-> b.y1 - b.y0 + 2 * Pad + Title]

FitFrames(pic, at) ==
  Computed([i \in DOMAIN pic.frames |->
    LET members == Range(pic.frames[i].members)
    IN  IF members = {} THEN None ELSE Padded(Around({BoxOf(m, at[m.id]) : m \in members}))])

Respace(pic, at) ==
  LET column(x) == SortSeq(SelectSeq([i \in DOMAIN pic.nodes |-> i], LAMBDA i : at[pic.nodes[i].id].x = x),
                     LAMBDA i, j : LET a == at[pic.nodes[i].id].y
                                       b == at[pic.nodes[j].id].y
                                   IN  a < b \/ (a = b /\ i < j))
      Apart(s, i) == LET n == pic.nodes[i]
                         top == Max({s.below, s.at[n.id].y - Icon \div 2})
                     IN  [at |-> [s.at EXCEPT ![n.id].y = top + Icon \div 2], below |-> top + Height(n.lines) + 280]
      xs == SetToSeq({at[n.id].x : n \in Range(pic.nodes)})
      far == Min({at[n.id].y : n \in Range(pic.nodes)}) - Icon
  IN  Steps(LAMBDA a, x : Steps(Apart, [at |-> a, below |-> far], column(x)).at, at, xs)

PushIntruders(pic, at) ==
  LET frames == FitFrames(pic, at)
      Below(i, a, n) ==
        LET f == frames[i]
            b == BoxOf(n, a[n.id])
            fell == /\ ~ In(pic.frames[i], n.id)
                    /\ a[n.id].x >= f.x /\ a[n.id].x <= f.x + f.w
                    /\ b.y1 >= f.y /\ b.y0 <= f.y + f.h
        IN  IF fell THEN [a EXCEPT ![n.id].y = f.y + f.h + 280 + Icon \div 2] ELSE a
      pushed == Steps(LAMBDA a, i : Steps(LAMBDA b, n : Below(i, b, n), a, pic.nodes), at,
                         SelectSeq([i \in DOMAIN frames |-> i], LAMBDA i : frames[i] # None))
  IN  IF pushed = at THEN at ELSE Respace(pic, pushed)

Placed(pic) ==
  LET saved == Steps(LAMBDA at, n : (n.id :> [x |-> ((n.at.x + 118) * 15) \div 2, y |-> ((n.at.y + 70) * 15) \div 2]) @@ at,
                        <<>>, pic.nodes)
      at == Steps(LAMBDA a, i : PushIntruders(pic, a), saved, <<1, 2, 3, 4, 5>>)
  IN  [at |-> at, frames |-> FitFrames(pic, at), paths |-> Computed([k \in DOMAIN pic.arrows |-> <<>>]), lays |-> <<>>]

-----------------------------------------------------------------------------
\* outer: the cloud around what is inside it, and all of it within the margins.
NoBox == [x |-> 0, y |-> 0, w |-> 0, h |-> 0]
Cloud(pic, d, drawn, region) ==
  LET inside == {BoxOf(n, d.at[n.id]) : n \in {m \in Range(pic.nodes) : ~ m.ext}} \cup drawn.frames \cup drawn.paths
      inner == Padded(Around(inside))
      wider == [x |-> inner.x - 160, y |-> inner.y - 160 - Title, w |-> inner.w + 320, h |-> inner.h + 320 + Title]
  IN  IF pic.provider = "" THEN [cloud |-> NoBox, region |-> NoBox]
      ELSE IF region THEN [cloud |-> wider, region |-> inner] ELSE [cloud |-> inner, region |-> NoBox]

Within(pic, d, region) ==
  LET points(ks) == UNION {{Corners(p.x, p.y, p.x, p.y) : p \in Range(d.paths[k])} : k \in ks}
      ext(k) == \E n \in Range(pic.nodes) : n.id = pic.arrows[k].from /\ n.ext
      frames == {CornersOf(f) : f \in Range(d.frames) \ {None}}
      around == Cloud(pic, d, [frames |-> frames, paths |-> points({k \in DOMAIN pic.arrows : ~ ext(k)})], region)
      all == Around({BoxOf(n, d.at[n.id]) : n \in Range(pic.nodes)} \cup frames \cup points(DOMAIN pic.arrows)
                      \cup (IF pic.provider = "" THEN {} ELSE {CornersOf(around.cloud)}))
      by == [x |-> Margin - all.x0, y |-> Margin - all.y0]
      box(b) == [b EXCEPT !.x = @ + by.x, !.y = @ + by.y]
  IN  [d EXCEPT !.at = [id \in DOMAIN @ |-> box(@[id])],
                !.frames = Computed([i \in DOMAIN @ |-> IF @[i] = None THEN None ELSE box(@[i])]),
                !.paths = Computed([k \in DOMAIN @ |-> Moved(@[k], by)])]
      @@ [cloud |-> box(around.cloud), region |-> box(around.region),
          w |-> all.x1 + by.x + Margin, h |-> all.y1 + by.y + Margin]

Layout(pic, region) ==
  IF pic.nodes = <<>>
  THEN [at |-> <<>>, frames |-> <<>>, paths |-> <<>>, lays |-> <<>>, cloud |-> NoBox, region |-> NoBox,
        w |-> 2 * Margin, h |-> 2 * Margin]
  ELSE Within(pic, IF \A n \in Range(pic.nodes) : n.at # None THEN Placed(pic) ELSE Layered(pic), region)

Drawn(sp, pic) == [picture |-> pic, drawn |-> Layout(pic, sp.region)]
Draw(sp) == Drawn(sp, Build(sp))
=============================================================================
