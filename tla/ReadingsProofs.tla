---------------------------- MODULE ReadingsProofs ----------------------------
(***************************************************************************)
(* Proofs about Readings, for every declaration, book and set of scouters.  *)
(***************************************************************************)
EXTENDS Readings, PropagationProofs, LibraryProofs

(***************************************************************************)
(* A sum of numbers is a number, whatever it is written over.               *)
(***************************************************************************)
Sums(w, S) == IsFiniteSet(S) /\ \A x \in S : w[x] \in Int

LEMMA FoldIsNumber ==
  ASSUME NEW S, NEW w, Sums(w, S), NEW g, Adds(g, w, S)
  PROVE  g[S] \in Int
<1>1. S \in SUBSET S
  OBVIOUS
<1> QED BY <1>1, SumInt DEF Sums

LEMMA SumIs ==
  ASSUME NEW w, NEW S, Sums(w, S)
  PROVE  \E g : Adds(g, w, S) /\ SumFunctionOnSet(w, S) = g[S]
<1> DEFINE P(g) == g = [s \in SUBSET S |-> IF s = {} THEN 0
                                   ELSE w[CHOOSE x \in s : TRUE] + g[s \ {CHOOSE x \in s : TRUE}]]
           h == CHOOSE g : P(g)
<1>1. ASSUME NEW g  PROVE P(g) <=> Adds(g, w, S)
  BY DEF Adds, Pick
<1>2. SumFunctionOnSet(w, S) = h[S]
  BY DEF SumFunctionOnSet, FoldFunctionOnSet, MapThenFoldSet
<1> HIDE DEF P
<1>3. \E g : P(g)
  BY <1>1, SumExists DEF Sums
<1>4. P(h)
  BY <1>3
<1> QED BY <1>1, <1>2, <1>4

LEMMA SumIsNumber ==
  ASSUME NEW w, NEW S, Sums(w, S)
  PROVE  SumFunctionOnSet(w, S) \in Int
BY SumIs, FoldIsNumber

\* It depends on the weights of what it is over, and takes any of them first.
LEMMA SumSame ==
  ASSUME NEW w, NEW u, NEW S, Sums(w, S), \A x \in S : u[x] = w[x]
  PROVE  SumFunctionOnSet(u, S) = SumFunctionOnSet(w, S)
<1>1. Sums(u, S)
  BY DEF Sums
<1>2. PICK g : Adds(g, u, S) /\ SumFunctionOnSet(u, S) = g[S]
  BY <1>1, SumIs
<1>3. PICK h : Adds(h, w, S) /\ SumFunctionOnSet(w, S) = h[S]
  BY SumIs
<1> DEFINE b == [x \in S |-> x]
<1>4. Renames(b, S, S) /\ \A x \in S : w[b[x]] = u[x]
  BY DEF Renames
<1> HIDE DEF b
<1>5. g[S] = h[S]
  BY <1>2, <1>3, <1>4, SumMoves DEF Sums
<1> QED BY <1>2, <1>3, <1>5

LEMMA SumSplit ==
  ASSUME NEW w, NEW S, Sums(w, S), NEW y \in S
  PROVE  SumFunctionOnSet(w, S) = w[y] + SumFunctionOnSet(w, S \ {y})
<1> DEFINE R == S \ {y}
<1>1. IsFiniteSet(R) /\ Sums(w, R) /\ SUBSET R \subseteq SUBSET S
  BY FS_RemoveElement DEF Sums
<1>2. PICK g : Adds(g, w, S) /\ SumFunctionOnSet(w, S) = g[S]
  BY SumIs
<1> HIDE DEF R
<1>3. PICK h : Adds(h, w, R) /\ SumFunctionOnSet(w, R) = h[R]
  BY <1>1, SumIs
<1> DEFINE f == [s \in SUBSET R |-> g[s]]
<1>4. Adds(f, w, R)
  <2>1. ASSUME NEW s \in SUBSET R
        PROVE  f[s] = IF s = {} THEN 0 ELSE w[Pick(s)] + f[s \ {Pick(s)}]
    <3>1. s \in SUBSET S /\ s \ {Pick(s)} \in SUBSET R
      BY <1>1
    <3>2. f[s] = g[s] /\ f[s \ {Pick(s)}] = g[s \ {Pick(s)}]
      BY <3>1
    <3>3. g[s] = IF s = {} THEN 0 ELSE w[Pick(s)] + g[s \ {Pick(s)}]
      BY <1>2, <3>1 DEF Adds
    <3> QED BY <3>2, <3>3
  <2>2. f = [s \in SUBSET R |-> f[s]]
    OBVIOUS
  <2> HIDE DEF f
  <2> QED BY <2>1, <2>2 DEF Adds
<1>5. f[R] = g[R]
  OBVIOUS
<1> HIDE DEF f
<1> DEFINE b == [x \in R |-> x]
<1>6. Renames(b, R, R) /\ \A x \in R : w[b[x]] = w[x]
  BY DEF Renames
<1> HIDE DEF b
<1>7. f[R] = h[R]
  BY <1>1, <1>3, <1>4, <1>6, SumMoves DEF Sums
<1>8. g[S] = w[y] + g[R]
  <2>1. S \in SUBSET S
    OBVIOUS
  <2> QED BY <1>2, <2>1, SumTakes DEF Sums, R
<1> QED BY <1>2, <1>3, <1>5, <1>7, <1>8 DEF R

LEMMA SumOfNone ==
  ASSUME NEW w
  PROVE  SumFunctionOnSet(w, {}) = 0
<1>1. Sums(w, {})
  BY FS_EmptySet DEF Sums
<1>2. PICK g : Adds(g, w, {}) /\ SumFunctionOnSet(w, {}) = g[{}]
  BY <1>1, SumIs
<1> QED BY <1>2 DEF Adds

LEMMA UsedIsNumber ==
  ASSUME NEW ls, NEW S, IsFiniteSet(S), \A l \in S : ls[l].quantity \in Int
  PROVE  Used(ls, S) \in Int
<1> DEFINE w == [l \in S |-> ls[l].quantity]
           P(g) == g = [s \in SUBSET S |-> IF s = {} THEN 0
                          ELSE ls[CHOOSE x \in s : TRUE].quantity + g[s \ {CHOOSE x \in s : TRUE}]]
           h == CHOOSE g : P(g)
<1>1. ASSUME NEW g  PROVE P(g) <=> Adds(g, w, S)
  <2>1. \A s \in SUBSET S : s # {} => w[Pick(s)] = ls[CHOOSE x \in s : TRUE].quantity
    BY DEF Pick
  <2> HIDE DEF w
  <2> QED BY <2>1 DEF Adds, Pick
<1>2. Used(ls, S) = h[S]
  BY DEF Used, MapThenSumSet, MapThenFoldSet
<1>3. Sums(w, S)
  BY DEF Sums
<1> HIDE DEF P, w
<1>4. \E g : P(g)
  BY <1>1, SumExists
<1>5. P(h)
  BY <1>4
<1> QED BY <1>1, <1>2, <1>3, <1>5, FoldIsNumber

LEMMA MaxOfTwo ==
  ASSUME NEW a \in Int, NEW b \in Int
  PROVE  /\ Max({a, b}) \in Int /\ Max({a, b}) >= a /\ Max({a, b}) >= b
         /\ Max({a, b}) = IF a >= b THEN a ELSE b
<1>1. \E x \in {a, b} : \A y \in {a, b} : x >= y
  OBVIOUS
<1> QED BY <1>1 DEF Max

LEMMA MinOfTwo ==
  ASSUME NEW a \in Int, NEW b \in Int
  PROVE  Min({a, b}) \in Int /\ Min({a, b}) = IF a <= b THEN a ELSE b
<1>1. \E x \in {a, b} : \A y \in {a, b} : x =< y
  OBVIOUS
<1> QED BY <1>1 DEF Min

-----------------------------------------------------------------------------
(***************************************************************************)
(* What a price's tiers say: a bill is a number, or nothing for a reason.   *)
(***************************************************************************)
Tier == [from : Int, price : Int \cup {None, Missing}, verified : BOOLEAN]
Doubtful(id) == \E j \in DOMAIN Tiers(id) : ~ Tiers(id)[j].verified

LEMMA TiersAre ==
  ASSUME NEW id \in DOMAIN PriceBook
  PROVE  /\ Tiers(id) \in Seq(Tier) /\ Len(Tiers(id)) \in Nat \ {0}
         /\ DOMAIN Tiers(id) = 1 .. Len(Tiers(id))
         /\ \A j \in DOMAIN Tiers(id) : Tiers(id)[j] \in Tier
<1>1. Tiers(id) \in Seq(Tier) \ {<<>>}
  BY ReadingsAssumption DEF Tiers, Tier
<1> QED BY <1>1

LEMMA PriceIs ==
  ASSUME NEW id \in DOMAIN PriceBook, NEW j \in DOMAIN Tiers(id)
  PROVE  LET p == PriceOf(Tiers(id), j) IN
         /\ p = None => Tiers(id)[j].price = None
         /\ p # None => p \in Int \/ Tiers(id)[j].price = Missing
<1> DEFINE tiers == Tiers(id)
           stops == {k \in DOMAIN tiers : tiers[k].price # 0}
           first == Min(stops)
<1>1. j \in Nat /\ j >= 1
  BY TiersAre
<1>2. CASE j < Granted(tiers)
  <2>1. stops # {} /\ tiers[first].price \notin {None, Missing} /\ Granted(tiers) = first
    BY <1>1, <1>2 DEF Granted
  <2>2. first \in stops
    <3>1. stops \in SUBSET Nat
      BY TiersAre
    <3>2. \E x \in stops : \A y \in stops : x =< y
      BY <2>1, <3>1, Least
    <3> QED BY <3>2 DEF Min
  <2>3. tiers[first].price \in Int
    BY <2>1, <2>2, TiersAre DEF Tier
  <2>4. PriceOf(tiers, j) = tiers[first].price
    BY <1>2, <2>1 DEF PriceOf
  <2> QED BY <2>1, <2>3, <2>4
<1>3. CASE ~ j < Granted(tiers)
  <2>1. PriceOf(tiers, j) = tiers[j].price
    BY <1>3 DEF PriceOf
  <2>2. tiers[j].price \in Int \cup {None, Missing}
    BY TiersAre DEF Tier
  <2> QED BY <2>1, <2>2
<1> QED BY <1>2, <1>3

LEMMA PartIs ==
  ASSUME NEW id \in DOMAIN PriceBook, NEW j \in DOMAIN Tiers(id), NEW q \in Int, NEW inc \in Int
  PROVE  InTier(Tiers(id), j, q, inc) \in Int
<1> DEFINE tiers == Tiers(id)
<1>1. j \in Nat /\ Len(tiers) \in Nat /\ tiers[j].from \in Int
      /\ (j # Len(tiers) => tiers[j + 1].from \in Int)
  <2>1. j \in 1 .. Len(tiers) /\ Len(tiers) \in Nat
    BY TiersAre
  <2>2. j # Len(tiers) => j + 1 \in DOMAIN tiers
    BY <2>1, TiersAre
  <2> QED BY <2>1, <2>2, TiersAre DEF Tier
<1>2. Upto(tiers, j, q) \in Int
  BY <1>1, MinOfTwo DEF Upto
<1> DEFINE u == Upto(tiers, j, q)
           m == Max({tiers[j].from, inc})
<1>3. m \in Int
  BY <1>1, MaxOfTwo
<1> HIDE DEF u, m
<1> DEFINE d == u - m
<1>4. 0 \in Int /\ d \in Int
  BY <1>2, <1>3 DEF u
<1> HIDE DEF d
<1>5. Max({0, d}) \in Int
  BY <1>4, MaxOfTwo
<1> QED BY <1>5 DEF InTier, u, m, d

LEMMA BillIs ==
  ASSUME NEW id, NEW q \in Int, NEW inc \in Int
  PROVE  LET b == Bill(id, q, inc) IN
         /\ b.usd \in Int \cup {None}
         /\ b.error = "none" =>
              /\ id \in DOMAIN PriceBook
              /\ Doubtful(id) => ~ b.verified
              /\ b.usd = None => Doubtful(id)
<1>1. CASE id \notin DOMAIN PriceBook
  <2>1. Bill(id, q, inc) = Failed("missing")
    BY <1>1 DEF Bill, Priced
  <2>2. Bill(id, q, inc).usd = None /\ Bill(id, q, inc).error # "none"
    BY <2>1 DEF Failed
  <2> QED BY <2>2
<1>2. CASE id \in DOMAIN PriceBook
  <2> DEFINE tiers == Tiers(id)
             part(j) == InTier(tiers, j, q, inc)
             bad == {j \in DOMAIN tiers : tiers[j].price = Missing \/ NotOffered(tiers, j, part(j))}
             used == {j \in DOMAIN tiers : part(j) > 0}
             sum == MapThenSumSet(LAMBDA j : part(j) * PriceOf(tiers, j), used)
             whole == [error |-> "none",
                       usd |-> IF \E j \in used : PriceOf(tiers, j) = None THEN None ELSE sum,
                       verified |-> \A j \in DOMAIN tiers : tiers[j].verified]
  <2>1. CASE bad # {}
    <3>1. PICK why \in {"missing", "notOffered"} : Bill(id, q, inc) = Failed(why)
      BY <1>2, <2>1 DEF Bill, Priced
    <3>2. Bill(id, q, inc).usd = None /\ Bill(id, q, inc).error = why
      BY <3>1 DEF Failed
    <3>3. Bill(id, q, inc).error # "none"
      BY <3>2
    <3> QED BY <3>2, <3>3
  <2>2. CASE bad = {}
    <3>1. Bill(id, q, inc) = whole
      BY <1>2, <2>2 DEF Bill, Priced
    <3>2. ASSUME NEW j \in used, PriceOf(tiers, j) = None  PROVE Doubtful(id)
      <4>1. tiers[j].price = None /\ ~ NotOffered(tiers, j, part(j)) /\ part(j) > 0
        BY <1>2, <2>2, <3>2, PriceIs
      <4> QED BY <4>1 DEF NotOffered, Doubtful
    <3>3. ASSUME \A j \in used : PriceOf(tiers, j) # None  PROVE sum \in Int
      <4> DEFINE w == [j \in used |-> part(j) * PriceOf(tiers, j)]
      <4>1. Sums(w, used)
        <5>1. IsFiniteSet(DOMAIN tiers)
          BY <1>2, TiersAre, FS_Interval
        <5>2. IsFiniteSet(used)
          BY <5>1, FS_Subset
        <5>3. ASSUME NEW j \in used  PROVE part(j) \in Int /\ PriceOf(tiers, j) \in Int
          BY <1>2, <2>2, <3>3, PriceIs, PartIs
        <5> HIDE DEF part, used
        <5>4. \A j \in used : w[j] \in Int
          BY <5>3
        <5> QED BY <5>2, <5>4 DEF Sums
      <4> DEFINE P(g) == g = [s \in SUBSET used |-> IF s = {} THEN 0 ELSE
                               part(CHOOSE x \in s : TRUE) * PriceOf(tiers, CHOOSE x \in s : TRUE)
                                 + g[s \ {CHOOSE x \in s : TRUE}]]
                 h == CHOOSE g : P(g)
      <4>2. sum = h[used]
        BY DEF MapThenSumSet, MapThenFoldSet
      <4>3. ASSUME NEW g  PROVE P(g) <=> Adds(g, w, used)
        <5> HIDE DEF used, part
        <5>1. \A s \in SUBSET used : s # {} =>
                w[Pick(s)] = part(CHOOSE x \in s : TRUE) * PriceOf(tiers, CHOOSE x \in s : TRUE)
          BY DEF Pick
        <5> HIDE DEF w
        <5> QED BY <5>1 DEF Adds, Pick
      <4> HIDE DEF P, w, sum, used
      <4>4. \E g : P(g)
        BY <4>1, <4>3, SumExists DEF Sums
      <4>5. P(h)
        BY <4>4
      <4> QED BY <4>1, <4>2, <4>3, <4>5, FoldIsNumber
    <3>4. Doubtful(id) => ~ whole.verified
      BY DEF Doubtful
    <3> HIDE DEF sum, used
    <3>5. whole.usd \in Int \cup {None} /\ (whole.usd = None => Doubtful(id))
      <4>1. CASE \E j \in used : PriceOf(tiers, j) = None
        BY <3>2, <4>1
      <4>2. CASE ~ \E j \in used : PriceOf(tiers, j) = None
        <5>1. whole.usd = sum
          BY <4>2
        <5>2. sum \in Int
          BY <3>3, <4>2
        <5> QED BY <5>1, <5>2, ReadingsAssumption, GraphAssumption
      <4> QED BY <4>1, <4>2
    <3> QED BY <1>2, <3>1, <3>4, <3>5
  <2> QED BY <2>1, <2>2
<1> QED BY <1>1, <1>2

(***************************************************************************)
(* One reading alone: a number, or nothing for a reason.                    *)
(***************************************************************************)
LEMMA AloneIs ==
  ASSUME NEW r, NEW q \in Int
  PROVE  LET a == Alone(r, q) IN
         a.error = "none" =>
           /\ r.price \in DOMAIN PriceBook
           /\ a.usd \in Int \cup {None}
           /\ Pooled(r.price) /\ Doubtful(r.price) => ~ a.verified
<1> DEFINE id == r.price
           odd == Priced(id) /\ PriceBook[id].unit # r.unit
<1>1. CASE odd
  <2>1. Alone(r, q) = Failed("unit")
    BY <1>1 DEF Alone
  <2>2. Alone(r, q).error # "none"
    BY <2>1 DEF Failed
  <2> QED BY <2>2
<1>2. CASE ~ odd /\ Rules(id)
  <2> DEFINE inc == IF Pooled(id) THEN 0 ELSE PriceBook[id].included
  <2>1. inc \in Int
    BY <1>2, ReadingsAssumption DEF Rules, Priced
  <2>2. Alone(r, q) = Bill(id, q, inc)
    BY <1>2 DEF Alone
  <2> HIDE DEF inc
  <2> QED BY <2>1, <2>2, BillIs
<1>3. CASE ~ odd /\ ~ Rules(id)
  <2> DEFINE p == Plain(id)
             t == Tiers(id)[1]
  <2>1. Alone(r, q) = [p EXCEPT !.usd = IF p.usd = None THEN None ELSE p.usd * q]
    BY <1>3 DEF Alone
  <2>2. ~ Pooled(id)
    BY <1>3 DEF Pooled
  <2>3. CASE \E why \in {"missing", "notOffered"} : p = Failed(why)
    <3>1. PICK why \in {"missing", "notOffered"} : p = Failed(why)
      BY <2>3
    <3> HIDE DEF p
    <3>2. p = [error |-> why, usd |-> None, verified |-> FALSE]
      BY <3>1 DEF Failed
    <3>3. Alone(r, q).error = why
      BY <2>1, <3>2
    <3>4. why # "none"
      OBVIOUS
    <3> QED BY <3>3, <3>4
  <2>4. CASE ~ \E why \in {"missing", "notOffered"} : p = Failed(why)
    <3>1. /\ id \in DOMAIN PriceBook /\ t.price # Missing
          /\ p = [error |-> "none", usd |-> t.price, verified |-> t.verified]
      BY <2>4 DEF Plain, Priced
    <3>2. t.price \in Int \cup {None}
      <4>1. 1 \in DOMAIN Tiers(id)
        BY <3>1, TiersAre
      <4>2. t \in Tier
        BY <3>1, <4>1, TiersAre
      <4> QED BY <3>1, <4>2 DEF Tier
    <3> HIDE DEF p, t
    <3>3. Alone(r, q).usd = IF t.price = None THEN None ELSE t.price * q
      BY <2>1, <3>1
    <3>4. Alone(r, q).usd \in Int \cup {None}
      BY <3>2, <3>3
    <3> QED BY <2>2, <3>1, <3>4
  <2> QED BY <2>3, <2>4
<1> QED BY <1>1, <1>2, <1>3

-----------------------------------------------------------------------------
(***************************************************************************)
(* Sharing a pool changes what its lines cost, and nothing else of them.    *)
(***************************************************************************)
Names == Id \cup Group \cup {None}
Line == [node : Names, of : Nat, price : DOMAIN PriceBook, usd : Int \cup {None},
         quantity : Int, pooled : BOOLEAN]
Alike(x, y) ==
  /\ y.node = x.node /\ y.of = x.of /\ y.price = x.price /\ y.pooled = x.pooled
  /\ ~ x.pooled => (y.usd = None <=> x.usd = None)

LEMMA LinesAre ==
  ASSUME NEW s \in Seq(Line)
  PROVE  /\ Len(s) \in Nat /\ DOMAIN s = 1 .. Len(s) /\ IsFiniteSet(DOMAIN s)
         /\ \A l \in DOMAIN s : s[l] \in Line
<1>1. Len(s) \in Nat /\ DOMAIN s = 1 .. Len(s) /\ \A l \in DOMAIN s : s[l] \in Line
  OBVIOUS
<1> QED BY <1>1, FS_Interval

LEMMA MembersAre ==
  ASSUME NEW s \in Seq(Line), NEW id
  PROVE  /\ MembersOf(s, id) \subseteq DOMAIN s /\ IsFiniteSet(MembersOf(s, id))
         /\ Used(s, MembersOf(s, id)) \in Int
<1>1. MembersOf(s, id) \subseteq DOMAIN s
  BY DEF MembersOf
<1>2. IsFiniteSet(MembersOf(s, id))
  BY <1>1, LinesAre, FS_Subset
<1>3. \A l \in MembersOf(s, id) : s[l].quantity \in Int
  BY <1>1, LinesAre DEF Line
<1> QED BY <1>1, <1>2, <1>3, UsedIsNumber

LEMMA ShareOfIs ==
  ASSUME NEW s \in Seq(Line), NEW id, NEW l \in MembersOf(s, id), NEW usd \in Int \cup {None}
  PROVE  LET u == ShareOf(s, MembersOf(s, id), l, usd) IN
         u \in Int \cup {None} /\ (u = None => usd = None)
<1> DEFINE m == MembersOf(s, id)
           used == Used(s, m)
           c == Cardinality(m)
<1>1. used \in Int /\ s[l].quantity \in Int
  BY MembersAre, LinesAre DEF Line
<1>2. c \in Nat /\ c > 0
  <2>1. IsFiniteSet(m)
    BY MembersAre
  <2>2. c \in Nat /\ (c = 0 <=> m = {})
    BY <2>1, FS_CardinalityType, FS_EmptySet
  <2> QED BY <2>2
<1>3. CASE usd = None
  BY <1>3 DEF ShareOf
<1>4. CASE usd # None
  <2> DEFINE a == (usd * s[l].quantity) \div used
             b == usd \div c
             k == usd * s[l].quantity
  <2>1. ShareOf(s, m, l, usd) = IF used > 0 THEN a ELSE b
    BY <1>4 DEF ShareOf
  <2>2. usd \in Int /\ k \in Int
    BY <1>1, <1>4
  <2> HIDE DEF used, c, k
  <2>3. used > 0 => k \div used \in Int
    BY <1>1, <2>2
  <2>4. b \in Int
    BY <1>2, <2>2
  <2>5. ShareOf(s, m, l, usd) \in Int
    BY <2>1, <2>3, <2>4 DEF k
  <2> QED BY <2>5, GraphAssumption
<1> QED BY <1>3, <1>4

LEMMA MaxIs ==
  ASSUME NEW Q \in SUBSET Int, IsFiniteSet(Q), Q # {}
  PROVE  Max(Q) \in Q /\ \A y \in Q : Max(Q) >= y
<1> DEFINE Over(x) == {y \in Q : y > x}
           C == {Cardinality(Over(x)) : x \in Q}
<1>1. \A x \in Q : IsFiniteSet(Over(x)) /\ Cardinality(Over(x)) \in Nat
  BY FS_Subset, FS_CardinalityType
<1>2. PICK x \in Q : \A y \in Q : Cardinality(Over(x)) <= Cardinality(Over(y))
  <2>1. C \in SUBSET Nat /\ C # {}
    BY <1>1
  <2>2. PICK m \in C : \A k \in C : m <= k
    <3> HIDE DEF C
    <3> QED BY <2>1, Least
  <2> QED BY <2>2
<1>3. ASSUME NEW y \in Q, y > x  PROVE FALSE
  <2>1. Over(y) \subseteq Over(x) /\ y \in Over(x) /\ y \notin Over(y)
    <3>1. ASSUME NEW z \in Q, z > y  PROVE z > x
      <4>1. x \in Int /\ y \in Int /\ z \in Int
        OBVIOUS
      <4> QED BY <1>3, <3>1, <4>1
    <3>2. ~ y > y
      <4>1. y \in Int
        OBVIOUS
      <4> QED BY <4>1
    <3> QED BY <1>3, <3>1, <3>2
  <2>2. Cardinality(Over(y)) < Cardinality(Over(x))
    <3> HIDE DEF Over
    <3>1. Over(y) # Over(x) /\ IsFiniteSet(Over(x)) /\ Over(y) \in SUBSET Over(x)
          /\ Cardinality(Over(x)) \in Nat /\ Cardinality(Over(y)) \in Nat
      BY <1>1, <2>1
    <3>2. Cardinality(Over(y)) <= Cardinality(Over(x)) /\ Cardinality(Over(y)) # Cardinality(Over(x))
      BY <3>1, FS_Subset
    <3> QED BY <3>1, <3>2
  <2> QED BY <1>1, <1>2, <2>2
<1>4. \A y \in Q : x >= y
  BY <1>3
<1> QED BY <1>4 DEF Max

LEMMA PoolBillIs ==
  ASSUME NEW s \in Seq(Line), NEW id \in DOMAIN PriceBook, MembersOf(s, id) # {}
  PROVE  LET b == PoolBill(s, id) IN
         /\ b.usd \in Int \cup {None}
         /\ b.error = "none" /\ b.usd = None => Doubtful(id)
<1>1. PoolQuantity(s, id) \in Int
  <2>1. CASE ~ PriceBook[id].once
    BY <2>1, MembersAre DEF PoolQuantity
  <2>2. CASE PriceBook[id].once
    <3> DEFINE Q == {s[l].quantity : l \in MembersOf(s, id)} \cup {0}
    <3>1. PoolQuantity(s, id) = Max(Q)
      BY <2>2 DEF PoolQuantity
    <3>2. Q \subseteq Int /\ IsFiniteSet(Q) /\ Q # {}
      <4> DEFINE f == [l \in MembersOf(s, id) |-> s[l].quantity]
                 R == {s[l].quantity : l \in MembersOf(s, id)}
      <4>1. ASSUME NEW l \in MembersOf(s, id)  PROVE s[l].quantity \in Int
        BY MembersAre, LinesAre DEF Line
      <4>2. f \in Surjection(MembersOf(s, id), R)
        BY DEF Surjection
      <4> HIDE DEF f
      <4>3. IsFiniteSet(R)
        BY <4>2, MembersAre, FS_Surjection
      <4>4. R \subseteq Int
        BY <4>1
      <4> HIDE DEF R
      <4>5. IsFiniteSet(R \cup {0})
        BY <4>3, FS_AddElement
      <4>6. Q = R \cup {0}
        BY DEF R
      <4> HIDE DEF Q
      <4> QED BY <4>4, <4>5, <4>6
    <3>3. Max(Q) \in Q
      <4> HIDE DEF Q
      <4> QED BY <3>2, MaxIs
    <3> QED BY <3>1, <3>2, <3>3
  <2> QED BY <2>1, <2>2
<1>2. PriceBook[id].included \in Int
  BY ReadingsAssumption
<1> QED BY <1>1, <1>2, BillIs DEF PoolBill

LEMMA SharedOut ==
  ASSUME NEW s \in Seq(Line), NEW id, NEW usd \in Int \cup {None}
  PROVE  LET t == ShareOut(s, id, usd) IN
         /\ t \in Seq(Line) /\ Len(t) = Len(s)
         /\ \A l \in DOMAIN s :
              /\ Alike(s[l], t[l])
              /\ l \notin MembersOf(s, id) => t[l] = s[l]
              /\ l \in MembersOf(s, id) /\ t[l].usd = None => usd = None
<1> DEFINE t == ShareOut(s, id, usd)
           m == MembersOf(s, id)
           u(l) == ShareOf(s, m, l, usd)
<1>1. t = [l \in 1 .. Len(s) |-> IF l \in m THEN [s[l] EXCEPT !.usd = u(l)] ELSE s[l]]
  BY LinesAre DEF ShareOut
<1>2. ASSUME NEW l \in DOMAIN s
      PROVE  /\ t[l] \in Line /\ Alike(s[l], t[l]) /\ (l \notin m => t[l] = s[l])
             /\ (l \in m /\ t[l].usd = None => usd = None)
  <2>1. s[l] \in Line /\ l \in 1 .. Len(s)
    BY LinesAre
  <2>2. CASE l \notin m
    BY <1>1, <2>1, <2>2 DEF Alike
  <2>3. CASE l \in m
    <3>1. u(l) \in Int \cup {None} /\ (u(l) = None => usd = None)
      BY <2>3, ShareOfIs
    <3>2. t[l] = [s[l] EXCEPT !.usd = u(l)]
      BY <1>1, <2>1, <2>3
    <3>3. s[l].pooled
      BY <2>3 DEF MembersOf
    <3> HIDE DEF t, u
    <3> DEFINE x == s[l]
               y == t[l]
    <3>4. y = [x EXCEPT !.usd = u(l)] /\ x \in Line /\ x.pooled
      BY <2>1, <3>2, <3>3
    <3>5. y = [node |-> x.node, of |-> x.of, price |-> x.price, usd |-> u(l),
               quantity |-> x.quantity, pooled |-> x.pooled]
      <4> HIDE DEF x, y
      <4> QED BY <3>4 DEF Line
    <3>6. y \in Line /\ y.usd = u(l) /\ Alike(x, y)
      <4> HIDE DEF x, y
      <4>1. y \in Line
        BY <3>1, <3>4, <3>5 DEF Line
      <4> QED BY <3>4, <3>5, <4>1 DEF Alike
    <3> HIDE DEF y
    <3> QED BY <2>3, <3>1, <3>6 DEF y
  <2> QED BY <2>2, <2>3
<1>3. t \in Seq(Line) /\ Len(t) = Len(s)
  <2>1. Len(s) \in Nat /\ DOMAIN s = 1 .. Len(s)
    BY LinesAre
  <2>2. t \in [1 .. Len(s) -> Line]
    <3>1. \A l \in 1 .. Len(s) : t[l] \in Line
      BY <1>2, <2>1
    <3> HIDE DEF m, u
    <3> QED BY <1>1, <3>1
  <2> HIDE DEF t
  <2> QED BY <2>1, <2>2
<1> QED BY <1>2, <1>3

LEMMA ShareIs ==
  ASSUME NEW s \in Seq(Line)
  PROVE  LET t == Share(s) IN
         t \in Seq(Line) /\ Len(t) = Len(s) /\ \A l \in DOMAIN s : Alike(s[l], t[l])
<1> DEFINE t == Share(s)
           usd(l) == PoolBill(s, s[l].price).usd
           part(l) == ShareOut(s, s[l].price, usd(l))
<1>1. t = [l \in 1 .. Len(s) |-> IF s[l].pooled THEN part(l)[l] ELSE s[l]]
  BY LinesAre DEF Share
<1>2. ASSUME NEW l \in DOMAIN s  PROVE t[l] \in Line /\ Alike(s[l], t[l])
  <2>1. s[l] \in Line /\ l \in 1 .. Len(s) /\ DOMAIN s = 1 .. Len(s) /\ s[l].price \in DOMAIN PriceBook
    BY LinesAre DEF Line
  <2>2. CASE ~ s[l].pooled
    BY <1>1, <2>1, <2>2 DEF Alike
  <2>3. CASE s[l].pooled
    <3>1. l \in MembersOf(s, s[l].price)
      BY <2>3 DEF MembersOf
    <3>2. usd(l) \in Int \cup {None}
      BY <2>1, <3>1, PoolBillIs
    <3> HIDE DEF usd
    <3>3. part(l) \in Seq(Line) /\ Len(part(l)) = Len(s) /\ Alike(s[l], part(l)[l])
      BY <3>2, SharedOut
    <3> HIDE DEF part
    <3>4. part(l)[l] \in Line
      BY <2>1, <3>3, LinesAre
    <3>5. t[l] = part(l)[l]
      BY <1>1, <2>1, <2>3
    <3> QED BY <3>3, <3>4, <3>5
  <2> QED BY <2>2, <2>3
<1>3. t \in Seq(Line) /\ Len(t) = Len(s)
  <2>1. Len(s) \in Nat /\ DOMAIN s = 1 .. Len(s)
    BY LinesAre
  <2>2. t \in [1 .. Len(s) -> Line]
    <3>1. \A l \in 1 .. Len(s) : t[l] \in Line
      BY <1>2, <2>1
    <3> HIDE DEF part
    <3> QED BY <1>1, <3>1
  <2> HIDE DEF t
  <2> QED BY <2>1, <2>2
<1> QED BY <1>2, <1>3

LEMMA TimesIs ==
  ASSUME NEW x \in Line, NEW k \in Int
  PROVE  Times(x, k) \in Line /\ Alike(x, Times(x, k))
<1>1. CASE Once(x.price)
  BY <1>1 DEF Times, Alike
<1>2. CASE ~ Once(x.price)
  <2> DEFINE q == x.quantity * k
             p == x.usd * k
             u == IF x.usd = None THEN None ELSE p
  <2>1. q \in Int /\ (x.usd # None => p \in Int)
    BY DEF Line
  <2>2. Times(x, k) = [x EXCEPT !.quantity = q, !.usd = u]
    BY <1>2 DEF Times
  <2> HIDE DEF q, p
  <2>3. u \in Int \cup {None} /\ (u = None <=> x.usd = None)
    BY <2>1, GraphAssumption
  <2> HIDE DEF u
  <2>4. Times(x, k) = [node |-> x.node, of |-> x.of, price |-> x.price, usd |-> u,
                       quantity |-> q, pooled |-> x.pooled]
    BY <2>2 DEF Line
  <2> QED BY <2>1, <2>3, <2>4 DEF Line, Alike
<1> QED BY <1>1, <1>2

-----------------------------------------------------------------------------
(***************************************************************************)
(* What a scouter reads: lines of its node, and a note of every price that  *)
(* is not known, or may turn out so once a pool is billed.                  *)
(***************************************************************************)
Unsure(x) == IF x.pooled THEN Doubtful(x.price) ELSE x.usd = None
Told(x, notes) == Unsure(x) => \E u \in notes : u.id = x.price

LEMMA AlikeUnsure ==
  ASSUME NEW x, NEW y, Alike(x, y)
  PROVE  Unsure(x) <=> Unsure(y)
BY DEF Alike, Unsure

LEMMA AlikeTwice ==
  ASSUME NEW x, NEW y, NEW z, Alike(x, y), Alike(y, z)
  PROVE  Alike(x, z)
BY DEF Alike

Volumes(d) == \A h \in Kind : d[h].monthly \in Int

LEMMA AmountIs ==
  ASSUME NEW type \in DOMAIN Scouters, NEW j \in DOMAIN Scouters[type].lines,
         NEW d, Volumes(d), NEW k \in Nat \ {0}
  PROVE  Amount(Scouters[type].lines[j], d, k) \in Int
<1> DEFINE r == Scouters[type].lines[j]
           m == d[r.kind].monthly
           each == m \div k
<1>1. r.kind \in Kind /\ r.times \in Int /\ r.fixed \in Int
  BY ReadingsAssumption
<1>2. m \in Int
  BY <1>1 DEF Volumes
<1> HIDE DEF m
<1>3. each \in Int
  BY <1>2
<1>4. Amount(r, d, k) = r.times * each + r.fixed
  BY DEF Amount, m
<1> HIDE DEF r, each
<1>5. r.times * each + r.fixed \in Int
  BY <1>1, <1>3
<1> QED BY <1>4, <1>5 DEF r

LEMMA ReadingIs ==
  ASSUME NEW id \in Names, NEW place \in Nat, NEW type \in DOMAIN Scouters,
         NEW d, Volumes(d), NEW k \in Nat \ {0}
  PROVE  LET r == Reading(id, place, type, d, k) IN
         /\ r.lines \in Seq(Line)
         /\ \A l \in DOMAIN r.lines :
              /\ r.lines[l].node = id /\ r.lines[l].of = place
              /\ Told(r.lines[l], Noted(r.refs))
<1> DEFINE reads == Scouters[type].lines
           n == Len(reads)
           alone == [j \in DOMAIN reads |-> Alone(reads[j], Amount(reads[j], d, k))]
           good == {j \in DOMAIN reads : alone[j].error = "none"}
           cost(j) == [node |-> id, of |-> place, price |-> reads[j].price, usd |-> alone[j].usd,
                       quantity |-> Amount(reads[j], d, k), pooled |-> Pooled(reads[j].price)]
           costs == [j \in DOMAIN reads |-> cost(j)]
           own == Filtered(costs, good)
           shared == Share(own)
           ls == [l \in DOMAIN shared |-> Times(shared[l], k)]
           refs == {[id |-> reads[j].price, verified |-> alone[j].verified,
                     known |-> alone[j].usd # None] : j \in good}
           r == Reading(id, place, type, d, k)
<1>1. r.lines = ls /\ r.refs = refs
  BY DEF Reading
<1>2. n \in Nat /\ DOMAIN reads = 1 .. n /\ good \in SUBSET (1 .. n)
  BY ReadingsAssumption
<1>3. ASSUME NEW j \in good
      PROVE  /\ cost(j) \in Line
             /\ Told(cost(j), Noted(refs))
  <2> DEFINE a == alone[j]
             q == Amount(reads[j], d, k)
  <2>1. j \in DOMAIN reads /\ a.error = "none"
    OBVIOUS
  <2>2. q \in Int /\ a = Alone(reads[j], q)
    BY <2>1, AmountIs
  <2>3. /\ reads[j].price \in DOMAIN PriceBook /\ a.usd \in Int \cup {None}
        /\ Pooled(reads[j].price) /\ Doubtful(reads[j].price) => ~ a.verified
    <3> HIDE DEF a, q
    <3> QED BY <2>1, <2>2, AloneIs
  <2>4. Pooled(reads[j].price) \in BOOLEAN
    BY DEF Pooled
  <2> DEFINE u == [id |-> reads[j].price, verified |-> a.verified, known |-> a.usd # None]
  <2>5. u \in refs
    BY <2>1
  <2> HIDE DEF refs, a, q
  <2>6. Unsure(cost(j)) => ~ a.verified \/ a.usd = None
    BY <2>3 DEF Unsure, a
  <2>7. Unsure(cost(j)) => u \in Noted(refs)
    BY <2>5, <2>6 DEF Noted
  <2>8. cost(j) \in Line
    BY <2>2, <2>3, <2>4 DEF Line, a, q
  <2>9. u.id = cost(j).price
    OBVIOUS
  <2> HIDE DEF u, cost
  <2> QED BY <2>7, <2>8, <2>9 DEF Told
<1> HIDE DEF cost, refs, good
<1>4. /\ own \in Seq(Line)
      /\ \A l \in DOMAIN own : \E j \in good : own[l] = cost(j)
  <2> DEFINE S == {cost(j) : j \in 1 .. n}
  <2>1. costs \in Seq(S) /\ Len(costs) = n /\ \A j \in 1 .. n : costs[j] = cost(j)
    BY <1>2
  <2> HIDE DEF costs, S
  <2>2. /\ own \in Seq(S)
        /\ \A l \in 1 .. Len(own) : Nth(l, good) \in good /\ own[l] = costs[Nth(l, good)]
    BY <1>2, <2>1, FilteredKeeps
  <2> HIDE DEF own
  <2>3. Len(own) \in Nat /\ own \in [1 .. Len(own) -> S] /\ DOMAIN own = 1 .. Len(own)
    BY <2>2
  <2>4. ASSUME NEW l \in 1 .. Len(own)  PROVE \E j \in good : own[l] = cost(j)
    BY <1>2, <2>1, <2>2
  <2>5. \A l \in 1 .. Len(own) : own[l] \in Line
    BY <1>3, <2>4
  <2>6. own \in [1 .. Len(own) -> Line]
    BY <2>3, <2>5
  <2> QED BY <2>3, <2>4, <2>6
<1> HIDE DEF own
<1>5. /\ shared \in Seq(Line) /\ Len(shared) = Len(own)
      /\ \A l \in DOMAIN own : Alike(own[l], shared[l])
  BY <1>4, ShareIs
<1>6. DOMAIN shared = DOMAIN own /\ DOMAIN shared = 1 .. Len(shared) /\ Len(shared) \in Nat
  BY <1>4, <1>5, LinesAre
<1> HIDE DEF shared
<1>7. ASSUME NEW l \in DOMAIN shared
      PROVE  /\ ls[l] \in Line /\ ls[l].node = id /\ ls[l].of = place
             /\ Told(ls[l], Noted(refs))
  <2>1. PICK j \in good : own[l] = cost(j)
    BY <1>4, <1>6
  <2>2. shared[l] \in Line /\ Alike(cost(j), shared[l])
    BY <1>5, <1>6, <2>1, LinesAre
  <2>3. ls[l] \in Line /\ Alike(shared[l], ls[l])
    BY <2>2, TimesIs
  <2>4. Alike(cost(j), ls[l])
    BY <2>2, <2>3, AlikeTwice
  <2>5. Told(ls[l], Noted(refs))
    BY <1>3, <2>4, AlikeUnsure DEF Told, Alike
  <2>6. cost(j).node = id /\ cost(j).of = place
    BY DEF cost
  <2> QED BY <2>3, <2>4, <2>5, <2>6 DEF Alike
<1>8. ls \in Seq(Line) /\ DOMAIN ls = DOMAIN shared
  <2>1. ls \in [1 .. Len(shared) -> Line] /\ Len(shared) \in Nat
    BY <1>6, <1>7
  <2> QED BY <1>6, <2>1
<1> HIDE DEF ls
<1> QED BY <1>1, <1>7, <1>8

-----------------------------------------------------------------------------
(***************************************************************************)
(* The bill of a quantity is its units' prices, one by one.  The tiers of   *)
(* a price part the units: each falls in one tier, and what InTier says of  *)
(* a tier grows by one with each unit that falls in it and is not included. *)
(***************************************************************************)
Falls(tiers, u, j) == tiers[j].from < u /\ (j = Len(tiers) \/ u <= tiers[j + 1].from)

LEMMA InOrder ==
  ASSUME NEW id \in DOMAIN PriceBook, NEW j \in DOMAIN Tiers(id), NEW k \in DOMAIN Tiers(id), j <= k
  PROVE  0 <= Tiers(id)[j].from /\ Tiers(id)[j].from <= Tiers(id)[k].from
<1> DEFINE T == Tiers(id)
           Off(a, b) == a <= b /\ ~ T[a].from <= T[b].from
<1>1. /\ Len(T) \in Nat \ {0} /\ DOMAIN T = 1 .. Len(T) /\ \A a \in DOMAIN T : T[a].from \in Int
      /\ T[1].from = 0 /\ \A a \in 1 .. Len(T) - 1 : T[a].from <= T[a + 1].from
  BY TiersAre, ReadingsAssumption DEF Tier, Tiers, Ascending
<1> HIDE DEF T
<1>2. ASSUME NEW a \in DOMAIN T, NEW b \in DOMAIN T, Off(a, b)  PROVE FALSE
  <2> DEFINE S == {c \in DOMAIN T : Off(a, c)}
  <2>1. S \in SUBSET Nat /\ S # {}
    BY <1>1, <1>2
  <2>2. PICK c \in S : \A d \in S : c <= d
    <3> HIDE DEF S
    <3> QED BY <2>1, Least
  <2>3. c - 1 \in DOMAIN T /\ c - 1 \in 1 .. Len(T) - 1 /\ a <= c - 1 /\ (c - 1) + 1 = c
    BY <1>1, <2>2
  <2>4. c - 1 \notin S
    BY <1>1, <2>2, <2>3
  <2>5. T[a].from <= T[c - 1].from /\ T[c - 1].from <= T[c].from
    BY <1>1, <2>3, <2>4
  <2> QED BY <1>1, <2>2, <2>3, <2>5
<1>3. 1 \in DOMAIN T /\ 1 <= j
  BY <1>1 DEF T
<1>4. T[1].from <= T[j].from /\ T[j].from <= T[k].from
  BY <1>2, <1>3 DEF T
<1> QED BY <1>1, <1>4 DEF T

LEMMA TierOfIs ==
  ASSUME NEW id \in DOMAIN PriceBook, NEW u \in Nat \ {0}
  PROVE  /\ TierOf(Tiers(id), u) \in DOMAIN Tiers(id)
         /\ \A j \in DOMAIN Tiers(id) : Falls(Tiers(id), u, j) <=> j = TierOf(Tiers(id), u)
<1> DEFINE T == Tiers(id)
           S == {j \in DOMAIN T : T[j].from < u}
           m == Max(S)
<1>1. /\ Len(T) \in Nat \ {0} /\ DOMAIN T = 1 .. Len(T) /\ \A a \in DOMAIN T : T[a].from \in Int
      /\ T[1].from = 0
  BY TiersAre, ReadingsAssumption DEF Tier, Tiers, Ascending
<1>2. \A j, k \in DOMAIN T : j <= k => T[j].from <= T[k].from
  BY InOrder
<1>3. TierOf(T, u) = m
  BY DEF TierOf
<1> HIDE DEF T
<1>4. S \in SUBSET Int /\ IsFiniteSet(S) /\ S # {}
  <2>1. IsFiniteSet(DOMAIN T)
    BY <1>1, FS_Interval
  <2>2. 1 \in S
    BY <1>1
  <2> QED BY <1>1, <2>1, <2>2, FS_Subset
<1>5. m \in S /\ \A j \in S : m >= j
  <2> HIDE DEF S
  <2> QED BY <1>4, MaxIs
<1> HIDE DEF m
<1>6. m \in 1 .. Len(T) /\ T[m].from < u
  BY <1>1, <1>5
<1>7. Falls(T, u, m)
  <2>1. m # Len(T) => m + 1 \in DOMAIN T /\ ~ m >= m + 1
    <3>1. PICK l \in Nat : l = Len(T)
      BY <1>1
    <3>2. PICK x \in 1 .. l : x = m
      BY <1>6, <3>1
    <3>3. (x # l => x + 1 \in 1 .. l) /\ ~ x >= x + 1
      OBVIOUS
    <3> QED BY <1>1, <3>1, <3>2, <3>3
  <2>2. m # Len(T) => ~ T[m + 1].from < u
    <3>1. m # Len(T) => m + 1 \notin S
      <4> HIDE DEF S
      <4> QED BY <1>5, <2>1
    <3> QED BY <2>1, <3>1
  <2>3. m # Len(T) => u <= T[m + 1].from
    BY <1>1, <2>1, <2>2
  <2> QED BY <1>6, <2>3 DEF Falls
<1>8. ASSUME NEW j \in DOMAIN T, Falls(T, u, j)  PROVE j = m
  <2>1. j \in S /\ j <= m
    BY <1>1, <1>5, <1>6, <1>8 DEF Falls
  <2>2. CASE j < m
    <3>1. j # Len(T) /\ j + 1 \in DOMAIN T /\ j + 1 <= m
      BY <1>1, <1>6, <2>2
    <3>2. u <= T[j + 1].from /\ T[j + 1].from <= T[m].from
      BY <1>2, <1>6, <1>1, <1>8, <3>1 DEF Falls
    <3> QED BY <1>1, <1>6, <3>1, <3>2
  <2> QED BY <1>1, <1>6, <2>1, <2>2
<1> QED BY <1>1, <1>3, <1>6, <1>7, <1>8 DEF T

\* InTier with the maxima and minima written out.
LEMMA InTierIs ==
  ASSUME NEW id \in DOMAIN PriceBook, NEW j \in DOMAIN Tiers(id), NEW q \in Int, NEW inc \in Int
  PROVE  LET T == Tiers(id)
             lo == IF T[j].from >= inc THEN T[j].from ELSE inc
             hi == IF j = Len(T) \/ q <= T[j + 1].from THEN q ELSE T[j + 1].from
         IN  /\ T[j].from \in Int /\ 0 <= T[j].from /\ lo \in Int /\ hi \in Int
             /\ j # Len(T) => T[j + 1].from \in Int
             /\ InTier(T, j, q, inc) = IF hi > lo THEN hi - lo ELSE 0
<1> DEFINE T == Tiers(id)
           f == T[j].from
           n == T[j + 1].from
           lo == IF f >= inc THEN f ELSE inc
           hi == IF j = Len(T) \/ q <= n THEN q ELSE n
<1>1. f \in Int /\ 0 <= f /\ (j # Len(T) => n \in Int)
  <2>1. j \in 1 .. Len(T) /\ Len(T) \in Nat
    BY TiersAre
  <2>2. j # Len(T) => j + 1 \in DOMAIN T
    BY <2>1, TiersAre
  <2>3. j <= j
    BY <2>1
  <2> QED BY <2>2, <2>3, TiersAre, InOrder DEF Tier
<1>2. InTier(T, j, q, inc) = Max({0, Upto(T, j, q) - Max({f, inc})})
  BY DEF InTier
<1>3. Upto(T, j, q) = IF j = Len(T) THEN q ELSE Min({q, n})
  BY DEF Upto
<1> HIDE DEF T, f, n
<1>4. Max({f, inc}) = lo
  BY <1>1, MaxOfTwo
<1>5. Upto(T, j, q) = hi
  BY <1>1, <1>3, MinOfTwo
<1>6. lo \in Int /\ hi \in Int
  BY <1>1
<1> HIDE DEF lo, hi
<1>7. Max({0, hi - lo}) = IF hi > lo THEN hi - lo ELSE 0
  <2> DEFINE d == hi - lo
  <2>1. d \in Int /\ 0 \in Int /\ (d > 0 <=> hi > lo)
    BY <1>6
  <2>2. Max({0, d}) = IF 0 >= d THEN 0 ELSE d
    <3> HIDE DEF d
    <3> QED BY <2>1, MaxOfTwo
  <2> QED BY <1>6, <2>1, <2>2
<1>8. InTier(T, j, q, inc) = IF hi > lo THEN hi - lo ELSE 0
  BY <1>2, <1>4, <1>5, <1>7
<1> QED BY <1>1, <1>6, <1>8 DEF T, f, n, lo, hi

LEMMA PartIsLeft ==
  ASSUME NEW id \in DOMAIN PriceBook, NEW j \in DOMAIN Tiers(id), NEW q \in Int, NEW inc \in Int
  PROVE  InTier(Tiers(id), j, q, inc) \in Nat
<1> DEFINE T == Tiers(id)
           part == InTier(T, j, q, inc)
           low == IF T[j].from >= inc THEN T[j].from ELSE inc
           high == IF j = Len(T) \/ q <= T[j + 1].from THEN q ELSE T[j + 1].from
<1>1. PICK lo \in Int, hi \in Int : part = IF hi > lo THEN hi - lo ELSE 0
  <2>1. low \in Int /\ high \in Int /\ part = IF high > low THEN high - low ELSE 0
    BY InTierIs
  <2> HIDE DEF low, high, part
  <2> QED BY <2>1
<1>2. CASE hi > lo
  <2>1. part = hi - lo /\ hi - lo \in Nat
    BY <1>1, <1>2
  <2> QED BY <2>1
<1>3. CASE ~ hi > lo
  <2>1. part = 0
    BY <1>1, <1>3
  <2> QED BY <2>1
<1> QED BY <1>2, <1>3

LEMMA NextUnit ==
  ASSUME NEW id \in DOMAIN PriceBook, NEW j \in DOMAIN Tiers(id), NEW q \in Nat, NEW inc \in Int
  PROVE  InTier(Tiers(id), j, q + 1, inc) =
           InTier(Tiers(id), j, q, inc) + (IF Falls(Tiers(id), q + 1, j) /\ inc < q + 1 THEN 1 ELSE 0)
<1> DEFINE T == Tiers(id)
           f == T[j].from
           n == T[j + 1].from
           a == InTier(T, j, q, inc)
           b == InTier(T, j, q + 1, inc)
           last == j = Len(T)
           falls == Falls(T, q + 1, j)
<1>1. f \in Int /\ (~ last => n \in Int) /\ q \in Int /\ q + 1 \in Int
  BY InTierIs
<1>2. PICK lo \in Int : lo = IF f >= inc THEN f ELSE inc
  BY <1>1
<1>3. ASSUME NEW x \in Int, NEW hi, hi = (IF last \/ x <= n THEN x ELSE n)
      PROVE  InTier(T, j, x, inc) = IF hi > lo THEN hi - lo ELSE 0
  BY <1>2, <1>3, InTierIs
<1>4. falls <=> f < q + 1 /\ (last \/ q + 1 <= n)
  BY DEF Falls
<1>5. CASE last
  <2>1. a = IF q > lo THEN q - lo ELSE 0
    BY <1>3, <1>5
  <2>2. b = IF q + 1 > lo THEN q + 1 - lo ELSE 0
    <3>1. PICK x \in Int : x = q + 1
      BY <1>1
    <3>2. InTier(T, j, x, inc) = IF x > lo THEN x - lo ELSE 0
      BY <1>3, <1>5
    <3> QED BY <3>1, <3>2
  <2> HIDE DEF a, b, last, falls, f, n
  <2>3. b = a + (IF falls /\ inc < q + 1 THEN 1 ELSE 0)
    BY <1>1, <1>2, <1>4, <1>5, <2>1, <2>2
  <2> QED BY <2>3 DEF a, b, falls, T
<1>6. CASE ~ last
  <2>1. a = IF (IF q <= n THEN q ELSE n) > lo THEN (IF q <= n THEN q ELSE n) - lo ELSE 0
    BY <1>3, <1>6
  <2>2. b = IF (IF q + 1 <= n THEN q + 1 ELSE n) > lo THEN (IF q + 1 <= n THEN q + 1 ELSE n) - lo ELSE 0
    BY <1>1, <1>3, <1>6
  <2> HIDE DEF a, b, last, falls, f, n
  <2>3. n \in Int
    BY <1>1, <1>6
  <2>4. CASE q + 1 <= n
    <3>1. q <= n
      BY <2>3, <2>4
    <3>2. a = (IF q > lo THEN q - lo ELSE 0) /\ b = IF q + 1 > lo THEN q + 1 - lo ELSE 0
      BY <2>1, <2>2, <2>4, <3>1
    <3>3. b = a + (IF falls /\ inc < q + 1 THEN 1 ELSE 0)
      BY <1>1, <1>2, <1>4, <2>4, <3>2
    <3> QED BY <3>3 DEF a, b, falls, T
  <2>5. CASE ~ q + 1 <= n
    <3>1. (IF q <= n THEN q ELSE n) = n
      BY <2>3, <2>5
    <3>2. a = b /\ a \in Int /\ ~ falls
      BY <1>4, <1>6, <2>1, <2>2, <2>3, <2>5, <3>1
    <3>3. b = a + (IF falls /\ inc < q + 1 THEN 1 ELSE 0)
      BY <3>2
    <3> QED BY <3>3 DEF a, b, falls, T
  <2> QED BY <2>4, <2>5
<1> QED BY <1>5, <1>6

\* A tier has a part of the quantity when a unit to be paid falls in it.
LEMMA UnitFalls ==
  ASSUME NEW id \in DOMAIN PriceBook, NEW j \in DOMAIN Tiers(id), NEW q \in Int, NEW inc \in Int
  PROVE  InTier(Tiers(id), j, q, inc) > 0
           <=> \E u \in 1 .. q : inc < u /\ TierOf(Tiers(id), u) = j
<1> DEFINE T == Tiers(id)
           f == T[j].from
           n == T[j + 1].from
           last == j = Len(T)
           part == InTier(T, j, q, inc)
<1>1. f \in Int /\ 0 <= f /\ (~ last => n \in Int)
  BY InTierIs
<1>2. PICK lo \in Int : lo = IF f >= inc THEN f ELSE inc
  BY <1>1
<1>3. PICK hi \in Int : /\ hi = (IF last \/ q <= n THEN q ELSE n)
                        /\ part = IF hi > lo THEN hi - lo ELSE 0
  BY <1>2, InTierIs
<1>4. ASSUME NEW u \in 1 .. q  PROVE TierOf(T, u) = j <=> f < u /\ (last \/ u <= n)
  <2>1. u \in Nat \ {0}
    OBVIOUS
  <2>2. Falls(T, u, j) <=> j = TierOf(T, u)
    BY <2>1, TierOfIs
  <2> QED BY <2>2 DEF Falls
<1> HIDE DEF T, f, n, last, part
<1>5. part > 0 <=> hi > lo
  <2>1. CASE hi > lo
    <3>1. part = hi - lo
      BY <1>3, <2>1
    <3> QED BY <2>1, <3>1
  <2>2. CASE ~ hi > lo
    <3>1. part = 0
      BY <1>3, <2>2
    <3> QED BY <2>2, <3>1
  <2> QED BY <2>1, <2>2
<1>6. hi <= q /\ (last \/ hi <= n) /\ f <= lo /\ inc <= lo /\ (lo = f \/ lo = inc)
  <2>1. hi <= q /\ (last \/ hi <= n)
    BY <1>1, <1>3
  <2>2. f <= lo /\ inc <= lo /\ (lo = f \/ lo = inc)
    BY <1>1, <1>2
  <2> QED BY <2>1, <2>2
<1>7. ASSUME hi > lo  PROVE \E u \in 1 .. q : inc < u /\ TierOf(T, u) = j
  <2>1. hi \in 1 .. q /\ inc < hi /\ f < hi
    BY <1>1, <1>6, <1>7
  <2>2. TierOf(T, hi) = j
    BY <1>4, <1>6, <2>1
  <2> QED BY <2>1, <2>2
<1>8. ASSUME NEW u \in 1 .. q, inc < u, TierOf(T, u) = j  PROVE hi > lo
  <2>1. f < u /\ (last \/ u <= n)
    BY <1>4, <1>8
  <2>2. u \in Int /\ u <= q
    OBVIOUS
  <2>3. u <= hi
    <3>1. CASE last
      BY <1>3, <2>2, <3>1
    <3>2. CASE ~ last
      BY <1>1, <1>3, <2>1, <2>2, <3>2
    <3> QED BY <3>1, <3>2
  <2> QED BY <1>1, <1>6, <1>8, <2>1, <2>2, <2>3
<1> QED BY <1>5, <1>7, <1>8 DEF part, T

\* Its price is that of the tier it falls in.
LEMMA UnitPrice ==
  ASSUME NEW id \in DOMAIN PriceBook, \A j \in DOMAIN Tiers(id) : Tiers(id)[j].price # Missing,
         NEW u \in Nat \ {0}, NEW inc, ~ u <= inc
  PROVE  PriceOfUnit(id, u, inc) = PriceOf(Tiers(id), TierOf(Tiers(id), u))
<1> DEFINE T == Tiers(id)
           m == TierOf(T, u)
           stops == {j \in DOMAIN T : T[j].price # 0}
           first == Min(stops)
<1>1. m \in Nat \ {0} /\ stops = PaidTiers(T)
  BY TierOfIs, TiersAre DEF PaidTiers
<1>2. stops # {} => first \in stops /\ T[first].price # Missing
  <2>1. stops \in SUBSET Nat
    BY TiersAre
  <2>2. stops # {} => \E x \in stops : \A y \in stops : x =< y
    BY <2>1, Least
  <2>3. stops # {} => first \in stops
    BY <2>2 DEF Min
  <2> QED BY <2>3
<1>3. PriceOfUnit(id, u, inc) =
        IF stops # {} /\ m < first /\ T[first].price # None THEN T[first].price ELSE T[m].price
  BY <1>1 DEF PriceOfUnit
<1>4. Granted(T) = IF stops = {} \/ T[first].price \in {None, Missing} THEN 1 ELSE first
  BY DEF Granted
<1>5. PriceOf(T, m) = IF m < Granted(T) THEN T[Granted(T)].price ELSE T[m].price
  BY DEF PriceOf
<1> HIDE DEF T, m, stops, first
<1>6. ~ m < 1
  BY <1>1
<1> QED BY <1>2, <1>3, <1>4, <1>5, <1>6 DEF T, m

\* Two ways to write a sum.
LEMMA SumUnique ==
  ASSUME NEW w, NEW S, Sums(w, S), NEW g, Adds(g, w, S)
  PROVE  g[S] = SumFunctionOnSet(w, S)
<1>1. PICK h : Adds(h, w, S) /\ SumFunctionOnSet(w, S) = h[S]
  BY SumIs
<1> DEFINE b == [x \in S |-> x]
<1>2. Renames(b, S, S) /\ \A x \in S : w[b[x]] = w[x]
  BY DEF Renames
<1> HIDE DEF b
<1>3. g[S] = h[S]
  BY <1>1, <1>2, SumMoves DEF Sums
<1> QED BY <1>1, <1>3

LEMMA SumWithout ==
  ASSUME NEW w, NEW S, Sums(w, S), NEW R \in SUBSET S, \A x \in S \ R : w[x] = 0
  PROVE  SumFunctionOnSet(w, R) = SumFunctionOnSet(w, S)
<1> DEFINE Sum(s) == SumFunctionOnSet(w, s)
           Off == {s \in SUBSET S : R \subseteq s /\ Sum(s) # Sum(R)}
           N == {Cardinality(s) : s \in Off}
<1>1. ASSUME NEW s \in SUBSET S
      PROVE  IsFiniteSet(s) /\ Cardinality(s) \in Nat /\ Sums(w, s)
  BY FS_Subset, FS_CardinalityType DEF Sums
<1> HIDE DEF Sum
<1>2. ASSUME Off # {}  PROVE FALSE
  <2>1. N \in SUBSET Nat /\ N # {}
    BY <1>1, <1>2
  <2>2. PICK c \in N : \A k \in N : c <= k
    <3> HIDE DEF N
    <3> QED BY <2>1, Least
  <2>3. PICK s \in Off : c = Cardinality(s)
    BY <2>2
  <2>4. PICK y \in s : y \notin R
    BY <2>3
  <2>5. s \ {y} \in SUBSET S /\ R \subseteq s \ {y} /\ w[y] = 0
    BY <2>4
  <2>6. Sum(s) = 0 + Sum(s \ {y}) /\ Sum(s \ {y}) \in Int
    BY <1>1, <2>4, <2>5, SumSplit, SumIsNumber DEF Sum
  <2>7. Cardinality(s \ {y}) \in Nat /\ Cardinality(s \ {y}) < Cardinality(s)
    BY <1>1, <2>4, PickedLess
  <2>8. s \ {y} \notin Off
    <3>1. ASSUME s \ {y} \in Off  PROVE FALSE
      <4>1. Cardinality(s \ {y}) \in N
        BY <3>1
      <4> QED BY <1>1, <2>2, <2>3, <2>7, <4>1
    <3> QED BY <3>1
  <2>9. Sum(s \ {y}) = Sum(R)
    BY <2>5, <2>8
  <2> QED BY <2>3, <2>6, <2>9
<1> QED BY <1>2 DEF Sum

(***************************************************************************)
(* Tier by tier or unit by unit, whatever each tier's units are priced at.  *)
(***************************************************************************)
LEMMA UnitSums ==
  ASSUME NEW id \in DOMAIN PriceBook, NEW inc \in Int, NEW p \in [DOMAIN Tiers(id) -> Int],
         NEW quantity \in Nat
  PROVE  SumFunctionOnSet([j \in DOMAIN Tiers(id) |-> InTier(Tiers(id), j, quantity, inc) * p[j]],
                          DOMAIN Tiers(id))
           = SumFunctionOnSet([u \in 1 .. quantity |-> IF u <= inc THEN 0 ELSE p[TierOf(Tiers(id), u)]],
                              1 .. quantity)
<1> DEFINE T == Tiers(id)
           D == DOMAIN T
           part(q) == [j \in D |-> InTier(T, j, q, inc) * p[j]]
           unit == [u \in Nat \ {0} |-> IF u <= inc THEN 0 ELSE p[TierOf(T, u)]]
           ByTier(q) == SumFunctionOnSet(part(q), D)
           ByUnit(q) == SumFunctionOnSet(unit, 1 .. q)
<1>1. ASSUME NEW q \in Nat
      PROVE  /\ Sums(part(q), D) /\ Sums(unit, 1 .. q)
             /\ ByUnit(q) = SumFunctionOnSet([u \in 1 .. q |-> IF u <= inc THEN 0 ELSE p[TierOf(T, u)]], 1 .. q)
  <2>1. IsFiniteSet(D) /\ IsFiniteSet(1 .. q) /\ q \in Int
    BY TiersAre, FS_Interval
  <2>2. ASSUME NEW j \in D  PROVE part(q)[j] \in Int
    <3>1. InTier(T, j, q, inc) \in Int /\ p[j] \in Int
      BY <2>1, PartIs
    <3> HIDE DEF T
    <3> QED BY <3>1
  <2>3. ASSUME NEW u \in 1 .. q  PROVE u \in Nat \ {0} /\ unit[u] \in Int
    <3>1. u \in Nat \ {0}
      OBVIOUS
    <3>2. p[TierOf(T, u)] \in Int
      BY <3>1, TierOfIs
    <3> HIDE DEF T
    <3> QED BY <3>1, <3>2
  <2>4. Sums(unit, 1 .. q)
    BY <2>1, <2>3 DEF Sums
  <2> DEFINE v == [u \in 1 .. q |-> IF u <= inc THEN 0 ELSE p[TierOf(T, u)]]
  <2>5. \A u \in 1 .. q : v[u] = unit[u]
    BY <2>3
  <2>6. SumFunctionOnSet(v, 1 .. q) = ByUnit(q)
    <3> HIDE DEF v, unit
    <3> QED BY <2>4, <2>5, SumSame DEF ByUnit
  <2> QED BY <2>1, <2>2, <2>4, <2>6 DEF Sums
<1>2. ByTier(0) = ByUnit(0)
  <2>1. 1 .. 0 = {}
    OBVIOUS
  <2>2. ByUnit(0) = 0
    BY <2>1, SumOfNone
  <2>3. ASSUME NEW j \in D  PROVE part(0)[j] = 0
    <3>1. InTier(T, j, 0, inc) \in Nat /\ ~ InTier(T, j, 0, inc) > 0
      BY <2>1, UnitFalls, PartIsLeft
    <3>2. InTier(T, j, 0, inc) = 0 /\ p[j] \in Int
      BY <3>1
    <3> HIDE DEF T
    <3> QED BY <3>2
  <2>4. Sums(part(0), D) /\ {} \in SUBSET D
    BY <1>1
  <2>5. ByTier(0) = SumFunctionOnSet(part(0), {})
    <3> HIDE DEF part, D
    <3> QED BY <2>3, <2>4, SumWithout DEF ByTier
  <2> QED BY <2>2, <2>5, SumOfNone
<1>3. ASSUME NEW q \in Nat, ByTier(q) = ByUnit(q)  PROVE ByTier(q + 1) = ByUnit(q + 1)
  <2> DEFINE m == TierOf(T, q + 1)
             more == IF q + 1 <= inc THEN 0 ELSE p[m]
             a == part(q)
             b == part(q + 1)
  <2>1. q + 1 \in Nat \ {0} /\ q + 1 \in Nat /\ m \in D
    BY TierOfIs
  <2>2. ASSUME NEW j \in D  PROVE b[j] = a[j] + (IF j = m THEN more ELSE 0) /\ a[j] \in Int
    <3> DEFINE x == InTier(T, j, q, inc)
               y == InTier(T, j, q + 1, inc)
    <3>1. x \in Int /\ p[j] \in Int
      BY PartIs
    <3>2. y = x + (IF j = m /\ inc < q + 1 THEN 1 ELSE 0)
      BY <2>1, NextUnit, TierOfIs
    <3>3. a[j] = x * p[j] /\ b[j] = y * p[j]
      OBVIOUS
    <3>4. inc < q + 1 <=> ~ q + 1 <= inc
      OBVIOUS
    <3> HIDE DEF x, y, a, b, m
    <3>5. CASE j = m /\ inc < q + 1
      <4>1. y = x + 1 /\ more = p[j]
        BY <3>2, <3>4, <3>5
      <4>2. (x + 1) * p[j] = x * p[j] + p[j] /\ x * p[j] \in Int
        BY <3>1
      <4> QED BY <3>3, <3>5, <4>1, <4>2
    <3>6. CASE ~ (j = m /\ inc < q + 1)
      <4>1. y = x /\ (j = m => more = 0)
        BY <3>1, <3>2, <3>4, <3>6
      <4>2. x * p[j] \in Int
        BY <3>1
      <4> QED BY <3>3, <4>1, <4>2
    <3> QED BY <3>5, <3>6
  <2>3. Sums(a, D) /\ Sums(b, D) /\ Sums(unit, 1 .. q + 1) /\ Sums(unit, 1 .. q)
    BY <1>1, <2>1
  <2>4. (1 .. q + 1) \ {q + 1} = 1 .. q /\ q + 1 \in 1 .. q + 1
    OBVIOUS
  <2>5. unit[q + 1] = more
    BY <2>1
  <2>6. ByTier(q) = SumFunctionOnSet(a, D) /\ ByTier(q + 1) = SumFunctionOnSet(b, D)
    OBVIOUS
  <2>7. Sums(a, D \ {m})
    BY <2>3, FS_Subset DEF Sums
  <2> HIDE DEF a, b, D, unit, more, m, T, part, ByTier
  <2>8. ByUnit(q + 1) = more + ByUnit(q) /\ ByUnit(q) \in Int
    <3>1. SumFunctionOnSet(unit, 1 .. q + 1) = unit[q + 1] + SumFunctionOnSet(unit, (1 .. q + 1) \ {q + 1})
      BY <2>3, <2>4, SumSplit
    <3>2. ByUnit(q) \in Int
      BY <2>3, SumIsNumber
    <3> QED BY <2>4, <2>5, <3>1, <3>2
  <2>9. SumFunctionOnSet(b, D \ {m}) = SumFunctionOnSet(a, D \ {m})
    <3>1. \A j \in D \ {m} : b[j] = a[j]
      <4> SUFFICES ASSUME NEW j \in D \ {m} PROVE b[j] = a[j]
        OBVIOUS
      <4>1. b[j] = a[j] + 0 /\ a[j] \in Int
        BY <2>2
      <4> QED BY <4>1
    <3> QED BY <2>7, <3>1, SumSame
  <2>10. /\ SumFunctionOnSet(a, D) = a[m] + SumFunctionOnSet(a, D \ {m})
         /\ SumFunctionOnSet(b, D) = b[m] + SumFunctionOnSet(b, D \ {m})
         /\ SumFunctionOnSet(a, D \ {m}) \in Int
    BY <2>1, <2>3, <2>7, SumSplit, SumIsNumber
  <2>11. b[m] = a[m] + more /\ a[m] \in Int /\ more \in Int
    <3>1. unit[q + 1] \in Int
      BY <2>3, <2>4 DEF Sums
    <3> QED BY <2>1, <2>2, <2>5, <3>1
  <2> DEFINE r == SumFunctionOnSet(a, D \ {m})
             x == a[m]
             y == more
  <2>12. ByTier(q) = x + r /\ ByTier(q + 1) = (x + y) + r
    BY <2>6, <2>9, <2>10, <2>11
  <2>13. x \in Int /\ y \in Int /\ r \in Int
    BY <2>10, <2>11
  <2> HIDE DEF x, r, y
  <2>14. ByTier(q + 1) = y + ByTier(q)
    BY <2>12, <2>13
  <2> QED BY <1>3, <2>8, <2>14 DEF y
<1>4. \A q \in Nat : ByTier(q) = ByUnit(q)
  <2> DEFINE Off == {q \in Nat : ByTier(q) # ByUnit(q)}
  <2> HIDE DEF ByTier, ByUnit
  <2>1. ASSUME Off # {}  PROVE FALSE
    <3>1. PICK q \in Off : \A k \in Off : q <= k
      <4>1. Off \in SUBSET Nat
        OBVIOUS
      <4> HIDE DEF Off
      <4> QED BY <2>1, <4>1, Least
    <3>2. q # 0
      BY <1>2, <3>1
    <3>3. q - 1 \in Nat /\ (q - 1) + 1 = q /\ q - 1 \notin Off
      BY <3>1, <3>2
    <3> QED BY <1>3, <3>1, <3>3
  <2> QED BY <2>1
<1>5. ByTier(quantity) = ByUnit(quantity)
  BY <1>4
<1>6. ByUnit(quantity) =
        SumFunctionOnSet([u \in 1 .. quantity |-> IF u <= inc THEN 0 ELSE p[TierOf(T, u)]], 1 .. quantity)
  BY <1>1
<1> QED BY <1>5, <1>6

\* What the bill and the bill by units add up, as sums of weights.
LEMMA TiersSum ==
  ASSUME NEW id \in DOMAIN PriceBook, NEW q \in Int, NEW inc \in Int,
         NEW R \in SUBSET DOMAIN Tiers(id), NEW p \in [DOMAIN Tiers(id) -> Int],
         \A j \in R : PriceOf(Tiers(id), j) = p[j]
  PROVE  MapThenSumSet(LAMBDA j : InTier(Tiers(id), j, q, inc) * PriceOf(Tiers(id), j), R)
           = SumFunctionOnSet([j \in DOMAIN Tiers(id) |-> InTier(Tiers(id), j, q, inc) * p[j]], R)
<1> DEFINE T == Tiers(id)
           D == DOMAIN T
           w == [j \in D |-> InTier(T, j, q, inc) * p[j]]
           c(j) == InTier(T, j, q, inc) * PriceOf(T, j)
           P(g) == g = [s \in SUBSET R |-> IF s = {} THEN 0
                          ELSE c(CHOOSE x \in s : TRUE) + g[s \ {CHOOSE x \in s : TRUE}]]
           h == CHOOSE g : P(g)
<1>1. MapThenSumSet(LAMBDA j : InTier(T, j, q, inc) * PriceOf(T, j), R) = h[R]
  BY DEF MapThenSumSet, MapThenFoldSet
<1>2. Sums(w, R)
  <2>1. IsFiniteSet(R)
    BY TiersAre, FS_Interval, FS_Subset
  <2>2. ASSUME NEW j \in D  PROVE w[j] \in Int
    <3>1. InTier(T, j, q, inc) \in Int /\ p[j] \in Int
      BY PartIs
    <3> HIDE DEF T
    <3> QED BY <3>1
  <2> HIDE DEF w, D
  <2> QED BY <2>1, <2>2 DEF Sums, D
<1>3. \A j \in R : w[j] = c(j)
  OBVIOUS
<1> HIDE DEF c, w
<1>4. ASSUME NEW g  PROVE P(g) <=> Adds(g, w, R)
  <2>1. \A s \in SUBSET R : s # {} => w[Pick(s)] = c(CHOOSE x \in s : TRUE)
    BY <1>3 DEF Pick
  <2> HIDE DEF T, D
  <2> QED BY <2>1, ZenonT(60) DEF Adds, Pick
<1> HIDE DEF P
<1>5. P(h)
  <2>1. \E g : P(g)
    BY <1>2, <1>4, SumExists DEF Sums
  <2> QED BY <2>1
<1>6. h[R] = SumFunctionOnSet(w, R)
  BY <1>2, <1>4, <1>5, SumUnique
<1> QED BY <1>1, <1>6 DEF w, T, D

UnitsPaid(id, inc, U) == MapThenSumSet(LAMBDA u : PriceOfUnit(id, u, inc), U)

LEMMA UnitsSum ==
  ASSUME NEW id, NEW inc, NEW U, IsFiniteSet(U), NEW w, \A u \in U : w[u] \in Int,
         \A u \in U : PriceOfUnit(id, u, inc) = w[u]
  PROVE  UnitsPaid(id, inc, U) = SumFunctionOnSet(w, U)
<1> DEFINE c(u) == PriceOfUnit(id, u, inc)
           P(g) == g = [s \in SUBSET U |-> IF s = {} THEN 0
                          ELSE c(CHOOSE x \in s : TRUE) + g[s \ {CHOOSE x \in s : TRUE}]]
           h == CHOOSE g : P(g)
<1>1. UnitsPaid(id, inc, U) = h[U]
  BY DEF UnitsPaid, MapThenSumSet, MapThenFoldSet
<1>2. Sums(w, U) /\ \A u \in U : w[u] = c(u)
  BY DEF Sums
<1> HIDE DEF c
<1>3. ASSUME NEW g  PROVE P(g) <=> Adds(g, w, U)
  <2>1. \A s \in SUBSET U : s # {} => w[Pick(s)] = c(CHOOSE x \in s : TRUE)
    BY <1>2 DEF Pick
  <2> QED BY <2>1 DEF Adds, Pick
<1> HIDE DEF P
<1>4. P(h)
  <2>1. \E g : P(g)
    BY <1>2, <1>3, SumExists DEF Sums
  <2> QED BY <2>1
<1>5. h[U] = SumFunctionOnSet(w, U)
  BY <1>2, <1>3, <1>4, SumUnique
<1> QED BY <1>1, <1>5

(***************************************************************************)
(* Bill charges every unit once, at the price of the tier it falls in: the  *)
(* parts of the tiers, the free grants and the included units leave none    *)
(* out and charge none twice (meter/billing.go, Bill).                      *)
(***************************************************************************)
THEOREM BillsEveryUnitOnce ==
  ASSUME NEW id \in DOMAIN PriceBook, NEW quantity \in Int, NEW included \in Int
  PROVE  Bill(id, quantity, included).usd = UnitByUnit(id, quantity, included)
<1> DEFINE T == Tiers(id)
           D == DOMAIN T
           U == 1 .. quantity
           part(j) == InTier(T, j, quantity, included)
           bad == {j \in D : T[j].price = Missing \/ NotOffered(T, j, part(j))}
           used == {j \in D : part(j) > 0}
           price(u) == PriceOfUnit(id, u, included)
           byTier == MapThenSumSet(LAMBDA j : InTier(T, j, quantity, included) * PriceOf(T, j), used)
           byUnit == MapThenSumSet(LAMBDA u : PriceOfUnit(id, u, included), U)
<1>1. Bill(id, quantity, included).usd =
        IF bad # {} THEN None
        ELSE IF \E j \in used : PriceOf(T, j) = None THEN None ELSE byTier
  BY DEF Bill, Priced, Failed
<1>2. UnitByUnit(id, quantity, included) =
        IF ~ Sold(id, quantity, included) THEN None
        ELSE IF \E u \in U : price(u) = None THEN None ELSE byUnit
  BY DEF UnitByUnit
<1>3. ASSUME NEW u \in U  PROVE u \in Nat \ {0} /\ u \in Int /\ TierOf(T, u) \in D
  BY TierOfIs
<1>4. ASSUME NEW j \in D  PROVE part(j) > 0 <=> \E u \in U : included < u /\ TierOf(T, u) = j
  BY UnitFalls
<1>5. ASSUME NEW u \in U  PROVE included < u <=> ~ u <= included
  BY <1>3
<1>6. bad = {} <=> Sold(id, quantity, included)
  <2>1. Sold(id, quantity, included) <=>
          /\ \A j \in D : T[j].price # Missing
          /\ \A u \in U : included < u => (T[TierOf(T, u)].price = None => ~ T[TierOf(T, u)].verified)
    BY DEF Sold
  <2>2. \A j \in D : NotOffered(T, j, part(j)) <=> T[j].price = None /\ T[j].verified /\ part(j) > 0
    BY DEF NotOffered
  <2> HIDE DEF T, D, U, part
  <2>3. ASSUME bad = {}  PROVE Sold(id, quantity, included)
    <3>1. \A j \in D : T[j].price # Missing /\ ~ NotOffered(T, j, part(j))
      BY <2>3
    <3>2. ASSUME NEW u \in U, included < u, T[TierOf(T, u)].price = None
          PROVE  ~ T[TierOf(T, u)].verified
      <4>1. part(TierOf(T, u)) > 0
        BY <1>3, <1>4, <3>2
      <4> QED BY <1>3, <2>2, <3>1, <3>2, <4>1
    <3> QED BY <2>1, <3>1, <3>2
  <2>4. ASSUME Sold(id, quantity, included), NEW j \in bad  PROVE FALSE
    <3>1. j \in D /\ T[j].price = None /\ T[j].verified /\ part(j) > 0
      BY <2>1, <2>2, <2>4
    <3>2. PICK u \in U : included < u /\ TierOf(T, u) = j
      BY <1>4, <3>1
    <3> QED BY <2>1, <2>4, <3>1, <3>2
  <2> QED BY <2>3, <2>4
<1>7. CASE bad # {}
  <2> HIDE DEF bad, byTier, byUnit, used, U, T
  <2> QED BY <1>1, <1>2, <1>6, <1>7
<1>8. CASE bad = {}
  <2>1. \A j \in D : T[j].price # Missing
    BY <1>8
  <2>2. ASSUME NEW u \in U  PROVE price(u) = IF u <= included THEN 0 ELSE PriceOf(T, TierOf(T, u))
    <3>1. CASE u <= included
      BY <3>1 DEF PriceOfUnit
    <3>2. CASE ~ u <= included
      BY <1>3, <2>1, <3>2, UnitPrice
    <3> QED BY <3>1, <3>2
  <2>3. 0 # None
    BY GraphAssumption, ReadingsAssumption
  <2>4. (\E j \in used : PriceOf(T, j) = None) <=> (\E u \in U : price(u) = None)
    <3> HIDE DEF T, U, part, price, D
    <3>1. ASSUME NEW j \in used, PriceOf(T, j) = None  PROVE \E u \in U : price(u) = None
      <4>1. PICK u \in U : included < u /\ TierOf(T, u) = j
        BY <1>4
      <4> QED BY <1>5, <2>2, <3>1, <4>1
    <3>2. ASSUME NEW u \in U, price(u) = None  PROVE \E j \in used : PriceOf(T, j) = None
      <4>1. ~ u <= included /\ PriceOf(T, TierOf(T, u)) = None
        BY <2>2, <2>3, <3>2
      <4>2. TierOf(T, u) \in used
        BY <1>3, <1>4, <1>5, <4>1
      <4> QED BY <4>1, <4>2
    <3> QED BY <3>1, <3>2
  <2>5. ASSUME \A j \in used : PriceOf(T, j) # None  PROVE byTier = byUnit
    <3> DEFINE p == [j \in D |-> IF PriceOf(T, j) = None THEN 0 ELSE PriceOf(T, j)]
               w == [j \in D |-> InTier(T, j, quantity, included) * p[j]]
               v == [u \in U |-> IF u <= included THEN 0 ELSE p[TierOf(T, u)]]
    <3>1. p \in [D -> Int]
      <4>1. ASSUME NEW j \in D, PriceOf(T, j) # None  PROVE PriceOf(T, j) \in Int
        BY <2>1, <4>1, PriceIs
      <4> HIDE DEF T, D
      <4> QED BY <4>1
    <3>2. \A j \in used : PriceOf(T, j) = p[j]
      BY <2>5
    <3>3. byTier = SumFunctionOnSet(w, used)
      <4> HIDE DEF p
      <4>1. used \in SUBSET DOMAIN Tiers(id)
        OBVIOUS
      <4> HIDE DEF used
      <4> QED BY <3>1, <3>2, <4>1, TiersSum
    <3>4. Sums(w, D) /\ \A j \in D \ used : w[j] = 0
      <4> HIDE DEF p
      <4>1. IsFiniteSet(D)
        BY TiersAre, FS_Interval
      <4>2. ASSUME NEW j \in D  PROVE w[j] \in Int /\ (j \notin used => w[j] = 0)
        <5>1. part(j) \in Nat /\ p[j] \in Int /\ w[j] = part(j) * p[j]
          BY <3>1, PartIsLeft
        <5>2. j \notin used => ~ part(j) > 0
          OBVIOUS
        <5> HIDE DEF part, used, w, T
        <5>3. j \notin used => part(j) = 0
          BY <5>1, <5>2
        <5>4. part(j) * p[j] \in Int /\ (part(j) = 0 => part(j) * p[j] = 0)
          BY <5>1
        <5> QED BY <5>1, <5>3, <5>4
      <4> HIDE DEF w, used, D
      <4> QED BY <4>1, <4>2 DEF Sums
    <3>5. SumFunctionOnSet(w, used) = SumFunctionOnSet(w, D)
      <4>1. used \in SUBSET D
        OBVIOUS
      <4> HIDE DEF w, used, D
      <4> QED BY <3>4, <4>1, SumWithout
    <3>6. SumFunctionOnSet(w, D) = SumFunctionOnSet(v, U)
      <4>1. CASE quantity \in Nat
        <5> HIDE DEF p
        <5> QED BY <3>1, <4>1, UnitSums
      <4>2. CASE quantity \notin Nat
        <5>1. U = {}
          BY <4>2
        <5>2. used = {}
          BY <1>4, <5>1
        <5>3. SumFunctionOnSet(w, used) = 0 /\ SumFunctionOnSet(v, U) = 0
          <6> HIDE DEF w, v, used, U
          <6> QED BY <5>1, <5>2, SumOfNone
        <5> HIDE DEF w, v, used, U, D
        <5> QED BY <3>5, <5>3
      <4> QED BY <4>1, <4>2
    <3>7. byUnit = SumFunctionOnSet(v, U)
      <4>1. ASSUME NEW u \in U  PROVE v[u] \in Int /\ price(u) = v[u]
        <5>1. v[u] = IF u <= included THEN 0 ELSE p[TierOf(T, u)]
          OBVIOUS
        <5>2. p[TierOf(T, u)] \in Int
          BY <1>3, <3>1
        <5>3. ~ u <= included => TierOf(T, u) \in used
          BY <1>3, <1>4, <1>5
        <5> HIDE DEF v, p, used, price, T
        <5> QED BY <2>2, <3>2, <5>1, <5>2, <5>3
      <4>2. IsFiniteSet(U)
        BY FS_Interval
      <4>3. byUnit = UnitsPaid(id, included, U)
        BY DEF UnitsPaid
      <4> HIDE DEF v, U, byUnit
      <4> QED BY <4>1, <4>2, <4>3, UnitsSum
    <3> HIDE DEF byTier, byUnit, w, v, used, U, D
    <3> QED BY <3>3, <3>5, <3>6, <3>7
  <2> HIDE DEF bad, byTier, byUnit, used, U, T, price
  <2>6. Sold(id, quantity, included)
    BY <1>6, <1>8
  <2>7. CASE \E j \in used : PriceOf(T, j) = None
    BY <1>1, <1>2, <1>8, <2>4, <2>6, <2>7
  <2>8. CASE ~ \E j \in used : PriceOf(T, j) = None
    <3>1. Bill(id, quantity, included).usd = byTier /\ UnitByUnit(id, quantity, included) = byUnit
      BY <1>1, <1>2, <1>8, <2>4, <2>6, <2>8
    <3> QED BY <2>5, <2>8, <3>1
  <2> QED BY <2>7, <2>8
<1> QED BY <1>7, <1>8

-----------------------------------------------------------------------------
(***************************************************************************)
(* What propagate hands over: numbers, for nodes that have one id each.     *)
(***************************************************************************)
Loads == [Kind -> [monthly : Int, sized : Int]]
DInv ==
  /\ demand \in [Id -> Loads] /\ out \in Int
  /\ pc \in {"nodes", "edges", "queue", "sort", "ordered"} => GroupsOK

LEMMA NodeOfIs ==
  ASSUME GInv, pc = "ordered", NEW n \in known
  PROVE  /\ \E k \in 1 .. Len(decl.nodes) : NodeOf(n) = decl.nodes[k]
         /\ NodeOf(n) \in NodeDecl /\ NodeOf(n).id = n /\ n \in Id
<1>1. known = Ids(Len(decl.nodes))
  BY DEF GInv, KnownIds, Sorting
<1>2. \E k \in 1 .. Len(decl.nodes) : decl.nodes[k].id = n
  BY <1>1 DEF Ids
<1>3. PICK k \in 1 .. Len(decl.nodes) : NodeOf(n) = decl.nodes[k] /\ decl.nodes[k].id = n
  BY <1>2 DEF NodeOf
<1>4. decl.nodes[k] \in NodeDecl /\ n \in Id
  BY DeclType DEF GInv, GraphTypeOK
<1> QED BY <1>3, <1>4

LEMMA LineIsKnown ==
  ASSUME GInv, pc = "ordered", NEW k \in 1 .. Len(line)
  PROVE  line[k] \in known
<1>1. line[k] \in Id
  BY DEF GInv, GraphTypeOK
<1>2. InLine(line[k])
  BY DEF InLine
<1> QED BY <1>1, <1>2 DEF GInv, Queued, Sorting

LEMMA EndsAreKnown ==
  ASSUME GInv, pc = "ordered", NEW e \in Edges
  PROVE  From(e) \in known /\ To(e) \in known
BY DEF GInv, KnownEnds, EndsKnown, Sorting, Edges

LEMMA DefaultKindIs ==
  ASSUME GInv, pc = "ordered", NEW n \in known
  PROVE  DefaultKind(n) \in Kind
<1> DEFINE kinds == NodeOf(n).kinds
<1>1. kinds \in Seq(Kind) \cup {None}
  BY NodeOfIs DEF NodeDecl
<1>2. DefaultKind(n) = IF kinds = None THEN Request ELSE IF kinds = <<>> THEN Request ELSE kinds[1]
  BY DEF DefaultKind
<1> HIDE DEF kinds
<1>3. kinds \in Seq(Kind) /\ kinds # <<>> => kinds[1] \in Kind
  OBVIOUS
<1> QED BY <1>1, <1>2, <1>3, GraphAssumption

LEMMA OperationsAre ==
  ASSUME GInv, NEW e \in Edges
  PROVE  LET ops == Operations(decl.edges[e]) IN
         /\ IsFiniteSet(DOMAIN ops)
         /\ \A j \in DOMAIN ops :
              Factor(ops[j]) \in Int /\ (ops[j].kb # None => ops[j].kb \in Int)
<1> DEFINE ops == Operations(decl.edges[e])
<1>1. decl.edges[e] \in EdgeDecl
  BY DeclType DEF GInv, Edges
<1>2. ops \in Seq(Op)
  <2>1. decl.edges[e].ops \in Seq(Op) /\ decl.edges[e].short \in Op
    BY <1>1 DEF EdgeDecl
  <2> QED BY <2>1 DEF Operations
<1> HIDE DEF ops
<1>3. Len(ops) \in Nat /\ DOMAIN ops = 1 .. Len(ops) /\ \A j \in DOMAIN ops : ops[j] \in Op
  BY <1>2
<1>4. IsFiniteSet(DOMAIN ops)
  BY <1>3, FS_Interval
<1>5. ASSUME NEW x \in Op  PROVE Factor(x) \in Int /\ (x.kb # None => x.kb \in Int)
  BY DEF Op, Factor
<1>6. \A j \in DOMAIN ops : Factor(ops[j]) \in Int /\ (ops[j].kb # None => ops[j].kb \in Int)
  BY <1>3, <1>5
<1> QED BY <1>4, <1>6 DEF ops

LEMMA PerUnitIs ==
  ASSUME GInv, NEW e \in Edges, NEW k, NEW b
  PROVE  PerUnit(e, k, b) \in Int
<1> DEFINE ops == Operations(decl.edges[e])
           w == [j \in DOMAIN ops |-> Factor(ops[j])]
           S == {j \in DOMAIN ops : OpKind(e, ops[j]) = k /\ (b => ops[j].kb # None)}
<1>1. PerUnit(e, k, b) = SumFunctionOnSet(w, S)
  BY DEF PerUnit
<1>2. S \in SUBSET DOMAIN ops /\ IsFiniteSet(DOMAIN ops) /\ \A j \in DOMAIN ops : w[j] \in Int
  BY OperationsAre
<1> HIDE DEF w, S
<1>3. Sums(w, S)
  BY <1>2, FS_Subset DEF Sums
<1> QED BY <1>1, <1>3, SumIsNumber

LEMMA SizedIs ==
  ASSUME GInv, NEW e \in Edges
  PROVE  Sized(e) \in Int
<1> DEFINE ops == Operations(decl.edges[e])
           w == [j \in DOMAIN ops |-> Factor(ops[j]) * ops[j].kb]
           S == {j \in DOMAIN ops : ops[j].kb # None}
<1>1. Sized(e) = SumFunctionOnSet(w, S)
  BY DEF Sized
<1>2. S \in SUBSET DOMAIN ops /\ IsFiniteSet(DOMAIN ops)
  BY OperationsAre
<1>3. ASSUME NEW j \in S  PROVE w[j] \in Int
  <2>1. Factor(ops[j]) \in Int /\ ops[j].kb \in Int /\ j \in DOMAIN ops
    BY OperationsAre
  <2> HIDE DEF ops
  <2> QED BY <2>1
<1> HIDE DEF w, S
<1>4. Sums(w, S)
  BY <1>2, <1>3, FS_Subset DEF Sums
<1> QED BY <1>1, <1>4, SumIsNumber

LEMMA TotalIs ==
  ASSUME NEW d \in Loads
  PROVE  Total(d) \in Int
<1> DEFINE w == [k \in Kind |-> d[k].monthly]
<1>1. Total(d) = SumFunctionOnSet(w, Kind)
  BY DEF Total
<1>2. Sums(w, Kind)
  BY ReadingsAssumption DEF Sums, Loads
<1> HIDE DEF w
<1> QED BY <1>1, <1>2, SumIsNumber

LEMMA OwnedIs ==
  ASSUME GInv, DInv, pc = "ordered", NEW n \in known
  PROVE  Owned(n) \in Loads
<1> DEFINE l == NodeOf(n).load
           h == DefaultKind(n)
<1>1. n \in Id /\ demand[n] \in Loads /\ h \in Kind /\ l \in Int \cup {None}
  BY NodeOfIs, DefaultKindIs DEF DInv, NodeDecl
<1>2. CASE l = None
  BY <1>1, <1>2 DEF Owned
<1>3. CASE l # None
  <2> DEFINE m == AddLoad(demand[n][h], [monthly |-> l, sized |-> 0])
  <2>1. Owned(n) = [demand[n] EXCEPT ![h] = m]
    BY <1>3 DEF Owned
  <2>2. demand[n][h].monthly \in Int /\ demand[n][h].sized \in Int /\ l \in Int
    BY <1>1, <1>3 DEF Loads
  <2> HIDE DEF l
  <2>3. m \in [monthly : Int, sized : Int]
    BY <2>2 DEF AddLoad
  <2> HIDE DEF m, h
  <2> QED BY <1>1, <2>1, <2>3 DEF Loads
<1> QED BY <1>2, <1>3

LEMMA DemandKeeps ==
  ASSUME GInv, FInv, DInv, [Next]_allvars
  PROVE  DInv'
<1>1. CASE Take
  <2> DEFINE n == line[at + 1]
  <2>1. /\ pc = "ordered" /\ demand' = [demand EXCEPT ![n] = Owned(n)] /\ out' = Total(Owned(n))
        /\ UNCHANGED <<decl, pc>> /\ at + 1 \in 1 .. Len(line)
    BY <1>1, DeclType DEF Take, vars, GInv, GraphTypeOK, FInv
  <2>2. n \in known /\ n \in Id
    BY <2>1, LineIsKnown, NodeOfIs
  <2>3. Owned(n) \in Loads /\ Total(Owned(n)) \in Int
    BY <2>1, <2>2, OwnedIs, TotalIs
  <2>4. GroupsOK'
    BY <2>1 DEF DInv, GroupsOK
  <2> HIDE DEF n
  <2> QED BY <2>1, <2>2, <2>3, <2>4 DEF DInv
<1>2. CASE Push
  <2>1. PICK e \in Unpushed :
          demand' = [demand EXCEPT ![To(e)] = [k \in Kind |-> AddLoad(demand[To(e)][k], Carried(e, k))]]
    BY <1>2 DEF Push
  <2>2. pc = "ordered" /\ UNCHANGED <<decl, pc, out>> /\ e \in Edges
    BY <1>2, <2>1 DEF Push, vars, Unpushed, Outgoing
  <2>3. To(e) \in Id /\ demand[To(e)] \in Loads
    BY <2>2, DeclType DEF GInv, DInv
  <2>4. ASSUME NEW k \in Kind  PROVE AddLoad(demand[To(e)][k], Carried(e, k)) \in [monthly : Int, sized : Int]
    <3> DEFINE a == PerUnit(e, k, FALSE)
               b == PerUnit(e, k, TRUE)
               l == demand[To(e)][k]
    <3>1. a \in Int /\ b \in Int /\ out \in Int
      BY <2>2, PerUnitIs DEF DInv
    <3>2. l.monthly \in Int /\ l.sized \in Int
      BY <2>3 DEF Loads
    <3>3. Carried(e, k) = [monthly |-> out * a, sized |-> out * b]
      BY DEF Carried
    <3> HIDE DEF a, b, l
    <3>4. AddLoad(l, Carried(e, k)) = [monthly |-> l.monthly + out * a, sized |-> l.sized + out * b]
      BY <3>3 DEF AddLoad
    <3>5. AddLoad(l, Carried(e, k)) \in [monthly : Int, sized : Int]
      BY <3>1, <3>2, <3>4
    <3> QED BY <3>5 DEF l
  <2>5. [k \in Kind |-> AddLoad(demand[To(e)][k], Carried(e, k))] \in Loads
    BY <2>4 DEF Loads
  <2>6. GroupsOK'
    BY <2>2 DEF DInv, GroupsOK
  <2> QED BY <2>1, <2>2, <2>3, <2>5, <2>6 DEF DInv
<1>3. CASE Build /\ UNCHANGED flow
  <2>1. UNCHANGED <<demand, out>>
    BY <1>3 DEF flow
  <2>2. CASE ResolveTraffic
    <3>1. pc' \in {"groups", "refused"}
      BY <2>2 DEF ResolveTraffic, Refuse
    <3> QED BY <2>1, <3>1 DEF DInv
  <2>3. CASE GroupIDs
    <3>1. CASE pc' = "refused"
      BY <2>1, <3>1 DEF DInv
    <3>2. CASE GroupsOK /\ Goto("nodes")
      <4>1. GroupsOK'
        BY <3>2 DEF Goto, GroupsOK
      <4> QED BY <2>1, <4>1 DEF DInv
    <3> QED BY <2>3, <3>1, <3>2 DEF GroupIDs, Refuse
  <2>4. CASE ~ ResolveTraffic /\ ~ GroupIDs
    <3>1. /\ decl' = decl /\ pc \in {"nodes", "edges", "queue", "sort"}
      BY <1>3, <2>4 DEF Build, AddNode, NodesAdded, AddEdge, EdgesAdded, StartQueue, Relax, Pop,
         Sorted, Refuse, Goto
    <3>2. GroupsOK'
      BY <3>1 DEF DInv, GroupsOK
    <3> QED BY <2>1, <3>2 DEF DInv
  <2> QED BY <2>2, <2>3, <2>4
<1>4. CASE UNCHANGED allvars
  BY <1>4 DEF allvars, vars, flow, DInv, GroupsOK
<1> QED BY <1>1, <1>2, <1>3, <1>4 DEF Next, Return

LEMMA DemandBegins == Begin => DInv
<1> SUFFICES ASSUME Begin PROVE DInv
  OBVIOUS
<1>1. demand \in [Id -> Loads]
  BY DEF Begin, FlowInit, NoLoad, Loads
<1> QED BY <1>1 DEF Begin, Init, FlowInit, DInv

-----------------------------------------------------------------------------
(***************************************************************************)
(* Load is neither lost nor made up.  While it is propagated, a node has    *)
(* what it brings in, once it has been taken, and what has been pushed      *)
(* along the edges into it so far; and an edge is pushed along only when    *)
(* nothing will add to its source any more.                                 *)
(***************************************************************************)
Taken == {line[j] : j \in 1 .. at}
Pushed(n) == Incoming(n) \cap pushed
Got(n, k) == IF n \in Taken THEN BroughtIn(n, k) ELSE 0
Balanced ==
  \A n \in known : \A k \in Kind :
    /\ demand[n][k].monthly = Got(n, k) + PassedAlong(k, FALSE, Pushed(n))
    /\ demand[n][k].sized = PassedAlong(k, TRUE, Pushed(n))
PushedInOrder ==
  /\ \A e \in pushed : e \in Edges /\ From(e) \in Taken
  /\ \A j \in 1 .. at - 1 : Outgoing(line[j]) \subseteq pushed
CInv ==
  /\ pc # "ordered" => pushed = {} /\ demand = [n \in Id |-> [k \in Kind |-> NoLoad]]
  /\ pc = "ordered" => Balanced /\ PushedInOrder /\ (at # 0 => out = Total(demand[line[at]]))

LEMMA PassedIs ==
  ASSUME GInv, DInv, NEW e \in Edges, NEW k, NEW b
  PROVE  Passed(e, k, b) \in Int
<1>1. demand[From(e)] \in Loads
  BY DeclType DEF GInv, DInv
<1>2. Total(demand[From(e)]) \in Int /\ PerUnit(e, k, b) \in Int
  BY <1>1, TotalIs, PerUnitIs
<1> QED BY <1>2 DEF Passed

LEMMA SomePassed ==
  ASSUME GInv, DInv, NEW E \in SUBSET Edges, NEW k, NEW b, NEW w, w = [e \in E |-> Passed(e, k, b)]
  PROVE  Sums(w, E)
BY PassedIs, DeclType, FS_Subset DEF Sums, GInv

LEMMA PassedMore ==
  ASSUME GInv, DInv, NEW E \in SUBSET Edges, NEW e \in Edges \ E, NEW k, NEW b
  PROVE  /\ PassedAlong(k, b, E \cup {e}) = Passed(e, k, b) + PassedAlong(k, b, E)
         /\ Passed(e, k, b) \in Int /\ PassedAlong(k, b, E) \in Int
<1> DEFINE F == E \cup {e}
           w == [f \in F |-> Passed(f, k, b)]
           u == [f \in E |-> Passed(f, k, b)]
<1>1. Sums(w, F) /\ Sums(u, E)
  BY SomePassed
<1>2. w[e] = Passed(e, k, b) /\ F \ {e} = E /\ \A f \in E : w[f] = u[f]
  OBVIOUS
<1>3. PassedAlong(k, b, F) = SumFunctionOnSet(w, F) /\ PassedAlong(k, b, E) = SumFunctionOnSet(u, E)
  BY DEF PassedAlong
<1>4. e \in F
  OBVIOUS
<1> HIDE DEF w, u, F
<1>5. SumFunctionOnSet(w, F) = w[e] + SumFunctionOnSet(w, E)
  BY <1>1, <1>2, <1>4, SumSplit
<1>6. SumFunctionOnSet(w, E) = SumFunctionOnSet(u, E) /\ SumFunctionOnSet(u, E) \in Int
  BY <1>1, <1>2, SumSame, SumIsNumber
<1> QED BY <1>2, <1>3, <1>5, <1>6, PassedIs DEF F

\* What passes along edges whose sources do not change stays what it is.
LEMMA PassedStays ==
  ASSUME UNCHANGED decl, NEW E, \A e \in E : demand'[From(e)] = demand[From(e)], NEW k, NEW b
  PROVE  PassedAlong(k, b, E)' = PassedAlong(k, b, E)
<1>1. ASSUME NEW e \in E  PROVE Passed(e, k, b)' = Passed(e, k, b)
  <2>1. PerUnit(e, k, b)' = PerUnit(e, k, b)
    BY DEF PerUnit, OpKind, DefaultKind, NodeOf, To
  <2>2. Total(demand[From(e)])' = Total(demand[From(e)])
    BY DEF Total, From
  <2> QED BY <2>1, <2>2 DEF Passed
<1>2. [e \in E |-> Passed(e, k, b)]' = [e \in E |-> Passed(e, k, b)]
  BY <1>1
<1> QED BY <1>2 DEF PassedAlong

LEMMA StillHas ==
  ASSUME UNCHANGED <<decl, line>>, NEW n, NEW k
  PROVE  /\ BroughtIn(n, k)' = BroughtIn(n, k) /\ Incoming(n)' = Incoming(n)
         /\ Outgoing(n)' = Outgoing(n) /\ Edges' = Edges
         /\ \A e : From(e)' = From(e) /\ To(e)' = To(e)
BY DEF BroughtIn, NodeOf, DefaultKind, Incoming, Outgoing, Edges, From, To

LEMMA TakeBalances ==
  ASSUME GInv, FInv, DInv, CInv, Take
  PROVE  CInv'
<1>0. PICK m, n : m = at + 1 /\ n = line[at + 1]
  OBVIOUS
<1>1. /\ pc = "ordered" /\ Unpushed = {} /\ at' = m /\ m \in 1 .. Len(line) /\ at \in 0 .. Len(line)
      /\ demand' = [demand EXCEPT ![n] = Owned(n)] /\ out' = Total(Owned(n))
      /\ UNCHANGED <<decl, pc, known, line, pushed>>
  BY <1>0, DeclType DEF Take, vars, GInv, GraphTypeOK, FInv
<1>2. n \in known /\ n \in Id /\ n \notin Taken /\ Taken' = Taken \cup {n}
  <2>1. n \in known /\ n \in Id
    BY <1>0, <1>1, LineIsKnown, NodeOfIs
  <2>2. n \notin Taken
    BY <1>0, <1>1, DeclType DEF GInv, ForwardOrder, Taken
  <2>3. 1 .. m = (1 .. at) \cup {m}
    BY <1>0, <1>1
  <2> QED BY <1>0, <1>1, <2>1, <2>2, <2>3 DEF Taken
<1>3. Balanced /\ PushedInOrder /\ (at # 0 => Outgoing(line[at]) \subseteq pushed)
  BY <1>1 DEF CInv, Unpushed
<1>4. ASSUME NEW e \in pushed  PROVE demand'[From(e)] = demand[From(e)]
  BY <1>1, <1>2, <1>3 DEF PushedInOrder, DInv
<1>5. ASSUME NEW x \in known, NEW k \in Kind, NEW b
      PROVE  PassedAlong(k, b, Pushed(x))' = PassedAlong(k, b, Pushed(x)) /\ Pushed(x)' = Pushed(x)
  <2>1. Pushed(x)' = Pushed(x)
    BY <1>1, StillHas DEF Pushed
  <2>2. \A e \in Pushed(x) : demand'[From(e)] = demand[From(e)]
    BY <1>4 DEF Pushed
  <2>3. PassedAlong(k, b, Pushed(x))' = PassedAlong(k, b, Pushed(x))
    <3>1. ASSUME NEW E, E = Pushed(x)  PROVE PassedAlong(k, b, E)' = PassedAlong(k, b, E)
      BY <1>1, <2>2, <3>1, PassedStays
    <3> QED BY <2>1, <3>1 DEF PassedAlong
  <2> QED BY <2>1, <2>3
<1>6. ASSUME NEW x \in known, NEW k \in Kind
      PROVE  /\ demand'[x][k].monthly = Got(x, k)' + PassedAlong(k, FALSE, Pushed(x))
             /\ demand'[x][k].sized = PassedAlong(k, TRUE, Pushed(x))
  <2>1. /\ demand[x][k].monthly = Got(x, k) + PassedAlong(k, FALSE, Pushed(x))
        /\ demand[x][k].sized = PassedAlong(k, TRUE, Pushed(x))
    BY <1>3 DEF Balanced
  <2>2. CASE x # n
    <3>1. demand'[x] = demand[x] /\ Got(x, k)' = Got(x, k)
      <4>1. x \in Id
        BY <1>1, NodeOfIs
      <4> QED BY <1>1, <1>2, <2>2, <4>1, StillHas DEF DInv, Got
    <3> QED BY <2>1, <3>1
  <2>3. CASE x = n
    <3> DEFINE l == NodeOf(n).load
               h == DefaultKind(n)
               p == PassedAlong(k, FALSE, Pushed(x))
               d == demand[n][k]
    <3>1. demand'[n] = Owned(n) /\ Got(n, k) = 0 /\ Got(n, k)' = BroughtIn(n, k)
      BY <1>1, <1>2, StillHas DEF DInv, Got
    <3>2. demand[n] \in Loads /\ h \in Kind /\ l \in Int \cup {None} /\ None \notin Int
      BY <1>1, <1>2, NodeOfIs, DefaultKindIs, GraphAssumption DEF DInv, NodeDecl
    <3>3. d.monthly \in Int /\ d.sized \in Int
      BY <3>2 DEF Loads
    <3>4. p \in Int
      <4>1. Sums([e \in Pushed(x) |-> Passed(e, k, FALSE)], Pushed(x))
        BY SomePassed DEF Pushed, Incoming
      <4> QED BY <4>1, SumIsNumber DEF PassedAlong
    <3>5. d.monthly = p
      <4>1. d.monthly = 0 + p
        BY <2>1, <2>3, <3>1
      <4> HIDE DEF d, p
      <4> QED BY <3>4, <4>1
    <3>6. CASE l = None \/ k # h
      <4>1. Owned(n)[k] = d
        BY <3>2, <3>6 DEF Owned, Loads
      <4>2. BroughtIn(n, k) = 0
        BY <3>6 DEF BroughtIn
      <4> QED BY <2>1, <2>3, <3>1, <3>4, <3>5, <4>1, <4>2
    <3>7. CASE l # None /\ k = h
      <4> DEFINE c == [monthly |-> l, sized |-> 0]
      <4>1. Owned(n)[k] = AddLoad(d, c)
        BY <3>2, <3>7 DEF Owned, Loads
      <4>2. AddLoad(d, c).monthly = d.monthly + l /\ AddLoad(d, c).sized = d.sized + 0
        BY DEF AddLoad
      <4>3. BroughtIn(n, k) = l /\ l \in Int
        BY <3>2, <3>7 DEF BroughtIn
      <4> HIDE DEF l, h, c, p, d
      <4>4. demand'[n][k].monthly = l + p /\ demand'[n][k].sized = d.sized
        BY <3>1, <3>3, <3>4, <3>5, <4>1, <4>2, <4>3
      <4> QED BY <2>1, <2>3, <3>1, <4>3, <4>4 DEF p, d
    <3> QED BY <3>6, <3>7
  <2> QED BY <2>2, <2>3
<1>7. Balanced'
  <2>1. ASSUME NEW x \in known, NEW k \in Kind
        PROVE  /\ demand'[x][k].monthly = Got(x, k)' + PassedAlong(k, FALSE, Pushed(x))'
               /\ demand'[x][k].sized = PassedAlong(k, TRUE, Pushed(x))'
    <3> DEFINE p == PassedAlong(k, FALSE, Pushed(x))
               r == PassedAlong(k, TRUE, Pushed(x))
    <3>1. p' = p /\ r' = r
      BY <1>5
    <3>2. demand'[x][k].monthly = Got(x, k)' + p /\ demand'[x][k].sized = r
      BY <1>6
    <3> HIDE DEF p, r
    <3>3. demand'[x][k].monthly = Got(x, k)' + p' /\ demand'[x][k].sized = r'
      BY <3>1, <3>2
    <3> QED BY <3>3 DEF p, r
  <2> QED BY <1>1, <2>1 DEF Balanced
<1>8. PushedInOrder'
  <2>1. ASSUME NEW j \in 1 .. m - 1  PROVE Outgoing(line[j]) \subseteq pushed
    <3>1. CASE j = at
      BY <1>0, <1>1, <1>3, <3>1
    <3>2. CASE j # at
      BY <1>0, <1>1, <1>3, <3>2 DEF PushedInOrder
    <3> QED BY <3>1, <3>2
  <2>2. \A j \in 1 .. m - 1 : Outgoing(line[j])' \subseteq pushed'
    BY <1>1, <2>1, StillHas
  <2> QED BY <1>1, <1>2, <1>3, <2>2, StillHas DEF PushedInOrder
<1>9. out' = Total(demand[line[at]])'
  <2>1. demand'[n] = Owned(n) /\ line'[at'] = n
    BY <1>0, <1>1, <1>2 DEF DInv
  <2> QED BY <1>1, <2>1 DEF Total
<1> QED BY <1>1, <1>7, <1>8, <1>9 DEF CInv

LEMMA PushBalances ==
  ASSUME GInv, FInv, DInv, CInv, Push
  PROVE  CInv'
<1>1. PICK e \in Unpushed :
        /\ demand' = [demand EXCEPT ![To(e)] = [k \in Kind |-> AddLoad(demand[To(e)][k], Carried(e, k))]]
        /\ pushed' = pushed \cup {e}
  BY DEF Push
<1>0. PICK t : t = To(e)
  OBVIOUS
<1>2. /\ pc = "ordered" /\ UNCHANGED <<decl, pc, known, line, at, out>>
      /\ at \in 1 .. Len(line) /\ e \in Edges /\ e \notin pushed /\ From(e) = line[at]
      /\ Len(line) \in Nat
  BY <1>1, DeclType DEF Push, vars, Unpushed, Outgoing, GInv, GraphTypeOK, FInv
<1>3. Balanced /\ PushedInOrder /\ out = Total(demand[line[at]])
  BY <1>2 DEF CInv
<1>4. t \in known /\ t \in Id /\ t \notin Taken
  <2>1. t \in known /\ t \in Id /\ InLine(t)
    BY <1>0, <1>2, EndsAreKnown, AllInLine
  <2>2. PICK m \in 1 .. Len(line) : line[m] = t
    BY <2>1 DEF InLine
  <2>3. PICK j \in 1 .. m - 1 : line[j] = line[at]
    BY <1>0, <1>2, <2>2 DEF GInv, ForwardOrder, Incoming
  <2>4. at < m
    BY <1>2, <2>2, <2>3 DEF GInv, ForwardOrder
  <2>5. ASSUME NEW q \in 1 .. at, line[q] = t  PROVE FALSE
    BY <1>2, <2>2, <2>4, <2>5 DEF GInv, ForwardOrder
  <2> QED BY <2>1, <2>5 DEF Taken
<1>5. Taken' = Taken /\ From(e) \in Taken
  BY <1>2 DEF Taken
<1>6. ASSUME NEW f \in pushed \cup {e}  PROVE f \in Edges /\ demand'[From(f)] = demand[From(f)]
  BY <1>0, <1>1, <1>2, <1>3, <1>4, <1>5 DEF PushedInOrder, DInv
<1>7. ASSUME NEW x \in known, NEW k \in Kind, NEW b
      PROVE  /\ Pushed(x)' = IF x = t THEN Pushed(x) \cup {e} ELSE Pushed(x)
             /\ PassedAlong(k, b, Pushed(x))' =
                  IF x = t THEN out * PerUnit(e, k, b) + PassedAlong(k, b, Pushed(x))
                  ELSE PassedAlong(k, b, Pushed(x))
             /\ out * PerUnit(e, k, b) \in Int /\ PassedAlong(k, b, Pushed(x)) \in Int
  <2>1. Pushed(x)' = IF x = t THEN Pushed(x) \cup {e} ELSE Pushed(x)
    BY <1>0, <1>1, <1>2, StillHas DEF Pushed, Incoming
  <2>2. ASSUME NEW E, E \in SUBSET (pushed \cup {e})  PROVE PassedAlong(k, b, E)' = PassedAlong(k, b, E)
    BY <1>2, <1>6, <2>2, PassedStays
  <2>3. PassedAlong(k, b, Pushed(x))' = PassedAlong(k, b, IF x = t THEN Pushed(x) \cup {e} ELSE Pushed(x))
    <3>1. ASSUME NEW E, E = (IF x = t THEN Pushed(x) \cup {e} ELSE Pushed(x))
          PROVE  PassedAlong(k, b, E)' = PassedAlong(k, b, E)
      BY <2>2, <3>1 DEF Pushed
    <3> QED BY <2>1, <3>1 DEF PassedAlong
  <2>4. Pushed(x) \in SUBSET Edges /\ e \in Edges \ Pushed(x)
    BY <1>2 DEF Pushed, Incoming
  <2>5. /\ PassedAlong(k, b, Pushed(x) \cup {e}) = Passed(e, k, b) + PassedAlong(k, b, Pushed(x))
        /\ Passed(e, k, b) \in Int /\ PassedAlong(k, b, Pushed(x)) \in Int
    BY <2>4, PassedMore
  <2>6. Passed(e, k, b) = out * PerUnit(e, k, b)
    BY <1>2, <1>3 DEF Passed
  <2> QED BY <2>1, <2>3, <2>5, <2>6
<1>8. ASSUME NEW x \in known, NEW k \in Kind
      PROVE  /\ demand'[x][k].monthly = Got(x, k)' + PassedAlong(k, FALSE, Pushed(x))'
             /\ demand'[x][k].sized = PassedAlong(k, TRUE, Pushed(x))'
  <2>1. /\ demand[x][k].monthly = Got(x, k) + PassedAlong(k, FALSE, Pushed(x))
        /\ demand[x][k].sized = PassedAlong(k, TRUE, Pushed(x))
    BY <1>3 DEF Balanced
  <2>2. Got(x, k)' = Got(x, k)
    BY <1>2, <1>5, StillHas DEF Got
  <2>3. CASE x # t
    <3>1. demand'[x] = demand[x]
      <4>1. x \in Id
        BY <1>2, NodeOfIs
      <4> QED BY <1>0, <1>1, <2>3, <4>1 DEF DInv
    <3> QED BY <1>7, <2>1, <2>2, <2>3, <3>1
  <2>4. CASE x = t
    <3> DEFINE a == out * PerUnit(e, k, FALSE)
               c == out * PerUnit(e, k, TRUE)
               p == PassedAlong(k, FALSE, Pushed(t))
               r == PassedAlong(k, TRUE, Pushed(t))
    <3>1. Got(t, k) = 0 /\ a \in Int /\ c \in Int /\ p \in Int /\ r \in Int
      BY <1>4, <1>7 DEF Got
    <3>2. demand'[t][k] = AddLoad(demand[t][k], Carried(e, k))
      BY <1>0, <1>1, <1>4 DEF DInv
    <3>3. demand'[t][k].monthly = demand[t][k].monthly + a /\ demand'[t][k].sized = demand[t][k].sized + c
      BY <3>2 DEF AddLoad, Carried
    <3>4. PassedAlong(k, FALSE, Pushed(t))' = a + p /\ PassedAlong(k, TRUE, Pushed(t))' = c + r
      BY <1>4, <1>7
    <3>5. demand[t][k].monthly = 0 + p /\ demand[t][k].sized = r
      BY <2>1, <2>4, <3>1
    <3> HIDE DEF a, c, p, r
    <3>6. demand'[t][k].monthly = 0 + (a + p) /\ demand'[t][k].sized = c + r
      BY <3>1, <3>3, <3>5
    <3> QED BY <2>2, <2>4, <3>1, <3>4, <3>6
  <2> QED BY <2>3, <2>4
<1>9. Balanced'
  BY <1>2, <1>8 DEF Balanced
<1>10. PushedInOrder'
  <2>1. \A f \in pushed' : f \in Edges' /\ From(f)' \in Taken'
    BY <1>1, <1>2, <1>3, <1>5, <1>6, StillHas DEF PushedInOrder
  <2>2. \A j \in 1 .. at' - 1 : Outgoing(line[j])' \subseteq pushed'
    BY <1>1, <1>2, <1>3, StillHas DEF PushedInOrder
  <2> QED BY <2>1, <2>2 DEF PushedInOrder
<1>11. out' = Total(demand[line[at]])'
  <2>1. demand'[line[at]] = demand[line[at]] /\ line' = line /\ at' = at
    BY <1>2, <1>6
  <2> QED BY <1>2, <1>3, <2>1 DEF Total
<1> QED BY <1>2, <1>9, <1>10, <1>11 DEF CInv

LEMMA BalanceKeeps ==
  ASSUME GInv, FInv, DInv, CInv, [Next]_allvars
  PROVE  CInv'
<1>1. CASE Build /\ UNCHANGED flow
  <2>1. /\ pc # "ordered" /\ at' = 0 /\ pushed' = {}
        /\ demand' = [n \in Id |-> [k \in Kind |-> NoLoad]] /\ at = 0
    BY <1>1 DEF FInv, CInv, flow, Build, ResolveTraffic, GroupIDs, AddNode, NodesAdded, AddEdge,
       EdgesAdded, StartQueue, Relax, Pop, Sorted
  <2>2. known' \subseteq Id
    BY <1>1, BuildKeeps DEF GInv, GraphTypeOK
  <2>3. ASSUME NEW n \in known', NEW k \in Kind
        PROVE  /\ demand'[n][k].monthly = Got(n, k)' + PassedAlong(k, FALSE, Pushed(n))'
               /\ demand'[n][k].sized = PassedAlong(k, TRUE, Pushed(n))'
    <3>1. demand'[n][k] = NoLoad
      BY <2>1, <2>2
    <3>2. Taken' = {} /\ Pushed(n)' = {}
      BY <2>1 DEF Taken, Pushed
    <3> DEFINE p == PassedAlong(k, FALSE, Pushed(n))
               r == PassedAlong(k, TRUE, Pushed(n))
               g == Got(n, k)
    <3>3. p' = 0 /\ r' = 0
      BY <3>2, SumOfNone DEF PassedAlong
    <3>4. g' = 0
      BY <3>2 DEF Got
    <3> HIDE DEF p, r, g
    <3>5. demand'[n][k].monthly = g' + p' /\ demand'[n][k].sized = r'
      BY <3>1, <3>3, <3>4 DEF NoLoad
    <3> QED BY <3>5 DEF p, r, g
  <2>4. Balanced'
    BY <2>3 DEF Balanced
  <2>5. PushedInOrder'
    BY <2>1 DEF PushedInOrder
  <2> QED BY <2>1, <2>4, <2>5 DEF CInv
<1>2. CASE UNCHANGED allvars
  <2>1. UNCHANGED <<decl, pc, known, line, demand, at, out, pushed>>
    BY <1>2 DEF allvars, vars, flow
  <2>2. Taken' = Taken /\ \A n : Pushed(n)' = Pushed(n)
    BY <2>1, StillHas DEF Taken, Pushed
  <2>3. ASSUME NEW n, NEW k, NEW b
        PROVE  /\ Got(n, k)' = Got(n, k)
               /\ PassedAlong(k, b, Pushed(n))' = PassedAlong(k, b, Pushed(n))
    <3>1. Got(n, k)' = Got(n, k)
      BY <2>1, <2>2, StillHas DEF Got
    <3>2. ASSUME NEW E  PROVE PassedAlong(k, b, E)' = PassedAlong(k, b, E)
      BY <2>1, PassedStays
    <3>3. PassedAlong(k, b, Pushed(n))' = PassedAlong(k, b, Pushed(n))
      BY <2>2, <3>2 DEF PassedAlong
    <3> QED BY <3>1, <3>3
  <2>4. ASSUME Balanced  PROVE Balanced'
    <3>1. ASSUME NEW n \in known, NEW k \in Kind
          PROVE  /\ demand'[n][k].monthly = Got(n, k)' + PassedAlong(k, FALSE, Pushed(n))'
                 /\ demand'[n][k].sized = PassedAlong(k, TRUE, Pushed(n))'
      <4>1. /\ demand[n][k].monthly = Got(n, k) + PassedAlong(k, FALSE, Pushed(n))
            /\ demand[n][k].sized = PassedAlong(k, TRUE, Pushed(n))
        BY <2>4 DEF Balanced
      <4>2. demand' = demand /\ Got(n, k)' = Got(n, k)
        BY <2>1, <2>3
      <4>3. /\ PassedAlong(k, FALSE, Pushed(n))' = PassedAlong(k, FALSE, Pushed(n))
            /\ PassedAlong(k, TRUE, Pushed(n))' = PassedAlong(k, TRUE, Pushed(n))
        BY <2>3
      <4> QED BY <4>1, <4>2, <4>3
    <3> QED BY <2>1, <3>1 DEF Balanced
  <2>5. PushedInOrder => PushedInOrder'
    BY <2>1, <2>2, StillHas DEF PushedInOrder
  <2>6. Total(demand[line[at]])' = Total(demand[line[at]])
    BY <2>1 DEF Total
  <2> QED BY <2>1, <2>4, <2>5, <2>6 DEF CInv
<1> QED BY <1>1, <1>2, TakeBalances, PushBalances DEF Next, Return

-----------------------------------------------------------------------------
(***************************************************************************)
(* Lists that are only read and added to, whatever they hold.               *)
(***************************************************************************)
Listed(s) == s \in Seq({s[k] : k \in DOMAIN s})

LEMMA ListIs ==
  ASSUME NEW s, Listed(s)
  PROVE  Len(s) \in Nat /\ DOMAIN s = 1 .. Len(s)
BY DEF Listed

LEMMA ListMade ==
  ASSUME NEW n \in Nat, NEW s, s = [k \in 1 .. n |-> s[k]]
  PROVE  Listed(s) /\ Len(s) = n
<1> DEFINE S == {s[k] : k \in DOMAIN s}
<1>1. DOMAIN s = 1 .. n
  OBVIOUS
<1>2. \A k \in 1 .. n : s[k] \in S
  BY <1>1
<1> HIDE DEF S
<1>3. s \in [1 .. n -> S]
  BY <1>2
<1>4. s \in Seq(S) /\ Len(s) = n
  BY <1>3
<1> QED BY <1>4 DEF Listed, S

LEMMA ListGrows ==
  ASSUME NEW s, Listed(s), NEW x
  PROVE  LET t == Append(s, x) IN
         /\ Listed(t) /\ Len(t) = Len(s) + 1 /\ t[Len(s) + 1] = x
         /\ \A k \in DOMAIN s : k \in DOMAIN t /\ t[k] = s[k]
<1> DEFINE S == {s[k] : k \in DOMAIN s}
           U == S \cup {x}
           t == Append(s, x)
<1>1. s \in Seq(U) /\ x \in U
  <2>1. s \in Seq(S)
    BY DEF Listed
  <2> HIDE DEF S
  <2> QED BY <2>1
<1> HIDE DEF U
<1>2. /\ t \in Seq(U) /\ Len(t) = Len(s) + 1 /\ t[Len(s) + 1] = x /\ Len(s) \in Nat
      /\ \A k \in DOMAIN s : k \in DOMAIN t /\ t[k] = s[k]
  BY <1>1
<1> HIDE DEF t
<1>3. t = [k \in 1 .. Len(t) |-> t[k]] /\ Len(t) \in Nat
  BY <1>2
<1>4. Listed(t)
  BY <1>3, ListMade
<1> QED BY <1>2, <1>4 DEF t

-----------------------------------------------------------------------------
(***************************************************************************)
(* The invariant of Run.  A line belongs to a result of its node's name,    *)
(* results have the names of the nodes and groups in their order, and so    *)
(* far: what may stay without a price is told, a pool shared out leaves     *)
(* lines without a price only for a reason, and its error is on all who     *)
(* share it.                                                                *)
(***************************************************************************)
PoolsDone == {"blame", "paths", "returned"}
IsResult(r) ==
  r = [id |-> r.id, type |-> r.type, errors |-> r.errors, limits |-> r.limits,
       latency |-> r.latency, sla |-> r.sla, usd |-> r.usd]

Started == IF stage = "run" THEN lines = <<>> /\ results = <<>> ELSE Propagated

Belongs ==
  \A l \in DOMAIN lines :
    lines[l].of \in DOMAIN results /\ lines[l].node = results[lines[l].of].id

AllTold == \A l \in DOMAIN lines : Told(lines[l], unverified)

Readable ==
  /\ lines \in Seq(Line) /\ Listed(results)
  /\ \A k \in DOMAIN results : IsResult(results[k])
  /\ Belongs /\ AllTold

ResultsNamed ==
  stage # "run" =>
    /\ stage = "nodes" => step <= Len(line) + 1 /\ Len(results) = step - 1
    /\ stage # "nodes" => Len(line) <= Len(results)
    /\ \A k \in DOMAIN results :
         IF k <= Len(line) THEN results[k].id = line[k]
         ELSE \E g \in DOMAIN decl.groups : results[k].id = decl.groups[g] /\ (stage = "groups" => g < step)
    /\ \A j, k \in DOMAIN results :
         j > Len(line) /\ k > Len(line) /\ results[j].id = results[k].id => j = k

Reasoned(p) ==
  \A l \in MembersOf(lines, p.price) :
    lines[l].usd = None => p.error # "none" \/ Doubtful(p.price)

PoolsBilled ==
  /\ stage \notin PoolsDone \cup {"pools"} => pools = <<>>
  /\ stage = "pools" => step <= Len(PoolIds(lines)) + 1 /\ Len(pools) = step - 1
  /\ stage \in PoolsDone => Len(pools) = Len(PoolIds(lines))
  /\ \A m \in DOMAIN pools : pools[m].price = PoolIds(lines)[m] /\ Reasoned(pools[m])

Blamed(p) ==
  p.error # "none" => \A k \in Sharing(p) : <<p.error, p.price>> \in results[k].errors

AllBlamed ==
  /\ stage = "blame" => \A m \in DOMAIN pools : m < step => Blamed(pools[m])
  /\ stage \in {"paths", "returned"} => \A m \in DOMAIN pools : Blamed(pools[m])

EInv ==
  /\ stage \in {"run", "nodes", "groups", "pools", "blame", "paths", "returned"}
  /\ step \in Nat \ {0} /\ Listed(pools)
  /\ Readable /\ Started /\ ResultsNamed /\ PoolsBilled /\ AllBlamed

LEMMA EmptyLists ==
  /\ <<>> \in Seq(Line) /\ Listed(<<>>) /\ Len(<<>>) = 0 /\ DOMAIN <<>> = {}
<1>1. <<>> \in Seq(Line) /\ Len(<<>>) = 0 /\ DOMAIN <<>> = {}
  OBVIOUS
<1> QED BY <1>1 DEF Listed

LEMMA RunBegins == ReadingBegins => EInv
<1> SUFFICES ASSUME ReadingBegins PROVE EInv
  OBVIOUS
<1> QED BY EmptyLists DEF ReadingBegins, EInv, Readable, Started, Belongs, AllTold, ResultsNamed, PoolsBilled,
           AllBlamed, PoolsDone

-----------------------------------------------------------------------------
(***************************************************************************)
(* One reading added: a result of that id, and lines that belong to it.     *)
(***************************************************************************)
LEMMA CrossingIs ==
  ASSUME GInv, DInv, pc = "ordered", NEW g
  PROVE  Crossing(g) \in Int
<1> DEFINE S == Within(g)
           v(e) == Total(demand[From(e)]) * Sized(e)
           w == [e \in S |-> v(e)]
           P(h) == h = [s \in SUBSET S |-> IF s = {} THEN 0
                          ELSE v(CHOOSE x \in s : TRUE) + h[s \ {CHOOSE x \in s : TRUE}]]
           h0 == CHOOSE h : P(h)
<1>1. Crossing(g) = h0[S]
  BY DEF Crossing, MapThenSumSet, MapThenFoldSet
<1>2. S \in SUBSET Edges /\ IsFiniteSet(Edges)
  BY DeclType, FS_Interval DEF GInv, Within, Edges
<1>3. ASSUME NEW e \in Edges  PROVE v(e) \in Int
  <2> DEFINE a == Total(demand[From(e)])
             b == Sized(e)
  <2>1. demand[From(e)] \in Loads
    BY DeclType DEF GInv, DInv
  <2>2. a \in Int /\ b \in Int
    BY <2>1, TotalIs, SizedIs
  <2> HIDE DEF a, b
  <2>3. a * b \in Int
    BY <2>2
  <2> QED BY <2>3 DEF a, b
<1> HIDE DEF S, v
<1>4. Sums(w, S)
  BY <1>2, <1>3, FS_Subset DEF Sums
<1>5. ASSUME NEW h  PROVE P(h) <=> Adds(h, w, S)
  <2>1. \A s \in SUBSET S : s # {} => w[Pick(s)] = v(CHOOSE x \in s : TRUE)
    BY DEF Pick
  <2> HIDE DEF w
  <2> QED BY <2>1 DEF Adds, Pick
<1> HIDE DEF P, w
<1>6. \E h : P(h)
  BY <1>4, <1>5, SumExists DEF Sums
<1>7. P(h0)
  BY <1>6
<1> QED BY <1>1, <1>4, <1>5, <1>7, FoldIsNumber

LEMMA CrossedIs ==
  ASSUME NEW v \in Int
  PROVE  Volumes(Crossed(v))
BY DEF Volumes, Crossed, NoLoad

LEMMA CountIs ==
  ASSUME NEW n \in NodeDecl
  PROVE  Count(n) \in Nat \ {0}
<1> DEFINE k == n.instances
<1>1. k \in Int
  BY DEF NodeDecl
<1> HIDE DEF k
<1>2. PICK m \in Int : m = Max({1, k}) /\ m >= 1
  <2>1. Max({1, k}) \in Int /\ Max({1, k}) >= 1
    <3>1. 1 \in Int
      OBVIOUS
    <3> QED BY <1>1, <3>1, MaxOfTwo
  <2> QED BY <2>1
<1>3. m \in Nat \ {0}
  BY <1>2
<1>4. Count(n) = m
  BY <1>2 DEF Count, k
<1> QED BY <1>3, <1>4

LEMMA Joined ==
  ASSUME NEW s \in Seq(Line), NEW t \in Seq(Line)
  PROVE  /\ s \o t \in Seq(Line)
         /\ \A l \in DOMAIN (s \o t) :
              \/ l \in DOMAIN s /\ (s \o t)[l] = s[l]
              \/ \E k \in DOMAIN t : (s \o t)[l] = t[k]
<1>1. s \o t \in Seq(Line) /\ Len(s \o t) = Len(s) + Len(t) /\ Len(s) \in Nat /\ Len(t) \in Nat
      /\ DOMAIN s = 1 .. Len(s) /\ DOMAIN t = 1 .. Len(t)
  OBVIOUS
<1>2. ASSUME NEW l \in DOMAIN (s \o t)
      PROVE  \/ l \in DOMAIN s /\ (s \o t)[l] = s[l]
             \/ \E k \in DOMAIN t : (s \o t)[l] = t[k]
  <2>1. l \in 1 .. Len(s) + Len(t)
    BY <1>1
  <2>2. CASE l <= Len(s)
    BY <1>1, <2>1, <2>2
  <2>3. CASE ~ l <= Len(s)
    <3>1. l - Len(s) \in DOMAIN t /\ (s \o t)[l] = t[l - Len(s)]
      BY <1>1, <2>1, <2>3
    <3> QED BY <3>1
  <2> QED BY <2>2, <2>3
<1> QED BY <1>1, <1>2

LEMMA ReadAdds ==
  ASSUME Readable, NEW id \in Names, NEW type, NEW d, Volumes(d), NEW k \in Nat \ {0},
         NEW latency, NEW trouble, Read(id, type, d, k, latency, trouble)
  PROVE  /\ Readable'
         /\ Len(results') = Len(results) + 1 /\ results'[Len(results) + 1].id = id
         /\ \A j \in DOMAIN results : results'[j] = results[j]
<1> DEFINE place == Len(results) + 1
<1>0. Len(results) \in Nat /\ DOMAIN results = 1 .. Len(results) /\ place \in Nat
  BY ListIs DEF Readable
<1>1. \E r : IsResult(r) /\ r.id = id /\ results' = Append(results, r)
  <2>1. CASE type \notin DOMAIN Scouters
    <3>1. results' = Append(results, NoReading(id, type, trouble))
      BY <2>1 DEF Read
    <3>2. IsResult(NoReading(id, type, trouble)) /\ NoReading(id, type, trouble).id = id
      BY DEF NoReading, IsResult
    <3> QED BY <3>1, <3>2
  <2>2. CASE type \in DOMAIN Scouters
    <3>1. PICK es, ms, sla : results' = Append(results,
              [NoReading(id, type, trouble) EXCEPT
                 !.errors = es, !.limits = ms, !.latency = latency, !.sla = sla])
      BY <2>2 DEF Read
    <3> DEFINE r == [id |-> id, type |-> type, errors |-> es, limits |-> ms,
                     latency |-> latency, sla |-> sla, usd |-> 0]
    <3>2. results' = Append(results, r)
      <4> DEFINE x == NoReading(id, type, trouble)
      <4>1. x = [id |-> id, type |-> type, errors |-> trouble, limits |-> <<>>,
                 latency |-> None, sla |-> None, usd |-> 0]
        BY DEF NoReading
      <4>2. [x EXCEPT !.errors = es, !.limits = ms, !.latency = latency, !.sla = sla] = r
        <5> DEFINE a == [x EXCEPT !.errors = es]
                   b == [a EXCEPT !.limits = ms]
                   c == [b EXCEPT !.latency = latency]
                   y == [c EXCEPT !.sla = sla]
        <5>1. [x EXCEPT !.errors = es, !.limits = ms, !.latency = latency, !.sla = sla] = y
          OBVIOUS
        <5> HIDE DEF x
        <5>2. a = [id |-> id, type |-> type, errors |-> es, limits |-> <<>>,
                   latency |-> None, sla |-> None, usd |-> 0]
          BY <4>1
        <5> HIDE DEF a
        <5>3. b = [id |-> id, type |-> type, errors |-> es, limits |-> ms,
                   latency |-> None, sla |-> None, usd |-> 0]
          BY <5>2
        <5> HIDE DEF b
        <5>4. c = [id |-> id, type |-> type, errors |-> es, limits |-> ms,
                   latency |-> latency, sla |-> None, usd |-> 0]
          BY <5>3
        <5> HIDE DEF c
        <5>5. y = r
          BY <5>4
        <5> HIDE DEF y, r
        <5> QED BY <5>1, <5>5
      <4> HIDE DEF x, r
      <4> QED BY <3>1, <4>2 DEF x
    <3>3. IsResult(r) /\ r.id = id
      BY DEF IsResult
    <3> HIDE DEF r
    <3> QED BY <3>2, <3>3
  <2> QED BY <2>1, <2>2
<1>2. PICK r : IsResult(r) /\ r.id = id /\ results' = Append(results, r)
  BY <1>1
<1>3. /\ Listed(results') /\ Len(results') = place /\ results'[place] = r
      /\ \A j \in DOMAIN results : j \in DOMAIN results' /\ results'[j] = results[j]
  BY <1>2, ListGrows DEF Readable
<1>4. DOMAIN results' = 1 .. place
  BY <1>3, ListIs
<1>5. \A j \in DOMAIN results' : IsResult(results'[j])
  BY <1>0, <1>2, <1>3, <1>4 DEF Readable
<1>6. /\ lines' \in Seq(Line) /\ unverified \subseteq unverified'
      /\ \A l \in DOMAIN lines' :
           \/ l \in DOMAIN lines /\ lines'[l] = lines[l]
           \/ lines'[l].node = id /\ lines'[l].of = place /\ Told(lines'[l], unverified')
  <2>1. CASE type \notin DOMAIN Scouters
    BY <2>1 DEF Read, Readable
  <2>2. CASE type \in DOMAIN Scouters
    <3> DEFINE rd == Reading(id, place, type, d, k)
               ms == Limited(type, d, k).refs
               ps == Promised(type).refs
    <3>1. lines' = lines \o rd.lines /\ unverified' = unverified \cup Noted(rd.refs \cup ms \cup ps)
      BY <2>2 DEF Read
    <3>2. /\ rd.lines \in Seq(Line)
          /\ \A l \in DOMAIN rd.lines :
               rd.lines[l].node = id /\ rd.lines[l].of = place /\ Told(rd.lines[l], Noted(rd.refs))
      BY <1>0, <2>2, ReadingIs
    <3> HIDE DEF rd, ms, ps
    <3>3. Noted(rd.refs) \subseteq unverified'
      BY <3>1 DEF Noted
    <3>4. \A l \in DOMAIN rd.lines : Told(rd.lines[l], unverified')
      BY <3>2, <3>3 DEF Told
    <3> DEFINE ls == rd.lines
    <3>5. /\ lines \o ls \in Seq(Line)
          /\ \A l \in DOMAIN (lines \o ls) :
               \/ l \in DOMAIN lines /\ (lines \o ls)[l] = lines[l]
               \/ \E j \in DOMAIN ls : (lines \o ls)[l] = ls[j]
      <4>1. ls \in Seq(Line)
        BY <3>2
      <4> HIDE DEF ls
      <4> QED BY <4>1, Joined DEF Readable
    <3>6. unverified \subseteq unverified'
      BY <3>1
    <3>7. lines' = lines \o ls /\ \A j \in DOMAIN ls :
            ls[j].node = id /\ ls[j].of = place /\ Told(ls[j], unverified')
      BY <3>1, <3>2, <3>4
    <3> HIDE DEF ls
    <3> QED BY <3>5, <3>6, <3>7
  <2> QED BY <2>1, <2>2
<1>7. Belongs'
  <2> SUFFICES ASSUME NEW l \in DOMAIN lines'
               PROVE  lines'[l].of \in DOMAIN results' /\ lines'[l].node = results'[lines'[l].of].id
    BY DEF Belongs
  <2>1. CASE l \in DOMAIN lines /\ lines'[l] = lines[l]
    BY <1>3, <2>1 DEF Readable, Belongs
  <2>2. CASE lines'[l].node = id /\ lines'[l].of = place
    BY <1>0, <1>2, <1>3, <1>4, <2>2
  <2> QED BY <1>6, <2>1, <2>2
<1>8. AllTold'
  BY <1>6 DEF Readable, AllTold, Told
<1> QED BY <1>2, <1>3, <1>5, <1>6, <1>7, <1>8 DEF Readable

-----------------------------------------------------------------------------
(***************************************************************************)
(* The pools of the lines: one for each pooled price that a line reads, and *)
(* the same ones whatever is shared out.                                    *)
(***************************************************************************)
LEMMA PoolsAre ==
  ASSUME NEW s \in Seq(Line)
  PROVE  /\ Len(PoolIds(s)) \in Nat /\ DOMAIN PoolIds(s) = 1 .. Len(PoolIds(s))
         /\ \A m \in 1 .. Len(PoolIds(s)) :
              PoolIds(s)[m] \in DOMAIN PriceBook /\ MembersOf(s, PoolIds(s)[m]) # {}
         /\ \A j, k \in 1 .. Len(PoolIds(s)) : PoolIds(s)[j] = PoolIds(s)[k] => j = k
         /\ \A l \in DOMAIN s : s[l].pooled => \E m \in 1 .. Len(PoolIds(s)) : PoolIds(s)[m] = s[l].price
<1> DEFINE P == DOMAIN PriceBook
           has == {j \in DOMAIN PriceIds : MembersOf(s, PriceIds[j]) # {}}
           own == PoolIds(s)
<1>1. PriceIds \in Seq(P) /\ P = {PriceIds[j] : j \in DOMAIN PriceIds}
      /\ \A j, k \in DOMAIN PriceIds : PriceIds[j] = PriceIds[k] => j = k
  BY ReadingsAssumption
<1>2. DOMAIN PriceIds = 1 .. Len(PriceIds) /\ has \in SUBSET (1 .. Len(PriceIds))
  <2>1. DOMAIN PriceIds = 1 .. Len(PriceIds)
    <3> HIDE DEF P
    <3> QED BY <1>1
  <2> QED BY <2>1
<1>3. own = Filtered(PriceIds, has)
  BY DEF PoolIds
<1>4. \A j \in has : MembersOf(s, PriceIds[j]) # {} /\ j \in DOMAIN PriceIds
  OBVIOUS
<1>5. \A j \in DOMAIN PriceIds : MembersOf(s, PriceIds[j]) # {} => j \in has
  OBVIOUS
<1>6. ASSUME NEW l \in DOMAIN s, s[l].pooled
      PROVE  s[l].price \in P /\ l \in MembersOf(s, s[l].price)
  BY <1>6, LinesAre DEF Line, MembersOf
<1> HIDE DEF P, has, own
<1>7. /\ own \in Seq(P)
      /\ \A r \in 1 .. Len(own) : Nth(r, has) \in has /\ own[r] = PriceIds[Nth(r, has)]
      /\ \A q, r \in 1 .. Len(own) : Nth(q, has) = Nth(r, has) => q = r
      /\ \A k \in has : \E r \in 1 .. Len(own) : Nth(r, has) = k
  BY <1>1, <1>2, <1>3, FilteredKeeps
<1>8. Len(own) \in Nat /\ DOMAIN own = 1 .. Len(own) /\ \A r \in 1 .. Len(own) : own[r] \in P
  BY <1>7
<1>9. \A m \in 1 .. Len(own) : MembersOf(s, own[m]) # {}
  BY <1>4, <1>7
<1>10. \A j, k \in 1 .. Len(own) : own[j] = own[k] => j = k
  BY <1>1, <1>4, <1>7
<1>11. ASSUME NEW l \in DOMAIN s, s[l].pooled
       PROVE  \E m \in 1 .. Len(own) : own[m] = s[l].price
  <2>1. PICK j \in DOMAIN PriceIds : PriceIds[j] = s[l].price
    BY <1>1, <1>6, <1>11
  <2>2. j \in has
    BY <1>5, <1>6, <1>11, <2>1
  <2> QED BY <1>7, <2>1, <2>2
<1> QED BY <1>8, <1>9, <1>10, <1>11 DEF own, P

LEMMA PoolsStay ==
  ASSUME NEW s \in Seq(Line), NEW t \in Seq(Line), Len(t) = Len(s),
         \A l \in DOMAIN s : Alike(s[l], t[l])
  PROVE  /\ \A id : MembersOf(t, id) = MembersOf(s, id)
         /\ PoolIds(t) = PoolIds(s)
<1>1. DOMAIN s = DOMAIN t
  BY LinesAre
<1>2. ASSUME NEW id  PROVE MembersOf(t, id) = MembersOf(s, id)
  BY <1>1 DEF MembersOf, Alike
<1> QED BY <1>2 DEF PoolIds

(***************************************************************************)
(* What ends before the readings begin stays as it is.                      *)
(***************************************************************************)
LEMMA Rests ==
  ASSUME UNCHANGED allvars
  PROVE  /\ decl' = decl /\ line' = line /\ Propagated' = Propagated
BY DEF allvars, vars, flow, Propagated, Unpushed, Outgoing, Edges, From

LEMMA StartKeeps ==
  ASSUME GInv, EInv, Start, UNCHANGED allvars
  PROVE  EInv'
<1>1. stage = "run" /\ Propagated /\ stage' = "nodes" /\ step' = 1
      /\ UNCHANGED <<results, lines, unverified, pools>>
  BY DEF Start, Advance
<1>2. lines = <<>> /\ results = <<>> /\ pools = <<>>
  BY <1>1 DEF EInv, Started, PoolsBilled, PoolsDone
<1>3. Len(line) \in Nat
  BY DeclType DEF GInv
<1>4. ResultsNamed'
  BY <1>1, <1>2, <1>3, Rests, EmptyLists DEF ResultsNamed
<1>5. Readable' /\ Started' /\ Listed(pools)'
  BY <1>1, Rests DEF EInv, Readable, Started, Belongs, AllTold, Propagated
<1>6. PoolsBilled' /\ AllBlamed'
  BY <1>1, <1>2, EmptyLists DEF PoolsBilled, AllBlamed, PoolsDone
<1> QED BY <1>1, <1>4, <1>5, <1>6 DEF EInv

LEMMA ReadNodeKeeps ==
  ASSUME GInv, DInv, EInv, ReadNode, UNCHANGED allvars
  PROVE  EInv'
<1> DEFINE id == line[step]
           n == NodeOf(id)
<1>1. stage = "nodes" /\ stage' = "nodes" /\ step' = step + 1 /\ step \in 1 .. Len(line)
      /\ UNCHANGED pools /\ Len(line) \in Nat
  BY DeclType DEF ReadNode, EInv, GInv
<1>2. Propagated /\ pc = "ordered"
  BY <1>1 DEF EInv, Started, Propagated
<1>3. n \in NodeDecl /\ n.id = id /\ id \in Id
  BY <1>1, <1>2, LineIsKnown, NodeOfIs
<1>4. Volumes(demand[id]) /\ Count(n) \in Nat \ {0} /\ id \in Names
  <2>1. demand[id] \in Loads
    BY <1>3 DEF DInv
  <2> QED BY <1>3, <2>1, CountIs DEF Volumes, Loads, Names
<1>5. Read(id, types.nodes[id], demand[id], Count(n), Latencies[id], Trouble(n))
  BY <1>3 DEF ReadNode
<1> HIDE DEF n, id
<1>6. /\ Readable' /\ Len(results') = Len(results) + 1 /\ results'[Len(results) + 1].id = id
      /\ \A j \in DOMAIN results : results'[j] = results[j]
  BY <1>4, <1>5, ReadAdds DEF EInv
<1>7. Len(results) = step - 1 /\ DOMAIN results = 1 .. Len(results)
      /\ \A k \in DOMAIN results : results[k].id = line[k]
  <2>1. Len(results) = step - 1 /\ DOMAIN results = 1 .. Len(results)
    BY <1>1, ListIs DEF EInv, Readable, ResultsNamed
  <2> QED BY <1>1, <2>1 DEF EInv, ResultsNamed
<1>8. Listed(results') /\ DOMAIN results' = 1 .. step
  <2>1. Listed(results')
    BY <1>6 DEF Readable
  <2> QED BY <1>1, <1>6, <1>7, <2>1, ListIs
<1>9. \A k \in DOMAIN results' : k <= Len(line) /\ results'[k].id = line[k]
  BY <1>1, <1>6, <1>7, <1>8 DEF id
<1>10. ResultsNamed'
  <2>1. line' = line /\ decl' = decl
    BY Rests
  <2>2. Len(results') = step' - 1 /\ step' <= Len(line') + 1
    BY <1>1, <1>6, <1>7, <2>1
  <2>3. \A j, k \in DOMAIN results' : ~ (j > Len(line') /\ k > Len(line'))
    BY <1>1, <1>8, <2>1
  <2> QED BY <1>1, <1>9, <2>1, <2>2, <2>3 DEF ResultsNamed
<1>11. Started' /\ Listed(pools)'
  BY <1>1, <1>2, Rests DEF Started, EInv, Propagated
<1>12. PoolsBilled' /\ AllBlamed'
  BY <1>1, EmptyLists DEF EInv, PoolsBilled, AllBlamed, PoolsDone
<1> QED BY <1>1, <1>6, <1>10, <1>11, <1>12 DEF EInv

LEMMA NodesReadKeeps ==
  ASSUME GInv, EInv, NodesRead, UNCHANGED allvars
  PROVE  EInv'
<1>1. stage = "nodes" /\ stage' = "groups" /\ step' = 1 /\ step > Len(line)
      /\ UNCHANGED <<results, lines, unverified, pools>> /\ Len(line) \in Nat /\ step \in Nat
  BY DeclType DEF NodesRead, Advance, EInv, GInv
<1>2. Len(results) = Len(line) /\ DOMAIN results = 1 .. Len(results)
  BY <1>1, ListIs DEF EInv, Readable, ResultsNamed
<1>3. ResultsNamed'
  <2>1. line' = line /\ decl' = decl
    BY Rests
  <2>2. \A k \in DOMAIN results : k <= Len(line) /\ ~ k > Len(line) /\ results[k].id = line[k]
    BY <1>1, <1>2 DEF EInv, ResultsNamed
  <2> QED BY <1>1, <1>2, <2>1, <2>2 DEF ResultsNamed
<1>4. Readable' /\ Started' /\ Listed(pools)'
  BY <1>1, Rests DEF EInv, Readable, Started, Belongs, AllTold, Propagated
<1>5. PoolsBilled' /\ AllBlamed'
  BY <1>1, EmptyLists DEF EInv, PoolsBilled, AllBlamed, PoolsDone
<1> QED BY <1>1, <1>3, <1>4, <1>5 DEF EInv

LEMMA GroupIs ==
  ASSUME GInv, DInv, pc = "ordered", NEW j \in 1 .. Len(decl.groups)
  PROVE  /\ decl.groups[j] \in Names /\ j \in DOMAIN decl.groups
         /\ \A k \in DOMAIN decl.groups : decl.groups[k] = decl.groups[j] => k = j
<1>1. decl.groups \in Seq(Group \cup {None})
  BY DEF GInv, GraphTypeOK, Declaration
<1>2. DOMAIN decl.groups = 1 .. Len(decl.groups) /\ Len(decl.groups) \in Nat
      /\ decl.groups[j] \in Group \cup {None}
  BY <1>1
<1>3. GroupsOK
  BY DEF DInv
<1>4. ASSUME NEW k \in DOMAIN decl.groups, decl.groups[k] = decl.groups[j]  PROVE k = j
  <2>1. CASE k < j
    BY <1>2, <1>3, <1>4, <2>1 DEF GroupsOK
  <2>2. CASE j < k
    BY <1>2, <1>3, <1>4, <2>2 DEF GroupsOK
  <2> QED BY <1>2, <2>1, <2>2
<1> QED BY <1>2, <1>4 DEF Names

LEMMA ReadGroupKeeps ==
  ASSUME GInv, DInv, EInv, ReadGroup, UNCHANGED allvars
  PROVE  EInv'
<1> DEFINE g == decl.groups[step]
<1>1. stage = "groups" /\ stage' = "groups" /\ step' = step + 1 /\ step \in 1 .. Len(decl.groups)
      /\ UNCHANGED pools /\ Len(line) \in Nat
  <2>1. Len(decl.groups) \in Nat
    BY DEF GInv, GraphTypeOK, Declaration
  <2> QED BY <2>1, DeclType DEF ReadGroup, EInv, GInv
<1>2. Propagated /\ pc = "ordered"
  BY <1>1 DEF EInv, Started, Propagated
<1>3. g \in Names /\ step \in DOMAIN decl.groups
      /\ \A k \in DOMAIN decl.groups : decl.groups[k] = g => k = step
  BY <1>1, <1>2, GroupIs
<1>4. /\ Len(line) <= Len(results) /\ Len(results) \in Nat /\ DOMAIN results = 1 .. Len(results)
      /\ \A k \in DOMAIN results :
           IF k <= Len(line) THEN results[k].id = line[k]
           ELSE \E h \in DOMAIN decl.groups : results[k].id = decl.groups[h] /\ h < step
      /\ \A j, k \in DOMAIN results :
           j > Len(line) /\ k > Len(line) /\ results[j].id = results[k].id => j = k
  <2>1. Len(results) \in Nat /\ DOMAIN results = 1 .. Len(results)
    BY ListIs DEF EInv, Readable
  <2> QED BY <1>1, <2>1 DEF EInv, ResultsNamed
<1>5. Started' /\ Listed(pools)'
  BY <1>1, <1>2, Rests DEF Started, EInv, Propagated
<1>6. PoolsBilled' /\ AllBlamed'
  BY <1>1, EmptyLists DEF EInv, PoolsBilled, AllBlamed, PoolsDone
<1>7. line' = line /\ decl' = decl /\ step \in Nat
  BY <1>1, Rests
<1>8. CASE UNCHANGED <<results, lines, unverified>>
  <2>1. ResultsNamed'
    BY <1>1, <1>4, <1>7, <1>8 DEF ResultsNamed
  <2>2. Readable'
    BY <1>8 DEF EInv, Readable, Belongs, AllTold
  <2> QED BY <1>1, <1>5, <1>6, <2>1, <2>2 DEF EInv
<1>9. CASE Read(g, types.groups[g], Crossed(Crossing(g)), 1, None, {})
  <2>1. Volumes(Crossed(Crossing(g)))
    BY <1>2, CrossingIs, CrossedIs
  <2> HIDE DEF g
  <2>2. /\ Readable' /\ Len(results') = Len(results) + 1 /\ results'[Len(results) + 1].id = g
        /\ \A j \in DOMAIN results : results'[j] = results[j]
    BY <1>3, <1>9, <2>1, ReadAdds DEF EInv
  <2>3. DOMAIN results' = 1 .. Len(results) + 1
    BY <2>2, ListIs DEF Readable
  <2>4. ASSUME NEW k \in DOMAIN results'
        PROVE  /\ k \in DOMAIN results \/ k = Len(results) + 1
               /\ IF k <= Len(line) THEN results'[k].id = line[k]
                  ELSE \E h \in DOMAIN decl.groups : results'[k].id = decl.groups[h] /\ h < step + 1
    <3>1. CASE k = Len(results) + 1
      BY <1>3, <1>4, <1>1, <2>2, <3>1 DEF g
    <3>2. CASE k \in DOMAIN results
      <4>1. results'[k] = results[k]
        BY <2>2, <3>2
      <4>2. \A h \in DOMAIN decl.groups : h \in Nat
        BY DEF GInv, GraphTypeOK, Declaration
      <4> QED BY <1>4, <1>7, <3>2, <4>1, <4>2
    <3> QED BY <1>4, <2>3, <3>1, <3>2
  <2>5. ASSUME NEW j \in DOMAIN results, j > Len(line)  PROVE results[j].id # g
    <3>1. PICK h \in DOMAIN decl.groups : results[j].id = decl.groups[h] /\ h < step
      BY <1>4, <2>5
    <3>2. h # step
      BY <1>7, <3>1
    <3> QED BY <1>3, <3>1, <3>2 DEF g
  <2>6. ASSUME NEW j \in DOMAIN results', NEW k \in DOMAIN results', j > Len(line), k > Len(line),
               results'[j].id = results'[k].id
        PROVE  j = k
    <3>1. CASE j \in DOMAIN results /\ k \in DOMAIN results
      <4>1. results'[j] = results[j] /\ results'[k] = results[k]
        BY <2>2, <3>1
      <4> QED BY <1>4, <2>6, <3>1, <4>1
    <3>2. CASE j \in DOMAIN results /\ k = Len(results) + 1
      BY <2>2, <2>5, <2>6, <3>2
    <3>3. CASE j = Len(results) + 1 /\ k \in DOMAIN results
      BY <2>2, <2>5, <2>6, <3>3
    <3> QED BY <2>4, <3>1, <3>2, <3>3
  <2>7. ResultsNamed'
    BY <1>1, <1>4, <1>7, <2>2, <2>4, <2>6 DEF ResultsNamed
  <2> QED BY <1>1, <1>5, <1>6, <2>2, <2>7 DEF EInv
<1> QED BY <1>8, <1>9 DEF ReadGroup

LEMMA GroupsReadKeeps ==
  ASSUME GInv, EInv, GroupsRead, UNCHANGED allvars
  PROVE  EInv'
<1>1. stage = "groups" /\ stage' = "pools" /\ step' = 1
      /\ UNCHANGED <<results, lines, unverified, pools>>
  BY DEF GroupsRead, Advance
<1>2. ResultsNamed'
  BY <1>1, Rests DEF EInv, ResultsNamed
<1>3. Readable' /\ Started' /\ Listed(pools)'
  BY <1>1, Rests DEF EInv, Readable, Started, Belongs, AllTold, Propagated
<1>4. pools = <<>> /\ pools' = <<>>
  BY <1>1 DEF EInv, PoolsBilled, PoolsDone
<1>5. Len(PoolIds(lines')) \in Nat
  BY <1>3, PoolsAre DEF Readable
<1>6. PoolsBilled' /\ AllBlamed'
  BY <1>1, <1>4, <1>5, EmptyLists DEF PoolsBilled, AllBlamed, PoolsDone
<1> QED BY <1>1, <1>2, <1>3, <1>6 DEF EInv

LEMMA SharePoolKeeps ==
  ASSUME GInv, EInv, SharePool, UNCHANGED allvars
  PROVE  EInv'
<1> DEFINE ids == PoolIds(lines)
           id == ids[step]
           bill == PoolBill(lines, id)
           p == [price |-> id, error |-> bill.error, usd |-> bill.usd,
                 quantity |-> PoolQuantity(lines, id)]
<1>1. stage = "pools" /\ stage' = "pools" /\ step' = step + 1 /\ step <= Len(ids) /\ step \in Nat \ {0}
      /\ UNCHANGED <<results, unverified>>
  BY DEF SharePool, EInv
<1>2. lines \in Seq(Line) /\ Listed(results) /\ Listed(pools)
  BY DEF EInv, Readable
<1>3. /\ Len(ids) \in Nat /\ step \in 1 .. Len(ids)
      /\ id \in DOMAIN PriceBook /\ MembersOf(lines, id) # {}
      /\ \A j, k \in 1 .. Len(ids) : ids[j] = ids[k] => j = k
  <2>1. Len(ids) \in Nat /\ step \in 1 .. Len(ids)
    BY <1>1, <1>2, PoolsAre
  <2> QED BY <1>2, <2>1, PoolsAre
<1>4. bill.usd \in Int \cup {None} /\ (bill.error = "none" /\ bill.usd = None => Doubtful(id))
  BY <1>2, <1>3, PoolBillIs
<1>5. lines' = ShareOut(lines, id, bill.usd) /\ pools' = Append(pools, p)
  BY DEF SharePool
<1>6. p.price = id /\ p.error = bill.error
  OBVIOUS
<1> HIDE DEF ids, id, bill, p
<1>7. /\ lines' \in Seq(Line) /\ Len(lines') = Len(lines)
      /\ \A l \in DOMAIN lines :
           /\ Alike(lines[l], lines'[l])
           /\ l \notin MembersOf(lines, id) => lines'[l] = lines[l]
           /\ l \in MembersOf(lines, id) /\ lines'[l].usd = None => bill.usd = None
  BY <1>2, <1>4, <1>5, SharedOut
<1>8. /\ PoolIds(lines') = ids
      /\ \A x : MembersOf(lines', x) = MembersOf(lines, x)
  BY <1>2, <1>7, PoolsStay DEF ids
<1>9. DOMAIN lines' = DOMAIN lines
  BY <1>2, <1>7, LinesAre
<1>10. Readable'
  <2>1. Belongs'
    BY <1>1, <1>7, <1>9 DEF EInv, Readable, Belongs, Alike
  <2>2. AllTold'
    <3> SUFFICES ASSUME NEW l \in DOMAIN lines  PROVE Told(lines'[l], unverified)
      BY <1>1, <1>9 DEF AllTold
    <3>1. Told(lines[l], unverified)
      BY DEF EInv, Readable, AllTold
    <3>2. Unsure(lines[l]) <=> Unsure(lines'[l])
      BY <1>7, AlikeUnsure
    <3> QED BY <1>7, <3>1, <3>2 DEF Told, Alike
  <2> QED BY <1>1, <1>7, <2>1, <2>2 DEF EInv, Readable
<1>11. Listed(pools') /\ Len(pools') = Len(pools) + 1 /\ pools'[Len(pools) + 1] = p
       /\ \A m \in DOMAIN pools : pools'[m] = pools[m]
  BY <1>2, <1>5, ListGrows
<1>12. Len(pools) = step - 1 /\ DOMAIN pools = 1 .. step - 1 /\ DOMAIN pools' = 1 .. step
  <2>1. Len(pools) = step - 1
    BY <1>1 DEF EInv, PoolsBilled, ids
  <2> QED BY <1>1, <1>2, <1>11, <2>1, ListIs
<1>13. ASSUME NEW m \in DOMAIN pools'
       PROVE  pools'[m].price = PoolIds(lines')[m] /\ Reasoned(pools[m])'
  <2>1. CASE m = step
    <3>1. pools'[m] = p /\ p.price = PoolIds(lines')[m]
      BY <1>1, <1>6, <1>8, <1>11, <1>12, <2>1 DEF id
    <3>2. ASSUME NEW l \in MembersOf(lines', p.price), lines'[l].usd = None
          PROVE  p.error # "none" \/ Doubtful(p.price)
      <4>1. l \in MembersOf(lines, id) /\ l \in DOMAIN lines
        BY <1>6, <1>8 DEF MembersOf
      <4> QED BY <1>4, <1>6, <1>7, <3>2, <4>1
    <3> QED BY <3>1, <3>2 DEF Reasoned
  <2>2. CASE m # step
    <3>1. m \in DOMAIN pools /\ m \in 1 .. Len(ids) /\ pools'[m] = pools[m]
      BY <1>1, <1>3, <1>11, <1>12, <2>2
    <3>2. pools[m].price = ids[m] /\ Reasoned(pools[m])
      BY <3>1 DEF EInv, PoolsBilled, ids
    <3>3. pools[m].price # id
      BY <1>3, <2>2, <3>1, <3>2 DEF id
    <3>4. ASSUME NEW l \in MembersOf(lines', pools[m].price), lines'[l].usd = None
          PROVE  pools[m].error # "none" \/ Doubtful(pools[m].price)
      <4>1. l \in MembersOf(lines, pools[m].price) /\ l \in DOMAIN lines
        BY <1>8 DEF MembersOf
      <4>2. l \notin MembersOf(lines, id)
        BY <3>3, <4>1 DEF MembersOf
      <4>3. lines[l].usd = None
        BY <1>7, <3>4, <4>1, <4>2
      <4> QED BY <3>2, <4>1, <4>3 DEF Reasoned
    <3> QED BY <1>8, <3>1, <3>2, <3>4 DEF Reasoned
  <2> QED BY <2>1, <2>2
<1>14. PoolsBilled'
  <2>1. stage' = "pools" /\ stage' \notin PoolsDone
    BY <1>1 DEF PoolsDone
  <2>2. step' <= Len(PoolIds(lines')) + 1 /\ Len(pools') = step' - 1
    BY <1>1, <1>3, <1>8, <1>11, <1>12
  <2> QED BY <1>13, <2>1, <2>2 DEF PoolsBilled
<1>15. ResultsNamed' /\ Started' /\ AllBlamed'
  BY <1>1, Rests DEF EInv, ResultsNamed, Started, AllBlamed, Propagated
<1> QED BY <1>1, <1>10, <1>11, <1>14, <1>15 DEF EInv

LEMMA PoolsSharedKeeps ==
  ASSUME GInv, EInv, PoolsShared, UNCHANGED allvars
  PROVE  EInv'
<1>1. stage = "pools" /\ stage' = "blame" /\ step' = 1 /\ step > Len(PoolIds(lines)) /\ step \in Nat
      /\ UNCHANGED <<results, lines, unverified, pools>>
  BY DEF PoolsShared, Advance, EInv
<1>2. Len(PoolIds(lines)) \in Nat /\ DOMAIN pools = 1 .. Len(pools)
  BY PoolsAre, ListIs DEF EInv, Readable
<1>3. Len(pools) = Len(PoolIds(lines))
  BY <1>1, <1>2 DEF EInv, PoolsBilled
<1>4. PoolsBilled'
  BY <1>1, <1>3 DEF EInv, PoolsBilled, PoolsDone, Reasoned
<1>5. AllBlamed'
  BY <1>1, <1>2 DEF AllBlamed
<1>6. Readable' /\ Started' /\ ResultsNamed' /\ Listed(pools)'
  BY <1>1, Rests DEF EInv, Readable, Started, Belongs, AllTold, ResultsNamed, Propagated
<1> QED BY <1>1, <1>4, <1>5, <1>6 DEF EInv

(***************************************************************************)
(* byID: every line's node has a result, and the one found has its name.    *)
(***************************************************************************)
LEMMA FoundIs ==
  ASSUME Readable, NEW l \in DOMAIN lines
  PROVE  Found(lines[l].node) \in DOMAIN results /\ results[Found(lines[l].node)].id = lines[l].node
<1> DEFINE Q == {k \in DOMAIN results : results[k].id = lines[l].node}
<1>1. Len(results) \in Nat /\ DOMAIN results = 1 .. Len(results)
  BY ListIs DEF Readable
<1>2. Q \in SUBSET Int /\ Q \in SUBSET (1 .. Len(results)) /\ lines[l].of \in Q
  BY <1>1 DEF Readable, Belongs
<1>3. Found(lines[l].node) = Max(Q)
  BY DEF Found
<1>4. Q \subseteq DOMAIN results /\ \A k \in Q : results[k].id = lines[l].node
  OBVIOUS
<1> HIDE DEF Q
<1>5. IsFiniteSet(Q) /\ Q # {}
  <2>1. IsFiniteSet(1 .. Len(results))
    BY <1>1, FS_Interval
  <2> QED BY <1>2, <2>1, FS_Subset
<1>6. Max(Q) \in Q
  BY <1>2, <1>5, MaxIs
<1> QED BY <1>3, <1>4, <1>6

(***************************************************************************)
(* Results that keep their names and what they say is wrong keep the blame. *)
(***************************************************************************)
Kept ==
  /\ Listed(results') /\ DOMAIN results' = DOMAIN results /\ Len(results') = Len(results)
  /\ \A k \in DOMAIN results :
       /\ IsResult(results'[k]) /\ results'[k].id = results[k].id
       /\ results[k].errors \subseteq results'[k].errors

LEMMA KeptNamed ==
  ASSUME EInv, Kept, UNCHANGED <<lines, unverified, allvars>>, stage # "run", stage' # "run",
         stage \notin {"nodes", "groups"}, stage' \notin {"nodes", "groups"}
  PROVE  ResultsNamed' /\ Readable' /\ Started'
<1>1. Readable'
  BY DEF EInv, Kept, Readable, Belongs, AllTold
<1>2. ResultsNamed'
  BY Rests DEF EInv, Kept, ResultsNamed
<1>3. Started'
  BY Rests DEF EInv, Started
<1> QED BY <1>1, <1>2, <1>3

LEMMA KeptBlame ==
  ASSUME Readable, Kept, UNCHANGED lines, NEW p, Blamed(p)
  PROVE  p.error # "none" => \A k \in Sharing(p)' : <<p.error, p.price>> \in results'[k].errors
<1>1. \A id : Found(id)' = Found(id)
  BY DEF Kept, Found
<1>2. Sharing(p)' = Sharing(p)
  BY <1>1 DEF Sharing, MembersOf
<1>3. \A k \in Sharing(p) : k \in DOMAIN results
  BY FoundIs DEF Sharing, MembersOf
<1> QED BY <1>2, <1>3 DEF Kept, Blamed

LEMMA BlameKeeps ==
  ASSUME GInv, EInv, Blame, UNCHANGED allvars
  PROVE  EInv'
<1> DEFINE p == pools[step]
           res(k) == IF k \in Sharing(p)
                     THEN [results[k] EXCEPT !.errors = results[k].errors \cup {<<p.error, p.price>>}]
                     ELSE results[k]
<1>1. stage = "blame" /\ stage' = "blame" /\ step' = step + 1 /\ step \in Nat \ {0} /\ step <= Len(pools)
      /\ UNCHANGED <<lines, unverified, pools>>
  BY DEF Blame, EInv
<1>2. results' = IF p.error = "none" THEN results ELSE [k \in DOMAIN results |-> res(k)]
  BY DEF Blame
<1>3. Len(results) \in Nat /\ DOMAIN results = 1 .. Len(results) /\ DOMAIN pools = 1 .. Len(pools)
      /\ Len(pools) \in Nat
  BY ListIs DEF EInv, Readable
<1>4. ASSUME NEW k \in DOMAIN results
      PROVE  /\ IsResult(res(k)) /\ res(k).id = results[k].id
             /\ results[k].errors \subseteq res(k).errors
             /\ k \in Sharing(p) => <<p.error, p.price>> \in res(k).errors
  <2> DEFINE x == results[k]
             es == x.errors \cup {<<p.error, p.price>>}
  <2>1. x = [id |-> x.id, type |-> x.type, errors |-> x.errors, limits |-> x.limits,
             latency |-> x.latency, sla |-> x.sla, usd |-> x.usd]
    BY DEF EInv, Readable, IsResult
  <2>2. CASE k \in Sharing(p)
    <3>1. res(k) = [x EXCEPT !.errors = es]
      BY <2>2
    <3> DEFINE y == [id |-> x.id, type |-> x.type, errors |-> es, limits |-> x.limits,
                     latency |-> x.latency, sla |-> x.sla, usd |-> x.usd]
    <3>2. res(k) = y
      <4> HIDE DEF es, x, res
      <4> QED BY <2>1, <3>1
    <3>3. IsResult(y) /\ y.id = x.id /\ y.errors = es
      BY DEF IsResult
    <3>4. x.errors \subseteq es /\ <<p.error, p.price>> \in es
      OBVIOUS
    <3> HIDE DEF y, res, es, p
    <3> QED BY <3>2, <3>3, <3>4
  <2>3. CASE k \notin Sharing(p)
    BY <2>1, <2>3 DEF IsResult
  <2> QED BY <2>2, <2>3
<1> HIDE DEF p, res
<1>5. Kept /\ \A k \in DOMAIN results : p.error # "none" => results'[k] = res(k)
  <2>1. CASE p.error = "none"
    BY <1>2, <2>1 DEF Kept, EInv, Readable
  <2>2. CASE p.error # "none"
    <3>1. results' = [k \in 1 .. Len(results) |-> results'[k]] /\ \A k \in DOMAIN results : results'[k] = res(k)
      BY <1>2, <1>3, <2>2
    <3>2. Listed(results') /\ Len(results') = Len(results) /\ DOMAIN results' = DOMAIN results
      BY <1>3, <3>1, ListMade
    <3> QED BY <1>4, <3>1, <3>2 DEF Kept
  <2> QED BY <2>1, <2>2
<1>6. ASSUME NEW m \in DOMAIN pools, m < step + 1  PROVE Blamed(pools[m])'
  <2>1. CASE m < step
    <3>1. Blamed(pools[m])
      BY <1>1, <2>1 DEF EInv, AllBlamed
    <3> DEFINE q == pools[m]
    <3>2. q.error # "none" => \A k \in Sharing(q)' : <<q.error, q.price>> \in results'[k].errors
      BY <1>1, <1>5, <3>1, KeptBlame DEF EInv
    <3> QED BY <1>1, <3>2 DEF Blamed
  <2>2. CASE m = step
    <3>1. \A id : Found(id)' = Found(id)
      BY <1>5 DEF Kept, Found
    <3>2. Sharing(pools[m])' = Sharing(p)
      BY <1>1, <2>2, <3>1 DEF Sharing, MembersOf, p
    <3>3. \A k \in Sharing(p) : k \in DOMAIN results
      BY FoundIs DEF EInv, Sharing, MembersOf
    <3>4. pools'[m] = p
      BY <1>1, <2>2 DEF p
    <3> QED BY <1>4, <1>5, <3>2, <3>3, <3>4 DEF Blamed
  <2> QED BY <1>1, <1>3, <1>6, <2>1, <2>2
<1>7. AllBlamed'
  BY <1>1, <1>6 DEF AllBlamed
<1>8. PoolsBilled'
  BY <1>1 DEF EInv, PoolsBilled, PoolsDone, Reasoned
<1>9. ResultsNamed' /\ Readable' /\ Started'
  BY <1>1, <1>5, KeptNamed
<1> QED BY <1>1, <1>7, <1>8, <1>9 DEF EInv

LEMMA SumCostsKeeps ==
  ASSUME GInv, EInv, SumCosts, UNCHANGED allvars
  PROVE  EInv'
<1> DEFINE usd(k) == Usd({l \in PricedLines : lines[l].of = k})
<1>1. stage = "blame" /\ stage' = "paths" /\ step' = 1 /\ step > Len(pools) /\ step \in Nat
      /\ UNCHANGED <<lines, unverified, pools>>
      /\ results' = [k \in DOMAIN results |-> [results[k] EXCEPT !.usd = usd(k)]]
  BY DEF SumCosts, Advance, EInv
<1> HIDE DEF usd
<1>2. Len(results) \in Nat /\ DOMAIN results = 1 .. Len(results) /\ DOMAIN pools = 1 .. Len(pools)
      /\ Len(pools) \in Nat
  BY ListIs DEF EInv, Readable
<1>3. Kept
  <2>1. results' = [k \in 1 .. Len(results) |-> results'[k]]
        /\ \A k \in DOMAIN results : results'[k] = [results[k] EXCEPT !.usd = usd(k)]
    BY <1>1, <1>2
  <2>2. Listed(results') /\ Len(results') = Len(results) /\ DOMAIN results' = DOMAIN results
    BY <1>2, <2>1, ListMade
  <2>3. ASSUME NEW k \in DOMAIN results
        PROVE  IsResult(results'[k]) /\ results'[k].id = results[k].id /\ results'[k].errors = results[k].errors
    <3> DEFINE x == results[k]
               y == [id |-> x.id, type |-> x.type, errors |-> x.errors, limits |-> x.limits,
                     latency |-> x.latency, sla |-> x.sla, usd |-> usd(k)]
    <3>1. x = [id |-> x.id, type |-> x.type, errors |-> x.errors, limits |-> x.limits,
               latency |-> x.latency, sla |-> x.sla, usd |-> x.usd]
      BY DEF EInv, Readable, IsResult
    <3>2. IsResult(y) /\ y.id = x.id /\ y.errors = x.errors
      BY DEF IsResult
    <3>3. results'[k] = [x EXCEPT !.usd = usd(k)]
      BY <2>1
    <3>4. [x EXCEPT !.usd = usd(k)] = y
      <4> HIDE DEF x
      <4> QED BY <3>1
    <3> HIDE DEF y
    <3> QED BY <3>2, <3>3, <3>4
  <2> QED BY <2>2, <2>3 DEF Kept
<1>4. ASSUME NEW m \in DOMAIN pools  PROVE Blamed(pools[m])'
  <2>1. Blamed(pools[m])
    BY <1>1, <1>2 DEF EInv, AllBlamed
  <2> DEFINE q == pools[m]
  <2>2. q.error # "none" => \A k \in Sharing(q)' : <<q.error, q.price>> \in results'[k].errors
    BY <1>1, <1>3, <2>1, KeptBlame DEF EInv
  <2> QED BY <1>1, <2>2 DEF Blamed
<1>5. AllBlamed'
  BY <1>1, <1>4 DEF AllBlamed
<1>6. PoolsBilled'
  BY <1>1 DEF EInv, PoolsBilled, PoolsDone, Reasoned
<1>7. ResultsNamed' /\ Readable' /\ Started'
  BY <1>1, <1>3, KeptNamed
<1> QED BY <1>1, <1>5, <1>6, <1>7 DEF EInv

LEMMA PathsKeep ==
  ASSUME GInv, EInv, Walk \/ Walked, UNCHANGED allvars
  PROVE  EInv'
<1>1. stage = "paths" /\ stage' \in {"paths", "returned"}
      /\ UNCHANGED <<step, results, lines, unverified, pools>>
  BY DEF Walk, Walked
<1>2. Readable' /\ Started' /\ ResultsNamed' /\ Listed(pools)'
  BY <1>1, Rests DEF EInv, Readable, Started, Belongs, AllTold, ResultsNamed, Propagated
<1>3. PoolsBilled'
  BY <1>1 DEF EInv, PoolsBilled, PoolsDone, Reasoned
<1>4. \A m \in DOMAIN pools : Blamed(pools[m]) => Blamed(pools[m])'
  BY <1>1 DEF Blamed, Sharing, Found
<1>5. AllBlamed'
  BY <1>1, <1>4 DEF EInv, AllBlamed
<1> QED BY <1>1, <1>2, <1>3, <1>5 DEF EInv

(***************************************************************************)
(* Until the load is propagated, nothing is read.                           *)
(***************************************************************************)
LEMMA Waits ==
  ASSUME GInv, EInv, Build \/ Take \/ Push
  PROVE  stage = "run"
<1> SUFFICES ASSUME Propagated PROVE FALSE
  BY DEF EInv, Started
<1>1. ~ Build
  BY DEF Propagated, Build, ResolveTraffic, GroupIDs, AddNode, NodesAdded, AddEdge, EdgesAdded,
     StartQueue, Relax, Pop, Sorted
<1>2. ~ Take /\ ~ Push
  BY DeclType DEF Propagated, Take, Push, GInv, GraphTypeOK
<1> QED BY <1>1, <1>2

LEMMA WaitKeeps ==
  ASSUME GInv, EInv, Build \/ Take \/ Push, UNCHANGED rest
  PROVE  EInv'
<1>1. stage = "run"
  BY Waits
<1>2. UNCHANGED <<stage, step, results, lines, unverified, pools>>
  BY DEF rest
<1>3. Readable' /\ Started' /\ ResultsNamed' /\ Listed(pools)'
  BY <1>1, <1>2 DEF EInv, Readable, Started, Belongs, AllTold, ResultsNamed
<1>4. PoolsBilled' /\ AllBlamed'
  BY <1>1, <1>2 DEF EInv, PoolsBilled, AllBlamed, PoolsDone, Reasoned
<1> QED BY <1>1, <1>2, <1>3, <1>4 DEF EInv

LEMMA ReadStepKeeps ==
  ASSUME GInv, DInv, EInv, [RunNext]_runvars
  PROVE  EInv'
<1>1. CASE UNCHANGED runvars
  <2>1. UNCHANGED allvars /\ UNCHANGED <<stage, step, results, lines, unverified, pools>>
    BY <1>1 DEF runvars, rest
  <2>2. Readable' /\ Started' /\ ResultsNamed' /\ Listed(pools)'
    BY <2>1, Rests DEF EInv, Readable, Started, Belongs, AllTold, ResultsNamed
  <2>3. PoolsBilled'
    BY <2>1 DEF EInv, PoolsBilled, PoolsDone, Reasoned
  <2>4. \A m \in DOMAIN pools : Blamed(pools[m]) => Blamed(pools[m])'
    BY <2>1 DEF Blamed, Sharing, Found
  <2>5. AllBlamed'
    BY <2>1, <2>4 DEF EInv, AllBlamed
  <2> QED BY <2>1, <2>2, <2>3, <2>5 DEF EInv
<1>2. CASE (Build \/ Take \/ Push) /\ UNCHANGED rest
  BY <1>2, WaitKeeps
<1>3. CASE ReadAll /\ UNCHANGED allvars
  <2>1. CASE Start
    BY <1>3, <2>1, StartKeeps
  <2>2. CASE ReadNode
    BY <1>3, <2>2, ReadNodeKeeps
  <2>3. CASE NodesRead
    BY <1>3, <2>3, NodesReadKeeps
  <2>4. CASE ReadGroup
    BY <1>3, <2>4, ReadGroupKeeps
  <2>5. CASE GroupsRead
    BY <1>3, <2>5, GroupsReadKeeps
  <2>6. CASE SharePool
    BY <1>3, <2>6, SharePoolKeeps
  <2>7. CASE PoolsShared
    BY <1>3, <2>7, PoolsSharedKeeps
  <2>8. CASE Blame
    BY <1>3, <2>8, BlameKeeps
  <2>9. CASE SumCosts
    BY <1>3, <2>9, SumCostsKeeps
  <2>10. CASE Walk \/ Walked
    BY <1>3, <2>10, PathsKeep
  <2> QED BY <1>3, <2>1, <2>2, <2>3, <2>4, <2>5, <2>6, <2>7, <2>8, <2>9, <2>10 DEF ReadAll
<1> QED BY <1>1, <1>2, <1>3 DEF RunNext

LEMMA PropagationMoves == [RunNext]_runvars => [Next]_allvars
BY DEF RunNext, Next, runvars, Return, allvars

LEMMA FlowBegins == Begin => GInv /\ FInv /\ DInv
<1> SUFFICES ASSUME Begin PROVE GInv /\ FInv /\ DInv
  OBVIOUS
<1>1. FInv
  BY DEF Begin, Init, FlowInit, FInv
<1> QED BY <1>1, InitGInv, DemandBegins DEF Begin

LEMMA BalanceBegins == Begin => CInv
BY DEF Begin, Init, FlowInit, CInv

(***************************************************************************)
(* For every declaration: once the load is propagated, each node has what   *)
(* it brings in and, of every edge into it, the total of the edge's source  *)
(* times what the edge brings per unit; nothing is lost or made up.         *)
(***************************************************************************)
THEOREM LoadIsConserved == Spec => []LoadConserved
<1>1. ASSUME GInv, FInv, DInv, CInv  PROVE LoadConserved
  <2> SUFFICES ASSUME Propagated PROVE LoadConserved
    BY DEF LoadConserved
  <2>1. /\ pc = "ordered" /\ at = Len(line) /\ Unpushed = {} /\ Len(line) \in Nat
        /\ Balanced /\ PushedInOrder
    BY <1>1, DeclType DEF Propagated, FInv, Whole, CInv, GInv
  <2>2. ASSUME NEW n \in known  PROVE n \in Taken /\ Pushed(n) = Incoming(n)
    <3>1. n \in Taken
      BY <1>1, <2>1, AllInLine DEF InLine, Taken
    <3>2. ASSUME NEW e \in Incoming(n)  PROVE e \in pushed
      <4>1. e \in Edges /\ From(e) \in known
        BY <1>1, <2>1, EndsAreKnown DEF Incoming
      <4>2. PICK j \in 1 .. Len(line) : line[j] = From(e)
        BY <1>1, <2>1, <4>1, AllInLine DEF InLine
      <4>3. Outgoing(line[j]) \subseteq pushed
        <5>1. CASE j = at
          BY <2>1, <5>1 DEF Unpushed
        <5>2. CASE j # at
          BY <2>1, <5>2 DEF PushedInOrder
        <5> QED BY <5>1, <5>2
      <4> QED BY <4>1, <4>2, <4>3 DEF Outgoing
    <3> QED BY <3>1, <3>2 DEF Pushed
  <2>3. ASSUME NEW n \in known, NEW k \in Kind
        PROVE  /\ demand[n][k].monthly = BroughtIn(n, k) + PassedAlong(k, FALSE, Incoming(n))
               /\ demand[n][k].sized = PassedAlong(k, TRUE, Incoming(n))
    <3>1. Got(n, k) = BroughtIn(n, k) /\ Pushed(n) = Incoming(n)
      BY <2>2 DEF Got
    <3> QED BY <2>1, <3>1 DEF Balanced
  <2> QED BY <2>3 DEF LoadConserved
<1>2. GInv /\ FInv /\ DInv /\ CInv /\ [Next]_allvars => (GInv /\ FInv /\ DInv /\ CInv)'
  BY StepKeeps, FlowKeeps, DemandKeeps, BalanceKeeps
<1> QED BY <1>1, <1>2, FlowBegins, BalanceBegins, PTL DEF Spec

(***************************************************************************)
(* Run propagates load as propagate does, whatever it reads of it later.    *)
(***************************************************************************)
THEOREM RunPropagates == RunSpec => Spec
<1>1. ReadingBegins => Begin
  BY DEF ReadingBegins
<1> QED BY <1>1, PropagationMoves, PTL DEF RunSpec, Spec

LEMMA RunInvariance == RunSpec => [](GInv /\ FInv /\ DInv /\ EInv)
<1>1. ReadingBegins => GInv /\ FInv /\ DInv /\ EInv
  BY FlowBegins, RunBegins DEF ReadingBegins
<1>2. GInv /\ FInv /\ DInv /\ EInv /\ [RunNext]_runvars => (GInv /\ FInv /\ DInv /\ EInv)'
  BY PropagationMoves, StepKeeps, FlowKeeps, DemandKeeps, ReadStepKeeps
<1> QED BY <1>1, <1>2, PTL DEF RunSpec

-----------------------------------------------------------------------------
(***************************************************************************)
(* Where no group has a node's id, the result byID finds is the line's own. *)
(***************************************************************************)
LEMMA OwnResult ==
  ASSUME GInv, EInv, stage = "returned", Apart, NEW l \in DOMAIN lines
  PROVE  Found(lines[l].node) = lines[l].of
<1> DEFINE j == Found(lines[l].node)
           k == lines[l].of
<1>1. /\ j \in DOMAIN results /\ k \in DOMAIN results /\ results[j].id = results[k].id
      /\ DOMAIN results = 1 .. Len(results) /\ Len(results) \in Nat /\ Len(line) \in Nat
  <2>1. Len(results) \in Nat /\ DOMAIN results = 1 .. Len(results) /\ Len(line) \in Nat
    BY ListIs, DeclType DEF EInv, Readable, GInv
  <2>2. j \in DOMAIN results /\ results[j].id = lines[l].node
    BY FoundIs DEF EInv
  <2>3. k \in DOMAIN results /\ lines[l].node = results[k].id
    BY DEF EInv, Readable, Belongs
  <2> QED BY <2>1, <2>2, <2>3
<1> HIDE DEF j, k
<1>2. pc = "ordered" /\ stage # "run" /\ stage # "groups"
  BY DEF EInv, Started, Propagated
<1>3. \A m \in DOMAIN results :
        IF m <= Len(line) THEN results[m].id = line[m]
        ELSE \E g \in DOMAIN decl.groups : results[m].id = decl.groups[g]
  BY <1>2 DEF EInv, ResultsNamed
<1>4. ASSUME NEW m \in DOMAIN results, NEW h \in DOMAIN results, m <= Len(line), ~ h <= Len(line)
      PROVE  results[m].id # results[h].id
  <2>1. PICK g \in DOMAIN decl.groups : results[h].id = decl.groups[g]
    BY <1>3, <1>4
  <2>2. m \in 1 .. Len(line) /\ results[m].id = line[m]
    BY <1>1, <1>3, <1>4
  <2>3. line[m] \in known
    BY <1>2, <2>2, LineIsKnown
  <2>4. PICK x \in 1 .. Len(decl.nodes) : NodeOf(line[m]) = decl.nodes[x] /\ decl.nodes[x].id = line[m]
    BY <1>2, <2>3, NodeOfIs
  <2>5. DOMAIN decl.nodes = 1 .. Len(decl.nodes)
    BY DeclType DEF GInv
  <2> QED BY <2>1, <2>2, <2>4, <2>5 DEF Apart
<1>5. CASE j <= Len(line) /\ k <= Len(line)
  <2>1. line[j] = line[k] /\ j \in 1 .. Len(line) /\ k \in 1 .. Len(line)
    BY <1>1, <1>3, <1>5
  <2> QED BY <2>1 DEF GInv, ForwardOrder, j, k
<1>6. CASE ~ j <= Len(line) /\ ~ k <= Len(line)
  <2>1. j > Len(line) /\ k > Len(line)
    BY <1>1, <1>6
  <2> QED BY <1>1, <1>2, <2>1 DEF EInv, ResultsNamed, j, k
<1> QED BY <1>1, <1>4, <1>5, <1>6 DEF j, k

(***************************************************************************)
(* No line is without a price in silence, whatever the graph, the book and  *)
(* the scouters: its node says what is wrong with the price, or the price   *)
(* is among the unverified ones (meter.Cost, sharePools).                   *)
(***************************************************************************)
THEOREM UnpricedIsExplained == RunSpec => []UnpricedExplained
<1>1. ASSUME GInv, EInv  PROVE UnpricedExplained
  <2> SUFFICES ASSUME stage = "returned", Apart, NEW l \in DOMAIN lines, lines[l].usd = None
               PROVE  Explained(l)
    BY DEF UnpricedExplained, PricedLines
  <2> DEFINE x == lines[l]
  <2>1. x \in Line /\ Told(x, unverified) /\ lines \in Seq(Line)
    BY <1>1, LinesAre DEF EInv, Readable, AllTold
  <2>2. CASE Unsure(x)
    BY <2>1, <2>2 DEF Told, Explained
  <2>3. CASE ~ Unsure(x)
    <3>1. x.pooled /\ ~ Doubtful(x.price)
      BY <2>3 DEF Unsure
    <3>2. PICK m \in 1 .. Len(PoolIds(lines)) : PoolIds(lines)[m] = x.price
      BY <2>1, <3>1, PoolsAre
    <3>3. m \in DOMAIN pools /\ stage \in PoolsDone
      BY <1>1, <3>2, ListIs DEF EInv, PoolsBilled, PoolsDone
    <3>4. pools[m].price = x.price /\ Reasoned(pools[m]) /\ Blamed(pools[m])
      BY <1>1, <3>2, <3>3 DEF EInv, PoolsBilled, AllBlamed
    <3>5. l \in MembersOf(lines, pools[m].price)
      BY <3>1, <3>4 DEF MembersOf
    <3>6. pools[m].error # "none"
      BY <3>1, <3>4, <3>5 DEF Reasoned
    <3>7. x.of \in Sharing(pools[m])
      BY <1>1, <3>5, OwnResult DEF Sharing
    <3>8. <<pools[m].error, x.price>> \in results[x.of].errors
      BY <3>4, <3>6, <3>7 DEF Blamed
    <3> DEFINE e == <<pools[m].error, x.price>>
    <3>9. e[2] = x.price
      OBVIOUS
    <3> QED BY <3>8, <3>9 DEF Explained
  <2> QED BY <2>2, <2>3
<1> QED BY <1>1, RunInvariance, PTL
-----------------------------------------------------------------------------
(***************************************************************************)
(* Paths.  Where a trail can begin and how it goes on: at each node with a  *)
(* load once, and to each node an edge leads to once.                       *)
(***************************************************************************)
LEMMA RootsAre ==
  ASSUME GInv, pc = "ordered"
  PROVE  /\ Roots \in Seq(known) /\ Len(Roots) \in Nat /\ DOMAIN Roots = 1 .. Len(Roots)
         /\ \A j, k \in DOMAIN Roots : Roots[j] = Roots[k] => j = k
         /\ \A j \in DOMAIN Roots : \E k \in 1 .. Len(line) : Roots[j] = line[k]
<1> DEFINE at_ == {j \in DOMAIN line : NodeOf(line[j]).load # None}
<1>1. line \in Seq(Id) /\ Len(line) \in Nat /\ DOMAIN line = 1 .. Len(line)
  BY DeclType DEF GInv, GraphTypeOK
<1>2. line \in Seq(known)
  <2>1. \A k \in 1 .. Len(line) : line[k] \in known
    BY LineIsKnown
  <2> QED BY <1>1, <2>1
<1>3. at_ \in SUBSET (1 .. Len(line))
  BY <1>1
<1>4. Roots = Filtered(line, at_)
  BY DEF Roots
<1> HIDE DEF at_
<1>5. /\ Roots \in Seq(known)
      /\ \A r \in 1 .. Len(Roots) : Nth(r, at_) \in at_ /\ Roots[r] = line[Nth(r, at_)]
      /\ \A q, r \in 1 .. Len(Roots) : Nth(q, at_) = Nth(r, at_) => q = r
  BY <1>2, <1>3, <1>4, FilteredKeeps
<1>6. Len(Roots) \in Nat /\ DOMAIN Roots = 1 .. Len(Roots)
  BY <1>5
<1>7. \A j, k \in 1 .. Len(line) : line[j] = line[k] => j = k
  BY DEF GInv, ForwardOrder
<1>8. ASSUME NEW j \in DOMAIN Roots, NEW k \in DOMAIN Roots, Roots[j] = Roots[k]
      PROVE  j = k
  <2>1. Nth(j, at_) \in 1 .. Len(line) /\ Nth(k, at_) \in 1 .. Len(line)
    BY <1>3, <1>5, <1>6
  <2>2. Nth(j, at_) = Nth(k, at_)
    BY <1>5, <1>6, <1>7, <1>8, <2>1
  <2> QED BY <1>5, <1>6, <2>2
<1>9. \A j \in DOMAIN Roots : \E k \in 1 .. Len(line) : Roots[j] = line[k]
  BY <1>3, <1>5, <1>6
<1> QED BY <1>5, <1>6, <1>8, <1>9

LEMMA HopsAre ==
  ASSUME GInv, pc = "ordered", NEW n \in known
  PROVE  /\ Hops(n) \in Seq(known) /\ Len(Hops(n)) \in Nat /\ DOMAIN Hops(n) = 1 .. Len(Hops(n))
         /\ \A j, k \in DOMAIN Hops(n) : Hops(n)[j] = Hops(n)[k] => j = k
         /\ \A j \in DOMAIN Hops(n) : Follows(n, Hops(n)[j])
         /\ \A h : Follows(n, h) => \E j \in DOMAIN Hops(n) : Hops(n)[j] = h
<1> DEFINE first == {e \in Outgoing(n) : \A f \in Outgoing(n) : To(f) = To(e) => e <= f}
<1>1. Len(decl.edges) \in Nat /\ Edges = 1 .. Len(decl.edges)
  BY DeclType DEF GInv, GraphTypeOK, Edges
<1>2. Targets \in Seq(known) /\ Len(Targets) = Len(decl.edges)
  <2>1. \A e \in Edges : To(e) \in known
    BY EndsAreKnown
  <2>2. Targets \in [1 .. Len(decl.edges) -> known]
    BY <1>1, <2>1 DEF Targets
  <2> QED BY <1>1, <2>2
<1>3. Outgoing(n) \subseteq Edges /\ first \in SUBSET (1 .. Len(Targets))
  BY <1>1, <1>2 DEF Outgoing
<1>4. Hops(n) = Filtered(Targets, first)
  BY DEF Hops
<1>5. \A e \in first : e \in Outgoing(n) /\ \A f \in Outgoing(n) : To(f) = To(e) => e <= f
  OBVIOUS
<1>6. ASSUME NEW h, Follows(n, h)  PROVE \E e \in first : To(e) = h
  <2> DEFINE T == {e \in Outgoing(n) : To(e) = h}
  <2>1. T # {} /\ T \in SUBSET Nat
    BY <1>1, <1>3, <1>6 DEF Follows
  <2>2. PICK e \in T : \A f \in T : e <= f
    BY <2>1, Least
  <2>3. e \in first
    BY <2>2
  <2> QED BY <2>2, <2>3
<1> HIDE DEF first
<1>7. /\ Hops(n) \in Seq(known)
      /\ \A r \in 1 .. Len(Hops(n)) : Nth(r, first) \in first /\ Hops(n)[r] = Targets[Nth(r, first)]
      /\ \A q, r \in 1 .. Len(Hops(n)) : Nth(q, first) = Nth(r, first) => q = r
      /\ \A k \in first : \E r \in 1 .. Len(Hops(n)) : Nth(r, first) = k
  BY <1>2, <1>3, <1>4, FilteredKeeps
<1>8. Len(Hops(n)) \in Nat /\ DOMAIN Hops(n) = 1 .. Len(Hops(n))
  BY <1>7
<1>9. \A e \in Edges : Targets[e] = To(e)
  BY DEF Targets
<1>10. \A r \in 1 .. Len(Hops(n)) : Hops(n)[r] = To(Nth(r, first)) /\ Nth(r, first) \in Outgoing(n)
  BY <1>3, <1>5, <1>7, <1>9
<1>11. ASSUME NEW j \in DOMAIN Hops(n), NEW k \in DOMAIN Hops(n), Hops(n)[j] = Hops(n)[k]
       PROVE  j = k
  <2> DEFINE e == Nth(j, first)
             f == Nth(k, first)
  <2>1. e \in first /\ f \in first /\ To(e) = To(f) /\ e \in Outgoing(n) /\ f \in Outgoing(n)
    BY <1>7, <1>8, <1>10, <1>11
  <2>2. e <= f /\ f <= e /\ e \in Nat /\ f \in Nat
    BY <1>1, <1>3, <1>5, <2>1
  <2>3. e = f
    BY <2>2
  <2> QED BY <1>7, <1>8, <2>3
<1>12. \A j \in DOMAIN Hops(n) : Follows(n, Hops(n)[j])
  BY <1>8, <1>10 DEF Follows
<1>13. \A h : Follows(n, h) => \E j \in DOMAIN Hops(n) : Hops(n)[j] = h
  BY <1>3, <1>6, <1>7, <1>8, <1>10
<1> QED BY <1>7, <1>8, <1>11, <1>12, <1>13

(***************************************************************************)
(* One trail leads to another when it is how that one begins.               *)
(***************************************************************************)
Leads(s, t) == Len(s) <= Len(t) /\ \A j \in 1 .. Len(s) : s[j] = t[j]

LEMMA LeadsOn ==
  ASSUME NEW S, NEW s \in Seq(S), NEW t \in Seq(S), NEW h \in S
  PROVE  /\ Leads(t, t) /\ Leads(t, Append(t, h))
         /\ Leads(Append(t, h), s) => Leads(t, s)
         /\ Leads(s, Append(t, h)) => Leads(s, t) \/ s = Append(t, h)
         /\ \A g \in S : Leads(Append(t, h), Append(t, g)) => h = g
         /\ Leads(t, s) /\ Len(s) = Len(t) => s = t
         /\ Leads(t, s) /\ Len(s) # Len(t) =>
              Len(t) + 1 \in 1 .. Len(s) /\ (s[Len(t) + 1] = h => Leads(Append(t, h), s))
<1> DEFINE u == Append(t, h)
<1>1. /\ Len(t) \in Nat /\ Len(s) \in Nat /\ u \in Seq(S) /\ Len(u) = Len(t) + 1
      /\ u[Len(t) + 1] = h /\ \A j \in 1 .. Len(t) : u[j] = t[j]
  OBVIOUS
<1> HIDE DEF u
<1>2. Leads(t, t) /\ Leads(t, u)
  BY <1>1 DEF Leads
<1>3. Leads(u, s) => Leads(t, s)
  BY <1>1 DEF Leads
<1>4. ASSUME Leads(s, u), ~ Leads(s, t)  PROVE s = u
  <2>1. Len(s) = Len(u)
    BY <1>1, <1>4 DEF Leads
  <2> QED BY <1>1, <1>4, <2>1 DEF Leads
<1>5. ASSUME NEW g \in S, Leads(u, Append(t, g))  PROVE h = g
  <2>1. Append(t, g)[Len(t) + 1] = g
    OBVIOUS
  <2> QED BY <1>1, <1>5, <2>1 DEF Leads
<1>6. Leads(t, s) /\ Len(s) = Len(t) => s = t
  BY <1>1 DEF Leads
<1>7. Leads(t, s) /\ Len(s) # Len(t) => Len(t) + 1 \in 1 .. Len(s) /\ (s[Len(t) + 1] = h => Leads(u, s))
  BY <1>1 DEF Leads
<1> QED BY <1>2, <1>3, <1>4, <1>5, <1>6, <1>7 DEF u

(***************************************************************************)
(* The walk.  A trail begins where load comes in and follows edges; no node *)
(* stands in it later than in the order, so none is longer than the order.  *)
(* A trail still to be walked leads to no other and to none that is listed, *)
(* which is why none is listed twice; and every route there is listed, or   *)
(* some trail still to be walked leads to it.                               *)
(***************************************************************************)
Trail(t) ==
  /\ t \in Seq(known) /\ t # <<>>
  /\ \E j \in DOMAIN Roots : t[1] = Roots[j]
  /\ \A j \in 1 .. Len(t) - 1 : Follows(t[j], t[j + 1])
  /\ \E k \in 1 .. Len(line) : line[k] = Last(t) /\ Len(t) <= k

Trails(left, found) ==
  /\ left \in Seq(Seq(known)) /\ Listed(found)
  /\ \A j \in DOMAIN left : Trail(left[j])
  /\ \A k \in DOMAIN found : Trail(found[k].nodes) /\ Outgoing(Last(found[k].nodes)) = {}
NoneTwice(left, found) ==
  /\ \A j, k \in DOMAIN left : Leads(left[j], left[k]) => j = k
  /\ \A j \in DOMAIN left : \A k \in DOMAIN found : ~ Leads(left[j], found[k].nodes)
  /\ \A j, k \in DOMAIN found : found[j].nodes = found[k].nodes => j = k
Covered(r, left, found) ==
  \/ \E k \in DOMAIN found : found[k].nodes = r
  \/ \E j \in DOMAIN left : Leads(left[j], r)
NoneLost(left, found) == Len(found) < MaxPaths => \A r \in AllRoutes : Covered(r, left, found)
Walks(left, found) ==
  /\ Trails(left, found) /\ NoneTwice(left, found) /\ NoneLost(left, found)
  /\ Len(found) <= MaxPaths

WInv ==
  IF stage \in {"paths", "returned"}
  THEN Walks(todo, paths) /\ (stage = "returned" => todo = <<>>)
  ELSE paths = <<>>

LEMMA RoutesAre ==
  ASSUME GInv, NEW r
  PROVE  r \in AllRoutes <=>
           r \in Seq(known) /\ Len(r) <= Len(line) /\ r # <<>> /\ IsRoute(r)
<1>1. Len(line) \in Nat
  BY DeclType DEF GInv
<1>2. r \in SeqOf(known, Len(line)) <=> r \in Seq(known) /\ Len(r) <= Len(line)
  BY <1>1 DEF SeqOf
<1> QED BY <1>2 DEF AllRoutes

LEMMA WalkCarries ==
  ASSUME UNCHANGED allvars, NEW left, NEW found, todo' = left, paths' = found, Walks(left, found)
  PROVE  Walks(todo, paths)'
<1>1. UNCHANGED <<decl, known, line>>
  BY DEF allvars, vars
<1>2. Roots' = Roots /\ (\A n : Outgoing(n)' = Outgoing(n)) /\ \A m, n : Follows(m, n)' <=> Follows(m, n)
  BY <1>1 DEF Roots, NodeOf, Outgoing, Edges, From, Follows, To
<1>3. \A r : IsRoute(r)' <=> IsRoute(r)
  BY <1>2 DEF IsRoute
<1>4. AllRoutes' = AllRoutes
  BY <1>1, <1>3 DEF AllRoutes
<1>5. \A t : Trail(t)' <=> Trail(t)
  BY <1>1, <1>2 DEF Trail
<1>6. Trails(todo, paths)'
  <2>1. Trails(left, found)
    BY DEF Walks
  <2>2. ASSUME NEW j \in DOMAIN left  PROVE Trail(left[j])'
    BY <1>5, <2>1 DEF Trails
  <2>3. ASSUME NEW k \in DOMAIN found
        PROVE  Trail(found[k].nodes)' /\ Outgoing(Last(found[k].nodes))' = {}
    BY <1>2, <1>5, <2>1 DEF Trails
  <2> QED BY <1>1, <2>1, <2>2, <2>3 DEF Trails
<1>7. NoneTwice(todo, paths)' /\ NoneLost(todo, paths)' /\ Len(paths') <= MaxPaths
  BY <1>4 DEF Walks, NoneTwice, NoneLost, Covered
<1> QED BY <1>6, <1>7 DEF Walks

LEMMA LaterInLine ==
  ASSUME GInv, FInv, pc = "ordered", NEW k \in 1 .. Len(line), NEW h, Follows(line[k], h)
  PROVE  \E m \in 1 .. Len(line) : line[m] = h /\ k < m
<1>1. Len(line) \in Nat
  BY DeclType DEF GInv
<1>2. PICK e \in Outgoing(line[k]) : To(e) = h
  BY DEF Follows
<1>3. h \in known
  BY <1>2, EndsAreKnown DEF Outgoing
<1>4. PICK m \in 1 .. Len(line) : line[m] = h
  BY <1>3, AllInLine DEF InLine
<1>5. PICK j \in 1 .. m - 1 : line[j] = From(e)
  BY <1>2, <1>4 DEF GInv, ForwardOrder, Outgoing, Incoming
<1>6. j \in 1 .. Len(line) /\ line[j] = line[k]
  BY <1>1, <1>2, <1>4, <1>5 DEF Outgoing
<1>7. j = k
  BY <1>6 DEF GInv, ForwardOrder
<1> QED BY <1>1, <1>4, <1>5, <1>7

LEMMA TrailGrows ==
  ASSUME GInv, FInv, pc = "ordered", NEW t, Trail(t), NEW h \in known, Follows(Last(t), h)
  PROVE  Trail(Append(t, h))
<1> DEFINE u == Append(t, h)
<1>1. /\ t \in Seq(known) /\ Len(t) \in Nat \ {0} /\ u \in Seq(known) /\ Len(u) = Len(t) + 1
      /\ u[Len(t) + 1] = h /\ \A j \in 1 .. Len(t) : u[j] = t[j]
  BY DEF Trail
<1> HIDE DEF u
<1>2. u # <<>> /\ Last(u) = h /\ u[1] = t[1]
  BY <1>1 DEF Last
<1>3. ASSUME NEW j \in 1 .. Len(u) - 1  PROVE Follows(u[j], u[j + 1])
  <2>1. CASE j = Len(t)
    BY <1>1, <2>1 DEF Last
  <2>2. CASE j # Len(t)
    <3>1. j \in 1 .. Len(t) - 1 /\ j + 1 \in 1 .. Len(t)
      BY <1>1, <2>2
    <3> QED BY <1>1, <3>1 DEF Trail
  <2> QED BY <2>1, <2>2
<1>4. \E k \in 1 .. Len(line) : line[k] = h /\ Len(u) <= k
  <2>1. PICK k \in 1 .. Len(line) : line[k] = Last(t) /\ Len(t) <= k
    BY DEF Trail
  <2>2. PICK m \in 1 .. Len(line) : line[m] = h /\ k < m
    BY <2>1, LaterInLine
  <2> QED BY <1>1, <2>1, <2>2
<1> QED BY <1>1, <1>2, <1>3, <1>4 DEF Trail, u

(***************************************************************************)
(* The walk begins with one trail from each root, and nothing listed.       *)
(***************************************************************************)
LEMMA WalkBegins ==
  ASSUME GInv, pc = "ordered"
  PROVE  Walks([j \in DOMAIN Roots |-> <<Roots[j]>>], <<>>)
<1> DEFINE left == [j \in DOMAIN Roots |-> <<Roots[j]>>]
<1>1. /\ Roots \in Seq(known) /\ Len(Roots) \in Nat /\ DOMAIN Roots = 1 .. Len(Roots)
      /\ \A j, k \in DOMAIN Roots : Roots[j] = Roots[k] => j = k
      /\ \A j \in DOMAIN Roots : \E k \in 1 .. Len(line) : Roots[j] = line[k]
  BY RootsAre
<1>2. \A j \in DOMAIN Roots : left[j] = <<Roots[j]>> /\ Roots[j] \in known
  BY <1>1
<1>3. left \in Seq(Seq(known)) /\ DOMAIN left = DOMAIN Roots
  <2>1. \A j \in 1 .. Len(Roots) : <<Roots[j]>> \in Seq(known)
    BY <1>1, <1>2
  <2> QED BY <1>1, <2>1
<1> HIDE DEF left
<1>4. \A x : /\ Len(<<x>>) = 1 /\ <<x>>[1] = x /\ <<x>> # <<>>
  OBVIOUS
<1>5. Trails(left, <<>>)
  <2>1. ASSUME NEW j \in DOMAIN left  PROVE Trail(left[j])
    <3>1. PICK k \in 1 .. Len(line) : Roots[j] = line[k]
      BY <1>1, <1>3
    <3>2. left[j] \in Seq(known) /\ left[j] = <<Roots[j]>> /\ Last(left[j]) = Roots[j]
      <4>1. left[j] = <<Roots[j]>>
        BY <1>2, <1>3
      <4>2. left[j] \in Seq(known)
        BY <1>3
      <4> QED BY <1>4, <4>1, <4>2 DEF Last
    <3>3. Len(left[j]) = 1 /\ left[j][1] = Roots[j] /\ left[j] # <<>>
      BY <1>4, <3>2
    <3>4. Len(line) \in Nat
      BY DeclType DEF GInv
    <3> QED BY <1>3, <3>1, <3>2, <3>3, <3>4 DEF Trail
  <2> QED BY <1>3, <2>1, EmptyLists DEF Trails
<1>6. NoneTwice(left, <<>>)
  <2>1. ASSUME NEW j \in DOMAIN left, NEW k \in DOMAIN left, Leads(left[j], left[k])  PROVE j = k
    <3>1. Roots[j] = Roots[k]
      BY <1>2, <1>3, <1>4, <2>1 DEF Leads
    <3> QED BY <1>1, <1>3, <3>1
  <2> QED BY <2>1, EmptyLists DEF NoneTwice
<1>7. NoneLost(left, <<>>)
  <2>1. ASSUME NEW r \in AllRoutes  PROVE \E j \in DOMAIN left : Leads(left[j], r)
    <3>1. r \in Seq(known) /\ r # <<>> /\ IsRoute(r)
      BY RoutesAre
    <3>2. PICK j \in DOMAIN Roots : r[1] = Roots[j]
      BY <3>1 DEF IsRoute
    <3>3. 1 <= Len(r)
      BY <3>1
    <3>4. Len(left[j]) = 1 /\ left[j][1] = r[1]
      BY <1>2, <1>4, <3>2
    <3>5. \A m \in 1 .. Len(left[j]) : left[j][m] = r[m]
      BY <3>4
    <3>6. Leads(left[j], r)
      BY <3>3, <3>4, <3>5 DEF Leads
    <3> QED BY <1>3, <3>6
  <2> QED BY <2>1 DEF NoneLost, Covered
<1>8. Len(<<>>) <= MaxPaths
  BY ReadingsAssumption
<1> QED BY <1>5, <1>6, <1>7, <1>8 DEF Walks, left

\* A trail that ends at a sink is listed.
LEMMA TrailListed ==
  ASSUME GInv, FInv, pc = "ordered", NEW left, NEW found, Walks(left, found), left # <<>>,
         Len(found) < MaxPaths, Outgoing(Last(Head(left))) = {},
         NEW x, x.nodes = Head(left)
  PROVE  Walks(Tail(left), Append(found, x))
<1> DEFINE t == Head(left)
           rem == Tail(left)
           all == Append(found, x)
<1>1. /\ left \in Seq(Seq(known)) /\ Len(left) \in Nat \ {0} /\ DOMAIN left = 1 .. Len(left)
      /\ rem \in Seq(Seq(known)) /\ Len(rem) = Len(left) - 1 /\ DOMAIN rem = 1 .. Len(rem)
      /\ t = left[1] /\ \A j \in DOMAIN rem : rem[j] = left[j + 1] /\ j + 1 \in DOMAIN left
  BY DEF Walks, Trails
<1>2. /\ Listed(found) /\ Len(found) \in Nat /\ DOMAIN found = 1 .. Len(found)
      /\ Listed(all) /\ Len(all) = Len(found) + 1 /\ DOMAIN all = 1 .. Len(all)
      /\ all[Len(found) + 1] = x /\ \A k \in DOMAIN found : all[k] = found[k]
  BY ListIs, ListGrows DEF Walks, Trails
<1> HIDE DEF rem, all
<1>3. Trail(t) /\ t \in Seq(known) /\ 1 \in DOMAIN left
  BY <1>1 DEF Walks, Trails
<1> HIDE DEF t
<1>4. x.nodes = t /\ Outgoing(Last(t)) = {}
  BY DEF t
<1>5. Trails(rem, all)
  <2>1. ASSUME NEW k \in DOMAIN all  PROVE Trail(all[k].nodes) /\ Outgoing(Last(all[k].nodes)) = {}
    <3>1. CASE k \in DOMAIN found
      BY <1>2, <3>1 DEF Walks, Trails
    <3>2. CASE k = Len(found) + 1
      BY <1>2, <1>3, <1>4, <3>2
    <3> QED BY <1>2, <3>1, <3>2
  <2>2. \A j \in DOMAIN rem : Trail(rem[j])
    BY <1>1 DEF Walks, Trails
  <2> QED BY <1>1, <1>2, <2>1, <2>2 DEF Trails
<1>6. NoneTwice(rem, all)
  <2>1. \A j, k \in DOMAIN rem : Leads(rem[j], rem[k]) => j = k
    BY <1>1 DEF Walks, NoneTwice
  <2>2. \A j \in DOMAIN rem : ~ Leads(rem[j], t)
    <3> SUFFICES ASSUME NEW j \in DOMAIN rem, Leads(rem[j], t) PROVE FALSE
      OBVIOUS
    <3>1. j + 1 = 1
      BY <1>1, <1>3 DEF Walks, NoneTwice
    <3> QED BY <1>1, <3>1
  <2>3. \A k \in DOMAIN found : found[k].nodes # t
    <3> SUFFICES ASSUME NEW k \in DOMAIN found, found[k].nodes = t PROVE FALSE
      OBVIOUS
    <3>1. Leads(t, t)
      BY <1>3 DEF Leads
    <3> QED BY <1>1, <1>3, <3>1 DEF Walks, NoneTwice
  <2>4. \A j \in DOMAIN rem : \A k \in DOMAIN found : ~ Leads(rem[j], found[k].nodes)
    BY <1>1 DEF Walks, NoneTwice
  <2>5. \A k \in DOMAIN all : IF k \in DOMAIN found THEN all[k].nodes = found[k].nodes
                                                   ELSE k = Len(found) + 1 /\ all[k].nodes = t
    BY <1>2, <1>4
  <2>6. \A j, k \in DOMAIN found : found[j].nodes = found[k].nodes => j = k
    BY DEF Walks, NoneTwice
  <2> HIDE DEF NoneTwice
  <2>7. \A j \in DOMAIN rem : \A k \in DOMAIN all : ~ Leads(rem[j], all[k].nodes)
    BY <2>2, <2>4, <2>5
  <2>8. \A j, k \in DOMAIN all : all[j].nodes = all[k].nodes => j = k
    BY <2>3, <2>5, <2>6
  <2> QED BY <2>1, <2>7, <2>8 DEF NoneTwice
<1>7. ASSUME NEW r \in AllRoutes  PROVE Covered(r, rem, all)
  <2>1. CASE \E k \in DOMAIN found : found[k].nodes = r
    BY <1>2, <2>1 DEF Covered
  <2>2. ASSUME NEW j \in DOMAIN left, j # 1, Leads(left[j], r)  PROVE Covered(r, rem, all)
    <3>1. j - 1 \in DOMAIN rem /\ rem[j - 1] = left[j]
      BY <1>1, <2>2
    <3> QED BY <2>2, <3>1 DEF Covered
  <2>3. CASE Leads(t, r)
    <3>1. r \in Seq(known) /\ IsRoute(r)
      BY RoutesAre
    <3>2. CASE Len(r) = Len(t)
      <4>1. r = t
        BY <1>3, <2>3, <3>1, <3>2, LeadsOn
      <4>2. Len(found) + 1 \in DOMAIN all /\ all[Len(found) + 1].nodes = r
        BY <1>2, <1>4, <4>1
      <4> QED BY <4>2 DEF Covered
    <3>3. CASE Len(r) # Len(t)
      <4>1. Len(t) \in Nat \ {0} /\ Len(r) \in Nat /\ Len(t) <= Len(r) /\ r[Len(t)] = Last(t)
        BY <1>3, <2>3, <3>1 DEF Trail, Leads, Last
      <4>2. Len(t) \in 1 .. Len(r) - 1
        BY <3>3, <4>1
      <4>3. Follows(Last(t), r[Len(t) + 1])
        BY <3>1, <4>1, <4>2 DEF IsRoute
      <4> QED BY <1>4, <4>3 DEF Follows
    <3> QED BY <3>2, <3>3
  <2>4. Covered(r, left, found)
    BY DEF Walks, NoneLost
  <2> QED BY <1>1, <2>1, <2>2, <2>3, <2>4 DEF Covered
<1>8. Len(all) <= MaxPaths
  BY <1>2, ReadingsAssumption
<1> QED BY <1>5, <1>6, <1>7, <1>8 DEF Walks, NoneLost, rem, all

LEMMA GoneOn ==
  ASSUME NEW S, NEW left \in Seq(S), left # <<>>, NEW g \in Seq(S)
  PROVE  LET all == g \o Tail(left) IN
         /\ all \in Seq(S) /\ Len(all) = Len(g) + Len(left) - 1 /\ DOMAIN all = 1 .. Len(all)
         /\ \A j \in 1 .. Len(g) : j \in DOMAIN all /\ all[j] = g[j]
         /\ \A j \in 1 .. Len(left) - 1 : Len(g) + j \in DOMAIN all /\ all[Len(g) + j] = left[j + 1]
<1> DEFINE rem == Tail(left)
           all == g \o rem
<1>1. /\ rem \in Seq(S) /\ Len(rem) = Len(left) - 1 /\ Len(left) \in Nat \ {0} /\ Len(g) \in Nat
      /\ \A j \in 1 .. Len(left) - 1 : rem[j] = left[j + 1]
  OBVIOUS
<1> HIDE DEF rem
<1>2. /\ all \in Seq(S) /\ Len(all) = Len(g) + Len(rem)
      /\ \A j \in 1 .. Len(g) : all[j] = g[j]
      /\ \A j \in 1 .. Len(rem) : all[Len(g) + j] = rem[j]
  <2>1. rem \in Seq(S)
    BY <1>1
  <2>2. all \in Seq(S) /\ Len(all) = Len(g) + Len(rem)
    BY <2>1
  <2>3. \A j \in 1 .. Len(g) : all[j] = g[j]
    BY <2>1
  <2>4. \A j \in 1 .. Len(rem) : all[Len(g) + j] = rem[j]
    BY <2>1
  <2> HIDE DEF all
  <2> QED BY <2>2, <2>3, <2>4
<1>3. DOMAIN all = 1 .. Len(all)
  BY <1>2
<1> HIDE DEF all
<1> QED BY <1>1, <1>2, <1>3 DEF all, rem

\* A trail that goes on is replaced by one for each node it goes on to.
LEMMA TrailWalked ==
  ASSUME GInv, FInv, pc = "ordered", NEW left, NEW found, Walks(left, found), left # <<>>,
         NEW next, next = Hops(Last(Head(left))), next # <<>>
  PROVE  Walks([j \in DOMAIN next |-> Append(Head(left), next[j])] \o Tail(left), found)
<1> DEFINE t == Head(left)
           grown == [j \in DOMAIN next |-> Append(t, next[j])]
           all == grown \o Tail(left)
           c == Len(next)
<1>1. /\ left \in Seq(Seq(known)) /\ Len(left) \in Nat \ {0} /\ DOMAIN left = 1 .. Len(left)
      /\ Tail(left) \in Seq(Seq(known)) /\ Len(Tail(left)) = Len(left) - 1
      /\ t = left[1] /\ 1 \in DOMAIN left
      /\ \A j \in 1 .. Len(left) - 1 : Tail(left)[j] = left[j + 1]
  BY DEF Walks, Trails
<1>2. Trail(t) /\ t \in Seq(known) /\ Len(t) \in Nat \ {0} /\ Last(t) \in known
  <2>1. Trail(t)
    BY <1>1 DEF Walks, Trails
  <2> QED BY <2>1 DEF Trail, Last
<1> HIDE DEF t
<1>3. /\ next \in Seq(known) /\ c \in Nat /\ DOMAIN next = 1 .. c
      /\ \A j, k \in 1 .. c : next[j] = next[k] => j = k
      /\ \A j \in 1 .. c : Follows(Last(t), next[j]) /\ next[j] \in known
      /\ \A h : Follows(Last(t), h) => \E j \in 1 .. c : next[j] = h
  <2>1. next = Hops(Last(t))
    BY DEF t
  <2>2. /\ next \in Seq(known) /\ c \in Nat /\ DOMAIN next = 1 .. c
        /\ \A j, k \in DOMAIN next : next[j] = next[k] => j = k
        /\ \A j \in DOMAIN next : Follows(Last(t), next[j])
        /\ \A h : Follows(Last(t), h) => \E j \in DOMAIN next : next[j] = h
    BY <1>2, <2>1, HopsAre
  <2>3. \A j \in 1 .. c : next[j] \in known
    BY <2>2
  <2> QED BY <2>2, <2>3
<1>4. \A j \in 1 .. c : Append(t, next[j]) \in Seq(known) /\ Trail(Append(t, next[j]))
  BY <1>2, <1>3, TrailGrows
<1>5. grown \in Seq(Seq(known)) /\ Len(grown) = c /\ \A j \in 1 .. c : grown[j] = Append(t, next[j])
  <2>1. grown = [j \in 1 .. c |-> Append(t, next[j])]
    BY <1>3
  <2> DEFINE S == Seq(known)
  <2>2. grown \in [1 .. c -> S]
    BY <1>4, <2>1
  <2> HIDE DEF S, grown, c
  <2>3. grown \in Seq(S) /\ Len(grown) = c
    BY <1>3, <2>2
  <2> QED BY <2>1, <2>3 DEF S
<1> HIDE DEF grown
<1>6. /\ all \in Seq(Seq(known)) /\ Len(all) = c + Len(left) - 1 /\ DOMAIN all = 1 .. Len(all)
      /\ \A j \in 1 .. c : j \in DOMAIN all /\ all[j] = Append(t, next[j])
      /\ \A j \in 1 .. Len(left) - 1 : c + j \in DOMAIN all /\ all[c + j] = left[j + 1]
  <2> DEFINE S == Seq(known)
  <2>1. left \in Seq(S) /\ grown \in Seq(S) /\ Len(grown) = c
    BY <1>1, <1>5
  <2> HIDE DEF S, c
  <2>2. /\ all \in Seq(S) /\ Len(all) = c + Len(left) - 1 /\ DOMAIN all = 1 .. Len(all)
        /\ \A j \in 1 .. c : j \in DOMAIN all /\ all[j] = grown[j]
        /\ \A j \in 1 .. Len(left) - 1 : c + j \in DOMAIN all /\ all[c + j] = left[j + 1]
    <3> HIDE DEF grown
    <3>1. left # <<>>
      OBVIOUS
    <3>2. /\ all \in Seq(S) /\ Len(all) = Len(grown) + Len(left) - 1 /\ DOMAIN all = 1 .. Len(all)
          /\ \A j \in 1 .. Len(grown) : j \in DOMAIN all /\ all[j] = grown[j]
          /\ \A j \in 1 .. Len(left) - 1 :
               Len(grown) + j \in DOMAIN all /\ all[Len(grown) + j] = left[j + 1]
      BY <2>1, <3>1, GoneOn, Zenon
    <3> HIDE DEF all
    <3> QED BY <2>1, <3>2, Zenon
  <2> HIDE DEF all
  <2>3. \A j \in 1 .. c : all[j] = Append(t, next[j])
    BY <1>5, <2>2
  <2> QED BY <2>2, <2>3 DEF S
<1> HIDE DEF all
<1>7. ASSUME NEW j \in DOMAIN all
      PROVE  \/ j \in 1 .. c /\ all[j] = Append(t, next[j])
             \/ /\ j \notin 1 .. c /\ j - c + 1 \in DOMAIN left /\ j - c + 1 # 1
                /\ all[j] = left[j - c + 1]
  <2>1. CASE j \in 1 .. c
    BY <1>6, <2>1
  <2>2. CASE j \notin 1 .. c
    <3>1. j - c \in 1 .. Len(left) - 1 /\ c + (j - c) = j
      BY <1>1, <1>3, <1>6, <2>2
    <3>2. all[c + (j - c)] = left[(j - c) + 1]
      BY <1>6, <3>1
    <3> QED BY <1>1, <2>2, <3>1, <3>2
  <2> QED BY <2>1, <2>2
<1>8. ASSUME NEW j \in DOMAIN left  PROVE left[j] \in Seq(known) /\ Trail(left[j])
  BY <1>1 DEF Walks, Trails
<1>9. Trails(all, found)
  <2>1. ASSUME NEW j \in DOMAIN all  PROVE Trail(all[j])
    BY <1>4, <1>7, <1>8
  <2> QED BY <1>6, <2>1 DEF Walks, Trails
<1>10. NoneTwice(all, found)
  <2>1. ASSUME NEW j \in DOMAIN all, NEW k \in DOMAIN all, Leads(all[j], all[k])  PROVE j = k
    <3>1. CASE j \in 1 .. c /\ k \in 1 .. c
      <4>1. next[j] = next[k]
        <5>1. Leads(Append(t, next[j]), Append(t, next[k])) /\ next[j] \in known /\ next[k] \in known
          BY <1>3, <1>6, <2>1, <3>1
        <5> QED BY <1>2, <5>1, LeadsOn
      <4> QED BY <1>3, <3>1, <4>1
    <3>2. CASE j \in 1 .. c /\ k \notin 1 .. c
      <4> DEFINE m == k - c + 1
      <4>1. m \in DOMAIN left /\ m # 1 /\ all[k] = left[m]
        BY <1>7, <3>2
      <4>2. Leads(Append(t, next[j]), left[m]) /\ left[m] \in Seq(known)
        BY <1>6, <1>8, <2>1, <3>2, <4>1
      <4>3. Leads(left[1], left[m])
        BY <1>1, <1>2, <1>3, <3>2, <4>2, LeadsOn
      <4> QED BY <1>1, <4>1, <4>3 DEF Walks, NoneTwice
    <3>3. CASE j \notin 1 .. c /\ k \in 1 .. c
      <4> DEFINE m == j - c + 1
      <4>1. m \in DOMAIN left /\ m # 1 /\ all[j] = left[m]
        BY <1>7, <3>3
      <4>2. Leads(left[m], Append(t, next[k])) /\ left[m] \in Seq(known) /\ next[k] \in known
        BY <1>3, <1>6, <1>8, <2>1, <3>3, <4>1
      <4> HIDE DEF m
      <4>3. Leads(left[m], t) \/ left[m] = Append(t, next[k])
        BY <1>2, <4>2, LeadsOn
      <4>4. Leads(t, Append(t, next[k]))
        BY <1>2, <4>2, LeadsOn
      <4>5. Leads(left[m], left[1]) \/ Leads(left[1], left[m])
        BY <1>1, <4>3, <4>4
      <4> QED BY <1>1, <4>1, <4>5 DEF Walks, NoneTwice
    <3>4. CASE j \notin 1 .. c /\ k \notin 1 .. c
      <4>1. j - c + 1 \in DOMAIN left /\ k - c + 1 \in DOMAIN left
            /\ all[j] = left[j - c + 1] /\ all[k] = left[k - c + 1]
        BY <1>7, <3>4
      <4>2. j - c + 1 = k - c + 1
        BY <2>1, <4>1 DEF Walks, NoneTwice
      <4> QED BY <1>3, <1>6, <4>2
    <3> QED BY <3>1, <3>2, <3>3, <3>4
  <2>2. ASSUME NEW j \in DOMAIN all, NEW k \in DOMAIN found, Leads(all[j], found[k].nodes)  PROVE FALSE
    <3>1. found[k].nodes \in Seq(known)
      BY DEF Walks, Trails, Trail
    <3>2. CASE j \in 1 .. c
      <4>1. Leads(Append(t, next[j]), found[k].nodes) /\ next[j] \in known
        BY <1>3, <1>6, <2>2, <3>2
      <4>2. Leads(left[1], found[k].nodes)
        BY <1>1, <1>2, <3>1, <4>1, LeadsOn
      <4> QED BY <1>1, <4>2 DEF Walks, NoneTwice
    <3>3. CASE j \notin 1 .. c
      BY <1>7, <2>2, <3>3 DEF Walks, NoneTwice
    <3> QED BY <3>2, <3>3
  <2> QED BY <2>1, <2>2 DEF Walks, NoneTwice
<1>11. ASSUME NEW r \in AllRoutes, Covered(r, left, found)  PROVE Covered(r, all, found)
  <2>1. CASE \E k \in DOMAIN found : found[k].nodes = r
    BY <2>1 DEF Covered
  <2>2. ASSUME NEW j \in DOMAIN left, j # 1, Leads(left[j], r)  PROVE Covered(r, all, found)
    <3>1. j - 1 \in 1 .. Len(left) - 1 /\ (j - 1) + 1 = j
      BY <1>1, <2>2
    <3>2. c + (j - 1) \in DOMAIN all /\ all[c + (j - 1)] = left[j]
      BY <1>6, <3>1
    <3> QED BY <2>2, <3>2 DEF Covered
  <2>3. CASE Leads(t, r)
    <3>1. r \in Seq(known) /\ IsRoute(r) /\ Len(r) \in Nat
      BY RoutesAre
    <3>2. Len(t) <= Len(r) /\ r[Len(t)] = Last(t)
      BY <1>2, <2>3 DEF Leads, Last
    <3>3. Len(r) # Len(t)
      <4> SUFFICES ASSUME Len(r) = Len(t) PROVE FALSE
        OBVIOUS
      <4>1. Last(r) = Last(t)
        BY <3>2 DEF Last
      <4>2. 1 \in 1 .. c
        <5>1. c # 0
          BY <1>3
        <5> QED BY <1>3, <5>1
      <4>3. Outgoing(Last(t)) # {}
        BY <1>3, <4>2 DEF Follows
      <4> QED BY <3>1, <4>1, <4>3 DEF IsRoute
    <3>4. Follows(Last(t), r[Len(t) + 1])
      <4>1. Len(t) \in 1 .. Len(r) - 1
        BY <1>2, <3>1, <3>2, <3>3
      <4> QED BY <3>1, <3>2, <4>1 DEF IsRoute
    <3>5. PICK h \in 1 .. c : next[h] = r[Len(t) + 1]
      BY <1>3, <3>4
    <3>6. Leads(Append(t, next[h]), r)
      BY <1>2, <1>3, <2>3, <3>1, <3>3, <3>5, LeadsOn
    <3> QED BY <1>6, <3>5, <3>6 DEF Covered
  <2> QED BY <1>1, <1>11, <2>1, <2>2, <2>3 DEF Covered
<1>12. NoneLost(all, found)
  BY <1>11 DEF Walks, NoneLost
<1> QED BY <1>9, <1>10, <1>12 DEF Walks, all, grown, t

\* At the bound what is left is dropped.
LEMMA TrailDropped ==
  ASSUME NEW left, NEW found, Walks(left, found), left # <<>>, Len(found) >= MaxPaths
  PROVE  Walks(Tail(left), found)
<1> DEFINE rem == Tail(left)
<1>1. /\ left \in Seq(Seq(known)) /\ Len(left) \in Nat \ {0} /\ DOMAIN left = 1 .. Len(left)
      /\ rem \in Seq(Seq(known)) /\ Len(rem) = Len(left) - 1 /\ DOMAIN rem = 1 .. Len(rem)
      /\ \A j \in DOMAIN rem : rem[j] = left[j + 1] /\ j + 1 \in DOMAIN left
  BY DEF Walks, Trails
<1> HIDE DEF rem
<1>2. Trails(rem, found)
  BY <1>1 DEF Walks, Trails
<1>3. NoneTwice(rem, found)
  <2>1. \A j, k \in DOMAIN rem : Leads(rem[j], rem[k]) => j = k
    BY <1>1 DEF Walks, NoneTwice
  <2>2. \A j \in DOMAIN rem : \A k \in DOMAIN found : ~ Leads(rem[j], found[k].nodes)
    BY <1>1 DEF Walks, NoneTwice
  <2> QED BY <2>1, <2>2 DEF Walks, NoneTwice
<1>4. NoneLost(rem, found)
  BY ListIs, ReadingsAssumption DEF Walks, Trails, NoneLost
<1> QED BY <1>2, <1>3, <1>4 DEF Walks, rem

LEMMA WalkStepKeeps ==
  ASSUME GInv, FInv, EInv, WInv, Walk, UNCHANGED allvars
  PROVE  WInv'
<1> DEFINE t == Head(todo)
           next == Hops(Last(t))
<1>1. stage = "paths" /\ stage' = "paths" /\ todo # <<>> /\ Walks(todo, paths)
  BY DEF Walk, WInv
<1>2. pc = "ordered" /\ Len(paths) \in Nat
  BY <1>1, ListIs DEF EInv, Started, Propagated, Walks, Trails
<1>3. SUFFICES Walks(todo', paths')
  <2>1. PICK left : left = todo'
    OBVIOUS
  <2>2. PICK found : found = paths'
    OBVIOUS
  <2>3. Walks(left, found)
    BY <1>3, <2>1, <2>2
  <2>4. Walks(todo, paths)'
    BY <2>1, <2>2, <2>3, WalkCarries
  <2> QED BY <1>1, <2>4 DEF WInv
<1>4. CASE Len(paths) >= MaxPaths
  <2>1. todo' = Tail(todo) /\ paths' = paths
    BY <1>4 DEF Walk
  <2> QED BY <1>1, <1>4, <2>1, TrailDropped
<1>5. CASE ~ (Len(paths) >= MaxPaths) /\ next = <<>>
  <2>1. todo' = Tail(todo) /\ paths' = Append(paths, Compose(t)) /\ Compose(t).nodes = t
    BY <1>5 DEF Walk, Compose
  <2>2. Len(paths) < MaxPaths
    BY <1>2, <1>5, ReadingsAssumption
  <2>3. Outgoing(Last(t)) = {}
    <3>1. Trail(t)
      <4>1. todo \in Seq(Seq(known)) /\ \A j \in DOMAIN todo : Trail(todo[j])
        BY <1>1 DEF Walks, Trails
      <4>2. 1 \in DOMAIN todo /\ t = todo[1]
        BY <1>1, <4>1
      <4> QED BY <4>1, <4>2
    <3>2. Last(t) \in known
      BY <3>1 DEF Trail, Last
    <3>3. DOMAIN next = {}
      BY <1>5
    <3>4. \A h : ~ Follows(Last(t), h)
      BY <1>2, <3>2, <3>3, HopsAre
    <3> QED BY <3>4 DEF Follows
  <2>4. PICK x : x = Compose(t)
    OBVIOUS
  <2> QED BY <1>1, <1>2, <2>1, <2>2, <2>3, <2>4, TrailListed
<1>6. CASE ~ (Len(paths) >= MaxPaths) /\ next # <<>>
  <2>1. todo' = [j \in DOMAIN next |-> Append(t, next[j])] \o Tail(todo) /\ paths' = paths
    BY <1>6 DEF Walk
  <2> QED BY <1>1, <1>2, <1>6, <2>1, TrailWalked
<1> QED BY <1>4, <1>5, <1>6

LEMMA PathsWalked ==
  ASSUME GInv, FInv, EInv, WInv, [RunNext]_runvars
  PROVE  WInv'
<1>1. ASSUME UNCHANGED allvars, UNCHANGED <<todo, paths>>, stage' = stage \/ Walked
      PROVE  WInv'
  <2>1. Walks(todo, paths) => Walks(todo, paths)'
    <3>1. PICK left : left = todo
      OBVIOUS
    <3>2. PICK found : found = paths
      OBVIOUS
    <3> QED BY <1>1, <3>1, <3>2, WalkCarries
  <2> QED BY <1>1, <2>1 DEF WInv, Walked
<1>2. CASE UNCHANGED runvars
  BY <1>1, <1>2 DEF runvars, rest
<1>3. CASE (Build \/ Take \/ Push) /\ UNCHANGED rest
  <2>1. stage = "run"
    BY <1>3, Waits
  <2> QED BY <1>3, <2>1 DEF rest, WInv
<1>4. CASE Walk /\ UNCHANGED allvars
  BY <1>4, WalkStepKeeps
<1>5. CASE Walked /\ UNCHANGED allvars
  BY <1>1, <1>5 DEF Walked
<1>6. CASE SumCosts /\ UNCHANGED allvars
  <2>1. stage = "blame" /\ stage' = "paths" /\ paths' = paths /\ paths = <<>>
        /\ todo' = [j \in DOMAIN Roots |-> <<Roots[j]>>]
    BY <1>6 DEF SumCosts, Advance, WInv
  <2>2. pc = "ordered"
    BY <2>1 DEF EInv, Started, Propagated
  <2>3. PICK left : left = [j \in DOMAIN Roots |-> <<Roots[j]>>]
    OBVIOUS
  <2>4. Walks(todo, paths)'
    BY <1>6, <2>1, <2>2, <2>3, WalkBegins, WalkCarries
  <2> QED BY <2>1, <2>4 DEF WInv
<1>7. CASE /\ Start \/ ReadNode \/ NodesRead \/ ReadGroup \/ GroupsRead \/ SharePool \/ PoolsShared \/ Blame
           /\ UNCHANGED allvars
  <2>1. /\ paths' = paths /\ stage \notin {"paths", "returned"} /\ stage' \notin {"paths", "returned"}
    BY <1>7 DEF Start, ReadNode, NodesRead, ReadGroup, GroupsRead, SharePool, PoolsShared, Blame, Advance
  <2> QED BY <2>1 DEF WInv
<1> QED BY <1>2, <1>3, <1>4, <1>5, <1>6, <1>7 DEF RunNext, ReadAll

(***************************************************************************)
(* For every graph and every bound: what paths lists are routes from a load *)
(* to a sink, each once, and all of them if they are fewer than the bound.  *)
(***************************************************************************)
THEOREM PathsAreComplete == RunSpec => []PathsComplete
<1>1. ASSUME GInv, FInv, EInv, WInv  PROVE PathsComplete
  <2> SUFFICES ASSUME stage = "returned" PROVE PathsComplete
    BY DEF PathsComplete
  <2>1. Walks(<<>>, paths) /\ DOMAIN <<>> = {}
    BY <1>1, EmptyLists DEF WInv
  <2> DEFINE T == ListedTrails
  <2>2. DOMAIN T = DOMAIN paths /\ \A j \in DOMAIN paths : T[j] = paths[j].nodes
    BY DEF ListedTrails
  <2> HIDE DEF T
  <2>3. IsInjective(T)
    BY <2>1, <2>2 DEF Walks, NoneTwice, IsInjective
  <2>4. ASSUME NEW j \in DOMAIN T  PROVE T[j] \in AllRoutes
    <3> DEFINE t == T[j]
    <3>1. Trail(t) /\ Outgoing(Last(t)) = {}
      BY <2>1, <2>2 DEF Walks, Trails
    <3> HIDE DEF t
    <3>2. PICK k \in 1 .. Len(line) : Len(t) <= k
      BY <3>1 DEF Trail
    <3>3. Len(line) \in Nat /\ Len(t) \in Nat
      BY <1>1, <3>1, DeclType DEF GInv, Trail
    <3>4. Len(t) <= Len(line)
      BY <3>2, <3>3
    <3>5. t \in AllRoutes
      BY <1>1, <3>1, <3>4, RoutesAre DEF Trail, IsRoute
    <3> QED BY <3>5 DEF t
  <2>5. ASSUME Len(paths) < MaxPaths, NEW r \in AllRoutes  PROVE \E j \in DOMAIN T : T[j] = r
    BY <2>1, <2>2, <2>5 DEF Walks, NoneLost, Covered
  <2>6. Len(paths) <= MaxPaths
    BY <2>1 DEF Walks
  <2> QED BY <2>3, <2>4, <2>5, <2>6 DEF PathsComplete, T
<1>2. ReadingBegins => WInv
  BY DEF ReadingBegins, WInv
<1>3. GInv /\ FInv /\ EInv /\ WInv /\ [RunNext]_runvars => WInv'
  BY PathsWalked
<1> QED BY <1>1, <1>2, <1>3, RunInvariance, PTL DEF RunSpec

(***************************************************************************)
(* AllRoutes leaves no route out for its length: whatever follows edges     *)
(* from a load to a sink goes forward in the order, so it is not longer.    *)
(***************************************************************************)
THEOREM RoutesFit ==
  RunSpec => [](stage = "returned" => \A r \in Seq(Id) : r # <<>> /\ IsRoute(r) => r \in AllRoutes)
<1>1. ASSUME GInv, FInv, pc = "ordered", NEW r \in Seq(Id), r # <<>>, IsRoute(r)
      PROVE  r \in AllRoutes
  <2> DEFINE Placed(j) == \E k \in 1 .. Len(line) : line[k] = r[j] /\ j <= k
             late == {j \in 1 .. Len(r) : ~ Placed(j)}
  <2>1. Len(r) \in Nat \ {0} /\ Len(line) \in Nat /\ DOMAIN r = 1 .. Len(r)
    BY <1>1, DeclType DEF GInv
  <2>2. ASSUME late # {}  PROVE FALSE
    <3>1. late \in SUBSET Nat
      BY <2>1
    <3>2. PICK m \in late : \A j \in late : m <= j
      BY <2>2, <3>1, Least
    <3>3. m \in 1 .. Len(r) /\ ~ Placed(m)
      BY <3>2
    <3>4. CASE m = 1
      <4>1. PICK j \in DOMAIN Roots : r[1] = Roots[j]
        BY <1>1 DEF IsRoute
      <4>2. PICK k \in 1 .. Len(line) : line[k] = r[1]
        BY <1>1, <4>1, RootsAre
      <4> QED BY <2>1, <3>3, <3>4, <4>2
    <3>5. CASE m # 1
      <4>1. m - 1 \in 1 .. Len(r) - 1 /\ (m - 1) + 1 = m /\ m - 1 \notin late
        BY <2>1, <3>2, <3>3, <3>5
      <4>2. PICK k \in 1 .. Len(line) : line[k] = r[m - 1] /\ m - 1 <= k
        BY <2>1, <4>1
      <4>3. Follows(line[k], r[m])
        BY <1>1, <4>1, <4>2 DEF IsRoute
      <4>4. PICK n \in 1 .. Len(line) : line[n] = r[m] /\ k < n
        BY <1>1, <4>3, LaterInLine
      <4> QED BY <2>1, <3>3, <4>2, <4>4
    <3> QED BY <3>4, <3>5
  <2>3. \A j \in 1 .. Len(r) : Placed(j)
    BY <2>2
  <2> HIDE DEF late
  <2>4. \A j \in 1 .. Len(r) : r[j] \in known
    BY <1>1, <2>3, LineIsKnown
  <2>5. r \in Seq(known)
    BY <2>1, <2>4
  <2>6. Len(r) <= Len(line)
    BY <2>1, <2>3
  <2> QED BY <1>1, <2>5, <2>6, RoutesAre
<1>2. EInv /\ stage = "returned" => pc = "ordered"
  BY DEF EInv, Started, Propagated
<1>3. GInv /\ FInv /\ EInv =>
        (stage = "returned" => \A r \in Seq(Id) : r # <<>> /\ IsRoute(r) => r \in AllRoutes)
  BY <1>1, <1>2
<1> QED BY <1>3, RunInvariance, PTL
=============================================================================
