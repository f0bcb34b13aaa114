----------------------------- MODULE LibraryProofs -----------------------------
(***************************************************************************)
(* What the operators that several modules share are known for: filtering   *)
(* a sequence keeps the elements at the places asked for, each once; what a *)
(* search does not reach is outside some closed set; a set of numbers has a *)
(* least one.                                                               *)
(***************************************************************************)
EXTENDS Library, Sequences, FiniteSetTheorems, SequenceTheorems, TLAPS

(***************************************************************************)
(* Ranks count the places of a finite set from 1 without a gap.             *)
(***************************************************************************)
LEMMA PlacesAreFinite ==
  ASSUME NEW n \in Nat, NEW at \in SUBSET (1 .. n)
  PROVE  IsFiniteSet(at) /\ Cardinality(at) \in Nat
<1>1. IsFiniteSet(1 .. n)
  BY FS_Interval
<1>2. IsFiniteSet(at)
  BY <1>1, FS_Subset
<1> QED BY <1>2, FS_CardinalityType

LEMMA RankBounds ==
  ASSUME NEW n \in Nat, NEW at \in SUBSET (1 .. n), NEW k \in at
  PROVE  Rank(k, at) \in 1 .. Cardinality(at)
<1> DEFINE low == {j \in at : j <= k}
<1>1. IsFiniteSet(at) /\ Cardinality(at) \in Nat
  BY PlacesAreFinite
<1>2. low \in SUBSET at /\ k \in low
  OBVIOUS
<1> HIDE DEF low
<1>3. IsFiniteSet(low) /\ Cardinality(low) <= Cardinality(at)
  BY <1>1, <1>2, FS_Subset
<1>4. Cardinality(low) \in Nat
  BY <1>3, FS_CardinalityType
<1>5. Cardinality(low) # 0
  BY <1>2, <1>3, FS_EmptySet
<1> QED BY <1>1, <1>3, <1>4, <1>5 DEF Rank, low

LEMMA RankGrows ==
  ASSUME NEW n \in Nat, NEW at \in SUBSET (1 .. n), NEW j \in at, NEW k \in at, j < k
  PROVE  Rank(j, at) < Rank(k, at)
<1> DEFINE low == {x \in at : x <= j}
           high == {x \in at : x <= k}
<1>1. low \in SUBSET high /\ high \in SUBSET at /\ low # high
  <2>1. k \in high /\ k \notin low
    OBVIOUS
  <2>2. high \in SUBSET at
    OBVIOUS
  <2>3. \A x \in at : x <= j => x <= k
    OBVIOUS
  <2>4. low \in SUBSET high
    BY <2>3
  <2> QED BY <2>1, <2>2, <2>4
<1> HIDE DEF low, high
<1>2. IsFiniteSet(at)
  BY PlacesAreFinite
<1>3. IsFiniteSet(high)
  BY <1>1, <1>2, FS_Subset
<1>4. IsFiniteSet(low) /\ Cardinality(low) <= Cardinality(high)
      /\ Cardinality(high) # Cardinality(low)
  BY <1>1, <1>3, FS_Subset
<1>5. Cardinality(low) \in Nat /\ Cardinality(high) \in Nat
  BY <1>3, <1>4, FS_CardinalityType
<1> QED BY <1>4, <1>5 DEF Rank, low, high

LEMMA EveryRankIsTaken ==
  ASSUME NEW n \in Nat, NEW at \in SUBSET (1 .. n), NEW r \in 1 .. Cardinality(at)
  PROVE  \E k \in at : Rank(k, at) = r
<1> DEFINE c == Cardinality(at)
           f == [k \in at |-> Rank(k, at)]
<1>1. IsFiniteSet(at) /\ c \in Nat
  BY PlacesAreFinite
<1>2. f \in [at -> 1 .. c]
  BY RankBounds
<1>3. \A j, k \in at : f[j] = f[k] => j = k
  <2> SUFFICES ASSUME NEW j \in at, NEW k \in at, j < k PROVE f[j] # f[k]
    <3>1. \A j, k \in at : j < k => f[j] # f[k]
      OBVIOUS
    <3>2. \A j, k \in at : j # k => j < k \/ k < j
      OBVIOUS
    <3> QED BY <3>1, <3>2
  <2>1. Rank(j, at) < Rank(k, at)
    BY RankGrows
  <2>2. Rank(j, at) \in Int /\ Rank(k, at) \in Int
    <3>1. Rank(j, at) \in 1 .. c /\ Rank(k, at) \in 1 .. c
      BY RankBounds
    <3> QED BY <1>1, <3>1
  <2> QED BY <2>1, <2>2
<1>4. f \in Injection(at, 1 .. c)
  BY <1>2, <1>3 DEF Injection, IsInjective
<1>5. IsFiniteSet(1 .. c) /\ Cardinality(1 .. c) = c
  BY <1>1, FS_Interval
<1> HIDE DEF f
<1>6. f \in Surjection(at, 1 .. c)
  BY <1>4, <1>5, FS_Injection
<1>7. \E k \in at : f[k] = r
  BY <1>6 DEF Surjection
<1> QED BY <1>7 DEF f

LEMMA NthStands ==
  ASSUME NEW n \in Nat, NEW at \in SUBSET (1 .. n), NEW r \in 1 .. Cardinality(at)
  PROVE  Nth(r, at) \in at /\ Rank(Nth(r, at), at) = r
BY EveryRankIsTaken DEF Nth

LEMMA NthOfRank ==
  ASSUME NEW n \in Nat, NEW at \in SUBSET (1 .. n), NEW k \in at
  PROVE  Nth(Rank(k, at), at) = k
<1>1. Rank(k, at) \in 1 .. Cardinality(at)
  BY RankBounds
<1> DEFINE m == Nth(Rank(k, at), at)
<1>2. m \in at /\ Rank(m, at) = Rank(k, at)
  BY <1>1, NthStands
<1> HIDE DEF m
<1>3. m \in Int /\ k \in Int
  BY <1>2
<1>4. Rank(k, at) \in Int
  BY <1>1, PlacesAreFinite
<1>5. ~ (m < k)
  <2> SUFFICES ASSUME m < k PROVE Rank(m, at) < Rank(k, at)
    BY <1>2, <1>4
  <2> QED BY <1>2, RankGrows
<1>7. ~ (k < m)
  <2> SUFFICES ASSUME k < m PROVE Rank(k, at) < Rank(m, at)
    BY <1>2, <1>4
  <2> QED BY <1>2, RankGrows
<1>6. m = k
  BY <1>3, <1>5, <1>7
<1> QED BY <1>6 DEF m

(***************************************************************************)
(* A filtered sequence is one of the same elements; it holds an element at  *)
(* each of its places that stood at a place asked for, no two of them from  *)
(* one place, and none that was asked for is missing.                       *)
(***************************************************************************)
THEOREM FilteredKeeps ==
  ASSUME NEW S, NEW s \in Seq(S), NEW at \in SUBSET (1 .. Len(s))
  PROVE  /\ Filtered(s, at) \in Seq(S)
         /\ Len(Filtered(s, at)) = Cardinality(at)
         /\ \A r \in 1 .. Len(Filtered(s, at)) :
              Nth(r, at) \in at /\ Filtered(s, at)[r] = s[Nth(r, at)]
         /\ \A q, r \in 1 .. Len(Filtered(s, at)) : Nth(q, at) = Nth(r, at) => q = r
         /\ \A k \in at : \E r \in 1 .. Len(Filtered(s, at)) : Nth(r, at) = k
<1> DEFINE c == Cardinality(at)
           f == Filtered(s, at)
<1>1. Len(s) \in Nat /\ c \in Nat
  <2>1. Len(s) \in Nat
    OBVIOUS
  <2> QED BY <2>1, PlacesAreFinite
<1>2. \A r \in 1 .. c : Nth(r, at) \in at /\ Rank(Nth(r, at), at) = r
  BY <1>1, NthStands
<1>3. f = [r \in 1 .. c |-> s[Nth(r, at)]]
  BY DEF Filtered
<1>4. \A r \in 1 .. c : s[Nth(r, at)] \in S
  BY <1>2, ElementOfSeq
<1>5. f \in [1 .. c -> S]
  BY <1>3, <1>4
<1>6. f \in Seq(S) /\ Len(f) = c
  BY <1>1, <1>5, LenProperties, SeqDef
<1>7. \A r \in 1 .. c : f[r] = s[Nth(r, at)]
  BY <1>3
<1>8. \A k \in at : Rank(k, at) \in 1 .. c /\ Nth(Rank(k, at), at) = k
  BY <1>1, RankBounds, NthOfRank
<1> HIDE DEF f
<1>9. \A q, r \in 1 .. c : Nth(q, at) = Nth(r, at) => q = r
  BY <1>2
<1> QED BY <1>2, <1>6, <1>7, <1>8, <1>9 DEF f

\* Later places come later, and the first places are the first elements.
LEMMA NthGrows ==
  ASSUME NEW n \in Nat, NEW at \in SUBSET (1 .. n),
         NEW q \in 1 .. Cardinality(at), NEW r \in 1 .. Cardinality(at),
         Nth(q, at) <= Nth(r, at)
  PROVE  q <= r
<1>1. /\ Nth(q, at) \in at /\ Rank(Nth(q, at), at) = q
      /\ Nth(r, at) \in at /\ Rank(Nth(r, at), at) = r
  BY NthStands
<1>2. q \in Int /\ r \in Int
  BY PlacesAreFinite
<1>3. CASE Nth(q, at) = Nth(r, at)
  BY <1>1, <1>2, <1>3
<1>4. CASE Nth(q, at) < Nth(r, at)
  <2>1. Rank(Nth(q, at), at) < Rank(Nth(r, at), at)
    BY <1>1, <1>4, RankGrows
  <2> QED BY <1>1, <1>2, <2>1
<1>5. Nth(q, at) \in Int /\ Nth(r, at) \in Int
  <2>1. \A k \in at : k \in Int
    OBVIOUS
  <2> QED BY <1>1, <2>1
<1> QED BY <1>3, <1>4, <1>5

THEOREM FilteredPrefix ==
  ASSUME NEW s, NEW n \in Nat
  PROVE  Filtered(s, 1 .. n) = [k \in 1 .. n |-> s[k]]
<1> DEFINE at == 1 .. n
<1>1. Cardinality(at) = n
  BY FS_Interval
<1>2. ASSUME NEW k \in 1 .. n  PROVE Nth(k, at) = k
  <2>1. {j \in at : j <= k} = 1 .. k
    OBVIOUS
  <2>2. Cardinality(1 .. k) = k
    BY FS_Interval
  <2>3. Rank(k, at) = k
    BY <2>1, <2>2 DEF Rank
  <2>4. Nth(Rank(k, at), at) = k
    BY NthOfRank
  <2> QED BY <2>3, <2>4
<1> HIDE DEF at
<1>3. Filtered(s, at) = [k \in 1 .. n |-> s[Nth(k, at)]]
  BY <1>1 DEF Filtered
<1>4. [k \in 1 .. n |-> s[Nth(k, at)]] = [k \in 1 .. n |-> s[k]]
  BY <1>2
<1> QED BY <1>3, <1>4 DEF at

-----------------------------------------------------------------------------
(***************************************************************************)
(* A closed set that holds a and not b, wherever its elements come from,    *)
(* shows that b is not reached; and when b is not reached there is one.     *)
(***************************************************************************)
LEMMA Unreached ==
  ASSUME NEW E, NEW a, NEW b, NEW S, a \in S, Closed(E, S), b \notin S
  PROVE  ~ Reaches(E, a, b)
<1> DEFINE T == S \cap (Ends(E) \cup {a})
<1>1. a \in T /\ b \notin T /\ T \in SUBSET (Ends(E) \cup {a})
  OBVIOUS
<1>2. Closed(E, T)
  <2> SUFFICES ASSUME NEW e \in E, e.from \in T PROVE e.to \in T
    BY DEF Closed
  <2>1. e.to \in Ends(E)
    BY DEF Ends
  <2>2. e.to \in S
    BY DEF Closed
  <2> QED BY <2>1, <2>2
<1> HIDE DEF T
<1> QED BY <1>1, <1>2 DEF Reaches

LEMMA Escape ==
  ASSUME NEW E, NEW a, NEW b, ~ Reaches(E, a, b)
  PROVE  \E S : a \in S /\ Closed(E, S) /\ b \notin S
BY DEF Reaches

(***************************************************************************)
(* More edges reach no less.                                                *)
(***************************************************************************)
LEMMA ReachesMore ==
  ASSUME NEW E, NEW F, E \subseteq F, NEW a, NEW b, Reaches(E, a, b)
  PROVE  Reaches(F, a, b)
<1> SUFFICES ASSUME ~ Reaches(F, a, b) PROVE FALSE
  OBVIOUS
<1>1. PICK S : a \in S /\ Closed(F, S) /\ b \notin S
  BY Escape
<1>2. Closed(E, S)
  BY <1>1 DEF Closed
<1> QED BY <1>1, <1>2, Unreached

(***************************************************************************)
(* place: an edge whose end does not lead back to its start closes no       *)
(* cycle, neither its own nor one of the edges before it.                   *)
(***************************************************************************)
LEMMA PlacedWithoutCycle ==
  ASSUME NEW K, NEW e,
         \A k \in K : ~ Reaches(K, k.to, k.from),
         ~ Reaches(K, e.to, e.from)
  PROVE  \A k \in K \cup {e} : ~ Reaches(K \cup {e}, k.to, k.from)
<1>1. PICK T : e.to \in T /\ Closed(K, T) /\ e.from \notin T
  BY Escape
<1>2. ~ Reaches(K \cup {e}, e.to, e.from)
  <2>1. Closed(K \cup {e}, T)
    BY <1>1 DEF Closed
  <2> QED BY <1>1, <2>1, Unreached
<1>3. ASSUME NEW k \in K PROVE ~ Reaches(K \cup {e}, k.to, k.from)
  <2>1. PICK S : k.to \in S /\ Closed(K, S) /\ k.from \notin S
    BY Escape
  <2>2. CASE e.from \notin S \/ e.to \in S
    <3>1. Closed(K \cup {e}, S)
      BY <2>1, <2>2 DEF Closed
    <3> QED BY <2>1, <3>1, Unreached
  <2>3. CASE e.from \in S /\ e.to \notin S /\ k.from \in T
    <3>1. Closed(K \cup {e}, S \cap T)
      BY <1>1, <2>1 DEF Closed
    <3>2. k.to \in S \cap T
      BY <1>1, <2>1, <2>3 DEF Closed
    <3>3. k.from \notin S \cap T
      BY <2>1
    <3> QED BY <3>1, <3>2, <3>3, Unreached
  <2>4. CASE e.from \in S /\ e.to \notin S /\ k.from \notin T
    <3>1. Closed(K \cup {e}, S \cup T)
      BY <1>1, <2>1 DEF Closed
    <3>2. k.to \in S \cup T /\ k.from \notin S \cup T
      BY <2>1, <2>4
    <3> QED BY <3>1, <3>2, Unreached
  <2> QED BY <2>2, <2>3, <2>4
<1> QED BY <1>2, <1>3

-----------------------------------------------------------------------------
(***************************************************************************)
(* A set of numbers that is not empty has a least one: what stands in for   *)
(* induction in the proofs of these modules.                                *)
(***************************************************************************)
LEMMA Least ==
  ASSUME NEW T \in SUBSET Nat, T # {}
  PROVE  \E m \in T : \A k \in T : m <= k
<1> DEFINE U == {0 .. n : n \in T}
<1>1. U \subseteq FiniteSubsetsOf(Nat)
  <2> SUFFICES ASSUME NEW n \in T PROVE 0 .. n \in FiniteSubsetsOf(Nat)
    OBVIOUS
  <2>1. n \in Nat /\ n \in Int /\ 0 \in Int
    OBVIOUS
  <2>2. IsFiniteSet(0 .. n)
    BY <2>1, FS_Interval
  <2> QED BY <2>1, <2>2 DEF FiniteSubsetsOf
<1>2. IsWellFoundedOn(StrictSubsetOrdering(Nat), FiniteSubsetsOf(Nat))
  BY FS_StrictSubsetOrderingWellFounded
<1>3. U # {}
  OBVIOUS
<1> HIDE DEF U
<1>4. PICK u \in U : \A v \in U : ~ (<<v, u>> \in StrictSubsetOrdering(Nat))
  BY <1>1, <1>2, <1>3, WFMin
<1>5. PICK m \in T : u = 0 .. m
  BY DEF U
<1>6. ASSUME NEW k \in T, k < m PROVE FALSE
  <2>1. 0 .. k \in U
    BY DEF U
  <2>2. k \in Nat /\ m \in Nat
    OBVIOUS
  <2> DEFINE A == 0 .. k
             B == 0 .. m
  <2>3. A \in SUBSET Nat /\ B \in SUBSET Nat
    BY <2>2
  <2>4. m \in B /\ m \notin A
    BY <1>6, <2>2
  <2>5. A \subseteq B
    BY <1>6, <2>2
  <2> HIDE DEF A, B
  <2>6. <<A, B>> \in StrictSubsetOrdering(Nat)
    BY <2>3, <2>4, <2>5 DEF StrictSubsetOrdering
  <2> QED BY <1>4, <1>5, <2>1, <2>6 DEF A, B
<1> QED BY <1>6


-----------------------------------------------------------------------------
(***************************************************************************)
(* Sums over a finite set, as MapThenSumSet takes them: one element after   *)
(* the other, in an order nobody chose.  Any order gives the same, so equal *)
(* weights give equal sums.                                                 *)
(***************************************************************************)
Pick(s) == CHOOSE x \in s : TRUE
Adds(g, w, S) == g = [s \in SUBSET S |-> IF s = {} THEN 0 ELSE w[Pick(s)] + g[s \ {Pick(s)}]]

LEMMA PickedLess ==
  ASSUME NEW s, IsFiniteSet(s), NEW x \in s
  PROVE  /\ IsFiniteSet(s \ {x})
         /\ Cardinality(s) \in Nat /\ Cardinality(s \ {x}) \in Nat
         /\ Cardinality(s \ {x}) < Cardinality(s) /\ Cardinality(s) > 0
<1>1. IsFiniteSet(s \ {x}) /\ Cardinality(s \ {x}) = Cardinality(s) - 1
  BY FS_RemoveElement
<1>2. Cardinality(s) \in Nat /\ Cardinality(s \ {x}) \in Nat
  BY <1>1, FS_CardinalityType
<1> QED BY <1>1, <1>2

LEMMA SumExists ==
  ASSUME NEW S, IsFiniteSet(S), NEW w
  PROVE  \E g : Adds(g, w, S)
<1> DEFINE Small(n) == {s \in SUBSET S : Cardinality(s) <= n}
           Taken(g, s) == IF s = {} THEN 0 ELSE w[Pick(s)] + g[s \ {Pick(s)}]
           Goes(n, g) == g = [s \in Small(n) |-> Taken(g, s)]
           T == {n \in Nat : ~ \E g : Goes(n, g)}
<1> HIDE DEF Taken
<1>1. ASSUME NEW s \in SUBSET S
      PROVE  IsFiniteSet(s) /\ Cardinality(s) \in Nat /\ (s = {} <=> Cardinality(s) = 0)
  <2>1. IsFiniteSet(s)
    BY FS_Subset
  <2> QED BY <2>1, FS_CardinalityType, FS_EmptySet
<1>2. ASSUME NEW s \in SUBSET S, s # {}
      PROVE  /\ s \ {Pick(s)} \in SUBSET S
             /\ Cardinality(s \ {Pick(s)}) \in Nat
             /\ Cardinality(s \ {Pick(s)}) < Cardinality(s)
  <2>1. Pick(s) \in s
    BY <1>2 DEF Pick
  <2> QED BY <1>1, <2>1, PickedLess
<1>3. T = {}
  <2> SUFFICES ASSUME T # {} PROVE FALSE
    OBVIOUS
  <2>1. PICK n \in T : n \in Nat /\ \A m \in T : n <= m
    <3>1. T \in SUBSET Nat
      OBVIOUS
    <3> QED BY <3>1, Least
  <2>2. CASE n = 0
    <3> DEFINE f == [s \in Small(0) |-> 0]
    <3>1. ASSUME NEW s \in Small(0)  PROVE s = {}
      <4>1. s \in SUBSET S /\ Cardinality(s) <= 0
        OBVIOUS
      <4> QED BY <1>1, <4>1
    <3>2. Goes(0, f)
      BY <3>1 DEF Taken
    <3> QED BY <2>2, <3>2
  <2>3. CASE n # 0
    <3>1. n \in Nat /\ n - 1 \in Nat /\ n - 1 \notin T
      <4>1. n \in Nat
        OBVIOUS
      <4>2. n - 1 \in Nat /\ ~ n <= n - 1
        BY <2>3, <4>1
      <4> QED BY <2>1, <4>1, <4>2
    <3>2. PICK g : Goes(n - 1, g)
      BY <3>1
    <3> DEFINE f == [s \in Small(n) |-> Taken(g, s)]
    <3>3. ASSUME NEW s \in Small(n), s # {}
          PROVE  s \ {Pick(s)} \in Small(n - 1) /\ s \ {Pick(s)} \in Small(n)
      <4>1. s \in SUBSET S /\ Cardinality(s) <= n
        OBVIOUS
      <4> HIDE DEF Small
      <4>2. /\ s \ {Pick(s)} \in SUBSET S
            /\ Cardinality(s \ {Pick(s)}) <= n - 1 /\ Cardinality(s \ {Pick(s)}) <= n
        BY <1>2, <1>1, <3>1, <3>3, <4>1
      <4> QED BY <4>2 DEF Small
    <3>4. ASSUME NEW s \in Small(n - 1)  PROVE s \in Small(n) /\ g[s] = f[s]
      <4>1. s \in Small(n)
        <5>1. s \in SUBSET S /\ Cardinality(s) <= n - 1
          OBVIOUS
        <5> QED BY <1>1, <3>1, <5>1
      <4>2. g[s] = Taken(g, s)
        BY <3>2
      <4> QED BY <4>1, <4>2
    <3>5. ASSUME NEW s \in Small(n)  PROVE f[s] = Taken(f, s)
      <4>1. CASE s = {}
        BY <4>1 DEF Taken
      <4>2. CASE s # {}
        <5>1. f[s \ {Pick(s)}] = g[s \ {Pick(s)}]
          BY <3>3, <3>4, <4>2
        <5>2. f[s] = w[Pick(s)] + g[s \ {Pick(s)}]
          BY <4>2 DEF Taken
        <5> QED BY <4>2, <5>1, <5>2 DEF Taken
      <4> QED BY <4>1, <4>2
    <3>6. Goes(n, f)
      BY <3>5
    <3> QED BY <3>6
  <2> QED BY <2>2, <2>3
<1>4. PICK g : Goes(Cardinality(S), g)
  <2>1. Cardinality(S) \in Nat
    BY <1>1
  <2> QED BY <1>3, <2>1
<1>5. \A s \in SUBSET S : Cardinality(s) <= Cardinality(S)
  BY FS_Subset
<1>6. Small(Cardinality(S)) = SUBSET S
  BY <1>5
<1>7. Adds(g, w, S)
  BY <1>4, <1>6 DEF Adds, Taken
<1> QED BY <1>7

LEMMA SumStays ==
  ASSUME NEW S, IsFiniteSet(S), NEW w, NEW g, Adds(g, w, S), NEW N, 0 \in N, \A x, y \in N : x + y \in N, \A x \in S : w[x] \in N,
         NEW t \in SUBSET S
  PROVE  g[t] \in N
<1> DEFINE T == {n \in Nat : \E s \in SUBSET S : Cardinality(s) = n /\ g[s] \notin N}
<1>1. T = {}
  <2> SUFFICES ASSUME T # {} PROVE FALSE
    OBVIOUS
  <2>1. PICK n \in T : n \in Nat /\ \A m \in T : n <= m
    <3>1. T \in SUBSET Nat
      OBVIOUS
    <3> QED BY <3>1, Least
  <2>2. PICK s \in SUBSET S : Cardinality(s) = n /\ g[s] \notin N
    OBVIOUS
  <2>3. g[s] = IF s = {} THEN 0 ELSE w[Pick(s)] + g[s \ {Pick(s)}]
    BY DEF Adds
  <2>4. s # {} /\ Pick(s) \in s
    BY <2>2, <2>3 DEF Pick
  <2>5. Cardinality(s \ {Pick(s)}) \in Nat /\ Cardinality(s \ {Pick(s)}) < Cardinality(s)
    BY <2>4, FS_Subset, PickedLess
  <2>6. s \ {Pick(s)} \in SUBSET S /\ g[s \ {Pick(s)}] \in N
    <3>1. Cardinality(s \ {Pick(s)}) \notin T
      <4> HIDE DEF T
      <4> QED BY <2>1, <2>2, <2>5
    <3> QED BY <2>5, <3>1
  <2>7. w[Pick(s)] \in N
    BY <2>4
  <2> QED BY <2>2, <2>3, <2>4, <2>6, <2>7
<1>2. Cardinality(t) \in Nat
  BY FS_Subset, FS_CardinalityType
<1> QED BY <1>1, <1>2

LEMMA SumTyped ==
  ASSUME NEW S, IsFiniteSet(S), NEW w, NEW g, Adds(g, w, S), \A x \in S : w[x] \in Nat,
         NEW t \in SUBSET S
  PROVE  g[t] \in Nat
<1>1. 0 \in Nat /\ \A x, y \in Nat : x + y \in Nat
  OBVIOUS
<1> QED BY <1>1, SumStays

LEMMA SumInt ==
  ASSUME NEW S, IsFiniteSet(S), NEW w, NEW g, Adds(g, w, S), \A x \in S : w[x] \in Int,
         NEW t \in SUBSET S
  PROVE  g[t] \in Int
<1>1. 0 \in Int /\ \A x, y \in Int : x + y \in Int
  OBVIOUS
<1> QED BY <1>1, SumStays

\* Any element may be taken first.
LEMMA SumTakes ==
  ASSUME NEW S, IsFiniteSet(S), NEW w, NEW g, Adds(g, w, S), \A x \in S : w[x] \in Int,
         NEW t \in SUBSET S, NEW y \in t
  PROVE  g[t] = w[y] + g[t \ {y}]
<1> DEFINE Off(s, x) == g[s] # w[x] + g[s \ {x}]
           T == {n \in Nat : \E s \in SUBSET S : Cardinality(s) = n /\ \E x \in s : Off(s, x)}
<1>1. T = {}
  <2> SUFFICES ASSUME T # {} PROVE FALSE
    OBVIOUS
  <2>1. PICK n \in T : n \in Nat /\ \A m \in T : n <= m
    <3>1. T \in SUBSET Nat
      OBVIOUS
    <3> QED BY <3>1, Least
  <2>2. PICK s \in SUBSET S : Cardinality(s) = n /\ \E x \in s : Off(s, x)
    OBVIOUS
  <2>3. PICK x \in s : Off(s, x)
    BY <2>2
  <2> DEFINE c == Pick(s)
  <2>4. c \in s /\ g[s] = w[c] + g[s \ {c}]
    BY <2>3 DEF Adds, Pick
  <2> HIDE DEF c
  <2>5. c # x
    BY <2>3, <2>4
  <2>6. ASSUME NEW a \in s, NEW b \in s \ {a}  PROVE g[s \ {a}] = w[b] + g[s \ {a, b}]
    <3>1. IsFiniteSet(s)
      BY FS_Subset
    <3>2. Cardinality(s \ {a}) \in Nat /\ Cardinality(s \ {a}) < Cardinality(s)
      BY <3>1, PickedLess
    <3>3. Cardinality(s \ {a}) \notin T
      <4> HIDE DEF T
      <4> QED BY <2>1, <2>2, <3>2
    <3>4. ~ Off(s \ {a}, b)
      BY <3>2, <3>3
    <3>5. (s \ {a}) \ {b} = s \ {a, b}
      OBVIOUS
    <3> QED BY <3>4, <3>5
  <2>7. g[s \ {c}] = w[x] + g[s \ {c, x}] /\ g[s \ {x}] = w[c] + g[s \ {x, c}]
    BY <2>4, <2>5, <2>6
  <2>8. g[s \ {c, x}] \in Int /\ w[c] \in Int /\ w[x] \in Int
    BY <2>4, SumInt
  <2>9. g[s \ {x}] = w[c] + g[s \ {c, x}]
    <3>1. {x, c} = {c, x}
      OBVIOUS
    <3> QED BY <2>7, <3>1
  <2> DEFINE r == g[s \ {c, x}]
  <2>10. g[s] = w[c] + (w[x] + r) /\ g[s \ {x}] = w[c] + r
    BY <2>4, <2>7, <2>9
  <2>11. r \in Int
    BY <2>8
  <2> HIDE DEF r
  <2>12. g[s] = w[x] + g[s \ {x}]
    BY <2>8, <2>10, <2>11
  <2> QED BY <2>3, <2>12
<1>2. Cardinality(t) \in Nat
  BY FS_Subset, FS_CardinalityType
<1> QED BY <1>1, <1>2

\* Sets of equal weights, element by element, have one sum.
Renames(b, S, R) ==
  b \in [S -> R] /\ (\A x, y \in S : b[x] = b[y] => x = y) /\ R = {b[x] : x \in S}

LEMMA SumMoves ==
  ASSUME NEW S, IsFiniteSet(S), NEW w, NEW g, Adds(g, w, S),
         NEW R, IsFiniteSet(R), NEW u, NEW h, Adds(h, u, R), \A y \in R : u[y] \in Int,
         NEW b, Renames(b, S, R), \A x \in S : u[b[x]] = w[x]
  PROVE  g[S] = h[R]
<1> DEFINE Over(s) == {b[x] : x \in s}
           T == {n \in Nat : \E s \in SUBSET S : Cardinality(s) = n /\ g[s] # h[Over(s)]}
<1> b \in [S -> R] /\ (\A x, y \in S : b[x] = b[y] => x = y) /\ R = {b[x] : x \in S}
  BY DEF Renames
<1>1. T = {}
  <2> SUFFICES ASSUME T # {} PROVE FALSE
    OBVIOUS
  <2>1. PICK n \in T : n \in Nat /\ \A m \in T : n <= m
    <3>1. T \in SUBSET Nat
      OBVIOUS
    <3> QED BY <3>1, Least
  <2>2. PICK s \in SUBSET S : Cardinality(s) = n /\ g[s] # h[Over(s)]
    OBVIOUS
  <2>3. s # {}
    <3> SUFFICES ASSUME s = {} PROVE FALSE
      OBVIOUS
    <3>1. Over(s) = {} /\ {} \in SUBSET R /\ {} \in SUBSET S
      OBVIOUS
    <3> QED BY <2>2, <3>1 DEF Adds
  <2> DEFINE c == Pick(s)
  <2>4. c \in s /\ g[s] = w[c] + g[s \ {c}]
    BY <2>3 DEF Adds, Pick
  <2> HIDE DEF c
  <2>5. Over(s) \in SUBSET R /\ b[c] \in Over(s) /\ Over(s \ {c}) = Over(s) \ {b[c]}
    <3>1. Over(s) \in SUBSET R /\ b[c] \in Over(s) /\ Over(s \ {c}) \subseteq Over(s)
      BY <2>4
    <3>2. ASSUME NEW x \in s \ {c}  PROVE b[x] # b[c]
      BY <2>4
    <3>3. b[c] \notin Over(s \ {c})
      BY <3>2
    <3>4. ASSUME NEW y \in Over(s), y # b[c]  PROVE y \in Over(s \ {c})
      <4>1. PICK x \in s : y = b[x]
        OBVIOUS
      <4> QED BY <3>4, <4>1
    <3> HIDE DEF Over
    <3> QED BY <3>1, <3>3, <3>4
  <2>6. h[Over(s)] = u[b[c]] + h[Over(s \ {c})]
    <3> HIDE DEF Over
    <3>1. h[Over(s)] = u[b[c]] + h[Over(s) \ {b[c]}]
      <4> DEFINE o == Over(s)
                 y == b[c]
      <4>1. o \in SUBSET R /\ y \in o
        BY <2>5
      <4> HIDE DEF o, y
      <4>2. h[o] = u[y] + h[o \ {y}]
        BY <4>1, SumTakes
      <4> QED BY <4>2 DEF o, y
    <3> QED BY <2>5, <3>1
  <2>7. g[s \ {c}] = h[Over(s \ {c})]
    <3>1. IsFiniteSet(s)
      BY FS_Subset
    <3>2. Cardinality(s \ {c}) \in Nat /\ Cardinality(s \ {c}) < Cardinality(s)
      BY <2>4, <3>1, PickedLess
    <3>3. Cardinality(s \ {c}) \notin T
      <4> HIDE DEF T
      <4> QED BY <2>1, <2>2, <3>2
    <3> QED BY <3>2, <3>3
  <2>8. u[b[c]] = w[c]
    BY <2>4
  <2> QED BY <2>2, <2>4, <2>6, <2>7, <2>8
<1>2. Cardinality(S) \in Nat
  BY FS_CardinalityType
<1>3. g[S] = h[Over(S)]
  BY <1>1, <1>2
<1> QED BY <1>3
=============================================================================
