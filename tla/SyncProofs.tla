----------------------------- MODULE SyncProofs -----------------------------
(***************************************************************************)
(* Proofs about Sync, for every catalog, price list, number of days and     *)
(* runs: types and where sync is (Base), what a value may have cost         *)
(* (History), what a sync that changes nothing leaves (Faithful), which     *)
(* listings priced a table (ReadOnce); each is an invariant on the ones     *)
(* before it, and the theorems follow from them.  The promise of Listings   *)
(* is used as LInv, and nothing else is known of the clients.               *)
(***************************************************************************)
EXTENDS Sync, LibraryProofs, TLAPS

-----------------------------------------------------------------------------
(***************************************************************************)
(* What a row may come to, part by part: the recursion of Sums, and that    *)
(* more days allow more.                                                    *)
(***************************************************************************)
LEMMA SumsUnfold ==
  ASSUME NEW parts, Len(parts) \in Nat, NEW region, NEW days
  PROVE  Sums(parts, region, days) =
           [k \in 0 .. Len(parts) |->
              IF k = 0 THEN {0}
              ELSE WithPart(Sums(parts, region, days)[k - 1], parts[k], region, days)]
<1> DEFINE Goes(n, f) ==
             f = [k \in 0 .. n |-> IF k = 0 THEN {0} ELSE WithPart(f[k - 1], parts[k], region, days)]
           T == {n \in 0 .. Len(parts) : ~ \E f : Goes(n, f)}
<1>1. T = {}
  <2> SUFFICES ASSUME T # {} PROVE FALSE
    OBVIOUS
  <2>1. PICK n \in T : \A m \in T : n <= m
    <3>1. T \in SUBSET Nat
      OBVIOUS
    <3> QED BY <3>1, Least
  <2>2. CASE n = 0
    <3> DEFINE f == [k \in 0 .. 0 |-> {0}]
    <3>1. Goes(0, f)
      OBVIOUS
    <3> QED BY <2>2, <3>1
  <2>3. CASE n # 0
    <3>1. n - 1 \in 0 .. Len(parts) /\ n - 1 \notin T /\ n \in Nat
      <4>1. n \in 0 .. Len(parts)
        OBVIOUS
      <4>2. n - 1 \in 0 .. Len(parts) /\ n \in Nat /\ ~ n <= n - 1
        BY <2>3, <4>1
      <4> QED BY <2>1, <4>2
    <3>2. PICK g : Goes(n - 1, g)
      BY <3>1
    <3> DEFINE top == WithPart(g[n - 1], parts[n], region, days)
               f == [k \in 0 .. n |-> IF k = n THEN top ELSE g[k]]
    <3>3. ASSUME NEW k \in 0 .. n
          PROVE  f[k] = IF k = 0 THEN {0} ELSE WithPart(f[k - 1], parts[k], region, days)
      <4>1. CASE k = n
        <5>1. n - 1 \in 0 .. n /\ n - 1 # n /\ f[n - 1] = g[n - 1]
          BY <3>1
        <5> QED BY <2>3, <4>1, <5>1
      <4>2. CASE k # n
        <5>1. k \in 0 .. n - 1 /\ f[k] = g[k] /\ (k # 0 => k - 1 \in 0 .. n - 1 /\ k - 1 # n)
          BY <3>1, <4>2
        <5>2. g[k] = IF k = 0 THEN {0} ELSE WithPart(g[k - 1], parts[k], region, days)
          BY <3>2, <5>1
        <5> QED BY <5>1, <5>2
      <4> QED BY <4>1, <4>2
    <3>4. Goes(n, f)
      BY <3>3
    <3> QED BY <3>4
  <2> QED BY <2>2, <2>3
<1>2. \E f : Goes(Len(parts), f)
  BY <1>1
<1>3. Sums(parts, region, days) = CHOOSE f : Goes(Len(parts), f)
  BY DEF Sums
<1>4. Goes(Len(parts), Sums(parts, region, days))
  BY <1>2, <1>3
<1> QED BY <1>4

LEMMA SumsAt ==
  ASSUME NEW parts, Len(parts) \in Nat, NEW region, NEW days
  PROVE  /\ Sums(parts, region, days)[0] = {0}
         /\ \A k \in 1 .. Len(parts) :
              Sums(parts, region, days)[k]
                = WithPart(Sums(parts, region, days)[k - 1], parts[k], region, days)
<1> DEFINE f == Sums(parts, region, days)
<1>1. f = [k \in 0 .. Len(parts) |->
             IF k = 0 THEN {0} ELSE WithPart(f[k - 1], parts[k], region, days)]
  BY SumsUnfold
<1> HIDE DEF f
<1>2. f[0] = {0}
  BY <1>1
<1>3. ASSUME NEW k \in 1 .. Len(parts) PROVE f[k] = WithPart(f[k - 1], parts[k], region, days)
  <2>1. k \in 0 .. Len(parts) /\ k # 0
    OBVIOUS
  <2> QED BY <1>1, <2>1
<1> QED BY <1>2, <1>3 DEF f

LEMMA MorePart ==
  ASSUME NEW A, NEW B, A \subseteq B, NEW p, NEW region, NEW days, NEW more, days \subseteq more
  PROVE  WithPart(A, p, region, days) \subseteq WithPart(B, p, region, more)
BY DEF WithPart

LEMMA SumsGrow ==
  ASSUME NEW parts, Len(parts) \in Nat, NEW region, NEW days, NEW more, days \subseteq more
  PROVE  \A k \in 0 .. Len(parts) : Sums(parts, region, days)[k] \subseteq Sums(parts, region, more)[k]
<1> DEFINE f == Sums(parts, region, days)
           g == Sums(parts, region, more)
           T == {k \in 0 .. Len(parts) : ~ f[k] \subseteq g[k]}
<1>1. /\ f[0] = {0} /\ g[0] = {0}
      /\ \A k \in 1 .. Len(parts) : f[k] = WithPart(f[k - 1], parts[k], region, days)
      /\ \A k \in 1 .. Len(parts) : g[k] = WithPart(g[k - 1], parts[k], region, more)
  BY SumsAt
<1> HIDE DEF f, g
<1>2. T = {}
  <2> SUFFICES ASSUME T # {} PROVE FALSE
    OBVIOUS
  <2>1. T \in SUBSET Nat
    OBVIOUS
  <2>2. PICK n \in T : \A m \in T : n <= m
    BY <2>1, Least
  <2>3. n \in 0 .. Len(parts) /\ n # 0
    BY <1>1
  <2>4. n - 1 \in 0 .. Len(parts) /\ n \in 1 .. Len(parts) /\ ~ n <= n - 1
    BY <2>3
  <2>5. f[n - 1] \subseteq g[n - 1]
    BY <2>2, <2>4
  <2>6. f[n] \subseteq g[n]
    BY <1>1, <2>4, <2>5, MorePart
  <2> QED BY <2>6
<1> QED BY <1>2 DEF f, g

(***************************************************************************)
(* What a value could cost on some days it could cost on more.              *)
(***************************************************************************)
LEMMA CostGrows ==
  ASSUME NEW e, NEW c, NEW days, NEW more, days \subseteq more,
         Len(e.quoted[c[1]].parts) \in Nat
  PROVE  CouldCost(e, c, days) \subseteq CouldCost(e, c, more)
<1> DEFINE parts == e.quoted[c[1]].parts
<1>1. Len(parts) \in 0 .. Len(parts)
  OBVIOUS
<1>2. Sums(parts, c[2], days)[Len(parts)] \subseteq Sums(parts, c[2], more)[Len(parts)]
  BY <1>1, SumsGrow
<1> QED BY <1>2 DEF CouldCost

-----------------------------------------------------------------------------
(***************************************************************************)
(* The promise of Listings, as sync's clients keep it: what they answer and *)
(* what they keep is of the list asked for, and fresh.                      *)
(***************************************************************************)
OfList(x, l) ==
  /\ x \in [list : {l}, day : Nat]
  /\ x.day \in 0 .. now /\ born[Syncer] <= x.day + Oldest

Remembers ==
  \A l \in List :
    LET day == memory[Syncer][l] IN day # None => OfList([list |-> l, day |-> day], l)

Answered ==
  answer[Syncer] # None =>
    /\ asked[Syncer] \in List
    /\ \/ answer[Syncer] \in Refusals(asked[Syncer])
       \/ /\ OfList(answer[Syncer], asked[Syncer])
          /\ memory[Syncer][asked[Syncer]] = answer[Syncer].day

LInv ==
  /\ now \in 0 .. LastDay
  /\ born \in [Proc -> Nat \cup {None}]
  /\ memory \in [Proc -> [List -> Nat \cup {None}]]
  /\ asked \in [Proc -> List \cup {None}]
  /\ answer = [p \in Proc |-> answer[p]]
  /\ born[Syncer] # None => born[Syncer] \in 0 .. now
  /\ born[Syncer] = None => asked[Syncer] = None /\ memory[Syncer] = Fresh
  /\ asked[Syncer] # None /\ answer[Syncer] = None => ~ Held(memory[Syncer], asked[Syncer])
  /\ Remembers /\ Answered

LEMMA ListingNotRefused ==
  ASSUME NEW l, NEW x \in [list : {l}, day : Nat]  PROVE ~ IsRefusal(x)
BY DEF IsRefusal

LEMMA RefusalsRefuse ==
  ASSUME NEW l, NEW a \in Refusals(l)
  PROVE  IsRefusal(a) /\ (a = Refused("absent") => Client[l] = "aws")
<1>1. /\ a = Refused("failed") \/ a = Refused("absent") \/ a = Refused("unauthorized")
      /\ a = Refused("absent") => Client[l] = "aws"
  <2>1. Refused("failed") # Refused("absent") /\ Refused("unauthorized") # Refused("absent")
    <3>1. Refused("failed").refused = "failed" /\ Refused("absent").refused = "absent"
          /\ Refused("unauthorized").refused = "unauthorized"
      BY DEF Refused
    <3> QED BY <3>1
  <2> QED BY <2>1 DEF Refusals
<1> QED BY <1>1 DEF Refused, IsRefusal

LEMMA ListsRead ==
  ASSUME LInv
  PROVE  /\ Syncer \in Proc /\ None \notin List /\ Client \in [List -> Clients]
         /\ None \notin [list : List, day : Nat]
         /\ memory[Syncer] \in [List -> Nat \cup {None}] /\ None \notin Nat
         /\ asked[Syncer] \in List \cup {None}
BY SyncAssumption, PriceListsAssumption DEF LInv

LEMMA AskKeeps ==
  ASSUME LInv, NEW l \in List, LAsk(Syncer, l)  PROVE LInv'
<1> DEFINE x == [list |-> l, day |-> memory[Syncer][l]]
<1>1. /\ asked' = [asked EXCEPT ![Syncer] = l] /\ born' = born /\ now' = now
      /\ born[Syncer] # None /\ asked[Syncer] = None
  BY DEF LAsk
<1>2. asked'[Syncer] = l /\ asked' \in [Proc -> List \cup {None}]
  BY <1>1, ListsRead DEF LInv
<1>3. answer[Syncer] = None
  BY <1>1, ListsRead DEF LInv, Answered
<1>4. CASE Held(memory[Syncer], l)
  <2>1. answer' = [answer EXCEPT ![Syncer] = x] /\ memory' = memory
    BY <1>4 DEF LAsk
  <2>2. answer' = [p \in Proc |-> answer'[p]] /\ answer'[Syncer] = x
    BY <2>1, ListsRead DEF LInv
  <2>3. OfList(x, l)
    BY <1>4 DEF LInv, Remembers, Held
  <2>4. Answered'
    BY <1>1, <1>2, <2>1, <2>2, <2>3 DEF Answered, OfList
  <2>5. Remembers'
    BY <1>1, <2>1 DEF LInv, Remembers, OfList
  <2>6. x \in [list : List, day : Nat] /\ x # None
    BY <2>3, ListsRead DEF OfList
  <2> QED BY <1>1, <1>2, <2>1, <2>2, <2>4, <2>5, <2>6 DEF LInv
<1>5. CASE ~ Held(memory[Syncer], l)
  <2>1. /\ answer' = answer
        /\ memory' = memory \/ memory' = [memory EXCEPT ![Syncer] = LetGo(@, Client[l])]
    BY <1>5 DEF LAsk
  <2>2. LetGo(memory[Syncer], Client[l]) \in [List -> Nat \cup {None}]
    BY ListsRead DEF LetGo
  <2>3. memory' \in [Proc -> [List -> Nat \cup {None}]]
    BY <2>1, <2>2, ListsRead DEF LInv
  <2>4. \A m \in List : memory'[Syncer][m] = memory[Syncer][m] \/ memory'[Syncer][m] = None
    BY <2>1, ListsRead DEF LInv, LetGo
  <2>5. Answered'
    BY <1>3, <2>1 DEF Answered
  <2>6. Remembers'
    BY <1>1, <2>4 DEF LInv, Remembers, OfList
  <2>7. ~ Held(memory'[Syncer], l)
    BY <1>5, <2>4 DEF Held
  <2> QED BY <1>1, <1>2, <2>1, <2>3, <2>5, <2>6, <2>7 DEF LInv
<1> QED BY <1>4, <1>5

LEMMA RefuseKeeps ==
  ASSUME LInv, LRefuse(Syncer)  PROVE LInv'
<1>1. /\ UNCHANGED <<now, born, memory, asked>> /\ asked[Syncer] \in List
      /\ asked[Syncer] # None /\ answer[Syncer] = None
  BY ListsRead DEF LRefuse
<1>2. PICK a \in Refusals(asked[Syncer]) : answer' = [answer EXCEPT ![Syncer] = a]
  BY DEF LRefuse
<1>3. answer' = [p \in Proc |-> answer'[p]] /\ answer'[Syncer] = a
  BY <1>2, ListsRead DEF LInv
<1>4. Answered'
  BY <1>1, <1>2, <1>3 DEF Answered
<1>5. Remembers'
  BY <1>1 DEF LInv, Remembers, OfList
<1> QED BY <1>1, <1>3, <1>4, <1>5 DEF LInv

LEMMA AnswerKeeps ==
  ASSUME LInv, LAnswer(Syncer)  PROVE LInv'
<1> DEFINE l == asked[Syncer]
<1>1. /\ UNCHANGED <<now, born, asked>> /\ l \in List /\ answer[Syncer] = None
  BY ListsRead DEF LAnswer
<1>2. PICK day \in 0 .. now :
        /\ born[Syncer] <= day + Oldest
        /\ answer' = [answer EXCEPT ![Syncer] = [list |-> l, day |-> day]]
        /\ memory' = [memory EXCEPT ![Syncer] = Kept(@, l, day)]
  BY DEF LAnswer
<1> DEFINE x == [list |-> l, day |-> day]
<1>3. OfList(x, l) /\ x \in [list : List, day : Nat] /\ x # None /\ x.day = day /\ day \in Nat
  BY <1>1, <1>2, ListsRead DEF OfList, LInv
<1>4. answer' = [p \in Proc |-> answer'[p]] /\ answer'[Syncer] = x
  BY <1>2, ListsRead DEF LInv
<1>5. /\ Kept(memory[Syncer], l, day) \in [List -> Nat \cup {None}]
      /\ Kept(memory[Syncer], l, day)[l] = day
      /\ \A m \in List \ {l} : \/ Kept(memory[Syncer], l, day)[m] = memory[Syncer][m]
                             \/ Kept(memory[Syncer], l, day)[m] = None
  BY <1>1, <1>3, ListsRead DEF Kept, LetGo
<1>6. memory' \in [Proc -> [List -> Nat \cup {None}]] /\ memory'[Syncer] = Kept(memory[Syncer], l, day)
  BY <1>2, <1>5, ListsRead DEF LInv
<1>7. Remembers'
  <2>1. ASSUME NEW m \in List, memory'[Syncer][m] # None
        PROVE  OfList([list |-> m, day |-> memory'[Syncer][m]], m)
    <3>1. CASE m = l
      BY <1>3, <1>5, <1>6, <3>1
    <3>2. CASE m # l
      BY <1>5, <1>6, <2>1, <3>2 DEF LInv, Remembers
    <3> QED BY <3>1, <3>2
  <2> QED BY <1>1, <2>1 DEF Remembers, OfList
<1>8. Answered'
  BY <1>1, <1>3, <1>4, <1>5, <1>6, ListsRead DEF Answered, OfList
<1>9. born[Syncer] # None
  BY <1>1, ListsRead DEF LInv
<1>10. /\ UNCHANGED <<now, born, asked>> /\ answer'[Syncer] # None
  BY <1>1, <1>3, <1>4
<1> HIDE DEF l
<1> QED BY <1>4, <1>6, <1>7, <1>8, <1>9, <1>10 DEF LInv

LEMMA TakeKeeps ==
  ASSUME LInv, LTake(Syncer)  PROVE LInv' /\ asked'[Syncer] = None
<1>1. /\ UNCHANGED <<now, born, memory>>
      /\ answer' = [answer EXCEPT ![Syncer] = None]
      /\ asked' = [asked EXCEPT ![Syncer] = None]
  BY DEF LTake
<1>2. /\ answer' = [p \in Proc |-> answer'[p]] /\ answer'[Syncer] = None
      /\ asked' \in [Proc -> List \cup {None}] /\ asked'[Syncer] = None
  BY <1>1, ListsRead DEF LInv
<1>3. Remembers' /\ Answered'
  BY <1>1, <1>2 DEF LInv, Remembers, Answered, OfList
<1> QED BY <1>1, <1>2, <1>3 DEF LInv

LEMMA BeginKeeps ==
  ASSUME LInv, LBegin(Syncer)  PROVE LInv' /\ born'[Syncer] = now /\ asked'[Syncer] = None
<1>1. /\ UNCHANGED <<now, memory, asked, answer>> /\ born[Syncer] = None
      /\ born' = [born EXCEPT ![Syncer] = now]
  BY DEF LBegin
<1>2. asked[Syncer] = None /\ memory[Syncer] = Fresh
  BY <1>1 DEF LInv
<1>3. born' \in [Proc -> Nat \cup {None}] /\ born'[Syncer] = now /\ now \in 0 .. now
  BY <1>1, ListsRead DEF LInv
<1>4. Remembers' /\ Answered'
  BY <1>1, <1>2, ListsRead DEF Remembers, Fresh, LInv, Answered
<1>5. born'[Syncer] # None
  BY <1>3, SyncAssumption DEF LInv
<1> QED BY <1>1, <1>2, <1>3, <1>4, <1>5 DEF LInv

LEMMA EndKeeps ==
  ASSUME LInv, LEnd(Syncer)  PROVE LInv' /\ born'[Syncer] = None /\ asked'[Syncer] = None
<1>1. /\ now' = now
      /\ born' = [born EXCEPT ![Syncer] = None] /\ memory' = [memory EXCEPT ![Syncer] = Fresh]
      /\ asked' = [asked EXCEPT ![Syncer] = None] /\ answer' = [answer EXCEPT ![Syncer] = None]
  BY DEF LEnd
<1>2. Fresh \in [List -> Nat \cup {None}]
  BY DEF Fresh
<1>3. /\ born' \in [Proc -> Nat \cup {None}] /\ born'[Syncer] = None
      /\ memory' \in [Proc -> [List -> Nat \cup {None}]]
      /\ memory'[Syncer] = Fresh
      /\ asked' \in [Proc -> List \cup {None}] /\ asked'[Syncer] = None
      /\ answer' = [p \in Proc |-> answer'[p]] /\ answer'[Syncer] = None
  BY <1>1, <1>2, ListsRead DEF LInv
<1>4. Remembers' /\ Answered'
  BY <1>3 DEF Remembers, Answered, Fresh
<1> QED BY <1>1, <1>3, <1>4 DEF LInv

LEMMA TickKeeps ==
  ASSUME LInv, now < LastDay, LTick  PROVE LInv'
<1>1. /\ now' = now + 1 /\ UNCHANGED <<born, memory, asked, answer>>
      /\ now \in Nat /\ now' \in 0 .. LastDay /\ 0 .. now \subseteq 0 .. now'
  BY SyncAssumption DEF LTick, LInv
<1>2. Remembers' /\ Answered'
  BY <1>1 DEF LInv, Remembers, Answered, OfList
<1> QED BY <1>1, <1>2 DEF LInv

LEMMA IdleKeeps ==
  ASSUME LInv, UNCHANGED listings  PROVE LInv'
BY DEF LInv, listings, Remembers, Answered, OfList

LEMMA StartsListening ==
  ASSUME LInit  PROVE LInv /\ born[Syncer] = None
<1>1. Syncer \in Proc /\ 0 \in 0 .. LastDay
  BY SyncAssumption
<1>2. Fresh \in [List -> Nat \cup {None}]
  BY DEF Fresh
<1> QED BY <1>1, <1>2 DEF LInit, LInv, Remembers, Answered, Fresh

-----------------------------------------------------------------------------
(***************************************************************************)
(* The order in which an entry is looked up: no region twice, but one that  *)
(* is being added to an entry that is no table.                             *)
(***************************************************************************)
OrderOK(e, o) ==
  /\ o \in Seq([region : Places, added : BOOLEAN])
  /\ \A j, k \in 1 .. Len(o) : j < k /\ o[j].region = o[k].region => o[k].added /\ ~ e.table

OptionSet == [regions : SUBSET Places, add : Seq(Places), check : BOOLEAN]

LEMMA FunctionIsSeq ==
  ASSUME NEW S, NEW n \in Nat, NEW f \in [1 .. n -> S]  PROVE f \in Seq(S) /\ Len(f) = n
BY SeqDef, LenProperties

LEMMA RegionsTyped == Region \in Seq(Places)
<1>1. Region \in Seq(ToSet(Region)) /\ ToSet(Region) \subseteq Places
  BY SyncAssumption DEF Places
<1>2. Region \in [1 .. Len(Region) -> Places] /\ Len(Region) \in Nat
  <2>1. Len(Region) \in Nat /\ \A k \in 1 .. Len(Region) : Region[k] \in ToSet(Region)
    BY <1>1, ElementOfSeq
  <2>2. Region \in [1 .. Len(Region) -> ToSet(Region)]
    BY <1>1, LenProperties
  <2> QED BY <1>1, <2>1, <2>2
<1> QED BY <1>2, SeqDef

LEMMA FilteredDistinct ==
  ASSUME NEW S, NEW s \in Seq(S), NEW at \in SUBSET (1 .. Len(s)), Distinct(s)
  PROVE  Filtered(s, at) \in Seq(S) /\ Distinct(Filtered(s, at))
         /\ \A k \in 1 .. Len(Filtered(s, at)) : \E j \in at : Filtered(s, at)[k] = s[j]
<1> DEFINE f == Filtered(s, at)
<1>1. /\ f \in Seq(S)
      /\ \A r \in 1 .. Len(f) : Nth(r, at) \in at /\ f[r] = s[Nth(r, at)]
  BY FilteredKeeps
<1>2. \A q, r \in 1 .. Len(f) : Nth(q, at) = Nth(r, at) => q = r
  BY FilteredKeeps
<1> HIDE DEF f
<1>3. ASSUME NEW q \in 1 .. Len(f), NEW r \in 1 .. Len(f), f[q] = f[r] PROVE q = r
  <2>1. Nth(q, at) \in 1 .. Len(s) /\ Nth(r, at) \in 1 .. Len(s) /\ s[Nth(q, at)] = s[Nth(r, at)]
    BY <1>1, <1>3
  <2>2. Nth(q, at) = Nth(r, at)
    BY <2>1 DEF Distinct
  <2> QED BY <1>2, <2>2
<1>4. Distinct(f)
  BY <1>3 DEF Distinct
<1>5. \A k \in 1 .. Len(f) : \E j \in at : f[k] = s[j]
  BY <1>1
<1> QED BY <1>1, <1>4, <1>5 DEF f

LEMMA StepsTyped ==
  ASSUME NEW s \in Seq(Places), NEW b \in BOOLEAN
  PROVE  /\ Steps(s, b) \in Seq([region : Places, added : BOOLEAN])
         /\ Len(Steps(s, b)) = Len(s)
         /\ \A k \in 1 .. Len(s) : Steps(s, b)[k] = [region |-> s[k], added |-> b]
<1>1. Len(s) \in Nat /\ \A k \in 1 .. Len(s) : s[k] \in Places
  BY ElementOfSeq
<1>2. Steps(s, b) \in [1 .. Len(s) -> [region : Places, added : BOOLEAN]]
  BY <1>1 DEF Steps
<1>3. Steps(s, b) \in Seq([region : Places, added : BOOLEAN]) /\ Len(Steps(s, b)) = Len(s)
  BY <1>1, <1>2, FunctionIsSeq
<1> QED BY <1>3 DEF Steps

LEMMA TableOrdered ==
  ASSUME opts \in OptionSet, NEW had, NEW e  PROVE OrderOK(e, TableOrder(had))
<1> DEFINE all == <<AnyRegion>> \o Region
           at == {k \in 1 .. Len(all) : Added(all[k]) \/ (all[k] \in had /\ Asked(all[k]))}
           regions == Filtered(all, at)
<1>1. Region \in Seq(Places) /\ AnyRegion \in Places /\ <<AnyRegion>> \in Seq(Places)
  BY RegionsTyped DEF Places
<1>2. all \in Seq(Places) /\ Len(all) = 1 + Len(Region)
  BY <1>1
<1>3. \A k \in 1 .. Len(all) : all[k] = IF k = 1 THEN AnyRegion ELSE Region[k - 1]
  BY <1>1
<1>4. \A k \in 1 .. Len(Region) : Region[k] # AnyRegion
  <2>1. \A k \in 1 .. Len(Region) : Region[k] \in ToSet(Region)
    BY SyncAssumption, ElementOfSeq
  <2> QED BY <2>1, SyncAssumption
<1> HIDE DEF all
<1>5. Distinct(all)
  <2> SUFFICES ASSUME NEW j \in 1 .. Len(all), NEW k \in 1 .. Len(all), all[j] = all[k]
               PROVE  j = k
    BY DEF Distinct
  <2>1. Len(Region) \in Nat
    BY <1>1
  <2>2. j # 1 => j - 1 \in 1 .. Len(Region)
    BY <1>2, <2>1
  <2>3. k # 1 => k - 1 \in 1 .. Len(Region)
    BY <1>2, <2>1
  <2>4. CASE j = 1 \/ k = 1
    BY <1>3, <1>4, <2>2, <2>3, <2>4
  <2>5. CASE j # 1 /\ k # 1
    <3>1. Region[j - 1] = Region[k - 1]
      BY <1>3, <2>5
    <3>2. j - 1 = k - 1
      BY <2>2, <2>3, <2>5, <3>1, SyncAssumption DEF Distinct
    <3> QED BY <2>1, <1>2, <3>2
  <2> QED BY <2>4, <2>5
<1>6. at \in SUBSET (1 .. Len(all))
  OBVIOUS
<1> HIDE DEF at
<1>7. regions \in Seq(Places) /\ Distinct(regions)
  BY <1>2, <1>5, <1>6, FilteredDistinct
<1>8. TableOrder(had) = [k \in 1 .. Len(regions) |-> [region |-> regions[k], added |-> Added(regions[k])]]
  BY DEF TableOrder, all, at
<1> HIDE DEF regions
<1>9. TableOrder(had) \in [1 .. Len(regions) -> [region : Places, added : BOOLEAN]]
  <2>1. \A k \in 1 .. Len(regions) : regions[k] \in Places
    BY <1>7, ElementOfSeq
  <2> QED BY <1>8, <2>1 DEF Added
<1>10. /\ TableOrder(had) \in Seq([region : Places, added : BOOLEAN])
       /\ Len(TableOrder(had)) = Len(regions)
  <2>1. Len(regions) \in Nat
    BY <1>7
  <2> QED BY <1>9, <2>1, FunctionIsSeq
<1>11. \A j, k \in 1 .. Len(regions) : TableOrder(had)[j].region = TableOrder(had)[k].region => j = k
  BY <1>7, <1>8 DEF Distinct
<1> QED BY <1>7, <1>10, <1>11 DEF OrderOK

LEMMA RegionalOrdered ==
  ASSUME opts \in OptionSet, NEW had, NEW e, ~ e.table  PROVE OrderOK(e, RegionalOrder(e, had))
<1> DEFINE at == {k \in 1 .. Len(Region) : Region[k] \in had /\ Asked(Region[k])}
           old == Filtered(Region, at)
           every == IF AnyRegion \in had /\ e.global THEN <<AnyRegion>> ELSE <<>>
           new == IF AnyRegion \in had THEN <<>> ELSE opts.add
           first == old \o every
           order1 == Steps(first, FALSE)
           order2 == Steps(new, TRUE)
<1>1. Region \in Seq(Places) /\ AnyRegion \in Places /\ Distinct(Region)
  BY RegionsTyped, SyncAssumption DEF Places
<1>2. /\ old \in Seq(Places) /\ Distinct(old)
      /\ \A k \in 1 .. Len(old) : \E j \in at : old[k] = Region[j]
  <2>1. at \in SUBSET (1 .. Len(Region))
    OBVIOUS
  <2> HIDE DEF at
  <2> QED BY <1>1, <2>1, FilteredDistinct
<1>3. \A k \in 1 .. Len(old) : old[k] # AnyRegion
  <2>1. \A k \in 1 .. Len(Region) : Region[k] \in ToSet(Region)
    BY SyncAssumption, ElementOfSeq
  <2> QED BY <1>2, <2>1, SyncAssumption
<1> HIDE DEF old
<1>4. every = <<>> \/ every = <<AnyRegion>>
  OBVIOUS
<1>5. new \in Seq(Places)
  BY DEF OptionSet
<1> HIDE DEF every, new
<1>6. first \in Seq(Places) /\ Distinct(first)
  <2>1. CASE every = <<>>
    BY <1>2, <2>1
  <2>2. CASE every = <<AnyRegion>>
    <3>1. first \in Seq(Places) /\ Len(first) = Len(old) + 1 /\ Len(old) \in Nat
      BY <1>1, <1>2, <2>2
    <3>2. \A k \in 1 .. Len(first) : first[k] = IF k <= Len(old) THEN old[k] ELSE AnyRegion
      BY <1>1, <1>2, <2>2, <3>1
    <3> HIDE DEF first
    <3>3. \A j, k \in 1 .. Len(first) : first[j] = first[k] => j = k
      BY <1>2, <1>3, <3>1, <3>2 DEF Distinct
    <3> QED BY <3>1, <3>3 DEF Distinct
  <2> QED BY <1>4, <2>1, <2>2
<1> HIDE DEF first
<1>7. /\ order1 \in Seq([region : Places, added : BOOLEAN]) /\ Len(order1) = Len(first)
      /\ \A k \in 1 .. Len(first) : order1[k] = [region |-> first[k], added |-> FALSE]
  BY <1>6, StepsTyped
<1>8. /\ order2 \in Seq([region : Places, added : BOOLEAN]) /\ Len(order2) = Len(new)
      /\ \A k \in 1 .. Len(new) : order2[k] = [region |-> new[k], added |-> TRUE]
  BY <1>5, StepsTyped
<1>9. RegionalOrder(e, had) = order1 \o order2
  BY DEF RegionalOrder, first, every, new, old
<1> HIDE DEF order1, order2
<1> DEFINE o == order1 \o order2
<1>10. o \in Seq([region : Places, added : BOOLEAN]) /\ Len(o) = Len(order1) + Len(order2)
  BY <1>7, <1>8
<1>11. \A k \in 1 .. Len(o) : o[k] = IF k <= Len(order1) THEN order1[k] ELSE order2[k - Len(order1)]
  BY <1>7, <1>8, <1>10
<1>12. Len(first) \in Nat /\ Len(new) \in Nat
  BY <1>5, <1>6
<1> HIDE DEF o
<1>13. ASSUME NEW j \in 1 .. Len(o), NEW k \in 1 .. Len(o), j < k, o[j].region = o[k].region
       PROVE  o[k].added
  <2>1. CASE k <= Len(order1)
    <3>1. j \in 1 .. Len(first) /\ k \in 1 .. Len(first) /\ o[j] = order1[j] /\ o[k] = order1[k]
      BY <1>7, <1>11, <1>12, <1>13, <2>1
    <3>2. first[j] = first[k]
      <4>1. o[j] = [region |-> first[j], added |-> FALSE] /\ o[k] = [region |-> first[k], added |-> FALSE]
        BY <1>7, <3>1
      <4> QED BY <1>13, <4>1
    <3>3. j = k
      BY <1>6, <3>1, <3>2 DEF Distinct
    <3> QED BY <1>13, <3>3
  <2>2. CASE ~ k <= Len(order1)
    <3>1. k - Len(order1) \in 1 .. Len(new)
      BY <1>7, <1>8, <1>10, <1>12, <2>2
    <3>2. o[k] = [region |-> new[k - Len(order1)], added |-> TRUE]
      BY <1>8, <1>11, <2>2, <3>1
    <3> QED BY <3>2
  <2> QED BY <2>1, <2>2
<1>14. OrderOK(e, o)
  BY <1>10, <1>13 DEF OrderOK
<1> QED BY <1>9, <1>14 DEF o

-----------------------------------------------------------------------------
(***************************************************************************)
(* Types, and where sync is: the book and the entry it is at, the value it  *)
(* looks up and the list it has asked for that value.                       *)
(***************************************************************************)
LayoutOK ==
  /\ layout \in Seq(ToSet(layout))
  /\ \A b \in 1 .. Len(layout) :
       /\ layout[b] \in Seq(ToSet(layout[b]))
       /\ \A n \in 1 .. Len(layout[b]) : EntryOK(layout[b][n])

DiskOK ==
  /\ disk \in [1 .. Len(layout) -> ToSet(disk)]
  /\ \A b \in 1 .. Len(layout) : disk[b] # Torn => BookOK(layout[b], disk[b])

RunOK ==
  /\ run \in {"off", "read", "entry", "cells", "write"}
  /\ today \in Nat /\ runs \in Nat /\ book \in Nat /\ book > 0
  /\ opts \in OptionSet
  /\ IF run = "off" THEN born[Syncer] = None ELSE born[Syncer] = today

Working == run \in {"entry", "cells", "write"}

InBook ==
  Working =>
    /\ book \in 1 .. Len(layout)
    /\ BookOK(layout[book], base) /\ BookOK(layout[book], held)
    /\ here \in 1 .. Len(layout[book]) + 1

InEntry ==
  IF run = "cells"
  THEN /\ here \in 1 .. Len(layout[book]) /\ Entry.synced
       /\ OrderOK(Entry, order)
       /\ place \in 1 .. Len(order) + 1 /\ row \in 1 .. Len(Entry.rows)
  ELSE /\ order = <<>> /\ place = 1 /\ row = 1
       /\ resolved /\ ~ changed /\ used = {}

Days == ReadFor(today)

InCell ==
  /\ part \in Nat /\ part > 0 /\ sum \in Int /\ resolved \in BOOLEAN /\ changed \in BOOLEAN
  /\ IF part = 1 THEN sum = 0
     ELSE /\ AtCell /\ Wanted /\ part <= Len(Parts)
          /\ sum \in Sums(Parts, Cell[2], Days)[part - 1]
  /\ asked[Syncer] # None => AtCell /\ Wanted /\ Offered /\ asked[Syncer] = Source.list

Base == LInv /\ LayoutOK /\ DiskOK /\ RunOK /\ InBook /\ InEntry /\ InCell

LEMMA DiskLength ==
  ASSUME LayoutOK, DiskOK
  PROVE  Len(layout) \in Nat /\ Len(disk) = Len(layout) /\ DOMAIN disk = 1 .. Len(layout)
BY FunctionIsSeq DEF LayoutOK, DiskOK

LEMMA BookLength ==
  ASSUME LayoutOK, NEW b \in 1 .. Len(layout), NEW x, BookOK(layout[b], x)
  PROVE  /\ Len(layout[b]) \in Nat /\ Len(x) = Len(layout[b]) /\ DOMAIN x = 1 .. Len(layout[b])
BY FunctionIsSeq DEF LayoutOK, BookOK

LEMMA CellFacts ==
  ASSUME Base, AtCell
  PROVE  /\ Len(layout[book]) \in Nat /\ here \in 1 .. Len(layout[book])
         /\ EntryOK(Entry) /\ Entry.synced
         /\ Len(order) \in Nat /\ place \in 1 .. Len(order)
         /\ Step \in [region : Places, added : BOOLEAN]
         /\ row \in 1 .. Len(Entry.rows)
         /\ Len(Entry.rows) \in Nat
         /\ Cell[1] = Entry.rows[row] /\ Cell[2] = Step.region
         /\ Cell \in ToSet(Entry.rows) \X Places
         /\ ContentOK(Entry, held[here])
         /\ Entry.quoted[Cell[1]] \in Quotes
         /\ Len(Parts) \in Nat /\ Len(Parts) > 0
         /\ part \in 1 .. Len(Parts)
         /\ Source \in [list : List, item : Item] /\ Parts[part].times \in Int
         /\ sum \in Sums(Parts, Cell[2], Days)[part - 1]
<1>1. /\ run = "cells" /\ Working /\ place <= Len(order)
      /\ here \in 1 .. Len(layout[book]) /\ book \in 1 .. Len(layout) /\ Entry.synced
      /\ OrderOK(Entry, order) /\ row \in 1 .. Len(Entry.rows) /\ place \in 1 .. Len(order) + 1
  BY DEF Base, AtCell, Working, InBook, InEntry
<1>2. EntryOK(Entry) /\ Len(layout[book]) \in Nat
  BY <1>1, BookLength DEF Base, LayoutOK, Entry, InBook
<1>3. Len(order) \in Nat /\ place \in 1 .. Len(order) /\ Step \in [region : Places, added : BOOLEAN]
  <2>1. order \in Seq([region : Places, added : BOOLEAN])
    BY <1>1 DEF OrderOK
  <2>2. Len(order) \in Nat /\ place \in 1 .. Len(order)
    BY <1>1, <2>1
  <2> QED BY <2>1, <2>2, ElementOfSeq DEF Step
<1>4. Entry.rows \in Seq(DOMAIN Entry.quoted) /\ Len(Entry.rows) \in Nat
  BY <1>2 DEF EntryOK
<1>5. Cell[1] = Entry.rows[row] /\ Cell[2] = Step.region /\ Cell = <<Cell[1], Cell[2]>>
  BY DEF Cell
<1>6. Cell[1] \in ToSet(Entry.rows)
  BY <1>1, <1>4, <1>5 DEF ToSet
<1>7. Cell \in ToSet(Entry.rows) \X Places
  BY <1>3, <1>5, <1>6
<1>8. Entry.quoted[Cell[1]] \in Quotes /\ Len(Parts) > 0
  BY <1>2, <1>6 DEF EntryOK, Parts
<1>9. Parts \in Seq([src : [Places -> [list : List, item : Item]], times : Int])
  BY <1>8 DEF Quotes, Parts
<1>10. Len(Parts) \in Nat /\ part \in 1 .. Len(Parts)
  BY <1>8, <1>9 DEF Base, InCell
<1>11. Parts[part] \in [src : [Places -> [list : List, item : Item]], times : Int]
  BY <1>9, <1>10, ElementOfSeq
<1>12. Source \in [list : List, item : Item] /\ Parts[part].times \in Int
  BY <1>7, <1>11 DEF Source
<1>13. sum \in Sums(Parts, Cell[2], Days)[part - 1]
  <2>1. CASE part = 1
    BY <1>10, <2>1, SumsAt DEF Base, InCell
  <2>2. CASE part # 1
    BY <2>2 DEF Base, InCell
  <2> QED BY <2>1, <2>2
<1>14. ContentOK(Entry, held[here])
  BY <1>1 DEF Base, InBook, BookOK, Entry
<1> QED BY <1>1, <1>2, <1>3, <1>4, <1>5, <1>7, <1>8, <1>10, <1>12, <1>13, <1>14

-----------------------------------------------------------------------------
(***************************************************************************)
(* A quote to settle: what the lists may say of the value that is looked    *)
(* up, or a refusal that leaves it as it was.                               *)
(***************************************************************************)
QuoteOK(q) ==
  /\ ~ IsRefusal(q) => Valued(q) \in Int
  /\ ~ IsRefusal(q) \/ q = Absent => Valued(q) \in CouldCost(Entry, Cell, Days)

LEMMA AbsentIsRefusal == IsRefusal(Absent)
BY DEF Absent, Refused, IsRefusal

LEMMA NotOfferedQuote ==
  ASSUME Base, NotOffered  PROVE AtCell /\ Wanted /\ Settle(Absent) /\ QuoteOK(Absent)
<1>1. AtCell /\ Wanted /\ ~ Offered /\ Settle(Absent)
  BY DEF NotOffered
<1>2. Valued(Absent) = None /\ Cell[1] = Cell[1]
  BY DEF Valued
<1>3. None \in CouldCost(Entry, Cell, Days)
  BY <1>1 DEF CouldCost, Offered
<1> QED BY <1>1, <1>2, <1>3, AbsentIsRefusal DEF QuoteOK

LEMMA DayRead ==
  ASSUME Base, run # "off", NEW x, NEW l \in List, OfList(x, l)
  PROVE  x.list = l /\ x.day \in Days /\ x.day \in 0 .. LastDay
<1>1. x.list = l /\ x.day \in 0 .. now /\ today <= x.day + Oldest /\ now \in 0 .. LastDay
  BY DEF OfList, Base, RunOK, LInv
<1>2. today \in Nat /\ Oldest \in Nat /\ LastDay \in Nat
  BY SyncAssumption DEF Base, RunOK
<1>3. 0 .. now \subseteq 0 .. LastDay /\ x.day + Oldest >= today
  BY <1>1, <1>2
<1> QED BY <1>1, <1>3 DEF Days, ReadFor

\* The next part of a row is in hand, or its price is settled.
PartTaken(s) ==
  /\ part < Len(Parts) /\ part' = part + 1 /\ sum' = s /\ s \in Int
  /\ s \in Sums(Parts, Cell[2], Days)[part]
  /\ UNCHANGED <<held, resolved, changed, place, row>>

LEMMA TakePartQuote ==
  ASSUME Base, TakePart
  PROVE  /\ AtCell /\ Wanted
         /\ (\E q : Settle(q) /\ QuoteOK(q)) \/ (\E s : PartTaken(s))
<1> DEFINE got == answer[Syncer]
           price == IF IsRefusal(got) THEN got ELSE Resolve(got, Source.item)
           cost == sum + price.usd * Parts[part].times
<1>1. /\ AtCell /\ answer[Syncer] # None
      /\ IF IsRefusal(price) THEN Settle(price)
         ELSE IF part = Len(Parts) THEN Settle([usd |-> cost])
         ELSE /\ part' = part + 1 /\ sum' = cost
              /\ UNCHANGED <<held, resolved, changed, place, row>>
  BY DEF TakePart, LTake
<1> HIDE DEF price, cost
<1>2. /\ asked[Syncer] \in List /\ Wanted /\ asked[Syncer] = Source.list
      /\ got \in Refusals(Source.list) \/ OfList(got, Source.list)
  <2>1. asked[Syncer] \in List
    BY <1>1 DEF Base, LInv, Answered
  <2>2. asked[Syncer] # None
    BY <2>1, ListsRead DEF Base
  <2> QED BY <1>1, <2>1, <2>2 DEF Base, LInv, Answered, InCell
<1>3. /\ Len(Parts) \in Nat /\ part \in 1 .. Len(Parts) /\ Source \in [list : List, item : Item]
      /\ Parts[part].times \in Int /\ sum \in Sums(Parts, Cell[2], Days)[part - 1] /\ sum \in Int
  BY <1>1, CellFacts DEF Base, InCell
<1>4. Source = Parts[part].src[Cell[2]] /\ Parts = Entry.quoted[Cell[1]].parts
  BY DEF Source, Parts
<1>5. run # "off"
  BY <1>1 DEF AtCell
<1>6. ASSUME IsRefusal(price) PROVE QuoteOK(price)
  <2>1. ASSUME price = Absent PROVE None \in CouldCost(Entry, Cell, Days)
    <3>1. CASE got \in Refusals(Source.list)
      <4>1. price = got /\ got = Refused("absent")
        BY <2>1, <3>1, RefusalsRefuse DEF price, Absent
      <4>2. Client[Parts[part].src[Cell[2]].list] = "aws"
        BY <1>4, <3>1, <4>1, RefusalsRefuse
      <4> QED BY <1>3, <1>4, <4>2 DEF CouldCost
    <3>2. CASE OfList(got, Source.list)
      <4>1. ~ IsRefusal(got)
        BY <3>2, ListingNotRefused DEF OfList
      <4>2. got.list = Source.list /\ got.day \in Days
        BY <1>2, <1>5, <3>2, DayRead
      <4>3. price = Found(Parts[part].src[Cell[2]], got.day)
        BY <1>4, <4>1, <4>2 DEF price, Resolve, Found
      <4> QED BY <1>3, <1>4, <1>6, <4>2, <4>3 DEF CouldCost
    <3> QED BY <1>2, <3>1, <3>2
  <2>2. Valued(Absent) = None
    BY DEF Valued
  <2> QED BY <1>6, <2>1, <2>2 DEF QuoteOK
<1>7. ASSUME ~ IsRefusal(price) PROVE cost \in Int /\ cost \in Sums(Parts, Cell[2], Days)[part]
  <2>1. ~ IsRefusal(got) /\ OfList(got, Source.list)
    BY <1>2, <1>7, RefusalsRefuse DEF price
  <2>2. got.list = Source.list /\ got.day \in Days /\ got.day \in 0 .. LastDay
    BY <1>2, <1>5, <2>1, DayRead
  <2>3. price = Found(Parts[part].src[Cell[2]], got.day)
    BY <1>4, <2>1, <2>2 DEF price, Resolve, Found
  <2>4. price \in [usd : Int]
    <3>1. price \in [usd : Int] \cup [refused : STRING]
      BY <1>3, <1>4, <2>2, <2>3, SyncAssumption DEF Found
    <3>2. price \notin [refused : STRING]
      BY <1>7 DEF IsRefusal
    <3> QED BY <3>1, <3>2
  <2>5. cost \in Int
    BY <1>3, <2>4 DEF cost
  <2>6. cost \in WithPart(Sums(Parts, Cell[2], Days)[part - 1], Parts[part], Cell[2], Days)
    BY <1>3, <1>7, <2>2, <2>3 DEF WithPart, cost
  <2>7. cost \in Sums(Parts, Cell[2], Days)[part]
    BY <1>3, <2>6, SumsAt
  <2> QED BY <2>5, <2>7
<1>8. CASE IsRefusal(price)
  BY <1>1, <1>2, <1>6, <1>8
<1>9. CASE ~ IsRefusal(price) /\ part = Len(Parts)
  <2> DEFINE q == [usd |-> cost]
  <2>1. Settle(q)
    BY <1>1, <1>9
  <2>2. ~ IsRefusal(q) /\ q # Absent /\ Valued(q) = cost
    <3>1. ~ IsRefusal(q)
      BY DEF IsRefusal
    <3> QED BY <3>1, AbsentIsRefusal DEF Valued
  <2>3. cost \in CouldCost(Entry, Cell, Days)
    BY <1>4, <1>7, <1>9 DEF CouldCost
  <2>4. QuoteOK(q)
    BY <1>7, <1>9, <2>2, <2>3 DEF QuoteOK
  <2> QED BY <1>1, <1>2, <2>1, <2>4
<1>10. CASE ~ IsRefusal(price) /\ part # Len(Parts)
  <2>1. part < Len(Parts)
    BY <1>3, <1>10
  <2>2. PartTaken(cost)
    BY <1>1, <1>7, <1>10, <2>1 DEF PartTaken
  <2> QED BY <1>1, <1>2, <2>2
<1> QED BY <1>8, <1>9, <1>10

-----------------------------------------------------------------------------
(***************************************************************************)
(* What settling a value does to the book in memory, and where the loops    *)
(* go from there.                                                           *)
(***************************************************************************)
LEMMA WithTyped ==
  ASSUME NEW S, NEW D, NEW f \in [D -> S], NEW c, NEW x \in S
  PROVE  /\ With(f, c, x) \in [D \cup {c} -> S] /\ With(f, c, x)[c] = x
         /\ \A k \in D : k # c => With(f, c, x)[k] = f[k]
BY DEF With

LEMMA SettledPrice ==
  ASSUME NEW q, QuoteOK(q), ~ Stays(q)
  PROVE  /\ Valued(q) \in Prices /\ Valued(q) \in CouldCost(Entry, Cell, Days)
         /\ Valued(q) = None => Old = None
<1>1. ~ IsRefusal(q) \/ (q = Absent /\ Old = None)
  BY DEF Stays
<1>2. CASE ~ IsRefusal(q)
  BY <1>2, SyncAssumption DEF QuoteOK, Prices
<1>3. CASE q = Absent /\ Old = None
  BY <1>3 DEF QuoteOK, Prices, Valued
<1> QED BY <1>1, <1>2, <1>3

LEMMA DateTyped ==
  ASSUME Base, AtCell, ~ Entry.table, NEW q  PROVE NewDate(q) \in Dates
<1>1. held[here].dates \in [DOMAIN held[here].values -> Dates]
  BY CellFacts DEF ContentOK
<1>2. OldDate \in Dates
  BY <1>1 DEF OldDate, Had, Dates
<1>3. today \in Int
  BY DEF Base, RunOK
<1> QED BY <1>2, <1>3 DEF NewDate, Dates

LEMMA PricedShape ==
  ASSUME Base, AtCell, NEW q, Valued(q) \in Prices
  PROVE  LET is == Priced(held, q) IN
         /\ BookOK(layout[book], is)
         /\ is[here].values = With(held[here].values, Cell, Valued(q))
         /\ is[here].dates = IF Entry.table THEN held[here].dates
                             ELSE With(held[here].dates, Cell, NewDate(q))
         /\ \A n \in 1 .. Len(layout[book]) : n # here => is[n] = held[n]
<1> DEFINE is == Priced(held, q)
           vs == With(held[here].values, Cell, Valued(q))
           ds == IF Entry.table THEN held[here].dates ELSE With(held[here].dates, Cell, NewDate(q))
           N == Len(layout[book])
<1>1. /\ book \in 1 .. Len(layout) /\ BookOK(layout[book], held) /\ here \in 1 .. N
      /\ ContentOK(Entry, held[here]) /\ Cell \in ToSet(Entry.rows) \X Places
  BY CellFacts DEF Base, InBook, AtCell, Working
<1>2. held \in [1 .. N -> ToSet(held)]
  BY <1>1 DEF BookOK
<1>3. is = [held EXCEPT ![here] = [values |-> vs, dates |-> ds]]
  BY DEF Priced
<1> HIDE DEF vs, ds, is
<1>4. DOMAIN is = 1 .. N /\ is[here] = [values |-> vs, dates |-> ds]
  BY <1>1, <1>2, <1>3
<1>5. \A n \in 1 .. N : n # here => is[n] = held[n]
  BY <1>2, <1>3
<1>6. is \in [1 .. N -> ToSet(is)]
  <2>1. is = [n \in 1 .. N |-> is[n]]
    BY <1>2, <1>3
  <2>2. \A n \in 1 .. N : is[n] \in ToSet(is)
    BY <1>4 DEF ToSet
  <2> QED BY <2>1, <2>2
<1>7. vs \in [DOMAIN held[here].values \cup {Cell} -> Prices]
  BY <1>1, WithTyped DEF ContentOK, vs
<1>8. ds \in [IF Entry.table THEN {Whole} ELSE DOMAIN held[here].values \cup {Cell} -> Dates]
  <2>1. CASE Entry.table
    BY <1>1, <2>1 DEF ContentOK, ds
  <2>2. CASE ~ Entry.table
    <3>1. held[here].dates \in [DOMAIN held[here].values -> Dates]
      BY <1>1, <2>2 DEF ContentOK
    <3>2. NewDate(q) \in Dates
      BY <2>2, DateTyped
    <3> QED BY <2>2, <3>1, <3>2, WithTyped DEF ds
  <2> QED BY <2>1, <2>2
<1>9. ContentOK(Entry, is[here])
  <2>1. is[here].values = vs /\ is[here].dates = ds
    BY <1>4
  <2>2. DOMAIN vs = DOMAIN held[here].values \cup {Cell}
    BY <1>7
  <2>3. DOMAIN vs \subseteq ToSet(Entry.rows) \X Places
    BY <1>1, <2>2 DEF ContentOK
  <2>4. vs \in [DOMAIN vs -> Prices] /\ ds \in [IF Entry.table THEN {Whole} ELSE DOMAIN vs -> Dates]
    BY <1>7, <1>8, <2>2
  <2>5. is[here] \in [values : {vs}, dates : {ds}]
    BY <1>4
  <2> QED BY <2>1, <2>3, <2>4, <2>5 DEF ContentOK
<1>10. \A n \in 1 .. N : ContentOK(layout[book][n], is[n])
  BY <1>1, <1>5, <1>9 DEF BookOK, Entry
<1>11. BookOK(layout[book], is)
  BY <1>6, <1>10 DEF BookOK
<1> QED BY <1>4, <1>5, <1>11 DEF is, vs, ds

LEMMA SettleShape ==
  ASSUME Base, AtCell, NEW q, Settle(q), QuoteOK(q)
  PROVE  /\ BookOK(layout[book], held')
         /\ \A n \in 1 .. Len(layout[book]) : n # here => held'[n] = held[n]
         /\ resolved' \in BOOLEAN /\ changed' \in BOOLEAN
<1>1. held' = IF Stays(q) THEN held ELSE Priced(held, q)
  BY DEF Settle
<1>2. BookOK(layout[book], held)
  BY DEF Base, InBook, AtCell, Working
<1>3. resolved' \in BOOLEAN /\ changed' \in BOOLEAN
  BY DEF Settle
<1>4. CASE Stays(q)
  BY <1>1, <1>2, <1>3, <1>4
<1>5. CASE ~ Stays(q)
  BY <1>1, <1>3, <1>5, SettledPrice, PricedShape
<1> QED BY <1>4, <1>5

LEMMA AdvanceShape ==
  ASSUME Base, AtCell, Advance
  PROVE  /\ place' \in 1 .. Len(order) + 1 /\ row' \in 1 .. Len(Entry.rows)
         /\ place' >= place /\ (place' = place => row' > row)
<1>1. /\ Len(order) \in Nat /\ place \in 1 .. Len(order)
      /\ row \in 1 .. Len(Entry.rows) /\ Len(Entry.rows) \in Nat /\ Len(Entry.rows) > 0
  BY CellFacts DEF EntryOK
<1> QED BY <1>1 DEF Advance

-----------------------------------------------------------------------------
(***************************************************************************)
(* Every step keeps the types.                                              *)
(***************************************************************************)
LEMMA SettleBase ==
  ASSUME Base, AtCell, NEW q, Settle(q), QuoteOK(q), LInv', asked'[Syncer] = None,
         UNCHANGED <<now, born, layout, disk, run, opts, today, book, base, here, order, runs>>
  PROVE  Base'
<1>1. Advance /\ part' = 1 /\ sum' = 0
  BY DEF Settle
<1>2. LayoutOK' /\ DiskOK' /\ RunOK'
  BY DEF Base, LayoutOK, DiskOK, RunOK
<1>3. run = "cells"
  BY DEF AtCell
<1>4. InBook'
  BY <1>3, SettleShape DEF Base, InBook, Working
<1>5. InEntry'
  BY <1>1, <1>3, AdvanceShape DEF Base, InEntry, Entry
<1>6. InCell'
  BY <1>1, SettleShape DEF InCell
<1> QED BY <1>2, <1>4, <1>5, <1>6 DEF Base

LEMMA NotOfferedBase ==
  ASSUME Base, NotOffered  PROVE Base'
<1>1. AtCell /\ Settle(Absent) /\ QuoteOK(Absent)
  BY NotOfferedQuote
<1>2. UNCHANGED <<listings, layout, disk, run, opts, today, book, base, here, order, used, runs>>
  BY DEF NotOffered
<1>3. LInv'
  BY <1>2, IdleKeeps DEF Base
<1>4. asked'[Syncer] = None
  BY <1>2 DEF NotOffered, Base, InCell, listings
<1> QED BY <1>1, <1>2, <1>3, <1>4, SettleBase DEF listings

LEMMA TakePartBase ==
  ASSUME Base, TakePart  PROVE Base'
<1>1. AtCell /\ Wanted
  BY TakePartQuote
<1>2. /\ LTake(Syncer)
      /\ UNCHANGED <<layout, disk, run, opts, today, book, base, here, order, runs>>
  BY DEF TakePart
<1>3. LInv' /\ asked'[Syncer] = None /\ UNCHANGED <<now, born, memory>>
  BY <1>2, TakeKeeps DEF Base, LTake
<1>4. CASE \E q : Settle(q) /\ QuoteOK(q)
  BY <1>1, <1>2, <1>3, <1>4, SettleBase
<1>5. CASE \E s : PartTaken(s)
  <2>1. PICK s : PartTaken(s)
    BY <1>5
  <2>2. /\ part' = part + 1 /\ sum' = s /\ s \in Int /\ part < Len(Parts)
        /\ s \in Sums(Parts, Cell[2], Days)[part]
        /\ UNCHANGED <<held, resolved, changed, place, row>>
    BY <2>1 DEF PartTaken
  <2>3. LayoutOK' /\ DiskOK' /\ RunOK' /\ InBook'
    BY <1>2, <1>3, <2>2 DEF Base, LayoutOK, DiskOK, RunOK, InBook, Working
  <2>4. InEntry'
    BY <1>1, <1>2, <2>2 DEF Base, InEntry, Entry, AtCell
  <2>5. AtCell' /\ Wanted' /\ Parts' = Parts /\ Cell' = Cell /\ Days' = Days
    BY <1>1, <1>2, <1>3, <2>2 DEF AtCell, Wanted, Step, Entry, Had, Cell, Parts, Days, ReadFor
  <2>6. Len(Parts) \in Nat /\ part \in 1 .. Len(Parts)
    BY <1>1, CellFacts
  <2>7. part' \in Nat /\ part' > 1 /\ part' - 1 = part /\ part' <= Len(Parts)
    BY <2>2, <2>6
  <2>8. resolved' \in BOOLEAN /\ changed' \in BOOLEAN
    BY <2>2 DEF Base, InCell
  <2>9. InCell'
    BY <1>3, <2>2, <2>5, <2>7, <2>8 DEF InCell
  <2> QED BY <1>3, <2>3, <2>4, <2>9 DEF Base
<1> QED BY <1>4, <1>5, TakePartQuote

LEMMA PassOverBase ==
  ASSUME Base, PassOver  PROVE Base'
<1>1. /\ AtCell /\ ~ Wanted /\ Advance
      /\ UNCHANGED <<listings, layout, disk, run, opts, today, book, base, held, here, order,
                     lookup, table, runs>>
  BY DEF PassOver
<1>2. LInv' /\ LayoutOK' /\ DiskOK' /\ RunOK' /\ InBook'
  BY <1>1, IdleKeeps DEF Base, LayoutOK, DiskOK, RunOK, InBook, Working, listings
<1>3. InEntry'
  BY <1>1, AdvanceShape DEF Base, InEntry, Entry, AtCell
<1>4. InCell'
  BY <1>1 DEF Base, InCell, lookup, table, listings
<1> QED BY <1>2, <1>3, <1>4 DEF Base

LEMMA AskPartBase ==
  ASSUME Base, AskPart  PROVE Base'
<1>1. AtCell /\ Wanted /\ Offered /\ LAsk(Syncer, Source.list) /\ UNCHANGED syncvars
  BY DEF AskPart
<1>2. Source.list \in List
  BY <1>1, CellFacts
<1>3. LInv' /\ UNCHANGED <<now, born>>
  BY <1>1, <1>2, AskKeeps DEF Base, LAsk
<1>4. asked'[Syncer] = Source.list
  BY <1>1, ListsRead DEF Base, LAsk, LInv
<1>5. LayoutOK' /\ DiskOK' /\ RunOK' /\ InBook' /\ InEntry'
  BY <1>1, <1>3 DEF syncvars, walk, lookup, table, Base, LayoutOK, DiskOK, RunOK, InBook, InEntry, Working, Entry
<1>6. /\ AtCell' /\ Wanted' /\ Offered' /\ Source' = Source /\ Parts' = Parts /\ Cell' = Cell
      /\ Days' = Days
  BY <1>1, <1>3 DEF syncvars, walk, lookup, table, AtCell, Wanted, Offered, Source, Step, Entry, Had, Cell,
                    Parts, Days, ReadFor
<1>7. InCell'
  BY <1>1, <1>4, <1>6 DEF syncvars, lookup, table, Base, InCell
<1> QED BY <1>3, <1>5, <1>7 DEF Base

LEMMA AnswerBase ==
  ASSUME Base, Answer  PROVE Base'
<1>1. (LAnswer(Syncer) \/ LRefuse(Syncer)) /\ UNCHANGED syncvars
  BY DEF Answer
<1>2. LInv' /\ UNCHANGED <<now, born, asked>>
  BY <1>1, RefuseKeeps, AnswerKeeps DEF Base, LAnswer, LRefuse
<1>3. LayoutOK' /\ DiskOK' /\ RunOK' /\ InBook' /\ InEntry'
  BY <1>1, <1>2 DEF syncvars, walk, lookup, table, Base, LayoutOK, DiskOK, RunOK, InBook, InEntry, Working, Entry
<1>4. InCell'
  BY <1>1, <1>2 DEF syncvars, walk, lookup, table, Base, InCell, AtCell, Wanted, Offered, Source, Step, Entry,
                    Had, Cell, Parts, Days, ReadFor
<1> QED BY <1>2, <1>3, <1>4 DEF Base

LEMMA MoreDays ==
  ASSUME now \in Nat, now' \in Nat, now <= now', NEW day  PROVE ReadFor(day) \subseteq ReadFor(day)'
BY DEF ReadFor

LEMMA MidnightBase ==
  ASSUME Base, Midnight  PROVE Base'
<1>1. now < LastDay /\ LTick /\ UNCHANGED syncvars
  BY DEF Midnight
<1>2. LInv' /\ UNCHANGED <<born, asked>> /\ now \in Nat /\ now' \in Nat /\ now <= now'
  BY <1>1, TickKeeps DEF Base, LTick, LInv
<1>3. LayoutOK' /\ DiskOK' /\ RunOK' /\ InBook' /\ InEntry'
  BY <1>1, <1>2 DEF syncvars, walk, lookup, table, Base, LayoutOK, DiskOK, RunOK, InBook, InEntry, Working, Entry
<1>4. Days \subseteq Days'
  BY <1>1, <1>2, MoreDays DEF syncvars, Days, ReadFor
<1>5. /\ AtCell' = AtCell /\ Wanted' = Wanted /\ Offered' = Offered /\ Source' = Source
      /\ Parts' = Parts /\ Cell' = Cell
  BY <1>1 DEF syncvars, walk, lookup, table, AtCell, Wanted, Offered, Source, Step, Entry, Had, Cell, Parts
<1>6. part # 1 => sum \in Sums(Parts, Cell[2], Days')[part - 1]
  <2> SUFFICES ASSUME part # 1 PROVE sum \in Sums(Parts, Cell[2], Days')[part - 1]
    OBVIOUS
  <2>1. AtCell
    BY DEF Base, InCell
  <2>2. Len(Parts) \in Nat /\ part - 1 \in 0 .. Len(Parts) /\ sum \in Sums(Parts, Cell[2], Days)[part - 1]
    BY <2>1, CellFacts
  <2> QED BY <1>4, <2>2, SumsGrow
<1>7. InCell'
  BY <1>1, <1>2, <1>5, <1>6 DEF syncvars, lookup, table, Base, InCell
<1> QED BY <1>2, <1>3, <1>7 DEF Base

\* Where an entry that is looked up is, past its last value too.
LEMMA EntryFacts ==
  ASSUME Base, run = "cells"
  PROVE  /\ book \in 1 .. Len(layout) /\ Len(layout[book]) \in Nat /\ here \in 1 .. Len(layout[book])
         /\ EntryOK(Entry) /\ Entry.synced /\ ContentOK(Entry, held[here]) /\ ContentOK(Entry, base[here])
         /\ DOMAIN held = 1 .. Len(layout[book]) /\ DOMAIN base = 1 .. Len(layout[book])
<1>1. /\ Working /\ book \in 1 .. Len(layout) /\ here \in 1 .. Len(layout[book]) /\ Entry.synced
      /\ BookOK(layout[book], held) /\ BookOK(layout[book], base)
  BY DEF Base, InBook, InEntry, Working
<1> QED BY <1>1, BookLength DEF Base, LayoutOK, BookOK, Entry

LEMMA DoneShape ==
  ASSUME Base, EntryDone
  PROVE  /\ BookOK(layout[book], held')
         /\ held'[here].values = held[here].values
         /\ ~ Entry.table => held'[here] = held[here]
         /\ Entry.table =>
              held'[here].dates \in [{Whole} -> Dates] /\ held'[here].dates[Whole] = Dated(held[here].dates[Whole])
         /\ \A n \in 1 .. Len(layout[book]) : n # here => held'[n] = held[n]
<1> DEFINE N == Len(layout[book])
<1>1. /\ run = "cells" /\ here \in 1 .. N /\ ContentOK(Entry, held[here])
      /\ BookOK(layout[book], held) /\ DOMAIN held = 1 .. N
  BY EntryFacts DEF EntryDone, Base, InBook, Working
<1>2. CASE ~ Entry.table
  BY <1>1, <1>2 DEF EntryDone
<1>3. CASE Entry.table
  <2> DEFINE x == held[here]
             ds == [x.dates EXCEPT ![Whole] = Dated(@)]
  <2>1. x.dates \in [{Whole} -> Dates] /\ x = [values |-> x.values, dates |-> x.dates]
    BY <1>1, <1>3 DEF ContentOK
  <2>2. held' = [held EXCEPT ![here] = [x EXCEPT !.dates = ds]]
    BY <1>1, <1>3, <2>1 DEF EntryDone
  <2>3. Dated(x.dates[Whole]) \in Dates
    <3>1. today \in Int /\ resolved \in BOOLEAN
      BY DEF Base, RunOK, InCell
    <3> QED BY <2>1, <3>1 DEF Dated, Dates
  <2>4. ds \in [{Whole} -> Dates] /\ ds[Whole] = Dated(x.dates[Whole])
    BY <2>1, <2>3
  <2> HIDE DEF ds
  <2>5. held'[here] = [values |-> x.values, dates |-> ds]
    BY <1>1, <2>1, <2>2
  <2>6. \A n \in 1 .. N : n # here => held'[n] = held[n]
    BY <1>1, <2>2
  <2>7. ContentOK(Entry, held'[here])
    <3>1. held'[here] \in [values : {held'[here].values}, dates : {held'[here].dates}]
      BY <2>5
    <3> QED BY <1>1, <1>3, <2>4, <2>5, <3>1 DEF ContentOK
  <2>8. held' \in [1 .. N -> ToSet(held')]
    <3>1. DOMAIN held' = 1 .. N /\ held' = [n \in 1 .. N |-> held'[n]]
      BY <1>1, <2>2 DEF BookOK
    <3> QED BY <3>1 DEF ToSet
  <2>9. \A n \in 1 .. N : ContentOK(layout[book][n], held'[n])
    BY <1>1, <2>6, <2>7 DEF BookOK, Entry
  <2>10. BookOK(layout[book], held')
    BY <2>8, <2>9 DEF BookOK
  <2> QED BY <1>3, <2>4, <2>5, <2>6, <2>10
<1> QED BY <1>2, <1>3

LEMMA NothingAsked ==
  ASSUME Base, ~ AtCell  PROVE part = 1 /\ sum = 0 /\ asked[Syncer] = None
BY DEF Base, InCell

LEMMA EntryDoneBase ==
  ASSUME Base, EntryDone  PROVE Base'
<1>1. /\ run = "cells" /\ place > Len(order) /\ run' = "entry"
      /\ resolved' = TRUE /\ changed' = FALSE /\ used' = {}
      /\ order' = <<>> /\ place' = 1 /\ row' = 1 /\ here' = here + 1
      /\ UNCHANGED <<listings, layout, disk, opts, today, book, base, lookup, runs>>
  BY DEF EntryDone
<1>2. Len(order) \in Nat /\ place \in 1 .. Len(order) + 1
  BY <1>1 DEF Base, InEntry, OrderOK
<1>3. part = 1 /\ sum = 0 /\ asked[Syncer] = None
  BY <1>1, <1>2, NothingAsked DEF AtCell
<1>4. LInv' /\ LayoutOK' /\ DiskOK' /\ RunOK'
  BY <1>1, IdleKeeps DEF listings, Base, LayoutOK, DiskOK, RunOK
<1>5. InBook'
  <2>1. /\ book \in 1 .. Len(layout) /\ BookOK(layout[book], base)
        /\ here \in 1 .. Len(layout[book]) /\ Len(layout[book]) \in Nat
    BY <1>1, EntryFacts DEF Base, InBook, Working
  <2>2. here' \in 1 .. Len(layout[book]) + 1
    BY <1>1, <2>1
  <2> QED BY <1>1, <2>1, <2>2, DoneShape DEF InBook
<1>6. part' = 1 /\ sum' = 0 /\ asked'[Syncer] = None
  BY <1>1, <1>3 DEF lookup, listings
<1>7. InEntry'
  BY <1>1 DEF InEntry
<1>8. resolved' \in BOOLEAN /\ changed' \in BOOLEAN
  BY <1>1
<1>9. InCell'
  BY <1>6, <1>8 DEF InCell
<1> QED BY <1>4, <1>5, <1>7, <1>9 DEF Base

LEMMA StartBase ==
  ASSUME Base, Start  PROVE Base'
<1>1. /\ run = "off" /\ LBegin(Syncer) /\ opts' \in Options /\ today' = now /\ book' = 1 /\ run' = "read"
      /\ runs' = runs + 1 /\ UNCHANGED <<layout, disk, base, held, here, walk, lookup, table>>
  BY DEF Start
<1>2. LInv' /\ born'[Syncer] = now /\ asked'[Syncer] = None /\ now \in Nat
  BY <1>1, BeginKeeps DEF Base, LInv
<1>3. LayoutOK' /\ DiskOK'
  BY <1>1 DEF Base, LayoutOK, DiskOK
<1>4. RunOK'
  <2>1. opts' \in OptionSet
    BY <1>1, SyncAssumption DEF OptionSet
  <2>2. runs \in Nat
    BY DEF Base, RunOK
  <2> QED BY <1>1, <1>2, <2>1, <2>2 DEF RunOK
<1>5. part = 1 /\ sum = 0
  BY <1>1, NothingAsked DEF AtCell
<1>6. InBook' /\ InEntry'
  BY <1>1 DEF Base, InBook, Working, InEntry, walk, table
<1>7. InCell'
  BY <1>1, <1>2, <1>5 DEF Base, InCell, lookup, table
<1> QED BY <1>2, <1>3, <1>6, <1>7, <1>4 DEF Base

LEMMA ReadBookBase ==
  ASSUME Base, ReadBook  PROVE Base' /\ BookOK(layout[book], disk[book]) /\ book \in 1 .. Len(layout)
<1>1. /\ run = "read" /\ book <= Len(disk) /\ disk[book] # Torn /\ base' = disk[book] /\ held' = disk[book]
      /\ here' = 1 /\ run' = "entry"
      /\ UNCHANGED <<listings, layout, disk, opts, today, book, walk, lookup, table, runs>>
  BY DEF ReadBook
<1>2. LInv' /\ LayoutOK' /\ DiskOK' /\ RunOK'
  BY <1>1, IdleKeeps DEF listings, Base, LayoutOK, DiskOK, RunOK
<1>3. book \in 1 .. Len(layout) /\ Len(layout) \in Nat
  BY <1>1, DiskLength DEF Base, RunOK
<1>4. BookOK(layout[book], disk[book])
  BY <1>1, <1>3 DEF Base, DiskOK
<1>5. Len(layout[book]) \in Nat
  BY <1>3, <1>4, BookLength DEF Base
<1>6. InBook'
  BY <1>1, <1>3, <1>4, <1>5 DEF InBook
<1>7. ~ AtCell
  BY <1>1 DEF AtCell
<1>8. InEntry' /\ InCell'
  BY <1>1, <1>7, NothingAsked DEF Base, InEntry, InCell, walk, lookup, table, listings
<1> QED BY <1>2, <1>3, <1>4, <1>6, <1>8 DEF Base

LEMMA AtEntry ==
  ASSUME Base, run = "entry", here <= Len(held)
  PROVE  /\ book \in 1 .. Len(layout) /\ Len(layout[book]) \in Nat /\ here \in 1 .. Len(layout[book])
         /\ EntryOK(Entry)
<1>1. /\ book \in 1 .. Len(layout) /\ here \in 1 .. Len(layout[book]) + 1
      /\ BookOK(layout[book], held)
  BY DEF Base, InBook, Working
<1>2. Len(layout[book]) \in Nat /\ Len(held) = Len(layout[book])
  BY <1>1, BookLength DEF Base
<1> QED BY <1>1, <1>2 DEF Base, LayoutOK, Entry

LEMMA OrderIsOK ==
  ASSUME opts \in OptionSet  PROVE OrderOK(Entry, Order)
BY TableOrdered, RegionalOrdered DEF Order

LEMMA BeginEntryBase ==
  ASSUME Base, BeginEntry  PROVE Base'
<1>1. /\ run = "entry" /\ here <= Len(held) /\ Entry.synced /\ order' = Order /\ run' = "cells"
      /\ UNCHANGED <<listings, layout, disk, opts, today, book, base, held, here, place, row, lookup, table, runs>>
  BY DEF BeginEntry
<1>2. /\ book \in 1 .. Len(layout) /\ here \in 1 .. Len(layout[book]) /\ EntryOK(Entry)
      /\ OrderOK(Entry, Order)
  BY <1>1, AtEntry, OrderIsOK DEF Base, RunOK
<1>3. LInv' /\ LayoutOK' /\ DiskOK' /\ RunOK' /\ InBook'
  BY <1>1, IdleKeeps DEF listings, Base, LayoutOK, DiskOK, RunOK, InBook, Working
<1>4. place = 1 /\ row = 1 /\ Len(Order) \in Nat /\ Len(Entry.rows) \in Nat /\ Len(Entry.rows) > 0
  BY <1>1, <1>2 DEF Base, InEntry, OrderOK, EntryOK
<1>5. InEntry'
  BY <1>1, <1>2, <1>4 DEF InEntry, Entry
<1>6. ~ AtCell
  BY <1>1 DEF AtCell
<1>7. InCell'
  BY <1>1, <1>6, NothingAsked DEF Base, InCell, lookup, table, listings
<1> QED BY <1>3, <1>5, <1>7 DEF Base

LEMMA SkipEntryBase ==
  ASSUME Base, SkipEntry  PROVE Base'
<1>1. /\ run = "entry" /\ here <= Len(held) /\ here' = here + 1
      /\ UNCHANGED <<listings, layout, disk, run, opts, today, book, base, held, walk, lookup, table, runs>>
  BY DEF SkipEntry
<1>2. LInv' /\ LayoutOK' /\ DiskOK' /\ RunOK'
  BY <1>1, IdleKeeps DEF listings, Base, LayoutOK, DiskOK, RunOK
<1>3. here' \in 1 .. Len(layout[book]) + 1
  BY <1>1, AtEntry
<1>4. InBook'
  BY <1>1, <1>3 DEF Base, InBook, Working
<1>5. ~ AtCell
  BY <1>1 DEF AtCell
<1>6. InEntry' /\ InCell'
  BY <1>1, <1>5, NothingAsked DEF Base, InEntry, InCell, walk, lookup, table, listings
<1> QED BY <1>2, <1>4, <1>6 DEF Base

LEMMA TruncateBase ==
  ASSUME Base, Truncate  PROVE Base'
<1>1. /\ run = "entry" /\ disk' = [disk EXCEPT ![book] = Torn] /\ run' = "write"
      /\ UNCHANGED <<listings, layout, opts, today, book, base, held, here, walk, lookup, table, runs>>
  BY DEF Truncate
<1>2. LInv' /\ LayoutOK' /\ RunOK' /\ InBook'
  BY <1>1, IdleKeeps DEF listings, Base, LayoutOK, RunOK, InBook, Working
<1>3. DiskOK'
  <2>1. DOMAIN disk' = 1 .. Len(layout) /\ disk' = [b \in 1 .. Len(layout) |-> disk'[b]]
    BY <1>1 DEF Base, DiskOK
  <2>2. disk' \in [1 .. Len(layout) -> ToSet(disk')]
    BY <2>1 DEF ToSet
  <2>3. \A b \in 1 .. Len(layout) : disk'[b] # Torn => disk'[b] = disk[b]
    BY <1>1 DEF Base, DiskOK
  <2> QED BY <1>1, <2>2, <2>3 DEF Base, DiskOK
<1>4. ~ AtCell
  BY <1>1 DEF AtCell
<1>5. InEntry' /\ InCell'
  BY <1>1, <1>4, NothingAsked DEF Base, InEntry, InCell, walk, lookup, table, listings
<1> QED BY <1>2, <1>3, <1>5 DEF Base

LEMMA NextBookBase ==
  ASSUME Base, NextBook  PROVE Base'
<1>1. /\ run \in {"write", "entry"}
      /\ (disk' = [disk EXCEPT ![book] = held] \/ disk' = disk)
      /\ book' = book + 1 /\ run' = "read"
      /\ UNCHANGED <<listings, layout, opts, today, walk, lookup, table, runs>>
  BY DEF NextBook
<1>2. LInv' /\ LayoutOK' /\ RunOK' /\ InBook'
  BY <1>1, IdleKeeps DEF listings, Base, LayoutOK, RunOK, InBook, Working
<1>3. DiskOK'
  <2>1. DOMAIN disk' = 1 .. Len(layout) /\ disk' = [b \in 1 .. Len(layout) |-> disk'[b]]
    BY <1>1 DEF Base, DiskOK
  <2>2. disk' \in [1 .. Len(layout) -> ToSet(disk')]
    BY <2>1 DEF ToSet
  <2>3. \A b \in 1 .. Len(layout) : disk'[b] = disk[b] \/ (b = book /\ disk'[b] = held)
    BY <1>1 DEF Base, DiskOK
  <2>4. BookOK(layout[book], held)
    BY <1>1 DEF Base, InBook, Working
  <2> QED BY <1>1, <2>2, <2>3, <2>4 DEF Base, DiskOK
<1>4. ~ AtCell
  BY <1>1 DEF AtCell
<1>5. InEntry' /\ InCell'
  BY <1>1, <1>4, NothingAsked DEF Base, InEntry, InCell, walk, lookup, table, listings
<1> QED BY <1>2, <1>3, <1>5 DEF Base

LEMMA StopBase ==
  ASSUME Base, Stop  PROVE Base'
<1>1. LInv' /\ born'[Syncer] = None /\ asked'[Syncer] = None
  BY EndKeeps DEF Base, Stop
<1>2. /\ run' = "off" /\ order' = <<>> /\ place' = 1 /\ row' = 1 /\ part' = 1 /\ sum' = 0
      /\ resolved' = TRUE /\ changed' = FALSE /\ used' = {}
      /\ UNCHANGED <<layout, disk, opts, today, book, runs>>
  BY DEF Stop
<1>3. LayoutOK' /\ DiskOK'
  BY <1>2 DEF Base, LayoutOK, DiskOK
<1>4. RunOK'
  BY <1>1, <1>2 DEF Base, RunOK
<1>5. InBook' /\ InEntry'
  BY <1>2 DEF InBook, Working, InEntry
<1>6. resolved' \in BOOLEAN /\ changed' \in BOOLEAN
  BY <1>2
<1>7. InCell'
  BY <1>1, <1>2, <1>6 DEF InCell
<1> QED BY <1>1, <1>3, <1>4, <1>5, <1>7 DEF Base

LEMMA StutterBase ==
  ASSUME Base, UNCHANGED vars  PROVE Base'
<1>1. LInv'
  BY IdleKeeps DEF Base, vars
<1>2. LayoutOK' /\ DiskOK' /\ RunOK' /\ InBook' /\ InEntry'
  BY DEF vars, syncvars, walk, lookup, table, listings, Base, LayoutOK, DiskOK, RunOK, InBook, Working, InEntry, Entry
<1>3. InCell'
  BY DEF vars, syncvars, walk, lookup, table, listings, Base, InCell, AtCell, Wanted, Offered, Source, Step,
         Entry, Had, Cell, Parts, Days, ReadFor
<1> QED BY <1>1, <1>2, <1>3 DEF Base

LEMMA StartsBased ==
  ASSUME Init  PROVE Base
<1>1. LInv /\ born[Syncer] = None /\ asked[Syncer] = None
  BY StartsListening, SyncAssumption DEF Init, LInit
<1>2. PICK c \in Catalogs : layout = c.layout /\ disk = c.disk
  BY DEF Init
<1>3. CatalogOK(c)
  BY SyncAssumption
<1>4. LayoutOK /\ DiskOK
  BY <1>2, <1>3 DEF CatalogOK, LayoutOK, DiskOK
<1>5. opts \in OptionSet
  BY DEF Init, OptionSet
<1>6. RunOK
  BY <1>1, <1>5 DEF Init, RunOK
<1>7. InBook /\ InEntry
  BY DEF Init, InBook, Working, InEntry
<1>8. part = 1 /\ sum = 0 /\ resolved \in BOOLEAN /\ changed \in BOOLEAN
  BY DEF Init
<1>9. InCell
  BY <1>1, <1>8 DEF InCell
<1> QED BY <1>1, <1>4, <1>6, <1>7, <1>9 DEF Base

LEMMA BaseStep ==
  ASSUME Base, [Next]_vars  PROVE Base'
<1>1. CASE Syncing
  BY <1>1, StartBase, ReadBookBase, BeginEntryBase, SkipEntryBase, PassOverBase, NotOfferedBase, AskPartBase,
     AnswerBase, TakePartBase, EntryDoneBase, TruncateBase, NextBookBase, StopBase DEF Syncing, Done
<1>2. CASE Killed
  BY <1>2, StopBase DEF Killed
<1> QED BY <1>1, <1>2, MidnightBase, StutterBase DEF Next

LEMMA BaseHolds == Spec => []Base
<1>1. Init => Base
  BY StartsBased
<1>2. Base /\ [Next]_vars => Base'
  BY BaseStep
<1> QED BY <1>1, <1>2, PTL DEF Spec


-----------------------------------------------------------------------------
(***************************************************************************)
(* The steps, by what they do to the book in memory and to the file.        *)
(***************************************************************************)
Leaves ==
  /\ UNCHANGED <<layout, disk>> /\ now <= now'
  /\ Working' => Working /\ UNCHANGED <<book, base, held, today>>

Settles ==
  /\ AtCell /\ Wanted /\ \E q : Settle(q) /\ QuoteOK(q)
  /\ UNCHANGED <<now, layout, disk, run, opts, today, book, base, here, order, runs>>

LEMMA SameDay ==
  ASSUME Base  PROVE now \in Nat /\ now <= now
BY DEF Base, LInv

LEMMA StepKinds ==
  ASSUME Base, [Next]_vars
  PROVE  Leaves \/ Settles \/ EntryDone \/ ReadBook \/ Truncate \/ NextBook
<1>1. CASE Start \/ Done \/ Killed
  <2>1. UNCHANGED <<layout, disk, now>> /\ ~ Working'
    BY <1>1 DEF Start, Done, Killed, Stop, Working, LBegin, LEnd
  <2> QED BY <2>1, SameDay DEF Leaves
<1>2. CASE BeginEntry \/ SkipEntry \/ PassOver
  <2>1. UNCHANGED <<layout, disk, now, book, base, held, today>> /\ (Working' => Working)
    BY <1>2 DEF BeginEntry, SkipEntry, PassOver, Working, listings
  <2> QED BY <2>1, SameDay DEF Leaves
<1>3. CASE NotOffered
  <2>1. AtCell /\ Wanted /\ Settle(Absent) /\ QuoteOK(Absent)
    BY <1>3, NotOfferedQuote
  <2>2. UNCHANGED <<now, layout, disk, run, opts, today, book, base, here, order, runs>>
    BY <1>3 DEF NotOffered, listings
  <2> QED BY <2>1, <2>2 DEF Settles
<1>4. CASE AskPart \/ Answer
  <2>1. UNCHANGED syncvars /\ now' = now
    BY <1>4 DEF AskPart, Answer, LAsk, LAnswer, LRefuse
  <2>2. UNCHANGED <<layout, disk, now, book, base, held, today>> /\ (Working' => Working)
    BY <2>1 DEF syncvars, Working
  <2> QED BY <2>2, SameDay DEF Leaves
<1>5. CASE TakePart
  <2>1. UNCHANGED <<now, layout, disk, run, opts, today, book, base, here, order, runs>>
    BY <1>5 DEF TakePart, LTake
  <2>2. CASE \E q : Settle(q) /\ QuoteOK(q)
    BY <1>5, <2>1, <2>2, TakePartQuote DEF Settles
  <2>3. CASE \E s : PartTaken(s)
    <3>1. UNCHANGED held
      BY <2>3 DEF PartTaken
    <3> QED BY <2>1, <3>1, SameDay DEF Leaves, Working
  <2> QED BY <1>5, <2>2, <2>3, TakePartQuote
<1>6. CASE Midnight
  <2>1. UNCHANGED syncvars /\ now' = now + 1
    BY <1>6 DEF Midnight, LTick
  <2>2. UNCHANGED <<layout, disk, book, base, held, today>> /\ (Working' => Working)
    BY <2>1 DEF syncvars, Working
  <2> QED BY <2>1, <2>2, SameDay DEF Leaves
<1>7. CASE UNCHANGED vars
  <2>1. UNCHANGED <<layout, disk, now, book, base, held, today>> /\ (Working' => Working)
    BY <1>7 DEF vars, syncvars, listings, Working
  <2> QED BY <2>1, SameDay DEF Leaves
<1> QED BY <1>1, <1>2, <1>3, <1>4, <1>5, <1>6, <1>7 DEF Next, Syncing

-----------------------------------------------------------------------------
(***************************************************************************)
(* What is dated was listed, in the file and in memory; and nothing is      *)
(* forgotten of the book that was read.                                     *)
(***************************************************************************)
ReadBy(day, t) == {d \in 0 .. t : d + Oldest >= day}

ListedBy(e, x, t) ==
  \A c \in DOMAIN x.values :
    LET date == x.dates[c]
    IN  date.verified /\ date.checked >= 0 => x.values[c] \in CouldCost(e, c, ReadBy(date.checked, t))

StandsBy(e, was, is, days) ==
  /\ \A c \in DOMAIN was : c \in DOMAIN is /\ (was[c] # None => is[c] # None)
  /\ \A c \in DOMAIN is : (c \in DOMAIN was /\ is[c] = was[c]) \/ is[c] \in CouldCost(e, c, days)

AllListed(entries, content, t) ==
  \A n \in DOMAIN content : entries[n].synced /\ ~ entries[n].table => ListedBy(entries[n], content[n], t)

AllStand(entries, was, is, days) ==
  \A n \in DOMAIN was : StandsBy(entries[n], was[n].values, is[n].values, days)

DiskListed == \A b \in 1 .. Len(layout) : AllListed(layout[b], disk[b], now)
HeldListed == Working => AllListed(layout[book], held, now)
HeldStands == Working => AllStand(layout[book], base, held, ReadBy(today, now))

LEMMA PartsCounted ==
  ASSUME NEW e, EntryOK(e), NEW c \in ToSet(e.rows) \X Places  PROVE Len(e.quoted[c[1]].parts) \in Nat
<1>1. e.quoted[c[1]] \in Quotes
  BY DEF EntryOK
<1> QED BY <1>1 DEF Quotes

LEMMA LaterCost ==
  ASSUME NEW e, EntryOK(e), NEW c \in ToSet(e.rows) \X Places, NEW day,
         NEW t \in Nat, NEW u \in Nat, t <= u
  PROVE  CouldCost(e, c, ReadBy(day, t)) \subseteq CouldCost(e, c, ReadBy(day, u))
<1>1. ReadBy(day, t) \subseteq ReadBy(day, u)
  BY DEF ReadBy
<1> QED BY <1>1, PartsCounted, CostGrows

LEMMA ListedLonger ==
  ASSUME NEW e, EntryOK(e), NEW x, ContentOK(e, x), NEW t \in Nat, NEW u \in Nat, t <= u, ListedBy(e, x, t)
  PROVE  ListedBy(e, x, u)
<1>1. SUFFICES ASSUME NEW c \in DOMAIN x.values, x.dates[c].verified, x.dates[c].checked >= 0
               PROVE  x.values[c] \in CouldCost(e, c, ReadBy(x.dates[c].checked, u))
  BY DEF ListedBy
<1>2. x.values[c] \in CouldCost(e, c, ReadBy(x.dates[c].checked, t))
  BY <1>1 DEF ListedBy
<1>3. c \in ToSet(e.rows) \X Places
  BY DEF ContentOK
<1> QED BY <1>2, <1>3, LaterCost

LEMMA AllListedLonger ==
  ASSUME NEW entries, Len(entries) \in Nat, \A n \in 1 .. Len(entries) : EntryOK(entries[n]),
         NEW content, BookOK(entries, content),
         NEW t \in Nat, NEW u \in Nat, t <= u, AllListed(entries, content, t)
  PROVE  AllListed(entries, content, u)
<1>1. DOMAIN content = 1 .. Len(entries) /\ \A n \in 1 .. Len(entries) : ContentOK(entries[n], content[n])
  BY DEF BookOK
<1> QED BY <1>1, ListedLonger DEF AllListed

LEMMA AllStandLonger ==
  ASSUME NEW entries, Len(entries) \in Nat, \A n \in 1 .. Len(entries) : EntryOK(entries[n]),
         NEW was, BookOK(entries, was), NEW is, BookOK(entries, is),
         NEW day, NEW t \in Nat, NEW u \in Nat, t <= u, AllStand(entries, was, is, ReadBy(day, t))
  PROVE  AllStand(entries, was, is, ReadBy(day, u))
<1>1. DOMAIN was = 1 .. Len(entries) /\ \A n \in 1 .. Len(entries) : ContentOK(entries[n], is[n])
  BY DEF BookOK
<1>2. SUFFICES ASSUME NEW n \in 1 .. Len(entries)
               PROVE  StandsBy(entries[n], was[n].values, is[n].values, ReadBy(day, u))
  BY <1>1 DEF AllStand
<1>3. StandsBy(entries[n], was[n].values, is[n].values, ReadBy(day, t))
  BY <1>1 DEF AllStand
<1>4. \A c \in DOMAIN is[n].values :
        CouldCost(entries[n], c, ReadBy(day, t)) \subseteq CouldCost(entries[n], c, ReadBy(day, u))
  BY <1>1, LaterCost DEF ContentOK
<1> QED BY <1>3, <1>4 DEF StandsBy

LEMMA NothingLost ==
  ASSUME NEW entries, NEW was, NEW days  PROVE AllStand(entries, was, was, days)
BY DEF AllStand, StandsBy

\* A value that is priced keeps both.
LEMMA SettleListed ==
  ASSUME Base, AtCell, ~ Entry.table, NEW q, QuoteOK(q), ~ Stays(q), ListedBy(Entry, held[here], now)
  PROVE  ListedBy(Entry, Priced(held, q)[here], now)
<1> DEFINE x == held[here]
           y == Priced(held, q)[here]
<1>1. /\ Valued(q) \in Prices /\ Valued(q) \in CouldCost(Entry, Cell, Days)
  BY SettledPrice
<1>2. y.values = With(x.values, Cell, Valued(q)) /\ y.dates = With(x.dates, Cell, NewDate(q))
  BY <1>1, PricedShape
<1>3. DOMAIN x.dates = DOMAIN x.values
  BY CellFacts DEF ContentOK
<1> HIDE DEF x, y
<1>4. /\ DOMAIN y.values = DOMAIN x.values \cup {Cell}
      /\ y.values[Cell] = Valued(q) /\ y.dates[Cell] = NewDate(q)
      /\ \A c \in DOMAIN x.values : c # Cell => y.values[c] = x.values[c] /\ y.dates[c] = x.dates[c]
  BY <1>2, <1>3 DEF With
<1>5. ListedBy(Entry, x, now)
  BY DEF x
<1>6. ASSUME NewDate(q).verified, NewDate(q).checked >= 0
      PROVE  Valued(q) \in CouldCost(Entry, Cell, ReadBy(NewDate(q).checked, now))
  <2>1. CASE OldDate.verified /\ Valued(q) = Old
    <3>1. Had /\ OldDate = x.dates[Cell] /\ Old = x.values[Cell] /\ Cell \in DOMAIN x.values
      BY <2>1 DEF OldDate, Old, Had, x
    <3>2. NewDate(q) = x.dates[Cell] /\ Valued(q) = x.values[Cell]
      BY <2>1, <3>1 DEF NewDate
    <3> QED BY <1>5, <1>6, <3>1, <3>2 DEF ListedBy
  <2>2. CASE ~ (OldDate.verified /\ Valued(q) = Old)
    <3>1. NewDate(q).checked = today
      BY <2>2 DEF NewDate
    <3> QED BY <1>1, <3>1 DEF Days, ReadFor, ReadBy
  <2> QED BY <2>1, <2>2
<1>7. ListedBy(Entry, y, now)
  BY <1>4, <1>5, <1>6 DEF ListedBy
<1> QED BY <1>7 DEF y

LEMMA SettleStands ==
  ASSUME Base, AtCell, NEW q, QuoteOK(q), ~ Stays(q),
         NEW was, StandsBy(Entry, was, held[here].values, ReadBy(today, now))
  PROVE  StandsBy(Entry, was, Priced(held, q)[here].values, ReadBy(today, now))
<1> DEFINE is == held[here].values
           js == Priced(held, q)[here].values
<1>1. /\ Valued(q) \in Prices /\ Valued(q) \in CouldCost(Entry, Cell, ReadBy(today, now))
      /\ Valued(q) = None => Old = None
  BY SettledPrice DEF Days, ReadFor, ReadBy
<1>2. js = With(is, Cell, Valued(q))
  BY <1>1, PricedShape
<1>3. Cell \in DOMAIN is => Old = is[Cell]
  BY DEF Old, Had
<1> HIDE DEF is, js
<1>4. /\ DOMAIN js = DOMAIN is \cup {Cell} /\ js[Cell] = Valued(q)
      /\ \A c \in DOMAIN is : c # Cell => js[c] = is[c]
  BY <1>2 DEF With
<1>5. StandsBy(Entry, was, is, ReadBy(today, now))
  BY DEF is
<1>6. StandsBy(Entry, was, js, ReadBy(today, now))
  BY <1>1, <1>3, <1>4, <1>5 DEF StandsBy
<1> QED BY <1>6 DEF js


History == DiskListed /\ HeldListed /\ HeldStands

LEMMA BookFacts ==
  ASSUME Base, Working
  PROVE  /\ book \in 1 .. Len(layout) /\ Len(layout[book]) \in Nat
         /\ \A n \in 1 .. Len(layout[book]) : EntryOK(layout[book][n])
         /\ BookOK(layout[book], base) /\ BookOK(layout[book], held)
         /\ DOMAIN base = 1 .. Len(layout[book]) /\ DOMAIN held = 1 .. Len(layout[book])
<1>1. book \in 1 .. Len(layout) /\ BookOK(layout[book], base) /\ BookOK(layout[book], held)
  BY DEF Base, InBook
<1> QED BY <1>1, BookLength DEF Base, LayoutOK, BookOK

LEMMA LeavesHistory ==
  ASSUME Base, History, Leaves, now' \in Nat  PROVE History'
<1>1. now \in Nat /\ now <= now' /\ UNCHANGED <<layout, disk>>
  BY SameDay DEF Leaves
<1>2. ASSUME NEW b \in 1 .. Len(layout)  PROVE AllListed(layout[b], disk[b], now')
  <2>1. AllListed(layout[b], disk[b], now)
    BY DEF History, DiskListed
  <2>2. CASE disk[b] = Torn
    BY <2>2 DEF AllListed, Torn
  <2>3. CASE disk[b] # Torn
    <3>1. BookOK(layout[b], disk[b])
      BY <2>3 DEF Base, DiskOK
    <3>2. Len(layout[b]) \in Nat /\ \A n \in 1 .. Len(layout[b]) : EntryOK(layout[b][n])
      BY <3>1, BookLength DEF Base, LayoutOK
    <3> QED BY <1>1, <2>1, <3>1, <3>2, AllListedLonger
  <2> QED BY <2>2, <2>3
<1>3. DiskListed'
  BY <1>1, <1>2 DEF DiskListed
<1>4. CASE ~ Working'
  BY <1>3, <1>4 DEF History, HeldListed, HeldStands
<1>5. CASE Working'
  <2>1. Working /\ UNCHANGED <<book, base, held, today>>
    BY <1>5 DEF Leaves
  <2>2. /\ AllListed(layout[book], held, now) /\ AllStand(layout[book], base, held, ReadBy(today, now))
    BY <2>1 DEF History, HeldListed, HeldStands
  <2>3. /\ AllListed(layout[book], held, now') /\ AllStand(layout[book], base, held, ReadBy(today, now'))
    BY <1>1, <2>1, <2>2, BookFacts, AllListedLonger, AllStandLonger
  <2>4. HeldListed' /\ HeldStands'
    BY <1>1, <2>1, <2>3 DEF HeldListed, HeldStands
  <2> QED BY <1>3, <2>4 DEF History
<1> QED BY <1>4, <1>5

LEMMA SettlesHistory ==
  ASSUME Base, History, Settles  PROVE History'
<1>1. AtCell /\ UNCHANGED <<now, layout, disk, run, today, book, base, here>>
  BY DEF Settles
<1>2. PICK q : Settle(q) /\ QuoteOK(q)
  BY DEF Settles
<1>3. Working /\ held' = IF Stays(q) THEN held ELSE Priced(held, q)
  BY <1>1, <1>2 DEF AtCell, Working, Settle
<1>4. DiskListed' /\ Working' = Working
  BY <1>1 DEF History, DiskListed, Working
<1>5. /\ AllListed(layout[book], held, now) /\ AllStand(layout[book], base, held, ReadBy(today, now))
  BY <1>3 DEF History, HeldListed, HeldStands
<1>6. AllListed(layout[book], held', now) /\ AllStand(layout[book], base, held', ReadBy(today, now))
  <2>1. CASE Stays(q)
    BY <1>3, <1>5, <2>1
  <2>2. CASE ~ Stays(q)
    <3>1. /\ Valued(q) \in Prices /\ held' = Priced(held, q)
      BY <1>2, <1>3, <2>2, SettledPrice
    <3>2. /\ here \in 1 .. Len(layout[book]) /\ DOMAIN held' = 1 .. Len(layout[book])
          /\ \A n \in 1 .. Len(layout[book]) : n # here => held'[n] = held[n]
      BY <1>1, <3>1, PricedShape, CellFacts DEF BookOK
    <3>3. DOMAIN held = 1 .. Len(layout[book]) /\ DOMAIN base = 1 .. Len(layout[book])
      BY <1>3, BookFacts
    <3>4. Entry.synced /\ ~ Entry.table => ListedBy(Entry, held'[here], now)
      <4>1. ASSUME Entry.synced, ~ Entry.table  PROVE ListedBy(Entry, held[here], now)
        BY <1>5, <3>2, <3>3, <4>1 DEF AllListed, Entry
      <4> QED BY <1>1, <1>2, <2>2, <3>1, <4>1, SettleListed
    <3>5. AllListed(layout[book], held', now)
      BY <1>5, <3>2, <3>3, <3>4 DEF AllListed, Entry
    <3>6. StandsBy(Entry, base[here].values, held[here].values, ReadBy(today, now))
      BY <1>5, <3>2, <3>3 DEF AllStand, Entry
    <3>7. StandsBy(Entry, base[here].values, held'[here].values, ReadBy(today, now))
      BY <1>1, <1>2, <2>2, <3>1, <3>6, SettleStands
    <3>8. AllStand(layout[book], base, held', ReadBy(today, now))
      BY <1>5, <3>2, <3>3, <3>7 DEF AllStand, Entry
    <3> QED BY <3>5, <3>8
  <2> QED BY <2>1, <2>2
<1>7. HeldListed' /\ HeldStands'
  BY <1>1, <1>6 DEF HeldListed, HeldStands
<1> QED BY <1>4, <1>7 DEF History

LEMMA DoneHistory ==
  ASSUME Base, History, EntryDone  PROVE History'
<1>1. /\ Working /\ UNCHANGED <<now, layout, disk, today, book, base>> /\ here \in 1 .. Len(layout[book])
  BY EntryFacts DEF EntryDone, listings, Working
<1>2. /\ AllListed(layout[book], held, now) /\ AllStand(layout[book], base, held, ReadBy(today, now))
  BY <1>1 DEF History, HeldListed, HeldStands
<1>3. /\ DOMAIN held = 1 .. Len(layout[book]) /\ DOMAIN base = 1 .. Len(layout[book])
      /\ DOMAIN held' = 1 .. Len(layout[book])
  BY <1>1, BookFacts, DoneShape DEF BookOK
<1>4. /\ \A n \in 1 .. Len(layout[book]) : held'[n].values = held[n].values
      /\ \A n \in 1 .. Len(layout[book]) : ~ layout[book][n].table => held'[n] = held[n]
  BY <1>1, DoneShape DEF Entry
<1>5. AllListed(layout[book], held', now)
  BY <1>2, <1>3, <1>4 DEF AllListed
<1>6. AllStand(layout[book], base, held', ReadBy(today, now))
  BY <1>2, <1>3, <1>4 DEF AllStand
<1>7. HeldListed' /\ HeldStands' /\ DiskListed'
  BY <1>1, <1>5, <1>6 DEF HeldListed, HeldStands, History, DiskListed
<1> QED BY <1>7 DEF History

LEMMA ReadHistory ==
  ASSUME Base, History, ReadBook  PROVE History'
<1>1. /\ UNCHANGED <<now, layout, disk, today, book>> /\ base' = disk[book] /\ held' = disk[book]
      /\ book \in 1 .. Len(layout)
  BY ReadBookBase DEF ReadBook, listings
<1>2. AllListed(layout[book], held', now)
  BY <1>1 DEF History, DiskListed
<1>3. AllStand(layout[book], base', held', ReadBy(today, now))
  BY <1>1, NothingLost
<1>4. HeldListed' /\ HeldStands' /\ DiskListed'
  BY <1>1, <1>2, <1>3 DEF HeldListed, HeldStands, History, DiskListed
<1> QED BY <1>4 DEF History

LEMMA TruncateHistory ==
  ASSUME Base, History, Truncate  PROVE History'
<1>1. /\ UNCHANGED <<now, layout, today, book, base, held>> /\ disk' = [disk EXCEPT ![book] = Torn] /\ Working
  BY DEF Truncate, listings, Working
<1>2. \A b \in 1 .. Len(layout) : disk'[b] = disk[b] \/ disk'[b] = Torn
  BY <1>1 DEF Base, DiskOK
<1>3. DOMAIN Torn = {}
  BY DEF Torn
<1>4. \A b \in 1 .. Len(layout) : AllListed(layout[b], disk'[b], now)
  BY <1>2, <1>3 DEF History, DiskListed, AllListed
<1>5. HeldListed' /\ HeldStands' /\ DiskListed'
  BY <1>1, <1>4 DEF HeldListed, HeldStands, History, DiskListed
<1> QED BY <1>5 DEF History

LEMMA NextBookHistory ==
  ASSUME Base, History, NextBook  PROVE History'
<1>1. /\ UNCHANGED <<now, layout>> /\ run' = "read" /\ Working
      /\ (disk' = [disk EXCEPT ![book] = held] \/ disk' = disk)
  BY DEF NextBook, listings, Working
<1>2. \A b \in 1 .. Len(layout) : disk'[b] = disk[b] \/ (b = book /\ disk'[b] = held)
  BY <1>1 DEF Base, DiskOK
<1>3. AllListed(layout[book], held, now)
  BY <1>1 DEF History, HeldListed
<1>4. DiskListed'
  BY <1>1, <1>2, <1>3 DEF History, DiskListed
<1>5. HeldListed' /\ HeldStands'
  BY <1>1 DEF HeldListed, HeldStands, Working
<1> QED BY <1>4, <1>5 DEF History

LEMMA StartsHistory ==
  ASSUME Init  PROVE History
<1>1. PICK c \in Catalogs : layout = c.layout /\ disk = c.disk
  BY DEF Init
<1>2. CatalogOK(c)
  BY SyncAssumption
<1>3. ASSUME NEW b \in 1 .. Len(layout), NEW n \in DOMAIN disk[b], ~ layout[b][n].table
      PROVE  ListedBy(layout[b][n], disk[b][n], now)
  <2>1. BookOK(layout[b], disk[b]) /\ ContentOK(layout[b][n], disk[b][n])
        /\ \A k \in DOMAIN disk[b][n].dates : Earlier(disk[b][n].dates[k])
    BY <1>1, <1>2 DEF CatalogOK, BookOK
  <2>2. disk[b][n].dates \in [DOMAIN disk[b][n].values -> Dates]
    BY <1>3, <2>1 DEF ContentOK
  <2>3. ASSUME NEW k \in DOMAIN disk[b][n].values, disk[b][n].dates[k].verified
        PROVE  ~ disk[b][n].dates[k].checked >= 0
    <3>1. disk[b][n].dates[k] \in Dates /\ Earlier(disk[b][n].dates[k])
      BY <2>1, <2>2
    <3> QED BY <2>3, <3>1 DEF Earlier, Dates
  <2> QED BY <2>3 DEF ListedBy
<1>4. DiskListed
  BY <1>3 DEF DiskListed, AllListed
<1> QED BY <1>4 DEF Init, History, HeldListed, HeldStands, Working

LEMMA HistoryStep ==
  ASSUME Base, History, [Next]_vars  PROVE History'
<1>1. now' \in Nat
  BY BaseStep DEF Base, LInv
<1> QED BY <1>1, StepKinds, LeavesHistory, SettlesHistory, DoneHistory, ReadHistory, TruncateHistory, NextBookHistory

(***************************************************************************)
(* Every price of a region that sync verified and dated was on the price    *)
(* lists on a day that its clients may have read, whatever failed, was      *)
(* absent or was killed in between.                                         *)
(***************************************************************************)
THEOREM DatedPricesWereListed == Spec => []DatedWasListed
<1>1. Init => Base /\ History
  BY StartsBased, StartsHistory
<1>2. Base /\ History /\ [Next]_vars => Base' /\ History'
  BY BaseStep, HistoryStep
<1>3. ASSUME Base, History  PROVE DatedWasListed
  <2>1. DOMAIN disk = 1 .. Len(layout)
    BY <1>3, DiskLength DEF Base
  <2> QED BY <1>3, <2>1 DEF History, DiskListed, AllListed, ListedBy, ReadBy, DatedWasListed, WasListed, ReadFor
<1>4. Base /\ History => DatedWasListed
  BY <1>3
<1> QED BY <1>1, <1>2, <1>4, PTL DEF Spec

(***************************************************************************)
(* No run forgets a price, and what it changes becomes what the lists say.  *)
(***************************************************************************)
THEOREM NoPriceForgotten == Spec => []PricesStand
<1>1. Init => Base /\ History
  BY StartsBased, StartsHistory
<1>2. Base /\ History /\ [Next]_vars => Base' /\ History'
  BY BaseStep, HistoryStep
<1>3. Base /\ History => PricesStand
  BY DEF History, HeldStands, Working, AllStand, StandsBy, ReadBy, PricesStand, Stands, ReadFor
<1> QED BY <1>1, <1>2, <1>3, PTL DEF Spec


-----------------------------------------------------------------------------
(***************************************************************************)
(* A sync that finds what the book says leaves the book as it is.  A value  *)
(* is looked up once at most, so that what is still to come is as it was    *)
(* read, and a value that was changed is not changed back.                  *)
(***************************************************************************)
Checked(b) == \A k \in DOMAIN b.dates : b.dates[k].verified /\ b.dates[k].checked # None

\* What sync may do to the dates of an entry that was b and is h.
Keeps(e, b, h) ==
  IF e.table THEN h.values = b.values /\ Checked(b) => h.dates = b.dates
  ELSE \A c \in DOMAIN b.values :
         h.values[c] = b.values[c] /\ b.dates[c].verified => h.dates[c] = b.dates[c]

Changes(b, h) == \E c \in DOMAIN h.values : c \notin DOMAIN b.values \/ h.values[c] # b.values[c]

Later(j, i) == j > place \/ (j = place /\ i >= row)
Coming(j, i) ==
  /\ j \in 1 .. Len(order) /\ i \in 1 .. Len(Entry.rows) /\ Later(j, i)
  /\ Entry.table \/ ~ order[j].added

EntriesKept ==
  Working => \A n \in 1 .. Len(layout[book]) :
    /\ Keeps(layout[book][n], base[n], held[n])
    /\ n > here \/ (n = here /\ run # "cells") => held[n] = base[n]

TableKept ==
  run = "cells" /\ Entry.table =>
    held[here].dates = base[here].dates /\ (changed => Changes(base[here], held[here]))

Untouched ==
  run = "cells" => \A j, i :
    LET c == <<Entry.rows[i], order[j].region>> IN
    Coming(j, i) /\ c \in DOMAIN base[here].values =>
      /\ held[here].values[c] = base[here].values[c]
      /\ ~ Entry.table => held[here].dates[c] = base[here].dates[c]

Faithful == EntriesKept /\ TableKept /\ Untouched

LEMMA SameKeeps ==
  ASSUME NEW e, NEW b  PROVE Keeps(e, b, b)
BY DEF Keeps

LEMMA IdleFaithful ==
  ASSUME Faithful, UNCHANGED <<layout, book, base, held, here, run, order, place, row, changed>>
  PROVE  Faithful'
BY DEF Faithful, EntriesKept, TableKept, Untouched, Coming, Later, Working, Entry

LEMMA AwayFaithful ==
  ASSUME ~ Working'  PROVE Faithful'
BY DEF Faithful, EntriesKept, TableKept, Untouched, Working

\* Advance goes on, and does not come back.
LEMMA AdvanceOn ==
  ASSUME Base, AtCell, Advance, UNCHANGED <<layout, book, here, order>>, NEW j, NEW i, Coming(j, i)'
  PROVE  Coming(j, i) /\ (j > place \/ (j = place /\ i > row))
<1>1. /\ Len(order) \in Nat /\ place \in 1 .. Len(order)
      /\ row \in 1 .. Len(Entry.rows) /\ Len(Entry.rows) \in Nat
  BY CellFacts
<1>2. Entry' = Entry
  BY DEF Entry
<1>3. j \in 1 .. Len(order) /\ i \in 1 .. Len(Entry.rows) /\ (Entry.table \/ ~ order[j].added)
      /\ (j > place' \/ (j = place' /\ i >= row'))
  BY <1>2 DEF Coming, Later
<1>4. j > place \/ (j = place /\ i > row)
  BY <1>1, <1>3 DEF Advance
<1> QED BY <1>1, <1>3, <1>4 DEF Coming, Later

\* No value that is coming is the one that is looked up now.
LEMMA OtherCells ==
  ASSUME Base, AtCell, NEW j, NEW i, Coming(j, i), j > place \/ (j = place /\ i > row)
  PROVE  <<Entry.rows[i], order[j].region>> # Cell
<1>1. /\ Len(order) \in Nat /\ place \in 1 .. Len(order)
      /\ row \in 1 .. Len(Entry.rows) /\ Len(Entry.rows) \in Nat /\ EntryOK(Entry)
      /\ Cell[1] = Entry.rows[row] /\ Cell[2] = order[place].region
  BY CellFacts DEF Step
<1>2. j \in 1 .. Len(order) /\ i \in 1 .. Len(Entry.rows) /\ (Entry.table \/ ~ order[j].added)
  BY DEF Coming
<1>3. Distinct(Entry.rows) /\ OrderOK(Entry, order)
  BY <1>1 DEF EntryOK, AtCell, Base, InEntry
<1>4. SUFFICES ASSUME Entry.rows[i] = Entry.rows[row], order[j].region = order[place].region
               PROVE  FALSE
  BY <1>1
<1>5. i = row
  BY <1>1, <1>2, <1>3, <1>4 DEF Distinct
<1>6. j > place
  BY <1>1, <1>5
<1> QED BY <1>1, <1>2, <1>3, <1>4, <1>6 DEF OrderOK


LEMMA SettlesValues ==
  ASSUME Base, AtCell, NEW q, QuoteOK(q), ~ Stays(q), held' = Priced(held, q)
  PROVE  LET h == held[here]
             k == held'[here] IN
         /\ DOMAIN k.values = DOMAIN h.values \cup {Cell}
         /\ k.values[Cell] = Valued(q)
         /\ \A c \in DOMAIN h.values : c # Cell => k.values[c] = h.values[c]
         /\ Entry.table => k.dates = h.dates
         /\ ~ Entry.table => /\ DOMAIN h.dates = DOMAIN h.values /\ k.dates[Cell] = NewDate(q)
                             /\ \A c \in DOMAIN h.values : c # Cell => k.dates[c] = h.dates[c]
         /\ Cell \in DOMAIN h.values => Old = h.values[Cell] /\ (~ Entry.table => OldDate = h.dates[Cell])
         /\ Cell \notin DOMAIN h.values => Old = None
<1>1. /\ held'[here].values = With(held[here].values, Cell, Valued(q))
      /\ held'[here].dates = IF Entry.table THEN held[here].dates ELSE With(held[here].dates, Cell, NewDate(q))
  BY SettledPrice, PricedShape
<1>2. ~ Entry.table => DOMAIN held[here].dates = DOMAIN held[here].values
  BY CellFacts DEF ContentOK
<1> QED BY <1>1, <1>2 DEF With, Old, OldDate, Had

\* The value that is looked up is as it was read, or it is new.
LEMMA AsRead ==
  ASSUME Base, History, Faithful, AtCell, Wanted, Cell \in DOMAIN base[here].values
  PROVE  /\ Cell \in DOMAIN held[here].values /\ held[here].values[Cell] = base[here].values[Cell]
         /\ ~ Entry.table => held[here].dates[Cell] = base[here].dates[Cell]
<1>1. /\ run = "cells" /\ Working
      /\ Len(order) \in Nat /\ place \in 1 .. Len(order) /\ row \in 1 .. Len(Entry.rows)
      /\ Cell = <<Entry.rows[row], order[place].region>> /\ here \in 1 .. Len(layout[book])
  BY CellFacts DEF AtCell, Working, Cell, Step
<1>2. StandsBy(Entry, base[here].values, held[here].values, ReadBy(today, now))
  BY <1>1, BookFacts DEF History, HeldStands, AllStand, Entry
<1>3. Cell \in DOMAIN held[here].values
  BY <1>2 DEF StandsBy
<1>4. Entry.table \/ ~ order[place].added
  BY <1>3 DEF Wanted, Had, Step
<1>5. Coming(place, row)
  BY <1>1, <1>4 DEF Coming, Later
<1> QED BY <1>1, <1>3, <1>5 DEF Faithful, Untouched

LEMMA SettlesFaithful ==
  ASSUME Base, History, Faithful, Settles  PROVE Faithful'
<1> DEFINE N == Len(layout[book])
<1>1. /\ AtCell /\ Wanted
      /\ UNCHANGED <<layout, run, book, base, here, order>>
  BY DEF Settles
<1>2. PICK q : Settle(q) /\ QuoteOK(q)
  BY DEF Settles
<1>3. /\ run = "cells" /\ Working /\ Working' /\ run' = "cells" /\ here \in 1 .. N /\ Advance
      /\ held' = (IF Stays(q) THEN held ELSE Priced(held, q))
      /\ changed' = (changed \/ (~ Stays(q) /\ Valued(q) # Old))
  BY <1>1, <1>2, CellFacts DEF AtCell, Working, Settle
<1>4. Entry' = Entry
  BY <1>1 DEF Entry
<1>5. /\ Keeps(Entry, base[here], held[here])
      /\ \A n \in 1 .. N : n # here => Keeps(layout[book][n], base[n], held[n])
      /\ \A n \in 1 .. N : n > here => held[n] = base[n]
  BY <1>3 DEF Faithful, EntriesKept, Entry
<1>6. \A n \in 1 .. N : n # here => held'[n] = held[n]
  BY <1>1, <1>2, SettleShape
<1>7. ASSUME NEW j, NEW i, Coming(j, i)'
      PROVE  Coming(j, i) /\ <<Entry.rows[i], order[j].region>> # Cell
  BY <1>1, <1>3, <1>7, AdvanceOn, OtherCells
<1>8. Entry.table => held[here].dates = base[here].dates
  BY <1>3 DEF Faithful, TableKept
<1>9. CASE Stays(q)
  <2>1. held' = held /\ changed' = changed
    BY <1>3, <1>9 DEF Base, InCell
  <2>2. EntriesKept' /\ TableKept'
    BY <1>1, <1>3, <1>4, <2>1 DEF Faithful, EntriesKept, TableKept
  <2>3. Untouched'
    BY <1>1, <1>3, <1>4, <1>7, <2>1 DEF Faithful, Untouched
  <2> QED BY <2>2, <2>3 DEF Faithful
<1>10. CASE ~ Stays(q)
  <2> DEFINE b == base[here]
             h == held[here]
             k == held'[here]
  <2>1. held' = Priced(held, q)
    BY <1>3, <1>10
  <2>2. /\ DOMAIN k.values = DOMAIN h.values \cup {Cell}
        /\ k.values[Cell] = Valued(q)
        /\ \A c \in DOMAIN h.values : c # Cell => k.values[c] = h.values[c]
        /\ Entry.table => k.dates = h.dates
        /\ ~ Entry.table => /\ DOMAIN h.dates = DOMAIN h.values /\ k.dates[Cell] = NewDate(q)
                            /\ \A c \in DOMAIN h.values : c # Cell => k.dates[c] = h.dates[c]
        /\ Cell \in DOMAIN h.values => Old = h.values[Cell] /\ (~ Entry.table => OldDate = h.dates[Cell])
        /\ Cell \notin DOMAIN h.values => Old = None
    BY <1>1, <1>2, <1>10, <2>1, SettlesValues
  <2>3. Cell \in DOMAIN b.values =>
          /\ Cell \in DOMAIN h.values /\ h.values[Cell] = b.values[Cell]
          /\ ~ Entry.table => h.dates[Cell] = b.dates[Cell]
    BY <1>1, AsRead
  <2>4. DOMAIN b.values \subseteq DOMAIN h.values
    BY <1>3, BookFacts DEF History, HeldStands, AllStand, StandsBy
  <2> HIDE DEF b, h, k
  <2>5. Entry.table => k.dates = b.dates
    BY <1>8, <2>2 DEF b, h
  <2>6. Keeps(Entry, b, h)
    BY <1>5 DEF b, h
  <2>7. ASSUME ~ Entry.table, NEW c \in DOMAIN b.values, k.values[c] = b.values[c], b.dates[c].verified
        PROVE  k.dates[c] = b.dates[c]
    <3>1. CASE c # Cell
      BY <2>2, <2>4, <2>6, <2>7, <3>1 DEF Keeps
    <3>2. CASE c = Cell
      <4>1. Old = b.values[Cell] /\ OldDate = b.dates[Cell] /\ Valued(q) = Old /\ OldDate.verified
        BY <2>2, <2>3, <2>7, <3>2
      <4> QED BY <2>2, <2>7, <3>2, <4>1 DEF NewDate
    <3> QED BY <3>1, <3>2
  <2>8. Keeps(Entry, b, k)
    BY <2>5, <2>7 DEF Keeps
  <2>9. EntriesKept'
    BY <1>1, <1>3, <1>5, <1>6, <2>8 DEF EntriesKept, Entry, b, k
  <2>10. ASSUME Entry.table, changed'  PROVE Changes(b, k)
    <3>1. CASE Valued(q) # Old
      <4>1. CASE Cell \in DOMAIN b.values
        BY <2>2, <2>3, <3>1, <4>1 DEF Changes
      <4>2. CASE Cell \notin DOMAIN b.values
        BY <2>2, <4>2 DEF Changes
      <4> QED BY <4>1, <4>2
    <3>2. CASE Valued(q) = Old
      <4>1. changed
        BY <1>3, <2>10, <3>2 DEF Base, InCell
      <4>2. Changes(b, h)
        BY <1>3, <2>10, <4>1 DEF Faithful, TableKept, b, h
      <4> QED BY <2>2, <2>3, <4>2 DEF Changes
    <3> QED BY <3>1, <3>2
  <2>11. TableKept'
    BY <1>1, <1>3, <1>4, <2>5, <2>10 DEF TableKept, b, k
  <2>12. ASSUME NEW j, NEW i, Coming(j, i)', NEW c, c = <<Entry.rows[i], order[j].region>>, c \in DOMAIN b.values
         PROVE  k.values[c] = b.values[c] /\ (~ Entry.table => k.dates[c] = b.dates[c])
    <3>1. Coming(j, i) /\ c # Cell
      BY <1>7, <2>12
    <3>2. h.values[c] = b.values[c] /\ (~ Entry.table => h.dates[c] = b.dates[c])
      BY <1>3, <2>12, <3>1 DEF Faithful, Untouched, b, h
    <3> QED BY <2>2, <2>4, <2>12, <3>1, <3>2
  <2>13. Untouched'
    BY <1>1, <1>3, <1>4, <2>12 DEF Untouched, b, k
  <2> QED BY <2>9, <2>11, <2>13 DEF Faithful
<1> QED BY <1>9, <1>10


LEMMA PassOverFaithful ==
  ASSUME Base, Faithful, PassOver  PROVE Faithful'
<1>1. /\ AtCell /\ Advance /\ run = "cells"
      /\ UNCHANGED <<layout, run, book, base, held, here, order, changed>>
  BY DEF PassOver, AtCell, table
<1>2. Entry' = Entry
  BY <1>1 DEF Entry
<1>3. EntriesKept' /\ TableKept'
  BY <1>1, <1>2 DEF Faithful, EntriesKept, TableKept, Working
<1>4. \A j, i : Coming(j, i)' => Coming(j, i)
  BY <1>1, AdvanceOn
<1>5. Untouched'
  BY <1>1, <1>2, <1>4 DEF Faithful, Untouched
<1> QED BY <1>3, <1>5 DEF Faithful

LEMMA BeginFaithful ==
  ASSUME Base, Faithful, BeginEntry  PROVE Faithful'
<1>1. /\ run = "entry" /\ run' = "cells" /\ here <= Len(held)
      /\ UNCHANGED <<layout, book, base, held, here, changed>>
  BY DEF BeginEntry, table
<1>2. Entry' = Entry /\ here \in 1 .. Len(layout[book]) /\ Working /\ Working'
  BY <1>1, AtEntry DEF Entry, Working
<1>3. held[here] = base[here] /\ ~ changed
  BY <1>1, <1>2 DEF Faithful, EntriesKept, Base, InEntry
<1>4. EntriesKept'
  BY <1>1, <1>2, <1>3 DEF Faithful, EntriesKept
<1>5. TableKept' /\ Untouched'
  BY <1>1, <1>2, <1>3 DEF TableKept, Untouched
<1> QED BY <1>4, <1>5 DEF Faithful

LEMMA SkipFaithful ==
  ASSUME Base, Faithful, SkipEntry  PROVE Faithful'
<1>1. /\ run = "entry" /\ run' = "entry" /\ here <= Len(held) /\ here' = here + 1
      /\ UNCHANGED <<layout, book, base, held>>
  BY DEF SkipEntry
<1>2. here \in 1 .. Len(layout[book]) /\ Working
  BY <1>1, AtEntry DEF Working
<1>3. ASSUME NEW n \in 1 .. Len(layout[book]), n > here' \/ n = here'  PROVE n > here
  BY <1>1, <1>2, <1>3
<1>4. EntriesKept'
  BY <1>1, <1>2, <1>3 DEF Faithful, EntriesKept
<1>5. TableKept' /\ Untouched'
  BY <1>1 DEF TableKept, Untouched
<1> QED BY <1>4, <1>5 DEF Faithful

LEMMA DoneFaithful ==
  ASSUME Base, Faithful, EntryDone  PROVE Faithful'
<1> DEFINE b == base[here]
           h == held[here]
           k == held'[here]
<1>1. /\ run = "cells" /\ run' = "entry" /\ here' = here + 1 /\ Working
      /\ UNCHANGED <<layout, book, base>>
  BY DEF EntryDone, Working
<1>2. /\ here \in 1 .. Len(layout[book]) /\ Len(layout[book]) \in Nat
      /\ ContentOK(Entry, b) /\ ContentOK(Entry, h)
  BY <1>1, EntryFacts
<1>3. /\ k.values = h.values
      /\ ~ Entry.table => k = h
      /\ Entry.table => k.dates \in [{Whole} -> Dates] /\ k.dates[Whole] = Dated(h.dates[Whole])
      /\ \A n \in 1 .. Len(layout[book]) : n # here => held'[n] = held[n]
  BY DoneShape
<1> HIDE DEF b, h, k
<1>4. Keeps(Entry, b, h)
  BY <1>1, <1>2 DEF Faithful, EntriesKept, Entry, b, h
<1>5. ASSUME Entry.table, k.values = b.values, Checked(b)  PROVE k.dates = b.dates
  <2>1. h.dates = b.dates /\ (changed => Changes(b, h))
    BY <1>1, <1>5 DEF Faithful, TableKept, b, h
  <2>2. ~ changed
    BY <1>3, <1>5, <2>1 DEF Changes
  <2>3. b.dates \in [{Whole} -> Dates]
    BY <1>2, <1>5 DEF ContentOK
  <2>4. b.dates[Whole] \in Dates /\ b.dates[Whole].verified /\ b.dates[Whole].checked # None
    BY <1>5, <2>3 DEF Checked
  <2>5. Dated(b.dates[Whole]) = [verified |-> TRUE, checked |-> b.dates[Whole].checked]
    BY <2>2, <2>4 DEF Dated, Dates
  <2>6. b.dates[Whole] = [verified |-> TRUE, checked |-> b.dates[Whole].checked]
    BY <2>4 DEF Dates
  <2>7. k.dates \in [{Whole} -> Dates] /\ k.dates[Whole] = b.dates[Whole]
    BY <1>3, <1>5, <2>1, <2>5, <2>6
  <2> QED BY <2>3, <2>7
<1>6. Keeps(Entry, b, k)
  <2>1. CASE Entry.table
    BY <1>5, <2>1 DEF Keeps
  <2>2. CASE ~ Entry.table
    BY <1>3, <1>4, <2>2
  <2> QED BY <2>1, <2>2
<1>7. ASSUME NEW n \in 1 .. Len(layout[book]), n > here' \/ n = here'  PROVE n > here
  BY <1>1, <1>2, <1>7
<1>8. EntriesKept'
  <2>1. ASSUME NEW n \in 1 .. Len(layout[book])  PROVE Keeps(layout[book][n], base[n], held'[n])
    <3>1. CASE n = here
      BY <1>6, <3>1 DEF Entry, b, k
    <3>2. CASE n # here
      BY <1>1, <1>3, <3>2 DEF Faithful, EntriesKept
    <3> QED BY <3>1, <3>2
  <2>2. ASSUME NEW n \in 1 .. Len(layout[book]), n > here' \/ n = here'  PROVE held'[n] = base[n]
    <3>1. n > here
      BY <1>7, <2>2
    <3>2. n # here
      BY <1>2, <3>1
    <3> QED BY <1>1, <1>3, <3>1, <3>2 DEF Faithful, EntriesKept
  <2> QED BY <1>1, <2>1, <2>2 DEF EntriesKept
<1>9. TableKept' /\ Untouched'
  BY <1>1 DEF TableKept, Untouched
<1> QED BY <1>8, <1>9 DEF Faithful

LEMMA ReadFaithful ==
  ASSUME ReadBook  PROVE Faithful'
<1>1. run' = "entry" /\ base' = held'
  BY DEF ReadBook
<1>2. EntriesKept'
  BY <1>1, SameKeeps DEF EntriesKept
<1>3. TableKept' /\ Untouched'
  BY <1>1 DEF TableKept, Untouched
<1> QED BY <1>2, <1>3 DEF Faithful

LEMMA TruncateFaithful ==
  ASSUME Base, Faithful, Truncate  PROVE Faithful'
<1>1. /\ run = "entry" /\ run' = "write" /\ Working /\ UNCHANGED <<layout, book, base, held, here>>
  BY DEF Truncate, Working
<1>2. EntriesKept'
  BY <1>1 DEF Faithful, EntriesKept
<1>3. TableKept' /\ Untouched'
  BY <1>1 DEF TableKept, Untouched
<1> QED BY <1>2, <1>3 DEF Faithful

LEMMA StepFaithful ==
  ASSUME Base, History, Faithful, [Next]_vars  PROVE Faithful'
<1>1. CASE Start \/ Done \/ Killed \/ NextBook
  <2>1. ~ Working'
    BY <1>1 DEF Start, Done, Killed, Stop, NextBook, Working
  <2> QED BY <2>1, AwayFaithful
<1>2. CASE NotOffered
  <2>1. AtCell /\ Wanted /\ Settle(Absent) /\ QuoteOK(Absent)
    BY <1>2, NotOfferedQuote
  <2>2. Settles
    BY <1>2, <2>1 DEF Settles, NotOffered, listings
  <2> QED BY <2>2, SettlesFaithful
<1>3. CASE TakePart
  <2>1. AtCell /\ Wanted /\ UNCHANGED <<now, layout, disk, run, opts, today, book, base, here, order, runs>>
    BY <1>3, TakePartQuote DEF TakePart, LTake
  <2>2. CASE \E q : Settle(q) /\ QuoteOK(q)
    BY <2>1, <2>2, SettlesFaithful DEF Settles
  <2>3. CASE \E s : PartTaken(s)
    <3>1. UNCHANGED <<held, place, row, changed>>
      BY <2>3 DEF PartTaken
    <3> QED BY <2>1, <3>1, IdleFaithful
  <2> QED BY <1>3, <2>2, <2>3, TakePartQuote
<1>4. CASE AskPart \/ Answer \/ Midnight \/ UNCHANGED vars
  <2>1. UNCHANGED <<layout, book, base, held, here, run, order, place, row, changed>>
    BY <1>4 DEF AskPart, Answer, Midnight, vars, syncvars, walk, table
  <2> QED BY <2>1, IdleFaithful
<1> QED BY <1>1, <1>2, <1>3, <1>4, PassOverFaithful, BeginFaithful, SkipFaithful, DoneFaithful, ReadFaithful,
           TruncateFaithful DEF Next, Syncing

LEMMA SameBook ==
  ASSUME Base, Faithful, run = "write",
         \A n \in DOMAIN base : held[n].values = base[n].values /\ Checked(base[n])
  PROVE  held = base
<1>1. /\ Working /\ DOMAIN base = 1 .. Len(layout[book]) /\ DOMAIN held = 1 .. Len(layout[book])
      /\ BookOK(layout[book], base) /\ BookOK(layout[book], held)
  BY BookFacts DEF Working
<1>2. ASSUME NEW n \in 1 .. Len(layout[book])  PROVE held[n] = base[n]
  <2> DEFINE e == layout[book][n]
             b == base[n]
             h == held[n]
  <2>1. ContentOK(e, b) /\ ContentOK(e, h) /\ Keeps(e, b, h) /\ h.values = b.values /\ Checked(b)
    BY <1>1 DEF BookOK, Faithful, EntriesKept
  <2> HIDE DEF e, b, h
  <2>2. h.dates = b.dates
    <3>1. CASE e.table
      BY <2>1, <3>1 DEF Keeps
    <3>2. CASE ~ e.table
      <4>1. h.dates \in [DOMAIN b.values -> Dates] /\ b.dates \in [DOMAIN b.values -> Dates]
        BY <2>1, <3>2 DEF ContentOK
      <4>2. \A c \in DOMAIN b.values : h.dates[c] = b.dates[c]
        BY <2>1, <3>2, <4>1 DEF Keeps, Checked
      <4> QED BY <4>1, <4>2
    <3> QED BY <3>1, <3>2
  <2>3. h = [values |-> h.values, dates |-> h.dates] /\ b = [values |-> b.values, dates |-> b.dates]
    BY <2>1 DEF ContentOK
  <2>4. h = b
    BY <2>1, <2>2, <2>3
  <2> QED BY <2>4 DEF h, b
<1> QED BY <1>1, <1>2 DEF BookOK

(***************************************************************************)
(* A sync that finds what the book says, in a book whose values are all     *)
(* checked, writes what it read: and no run forgets a price.                *)
(***************************************************************************)
THEOREM SyncKeepsPrices == Spec => []PricesKept
<1>1. Init => Base /\ History /\ Faithful
  <2>1. Init => Faithful
    BY DEF Init, Faithful, EntriesKept, TableKept, Untouched, Working
  <2> QED BY <2>1, StartsBased, StartsHistory
<1>2. Base /\ History /\ Faithful /\ [Next]_vars => Base' /\ History' /\ Faithful'
  BY BaseStep, HistoryStep, StepFaithful
<1>3. Base /\ Faithful => SameLeavesFile
  BY SameBook DEF SameLeavesFile, Checked
<1>4. Base /\ History /\ Faithful => SameLeavesFile
  BY <1>3
<1> QED BY <1>1, <1>2, <1>4, NoPriceForgotten, PTL DEF Spec, PricesKept


-----------------------------------------------------------------------------
(***************************************************************************)
(* A table that is not composed reads one list in each region, and never    *)
(* one again that it has left: what it took from the list it is at is what  *)
(* the client keeps.                                                        *)
(***************************************************************************)
RowList(p) == ListOf(Entry, Entry.rows[1], p)

WasAt(x) == \E j \in 1 .. Len(order) : j <= place /\ x.list = RowList(order[j].region)
WillBeAt(x) == \E k \in 1 .. Len(order) : k >= place /\ x.list = RowList(order[k].region)

ReadOnce ==
  run = "cells" /\ SoloTable(Entry) =>
    /\ \A x \in used : x \in [list : List, day : Nat] /\ WasAt(x)
    /\ \A x \in used : WillBeAt(x) => memory[Syncer][x.list] = x.day
    /\ \A x, y \in used : x.list = y.list => x.day = y.day

LEMMA SoloSource ==
  ASSUME Base, AtCell, SoloTable(Entry)
  PROVE  /\ Len(Parts) = 1 /\ part = 1 /\ Source.list = RowList(order[place].region) /\ Source.list \in List
         /\ place \in 1 .. Len(order) /\ Len(order) \in Nat
         /\ \A x : WasAt(x) /\ WillBeAt(x) => x.list = Source.list
<1>1. /\ EntryOK(Entry) /\ Len(Parts) \in Nat /\ part \in 1 .. Len(Parts)
      /\ Cell \in ToSet(Entry.rows) \X Places /\ Cell[1] = Entry.rows[row] /\ Cell[2] = order[place].region
      /\ Source \in [list : List, item : Item] /\ place \in 1 .. Len(order) /\ Len(order) \in Nat
      /\ Len(Entry.rows) \in Nat /\ Len(Entry.rows) > 0 /\ row \in 1 .. Len(Entry.rows)
  BY CellFacts DEF Step, EntryOK
<1>2. /\ Entry.rows[1] \in ToSet(Entry.rows) /\ Cell[1] \in ToSet(Entry.rows) /\ Cell[2] \in Places
  BY <1>1 DEF ToSet
<1>3. Len(Parts) = 1 /\ part = 1
  <2>1. Len(Entry.quoted[Cell[1]].parts) = 1
    BY <1>2 DEF SoloTable
  <2>2. Len(Parts) = 1
    BY <2>1 DEF Parts
  <2> QED BY <1>1, <2>2
<1>4. Source.list = ListOf(Entry, Cell[1], Cell[2])
  BY <1>3 DEF Source, Parts, ListOf
<1>5. Source.list = RowList(order[place].region)
  BY <1>1, <1>2, <1>4 DEF EntryOK, RowList
<1>6. Entry.table /\ OrderOK(Entry, order)
  BY DEF SoloTable, AtCell, Base, InEntry
<1>7. ASSUME NEW j \in 1 .. Len(order)  PROVE order[j].region \in Places
  <2>1. order \in Seq([region : Places, added : BOOLEAN])
    BY <1>6 DEF OrderOK
  <2>2. order[j] \in [region : Places, added : BOOLEAN]
    BY <1>1, <2>1, ElementOfSeq
  <2> QED BY <2>2
<1>8. ASSUME NEW j \in 1 .. Len(order), NEW k \in 1 .. Len(order), j <= place, k >= place,
             RowList(order[j].region) = RowList(order[k].region)
      PROVE  RowList(order[k].region) = RowList(order[place].region)
  <2>1. \/ \A p, q \in Places : RowList(p) = RowList(q)
        \/ \A p, q \in Places : RowList(p) = RowList(q) => p = q
    BY <1>1, <1>2 DEF EntryOK, RowList
  <2>2. CASE \A p, q \in Places : RowList(p) = RowList(q)
    BY <1>1, <1>7, <2>2
  <2>3. CASE \A p, q \in Places : RowList(p) = RowList(q) => p = q
    <3>1. order[j].region = order[k].region
      BY <1>7, <1>8, <2>3
    <3>2. ~ j < k
      BY <1>6, <3>1 DEF OrderOK
    <3> QED BY <1>1, <1>8, <3>2
  <2> QED BY <2>1, <2>2, <2>3
<1>9. \A x : WasAt(x) /\ WillBeAt(x) => x.list = Source.list
  BY <1>5, <1>8 DEF WasAt, WillBeAt
<1> QED BY <1>1, <1>3, <1>5, <1>9

LEMMA GoesOn ==
  ASSUME Base, AtCell, Advance \/ UNCHANGED place, UNCHANGED <<layout, book, here, order>>
  PROVE  Entry' = Entry /\ \A x : (WasAt(x) => WasAt(x)') /\ (WillBeAt(x)' => WillBeAt(x))
<1>1. place \in Nat /\ place' \in Nat /\ place' >= place /\ Len(order) \in Nat
  <2>1. place \in Nat /\ Len(order) \in Nat
    BY CellFacts
  <2> QED BY <2>1 DEF Advance
<1>2. Entry' = Entry
  BY DEF Entry
<1>3. ASSUME NEW j \in 1 .. Len(order)  PROVE (j <= place => j <= place') /\ (j >= place' => j >= place)
  BY <1>1
<1>4. \A p : RowList(p)' = RowList(p)
  BY <1>2 DEF RowList
<1> QED BY <1>2, <1>3, <1>4 DEF WasAt, WillBeAt

LEMMA GoesOnOnce ==
  ASSUME Base, ReadOnce, AtCell, Advance \/ UNCHANGED place,
         UNCHANGED <<layout, book, here, order, run, used, memory>>
  PROVE  ReadOnce'
BY GoesOn DEF ReadOnce

LEMMA AwayOnce ==
  ASSUME run' # "cells" \/ used' = {}  PROVE ReadOnce'
BY DEF ReadOnce

LEMMA TakeOnce ==
  ASSUME Base, ReadOnce, TakePart  PROVE ReadOnce'
<1> DEFINE got == answer[Syncer]
<1>1. /\ AtCell /\ answer[Syncer] # None
      /\ UNCHANGED <<memory, layout, book, here, order, run>>
      /\ used' = IF IsRefusal(got) THEN used ELSE used \cup {got}
  BY DEF TakePart, LTake
<1>2. Advance \/ UNCHANGED place
  BY TakePartQuote DEF Settle, PartTaken
<1>3. Entry' = Entry
  BY <1>1 DEF Entry
<1>4. SUFFICES ASSUME SoloTable(Entry)  PROVE ReadOnce'
  BY <1>3 DEF ReadOnce
<1>5. run = "cells"
  BY <1>1 DEF AtCell
<1>6. CASE IsRefusal(got)
  BY <1>1, <1>2, <1>6, GoesOnOnce
<1>7. CASE ~ IsRefusal(got)
  <2>1. asked[Syncer] = Source.list /\ asked[Syncer] \in List
    <3>1. asked[Syncer] \in List
      BY <1>1 DEF Base, LInv, Answered
    <3>2. asked[Syncer] # None
      BY <3>1, ListsRead DEF Base
    <3> QED BY <3>1, <3>2 DEF Base, InCell
  <2>2. /\ got.list = Source.list /\ got \in [list : List, day : Nat]
        /\ memory[Syncer][Source.list] = got.day
    BY <1>1, <1>7, <2>1, RefusalsRefuse DEF Base, LInv, Answered, OfList
  <2>3. WasAt(got) /\ WillBeAt(got)
    BY <1>1, <1>4, <2>2, SoloSource DEF WasAt, WillBeAt
  <2>4. ASSUME NEW x \in used', WillBeAt(x)
        PROVE  memory[Syncer][x.list] = x.day
    BY <1>1, <1>4, <1>5, <2>2, <2>4 DEF ReadOnce
  <2>5. \A x \in used' : x \in [list : List, day : Nat] /\ WasAt(x)
    BY <1>1, <1>4, <1>5, <2>1, <2>2, <2>3 DEF ReadOnce
  <2>6. ASSUME NEW x \in used, x.list = got.list  PROVE x.day = got.day
    <3>1. WillBeAt(x)
      BY <2>3, <2>6 DEF WillBeAt
    <3> QED BY <1>1, <2>2, <2>4, <2>6, <3>1
  <2>7. ASSUME NEW x \in used', NEW y \in used', x.list = y.list
        PROVE  x.day = y.day
    BY <1>1, <1>4, <1>5, <2>6, <2>7 DEF ReadOnce
  <2>8. \A x : (WasAt(x) => WasAt(x)') /\ (WillBeAt(x)' => WillBeAt(x))
    BY <1>1, <1>2, GoesOn
  <2> QED BY <1>1, <1>3, <2>4, <2>5, <2>7, <2>8 DEF ReadOnce
<1> QED BY <1>6, <1>7

\* What the client keeps of the list that sync is at stays; of others, nothing is read again.
LEMMA ListensOnce ==
  ASSUME Base, ReadOnce, AtCell, UNCHANGED syncvars,
         SoloTable(Entry) => \A x \in used :
           x.list = Source.list /\ x \in [list : List, day : Nat] /\ memory[Syncer][x.list] = x.day
             => memory'[Syncer][x.list] = x.day
  PROVE  ReadOnce'
<1>1. UNCHANGED <<layout, book, here, order, run, used, place>>
  BY DEF syncvars, walk, table
<1>2. Entry' = Entry /\ \A x : (WasAt(x) => WasAt(x)') /\ (WillBeAt(x)' => WillBeAt(x))
  BY <1>1, GoesOn
<1>3. SUFFICES ASSUME SoloTable(Entry)  PROVE ReadOnce'
  BY <1>2 DEF ReadOnce
<1>4. run = "cells"
  BY DEF AtCell
<1>5. ASSUME NEW x \in used, WillBeAt(x)
      PROVE  memory'[Syncer][x.list] = x.day
  <2>1. x \in [list : List, day : Nat] /\ WasAt(x) /\ memory[Syncer][x.list] = x.day
    BY <1>3, <1>4, <1>5 DEF ReadOnce
  <2>2. x.list = Source.list
    BY <1>3, <1>5, <2>1, SoloSource
  <2> QED BY <1>3, <1>5, <2>1, <2>2
<1> QED BY <1>1, <1>2, <1>3, <1>4, <1>5 DEF ReadOnce

LEMMA AskOnce ==
  ASSUME Base, ReadOnce, AskPart  PROVE ReadOnce'
<1>1. AtCell /\ LAsk(Syncer, Source.list) /\ UNCHANGED syncvars
  BY DEF AskPart
<1>2. ASSUME SoloTable(Entry), NEW x \in used, x.list = Source.list, x \in [list : List, day : Nat],
             memory[Syncer][x.list] = x.day
      PROVE  memory'[Syncer][x.list] = x.day
  <2>1. x.day # None
    BY <1>2, ListsRead DEF Base
  <2>2. Held(memory[Syncer], Source.list)
    BY <1>2, <2>1 DEF Held
  <2>3. memory' = memory
    BY <1>1, <2>2 DEF LAsk
  <2> QED BY <1>2, <2>3
<1> QED BY <1>1, <1>2, ListensOnce


LEMMA AnswerOnce ==
  ASSUME Base, ReadOnce, Answer  PROVE ReadOnce'
<1>1. (LAnswer(Syncer) \/ LRefuse(Syncer)) /\ UNCHANGED syncvars
      /\ asked[Syncer] # None /\ answer[Syncer] = None
  BY DEF Answer, LAnswer, LRefuse
<1>2. AtCell /\ asked[Syncer] = Source.list
  BY <1>1 DEF Base, InCell
<1>3. ~ Held(memory[Syncer], Source.list)
  BY <1>1, <1>2 DEF Base, LInv
<1>4. ASSUME NEW x \in used, x.list = Source.list, x \in [list : List, day : Nat],
             memory[Syncer][x.list] = x.day
      PROVE  FALSE
  BY <1>3, <1>4, ListsRead DEF Held, Base
<1> QED BY <1>1, <1>2, <1>4, ListensOnce

LEMMA StepOnce ==
  ASSUME Base, ReadOnce, [Next]_vars  PROVE ReadOnce'
<1>1. CASE Start \/ Done \/ Killed \/ NextBook \/ ReadBook \/ Truncate \/ SkipEntry \/ EntryDone
  <2>1. run' # "cells" \/ used' = {}
    BY <1>1 DEF Start, Done, Killed, Stop, NextBook, ReadBook, Truncate, SkipEntry, EntryDone
  <2> QED BY <2>1, AwayOnce
<1>2. CASE BeginEntry
  <2>1. used' = {}
    BY <1>2 DEF BeginEntry, table, Base, InEntry
  <2> QED BY <2>1, AwayOnce
<1>3. CASE PassOver
  <2>1. AtCell /\ Advance /\ UNCHANGED <<layout, book, here, order, run, used, memory>>
    BY <1>3 DEF PassOver, table, listings
  <2> QED BY <2>1, GoesOnOnce
<1>4. CASE NotOffered
  <2>1. AtCell /\ Advance /\ UNCHANGED <<layout, book, here, order, run, used, memory>>
    BY <1>4 DEF NotOffered, Settle, listings
  <2> QED BY <2>1, GoesOnOnce
<1>5. CASE Midnight \/ UNCHANGED vars
  <2>1. UNCHANGED <<layout, book, here, order, place, run, used, memory>>
    BY <1>5 DEF Midnight, LTick, vars, listings, syncvars, walk, table
  <2>2. Entry' = Entry
    BY <2>1 DEF Entry
  <2>3. \A x : WasAt(x)' = WasAt(x) /\ WillBeAt(x)' = WillBeAt(x)
    BY <2>1, <2>2 DEF WasAt, WillBeAt, RowList
  <2> QED BY <2>1, <2>2, <2>3 DEF ReadOnce
<1> QED BY <1>1, <1>2, <1>3, <1>4, <1>5, TakeOnce, AskOnce, AnswerOnce DEF Next, Syncing

(***************************************************************************)
(* The rows of a table are priced, in a region, from one listing; and what  *)
(* is dated was on the price lists.                                         *)
(***************************************************************************)
THEOREM SyncedPricesWereListed == Spec => []SyncedWasListed
<1>1. Init => Base /\ ReadOnce
  <2>1. Init => ReadOnce
    BY DEF Init, ReadOnce
  <2> QED BY <2>1, StartsBased
<1>2. Base /\ ReadOnce /\ [Next]_vars => Base' /\ ReadOnce'
  BY BaseStep, StepOnce
<1>3. Base /\ ReadOnce => OneListing
  <2>1. Base /\ used # {} => run = "cells"
    BY DEF Base, InEntry
  <2> QED BY <2>1 DEF ReadOnce, OneListing
<1> QED BY <1>1, <1>2, <1>3, DatedPricesWereListed, PTL DEF Spec, SyncedWasListed

-----------------------------------------------------------------------------
(***************************************************************************)
(* Sync uses its clients as Listings allows: it asks for one list at a      *)
(* time, while it runs, and takes each answer once.                         *)
(***************************************************************************)
THEOREM SyncUsesListings == Spec => LSpec
<1>1. Init => LInit
  BY DEF Init
<1>2. Base /\ [Next]_vars => [LNext]_listings
  <2>1. ASSUME NEW p \in Proc, LRefuse(p) \/ LAnswer(p) \/ LTake(p) \/ LBegin(p) \/ LEnd(p)  PROVE LNext
    BY <2>1 DEF LNext
  <2>2. ASSUME Base, AskPart  PROVE LNext
    <3>1. Source.list \in List /\ LAsk(Syncer, Source.list) /\ Syncer \in Proc
      BY <2>2, CellFacts, SyncAssumption DEF AskPart
    <3> QED BY <3>1 DEF LNext
  <2>3. Midnight => LNext
    BY DEF Midnight, LNext
  <2>4. Answer \/ TakePart \/ Start \/ Done \/ Killed => LNext
    BY <2>1, SyncAssumption DEF Answer, TakePart, Start, Done, Killed, Stop
  <2>5. ReadBook \/ BeginEntry \/ SkipEntry \/ PassOver \/ NotOffered \/ EntryDone \/ Truncate \/ NextBook
          => UNCHANGED listings
    BY DEF ReadBook, BeginEntry, SkipEntry, PassOver, NotOffered, EntryDone, Truncate, NextBook
  <2>6. UNCHANGED vars => UNCHANGED listings
    BY DEF vars
  <2> QED BY <2>2, <2>3, <2>4, <2>5, <2>6 DEF Next, Syncing
<1> QED BY <1>1, <1>2, BaseHolds, PTL DEF Spec, LSpec
=============================================================================
