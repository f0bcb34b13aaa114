-------------------------- MODULE PriceCacheProofs --------------------------
(***************************************************************************)
(* The price-list clients keep the promise of Listings, for every number of *)
(* processes and lists and every age and duration: an answer is never older *)
(* than MaxAge and the longest download before its process began.           *)
(*                                                                         *)
(* The argument is CInv.  A file is as new as its modification time, give   *)
(* or take the download that wrote it (Dated); a process opens only a file  *)
(* whose age it found good, or a newer one (Good); and what it copies was   *)
(* asked for since it began, and no longer ago than a download lasts        *)
(* (Copying).                                                              *)
(***************************************************************************)
EXTENDS PriceCache, TLAPS

Waits(p) ==
  /\ asked[p] = None => answer[p] = None
  /\ at[p] \in {"open", "get", "copy"} => asked[p] \in List /\ answer[p] = None

Good(p) ==
  at[p] = "open" /\ cache[asked[p]] # None => born[p] <= cache[asked[p]].mtime + MaxAge

Copying(p) ==
  at[p] = "copy" =>
    /\ tmp[p] \in 0 .. now
    /\ born[p] <= tmp[p]
    /\ now <= tmp[p] + Longest

Dated(l) == cache[l] # None => cache[l].mtime <= cache[l].day + Longest

CInv ==
  /\ CacheTypeOK
  /\ WholeUnlessHurt
  /\ DOMAIN answer = Proc
  /\ \A p \in Proc : Waits(p) /\ Good(p) /\ Copying(p)
  /\ \A l \in List : Dated(l)

\* What the types say of a file, and of the day a running process began.
LEMMA FileType ==
  ASSUME CacheTypeOK, NEW l \in List, cache[l] # None
  PROVE  /\ cache[l] \in [day : 0 .. now, mtime : 0 .. now, whole : BOOLEAN]
         /\ cache[l].day \in 0 .. now /\ cache[l].mtime \in 0 .. now
         /\ cache[l].day <= cache[l].mtime /\ cache[l].whole \in BOOLEAN
<1>1. cache[l] \in File(now)  BY DEF CacheTypeOK
<1>2. cache[l] \in {f \in [day : 0 .. now, mtime : 0 .. now, whole : BOOLEAN] : f.day <= f.mtime}
  BY <1>1 DEF File
<1> QED  BY <1>2

LEMMA BornType ==
  ASSUME CacheTypeOK, NEW p \in Proc, at[p] # "off"
  PROVE  born[p] \in 0 .. now
<1>1. born[p] \in 0 .. now \cup {None}  BY DEF CacheTypeOK
<1>2. born[p] # None  BY DEF CacheTypeOK
<1> QED  BY <1>1, <1>2

LEMMA FileGrows ==
  ASSUME NEW n \in Nat, NEW m \in Nat, n <= m, NEW f \in File(n)
  PROVE  f \in File(m)
<1>1. CASE f = None  BY <1>1 DEF File
<1>2. CASE f # None
  <2>1. f \in [day : 0 .. n, mtime : 0 .. n, whole : BOOLEAN] /\ f.day <= f.mtime  BY <1>2 DEF File
  <2>2. 0 .. n \subseteq 0 .. m  OBVIOUS
  <2>3. f \in [day : 0 .. m, mtime : 0 .. m, whole : BOOLEAN]  BY <2>1, <2>2
  <2> QED  BY <2>1, <2>3 DEF File
<1> QED  BY <1>1, <1>2

-----------------------------------------------------------------------------
(***************************************************************************)
(* Steps of one process that leave the files alone: what is true of the     *)
(* files stays, and what is true of the other processes.                    *)
(***************************************************************************)
LEMMA OnlyOneMoves ==
  ASSUME CInv, UNCHANGED files, NEW p \in Proc,
         \A q \in Proc \ {p} :
           /\ at'[q] = at[q] /\ asked'[q] = asked[q] /\ tmp'[q] = tmp[q]
           /\ born'[q] = born[q] /\ answer'[q] = answer[q],
         CacheTypeOK', DOMAIN answer' = Proc,
         Waits(p)', Good(p)', Copying(p)'
  PROVE  CInv'
<1>1. WholeUnlessHurt' /\ \A l \in List : Dated(l)'
  BY DEF CInv, WholeUnlessHurt, Dated, files
<1>2. ASSUME NEW q \in Proc \ {p}  PROVE Waits(q)' /\ Good(q)' /\ Copying(q)'
  <2>1. Waits(q)'  BY DEF CInv, Waits
  <2>2. Good(q)'  BY DEF CInv, Good, files
  <2>3. Copying(q)'  BY DEF CInv, Copying, files
  <2> QED  BY <2>1, <2>2, <2>3
<1> QED  BY <1>1, <1>2 DEF CInv

LEMMA AskKeeps ==
  ASSUME CInv, NEW p \in Proc, NEW l \in List, Ask(p, l)  PROVE CInv'
<1>1. CacheTypeOK'
  BY PriceListsAssumption DEF CInv, CacheTypeOK, Ask, Return, Go, Place, files
<1>2. DOMAIN answer' = Proc  BY DEF CInv, Ask, Return, Go
<1>3. Waits(p)'  BY PriceListsAssumption DEF CInv, CacheTypeOK, Waits, Ask, Return, Go
<1>4. Good(p)'
  <2>1. CASE at'[p] = "open"
    <3>1. Recent(l) /\ asked'[p] = l /\ UNCHANGED <<files, born>>
      BY <2>1 DEF Ask, Return, Go, CInv, CacheTypeOK, Place
    <3>2. born[p] \in 0 .. now  BY BornType DEF Ask, CInv
    <3>3. cache[l].mtime \in 0 .. now /\ now <= cache[l].mtime + MaxAge /\ now \in Nat
      BY <3>1, FileType DEF Recent, CInv, CacheTypeOK
    <3>4. born[p] <= cache[l].mtime + MaxAge  BY <3>2, <3>3, PriceCacheAssumption
    <3> QED  BY <3>1, <3>4 DEF Good, files
  <2> QED  BY <2>1 DEF Good
<1>5. Copying(p)'  BY DEF CInv, CacheTypeOK, Copying, Ask, Return, Go
<1>6. UNCHANGED files  BY DEF Ask
<1>7. \A q \in Proc \ {p} :
        /\ at'[q] = at[q] /\ asked'[q] = asked[q] /\ tmp'[q] = tmp[q]
        /\ born'[q] = born[q] /\ answer'[q] = answer[q]
  BY DEF CInv, CacheTypeOK, Ask, Return, Go
<1> QED  BY <1>1, <1>2, <1>3, <1>4, <1>5, <1>6, <1>7, OnlyOneMoves

LEMMA OpenKeeps ==
  ASSUME CInv, NEW p \in Proc, Open(p)  PROVE CInv'
<1>1. CacheTypeOK'
  BY DEF CInv, CacheTypeOK, Open, ReturnListing, Return, Go, Place, files
<1>2. DOMAIN answer' = Proc  BY DEF CInv, Open, ReturnListing, Return, Go
<1>3. Waits(p)'  BY PriceListsAssumption DEF CInv, CacheTypeOK, Waits, Open, ReturnListing, Return, Go
<1>4. at'[p] \in {"idle", "get"}  BY DEF CInv, CacheTypeOK, Open, ReturnListing, Return, Go
<1>5. Good(p)' /\ Copying(p)'  BY <1>4 DEF Good, Copying
<1>6. UNCHANGED files  BY DEF Open
<1>7. \A q \in Proc \ {p} :
        /\ at'[q] = at[q] /\ asked'[q] = asked[q] /\ tmp'[q] = tmp[q]
        /\ born'[q] = born[q] /\ answer'[q] = answer[q]
  BY DEF CInv, CacheTypeOK, Open, ReturnListing, Return, Go
<1> QED  BY <1>1, <1>2, <1>3, <1>5, <1>6, <1>7, OnlyOneMoves

LEMMA GetKeeps ==
  ASSUME CInv, NEW p \in Proc, Get(p)  PROVE CInv'
<1>1. CacheTypeOK'  BY DEF CInv, CacheTypeOK, Get, Go, Place, files
<1>2. DOMAIN answer' = Proc  BY DEF CInv, Get, Go
<1>3. Waits(p)' /\ Good(p)'  BY DEF CInv, CacheTypeOK, Waits, Good, Get, Go
<1>4. Copying(p)'
  <2>1. born[p] \in 0 .. now  BY BornType DEF CInv, Get
  <2>2. tmp'[p] = now /\ now' = now /\ born' = born  BY DEF CInv, CacheTypeOK, Get, files
  <2> QED  BY <2>1, <2>2, PriceCacheAssumption DEF CInv, CacheTypeOK, Copying
<1>5. UNCHANGED files  BY DEF Get
<1>6. \A q \in Proc \ {p} :
        /\ at'[q] = at[q] /\ asked'[q] = asked[q] /\ tmp'[q] = tmp[q]
        /\ born'[q] = born[q] /\ answer'[q] = answer[q]
  BY DEF CInv, CacheTypeOK, Get, Go
<1> QED  BY <1>1, <1>2, <1>3, <1>4, <1>5, <1>6, OnlyOneMoves

LEMMA ReturnKeeps ==
  ASSUME CInv, NEW p \in Proc, asked[p] # None, NEW what, Return(p, what),
         tmp' = tmp \/ tmp' = [tmp EXCEPT ![p] = None],
         UNCHANGED <<files, born, signed, asked>>, at[p] # "off"
  PROVE  CInv'
<1>1. CacheTypeOK'  BY DEF CInv, CacheTypeOK, Return, Place, files
<1>2. DOMAIN answer' = Proc  BY DEF CInv, Return
<1>3. at'[p] = "idle" /\ asked'[p] # None  BY DEF CInv, CacheTypeOK, Return
<1>4. Waits(p)' /\ Good(p)' /\ Copying(p)'  BY <1>3 DEF Waits, Good, Copying
<1>5. \A q \in Proc \ {p} :
        /\ at'[q] = at[q] /\ asked'[q] = asked[q] /\ tmp'[q] = tmp[q]
        /\ born'[q] = born[q] /\ answer'[q] = answer[q]
  BY DEF CInv, CacheTypeOK, Return
<1> QED  BY <1>1, <1>2, <1>4, <1>5, OnlyOneMoves

LEMMA FailureKeeps ==
  ASSUME CInv, NEW p \in Proc, GetRefused(p) \/ CopyFails(p)  PROVE CInv'
<1>1. asked[p] # None /\ at[p] # "off"
  BY PriceListsAssumption DEF CInv, Waits, GetRefused, CopyFails
<1>2. CASE GetRefused(p)
  <2>1. PICK what : Return(p, what)  BY <1>2 DEF GetRefused
  <2> QED  BY <1>1, <1>2, <2>1, ReturnKeeps DEF GetRefused
<1>3. CASE CopyFails(p)  BY <1>1, <1>3, ReturnKeeps DEF CopyFails
<1> QED  BY <1>2, <1>3

LEMMA CallerKeeps ==
  ASSUME CInv, NEW p \in Proc, Take(p) \/ Begin(p) \/ End(p)  PROVE CInv'
<1>1. CacheTypeOK'
  <2>1. CASE Take(p)  BY <2>1 DEF CInv, CacheTypeOK, Take, files
  <2>2. CASE Begin(p)
    <3>1. now \in Nat /\ now # None  BY PriceListsAssumption DEF CInv, CacheTypeOK
    <3> QED  BY <2>2, <3>1 DEF CInv, CacheTypeOK, Begin, Place, files
  <2>3. CASE End(p)  BY <2>3 DEF CInv, CacheTypeOK, End, Place, files
  <2> QED  BY <2>1, <2>2, <2>3
<1>2. DOMAIN answer' = Proc  BY DEF CInv, Take, Begin, End
<1>3. at'[p] \notin {"open", "get", "copy"}
  BY DEF CInv, CacheTypeOK, Waits, Place, Take, Begin, End
<1>4. Waits(p)'
  BY <1>3 DEF CInv, CacheTypeOK, Waits, Take, Begin, End
<1>5. Good(p)' /\ Copying(p)'  BY <1>3 DEF Good, Copying
<1>6. UNCHANGED files  BY DEF Take, Begin, End
<1>7. \A q \in Proc \ {p} :
        /\ at'[q] = at[q] /\ asked'[q] = asked[q] /\ tmp'[q] = tmp[q]
        /\ born'[q] = born[q] /\ answer'[q] = answer[q]
  BY DEF CInv, CacheTypeOK, Take, Begin, End
<1> QED  BY <1>1, <1>2, <1>4, <1>5, <1>6, <1>7, OnlyOneMoves

-----------------------------------------------------------------------------
(***************************************************************************)
(* A finished download: the new file is whole, as old as its copying, and   *)
(* newer than any file another process saw there.                           *)
(***************************************************************************)
LEMMA CopiedKeeps ==
  ASSUME CInv, NEW p \in Proc, Copied(p)  PROVE CInv'
<1> DEFINE l == asked[p]
           f == [day |-> tmp[p], mtime |-> now, whole |-> TRUE]
<1>1. l \in List /\ now \in Nat /\ tmp[p] \in 0 .. now /\ now <= tmp[p] + Longest
  BY DEF CInv, CacheTypeOK, Waits, Copying, Copied
<1>2. f \in File(now)  BY <1>1 DEF File
<1>3. cache' = [cache EXCEPT ![l] = f] /\ now' = now  BY DEF Copied, Renamed
<1>4. cache \in [List -> File(now)]  BY DEF CInv, CacheTypeOK
<1>5. cache'[l] = f /\ cache' \in [List -> File(now)] /\ \A m \in List \ {l} : cache'[m] = cache[m]
  BY <1>1, <1>2, <1>3, <1>4
<1>6. at'[p] \in {"open", "idle"} /\ \A q \in Proc \ {p} : at'[q] = at[q]
  BY DEF Copied, ReturnListing, Return, Go, CInv, CacheTypeOK
<1>7. CacheTypeOK'
  <2>1. tmp' \in [Proc -> 0 .. now \cup {None}]  BY DEF CInv, CacheTypeOK, Copied
  <2>2. at' \in [Proc -> Place]
    BY DEF Copied, ReturnListing, Return, Go, CInv, CacheTypeOK, Place
  <2>3. hurt' \subseteq List /\ UNCHANGED <<hurts, signed, asked, born>>
    BY DEF Copied, CInv, CacheTypeOK
  <2>4. \A q \in Proc : (at'[q] = "off") = (at[q] = "off")  BY <1>6 DEF Copied
  <2> QED  BY <1>3, <1>5, <2>1, <2>2, <2>3, <2>4 DEF CInv, CacheTypeOK
<1>8. WholeUnlessHurt'  BY <1>5 DEF CInv, WholeUnlessHurt, Copied
<1>9. DOMAIN answer' = Proc  BY DEF CInv, Copied, ReturnListing, Return, Go
<1>10. ASSUME NEW m \in List  PROVE Dated(m)'
  <2>1. CASE m = l  BY <2>1, <1>1, <1>5 DEF Dated
  <2>2. CASE m # l  BY <2>2, <1>5 DEF CInv, Dated
  <2> QED  BY <2>1, <2>2
<1>11. ASSUME NEW q \in Proc  PROVE Good(q)'
  <2>1. CASE at'[q] = "open" /\ asked'[q] = l
    <3>1. born[q] \in 0 .. now  BY <2>1, <1>6, BornType DEF CInv, Copied
    <3>2. cache'[l].mtime = now /\ born' = born  BY <1>5 DEF Copied
    <3> QED  BY <2>1, <3>1, <3>2, <1>1, PriceCacheAssumption DEF Good
  <2>2. CASE at'[q] = "open" /\ asked'[q] # l
    <3>1. q # p /\ at[q] = "open" /\ asked'[q] = asked[q] /\ asked[q] \in List
      BY <2>2, <1>6 DEF Copied, CInv, Waits
    <3> QED  BY <2>2, <3>1, <1>5 DEF CInv, Good, Copied
  <2> QED  BY <2>1, <2>2 DEF Good
<1>12. ASSUME NEW q \in Proc  PROVE Waits(q)' /\ Copying(q)'
  <2>1. Waits(q)'
    BY PriceListsAssumption
    DEF CInv, CacheTypeOK, Waits, Copied, ReturnListing, Return, Go
  <2>2. Copying(q)'
    <3>1. CASE q = p  BY <1>6, <3>1 DEF Copying
    <3>2. CASE q # p  BY <1>6, <3>2 DEF CInv, CacheTypeOK, Copying, Copied
    <3> QED  BY <3>1, <3>2
  <2> QED  BY <2>1, <2>2
<1> QED  BY <1>7, <1>8, <1>9, <1>10, <1>11, <1>12 DEF CInv

-----------------------------------------------------------------------------
\* Steps that no process takes.
LEMMA HurtKeeps ==
  ASSUME CInv, NEW l \in List, Hurt(l)  PROVE CInv'
<1>1. cache[l] # None /\ hurts \in Nat /\ cache \in [List -> File(now)]
  BY PriceCacheAssumption DEF CInv, CacheTypeOK, Hurt
<1>2. /\ \A m \in List \ {l} : cache'[m] = cache[m]
      /\ cache'[l] = None \/ cache'[l] = [cache[l] EXCEPT !.whole = FALSE]
      /\ cache'[l] # None => l \in hurt'
      /\ hurt \subseteq hurt' /\ hurt' \subseteq List
      /\ UNCHANGED <<now, process>>
  BY <1>1 DEF Hurt, CInv, CacheTypeOK
<1>3. cache[l] \in [day : 0 .. now, mtime : 0 .. now, whole : BOOLEAN] /\ cache[l].day <= cache[l].mtime
  BY <1>1, FileType DEF CInv
<1>4. cache'[l] # None => /\ cache'[l] \in [day : 0 .. now, mtime : 0 .. now, whole : BOOLEAN]
                          /\ cache'[l].day = cache[l].day /\ cache'[l].mtime = cache[l].mtime
  BY <1>2, <1>3
<1>5. cache'[l] \in File(now)  BY <1>3, <1>4 DEF File
<1>6. cache' \in [List -> File(now)]
  <2>1. cache' = [m \in List |-> cache'[m]]  BY <1>1 DEF Hurt
  <2> QED  BY <1>1, <1>2, <1>5, <2>1
<1>7. hurts' \in 0 .. MaxHurt  BY <1>1, PriceCacheAssumption DEF Hurt, CInv, CacheTypeOK
<1>8. CacheTypeOK'  BY <1>2, <1>6, <1>7 DEF CInv, CacheTypeOK, process
<1>9. WholeUnlessHurt'  BY <1>2 DEF CInv, WholeUnlessHurt
<1>10. ASSUME NEW m \in List  PROVE Dated(m)'
  <2>1. CASE m = l  BY <2>1, <1>1, <1>4 DEF CInv, Dated
  <2>2. CASE m # l  BY <2>2, <1>2 DEF CInv, Dated
  <2> QED  BY <2>1, <2>2
<1>11. ASSUME NEW q \in Proc  PROVE Waits(q)' /\ Good(q)' /\ Copying(q)'
  <2>1. Waits(q)'  BY <1>2 DEF CInv, Waits, process
  <2>2. Good(q)'
    <3>1. CASE at[q] = "open" /\ asked[q] = l  BY <3>1, <1>1, <1>2, <1>4 DEF CInv, Good, process
    <3>2. CASE at[q] = "open" /\ asked[q] # l  BY <3>2, <1>2 DEF CInv, Good, Waits, process
    <3> QED  BY <3>1, <3>2, <1>2 DEF Good, process
  <2>3. Copying(q)'  BY <1>2 DEF CInv, Copying, process
  <2> QED  BY <2>1, <2>2, <2>3
<1>12. DOMAIN answer' = Proc  BY <1>2 DEF CInv, process
<1> QED  BY <1>8, <1>9, <1>10, <1>11, <1>12 DEF CInv

LEMMA TickKeeps ==
  ASSUME CInv, Tick  PROVE CInv'
<1>1. now \in Nat /\ now' = now + 1 /\ now' \in 0 .. LastDay
  BY PriceCacheAssumption DEF CInv, CacheTypeOK, Tick
<1>2. UNCHANGED <<cache, hurt, hurts, process>>  BY DEF Tick
<1>3. 0 .. now \subseteq 0 .. now'  BY <1>1
<1>4. CacheTypeOK'
  <2>1. \A l \in List : cache[l] \in File(now')
    <3>1. cache \in [List -> File(now)]  BY DEF CInv, CacheTypeOK
    <3>2. now <= now' /\ now' \in Nat  BY <1>1
    <3> QED  BY <1>1, <3>1, <3>2, FileGrows
  <2>2. cache' \in [List -> File(now')]  BY <1>2, <2>1 DEF CInv, CacheTypeOK
  <2>3. tmp \in [Proc -> 0 .. now' \cup {None}] /\ born \in [Proc -> 0 .. now' \cup {None}]
    BY <1>3 DEF CInv, CacheTypeOK
  <2> QED  BY <1>1, <1>2, <2>2, <2>3 DEF CInv, CacheTypeOK, process
<1>5. WholeUnlessHurt' /\ \A l \in List : Dated(l)'
  BY <1>2 DEF CInv, WholeUnlessHurt, Dated
<1>6. ASSUME NEW p \in Proc  PROVE Waits(p)' /\ Good(p)' /\ Copying(p)'
  <2>1. Waits(p)'  BY <1>2 DEF CInv, Waits, process
  <2>2. Good(p)'  BY <1>2 DEF CInv, Good, process
  <2>3. Copying(p)'  BY <1>1, <1>2, <1>3 DEF CInv, Copying, process, Tick
  <2> QED  BY <2>1, <2>2, <2>3
<1>7. DOMAIN answer' = Proc  BY <1>2 DEF CInv, process
<1> QED  BY <1>4, <1>5, <1>6, <1>7 DEF CInv

-----------------------------------------------------------------------------
LEMMA CInvInit == Init => CInv
<1> SUFFICES ASSUME Init  PROVE CInv
  OBVIOUS
<1>1. CacheTypeOK  BY PriceCacheAssumption DEF Init, CacheTypeOK, Place
<1>2. \A p \in Proc : Waits(p) /\ Good(p) /\ Copying(p)  BY DEF Init, Waits, Good, Copying
<1>3. ASSUME NEW l \in List, cache[l] # None  PROVE cache[l].mtime <= cache[l].day + Longest
  <2>1. cache[l].mtime \in 0 .. now /\ cache[l].day \in 0 .. now  BY <1>1, <1>3, FileType
  <2> QED  BY <2>1, PriceCacheAssumption DEF Init
<1> QED  BY <1>1, <1>2, <1>3 DEF Init, CInv, WholeUnlessHurt, Dated

LEMMA CInvNext == CInv /\ [Next]_vars => CInv'
<1> SUFFICES ASSUME CInv, [Next]_vars  PROVE CInv'
  OBVIOUS
<1>1. ASSUME NEW p \in Proc, InClient(p)  PROVE CInv'
  BY <1>1, OpenKeeps, GetKeeps, FailureKeeps, CopiedKeeps DEF InClient
<1>2. ASSUME NEW p \in Proc, Take(p) \/ Begin(p) \/ End(p)  PROVE CInv'
  BY <1>2, CallerKeeps
<1>3. ASSUME NEW p \in Proc, NEW l \in List, Ask(p, l)  PROVE CInv'
  BY <1>3, AskKeeps
<1>4. CASE Tick  BY <1>4, TickKeeps
<1>5. ASSUME NEW l \in List, Hurt(l)  PROVE CInv'
  BY <1>5, HurtKeeps
<1>6. CASE UNCHANGED vars
  BY <1>6
  DEF CInv, CacheTypeOK, WholeUnlessHurt, Waits, Good, Copying, Dated, vars, files, process
<1> QED  BY <1>1, <1>2, <1>3, <1>4, <1>5, <1>6 DEF Next

LEMMA CInvAlways == Spec => []CInv
BY CInvInit, CInvNext, PTL DEF Spec

(***************************************************************************)
(* The types hold of every state: a cached listing is never newer than its  *)
(* file, nor a file than today, and a process that runs began on some day.  *)
(***************************************************************************)
THEOREM CacheTypes == Spec => []CacheTypeOK
<1>1. CInv => CacheTypeOK  BY DEF CInv
<1> QED  BY <1>1, CInvAlways, PTL

(***************************************************************************)
(* Downloads that run at once, and processes killed during theirs, leave no *)
(* file that cannot be read (download, writeCache).                         *)
(***************************************************************************)
THEOREM CacheStaysWhole == Spec => []WholeUnlessHurt
<1>1. CInv => WholeUnlessHurt  BY DEF CInv
<1> QED  BY <1>1, CInvAlways, PTL

-----------------------------------------------------------------------------
(***************************************************************************)
(* Every step is one of the promise, or leaves what it speaks of unchanged. *)
(***************************************************************************)
LEMMA AskMaps ==
  ASSUME CInv, NEW p \in Proc, NEW l \in List, Ask(p, l)  PROVE Promise!LAsk(p, l)
<1>1. born[p] # None  BY DEF Ask, CInv, CacheTypeOK
<1> QED  BY <1>1 DEF Ask, Return, Go, Held, LetGo, files, Promise!LAsk, Promise!Held, Promise!LetGo

LEMMA RefusalMaps ==
  ASSUME CInv, NEW p \in Proc, asked[p] \in List, answer[p] = None,
         NEW a \in Refusals(asked[p]), Return(p, a), UNCHANGED <<now, born, memory, asked>>
  PROVE  Promise!LRefuse(p)
BY PriceListsAssumption DEF Return, Refusals, Refused, Promise!LRefuse, Promise!Refusals, Promise!Refused

LEMMA ListingMaps ==
  ASSUME CInv, NEW p \in Proc, asked[p] \in List, answer[p] = None,
         NEW day \in 0 .. now, born[p] <= day + (MaxAge + Longest),
         ReturnListing(p, day), UNCHANGED <<now, born, asked>>
  PROVE  Promise!LAnswer(p)
BY PriceListsAssumption DEF ReturnListing, Return, Kept, LetGo, Promise!LAnswer, Promise!Kept, Promise!LetGo

LEMMA OpenMaps ==
  ASSUME CInv, NEW p \in Proc, Open(p)  PROVE Promise!LNext \/ UNCHANGED Promise!listings
<1> DEFINE l == asked[p]
<1>1. l \in List /\ answer[p] = None /\ UNCHANGED <<now, born, asked>>
  BY DEF CInv, Waits, Open, files
<1>2. CASE cache[l] # None /\ cache[l].whole
  <2>1. cache[l].day \in 0 .. now /\ cache[l].mtime \in 0 .. now /\ born[p] \in 0 .. now
    BY <1>1, <1>2, FileType, BornType DEF CInv, Open
  <2>2. born[p] <= cache[l].mtime + MaxAge /\ cache[l].mtime <= cache[l].day + Longest
    BY <1>1, <1>2 DEF CInv, Good, Dated, Open
  <2>3. born[p] <= cache[l].day + (MaxAge + Longest)
    BY <2>1, <2>2, PriceCacheAssumption
  <2>4. ReturnListing(p, cache[l].day)  BY <1>2 DEF Open
  <2> QED  BY <1>1, <2>1, <2>3, <2>4, ListingMaps DEF Promise!LNext
<1>3. CASE ~ (cache[l] # None /\ cache[l].whole) /\ Client[l] = "aws"
  <2>1. Return(p, Refused("failed")) /\ UNCHANGED memory  BY <1>3 DEF Open
  <2>2. Refused("failed") \in Refusals(l)  BY DEF Refusals
  <2> QED  BY <1>1, <2>1, <2>2, RefusalMaps DEF Promise!LNext
<1>4. CASE ~ (cache[l] # None /\ cache[l].whole) /\ Client[l] # "aws"
  BY <1>1, <1>4 DEF Open, Go, Promise!listings
<1> QED  BY <1>2, <1>3, <1>4

LEMMA FailureMaps ==
  ASSUME CInv, NEW p \in Proc, GetRefused(p) \/ CopyFails(p)  PROVE Promise!LRefuse(p)
<1>1. asked[p] \in List /\ answer[p] = None /\ UNCHANGED <<now, born, memory, asked>>
  BY DEF CInv, Waits, GetRefused, CopyFails, files
<1>2. PICK a \in Refusals(asked[p]) : Return(p, a)
  BY DEF GetRefused, CopyFails, Refusals
<1> QED  BY <1>1, <1>2, RefusalMaps

LEMMA CopiedMaps ==
  ASSUME CInv, NEW p \in Proc, Copied(p)  PROVE Promise!LNext \/ UNCHANGED Promise!listings
<1>1. asked[p] \in List /\ answer[p] = None /\ UNCHANGED <<now, born, asked>>
  BY DEF CInv, Waits, Copied
<1>2. CASE Client[asked[p]] = "aws"  BY <1>1, <1>2 DEF Copied, Go, Promise!listings
<1>3. CASE Client[asked[p]] # "aws"
  <2>1. tmp[p] \in 0 .. now /\ born[p] <= tmp[p] /\ born[p] \in 0 .. now
    BY BornType DEF CInv, Copying, Copied
  <2>2. born[p] <= tmp[p] + (MaxAge + Longest)  BY <2>1, PriceCacheAssumption
  <2>3. ReturnListing(p, tmp[p])  BY <1>3 DEF Copied
  <2> QED  BY <1>1, <2>1, <2>2, <2>3, ListingMaps DEF Promise!LNext
<1> QED  BY <1>2, <1>3

LEMMA StepMaps ==
  CInv /\ [Next]_vars => Promise!LNext \/ UNCHANGED Promise!listings
<1> SUFFICES ASSUME CInv, [Next]_vars  PROVE Promise!LNext \/ UNCHANGED Promise!listings
  OBVIOUS
<1>1. ASSUME NEW p \in Proc, InClient(p)  PROVE Promise!LNext \/ UNCHANGED Promise!listings
  <2>1. CASE Get(p)  BY <2>1 DEF Get, Go, files, Promise!listings
  <2>2. CASE GetRefused(p) \/ CopyFails(p)  BY <2>2, FailureMaps DEF Promise!LNext
  <2> QED  BY <1>1, <2>1, <2>2, OpenMaps, CopiedMaps DEF InClient
<1>2. ASSUME NEW p \in Proc, Take(p)  PROVE Promise!LTake(p)
  BY <1>2 DEF Take, files, Promise!LTake
<1>3. ASSUME NEW p \in Proc, Begin(p)  PROVE Promise!LBegin(p)
  BY <1>3 DEF CInv, CacheTypeOK, Begin, files, Promise!LBegin
<1>4. ASSUME NEW p \in Proc, End(p)  PROVE Promise!LEnd(p)
  BY <1>4 DEF CInv, CacheTypeOK, End, files, Fresh, Promise!LEnd, Promise!Fresh
<1>5. ASSUME NEW p \in Proc, NEW l \in List, Ask(p, l)  PROVE Promise!LAsk(p, l)
  BY <1>5, AskMaps
<1>6. CASE Tick  BY <1>6 DEF Tick, process, Promise!LNext, Promise!LTick
<1>7. ASSUME NEW l \in List, Hurt(l)  PROVE UNCHANGED Promise!listings
  BY <1>7 DEF Hurt, process, Promise!listings
<1>8. CASE UNCHANGED vars  BY <1>8 DEF vars, files, process, Promise!listings
<1>9. Next => Promise!LNext \/ UNCHANGED Promise!listings
  BY <1>1, <1>2, <1>3, <1>4, <1>5, <1>6, <1>7 DEF Next, Promise!LNext
<1> QED  BY <1>8, <1>9

(***************************************************************************)
(* The clients implement Listings: whatever other processes, the disk and   *)
(* the provider do meanwhile, an answer is of the list that was asked for   *)
(* and no older than MaxAge and the longest download before its process     *)
(* began, and what a client keeps in memory answers for itself.              *)
(***************************************************************************)
THEOREM ClientsKeepPromise == Spec => KeepsPromise
<1>1. Init => Promise!LInit  BY DEF Init, Fresh, Promise!LInit, Promise!Fresh
<1>2. CInv /\ [Next]_vars => [Promise!LNext]_(Promise!listings)  BY StepMaps
<1> QED  BY <1>1, <1>2, CInvAlways, PTL DEF Spec, KeepsPromise, Promise!LSpec
=============================================================================
