----------------------------- MODULE PriceCache -----------------------------
(***************************************************************************)
(* The price-list clients: provider/aws/pricelist, azure/retailprices and   *)
(* gcp/billingcatalog.  Each keeps what it downloads in files that all      *)
(* processes of a machine share, and looks at a file's age before it        *)
(* downloads again; and it keeps in memory, under a mutex, the list it read *)
(* last or, the third, every list.  A process here is one command, which    *)
(* asks for one list at a time.                                             *)
(*                                                                         *)
(* A listing is the day its provider was asked.  What a file holds, its     *)
(* modification time and whether it can be read are kept apart.             *)
(***************************************************************************)
EXTENDS PriceLists

CONSTANTS
  MaxAge,   \* Client.MaxAge, in days
  Longest,  \* the days a download may take before HTTP gives it up
  LastDay,  \* bounds on the days,
  MaxHurt   \* and on what happens to the files from outside

ASSUME PriceCacheAssumption ==
  MaxAge \in Nat /\ Longest \in Nat /\ LastDay \in Nat /\ MaxHurt \in Nat

VARIABLES
  now,     \* the day
  cache,   \* CacheDir: list -> None or [day, mtime, whole]
  hurt,    \* history: lists whose file something else damaged,
  hurts,   \* and how often a file was damaged or removed
  born,    \* the day a process began, None when it does not run
  signed,  \* its environment has credentials
  at,      \* where it is in its client
  asked,   \* the list it wants
  tmp,     \* the day of the listing it copies to its temporary file
  memory,  \* Client.last, Client.skus: list -> None or the day it was listed
  answer   \* what it was told, until the caller takes it

files == <<now, cache, hurt, hurts>>
process == <<born, signed, at, asked, tmp, memory, answer>>
vars == <<files, process>>

Place == {"off", "idle", "open", "get", "copy"}

\* A file, or none; what it lists is not newer than it.
File(newest) ==
  {None} \cup {f \in [day : 0 .. newest, mtime : 0 .. newest, whole : BOOLEAN] : f.day <= f.mtime}

-----------------------------------------------------------------------------
\* Mutant: a file serves however old it is.
RecentAtAnyAge(l) == cache[l] # None

\* refresh, cached: there is a file, and it is recent enough.
Recent(l) == cache[l] # None /\ now <= cache[l].mtime + MaxAge

\* The temporary file takes the place of the file, at once.
Renamed(l, day) == [cache EXCEPT ![l] = [day |-> day, mtime |-> now, whole |-> TRUE]]

Return(p, what) ==
  /\ at' = [at EXCEPT ![p] = "idle"]
  /\ answer' = [answer EXCEPT ![p] = what]

ReturnListing(p, day) ==
  /\ Return(p, [list |-> asked[p], day |-> day])
  /\ memory' = [memory EXCEPT ![p] = Kept(@, asked[p], day)]

Go(p, place) == at' = [at EXCEPT ![p] = place] /\ UNCHANGED answer

(***************************************************************************)
(* Offer, Items, service: the list in memory, or else the age of its file   *)
(* says whether to open it or to download.  Offer lets the previous list go *)
(* first.                                                                   *)
(***************************************************************************)
Ask(p, l) ==
  /\ at[p] = "idle" /\ asked[p] = None
  /\ asked' = [asked EXCEPT ![p] = l]
  /\ IF Held(memory[p], l)
     THEN Return(p, [list |-> l, day |-> memory[p][l]]) /\ UNCHANGED memory
     ELSE /\ Go(p, IF Recent(l) THEN "open" ELSE "get")
          /\ memory' = IF Client[l] = "aws" THEN [memory EXCEPT ![p] = LetGo(@, "aws")] ELSE memory
  /\ UNCHANGED <<files, born, signed, tmp>>

\* read, readCache: by now another process may have put a newer file there.
Open(p) ==
  LET l == asked[p] IN
  /\ at[p] = "open"
  /\ IF cache[l] # None /\ cache[l].whole
     THEN ReturnListing(p, cache[l].day)
     ELSE /\ IF Client[l] = "aws" THEN Return(p, Refused("failed")) ELSE Go(p, "get")
          /\ UNCHANGED memory
  /\ UNCHANGED <<files, born, signed, asked, tmp>>

\* Mutant: the download goes into the file itself.
GetInPlace(p) ==
  /\ at[p] = "get"
  /\ Client[asked[p]] = "gcp" => signed[p]
  /\ tmp' = [tmp EXCEPT ![p] = now]
  /\ cache' = [cache EXCEPT ![asked[p]] = [day |-> now, mtime |-> now, whole |-> FALSE]]
  /\ Go(p, "copy")
  /\ UNCHANGED <<now, hurt, hurts, born, signed, asked, memory>>

\* download: the provider answers, refuses, or cannot be reached.
Get(p) ==
  /\ at[p] = "get"
  /\ Client[asked[p]] = "gcp" => signed[p]
  /\ tmp' = [tmp EXCEPT ![p] = now]
  /\ Go(p, "copy")
  /\ UNCHANGED <<files, born, signed, asked, memory>>

GetRefused(p) ==
  LET c == Client[asked[p]] IN
  /\ at[p] = "get"
  /\ \/ c = "aws" /\ Return(p, Refused("absent"))
     \/ c = "gcp" /\ ~ signed[p] /\ Return(p, Refused("unauthorized"))
     \/ Return(p, Refused("failed"))
  /\ UNCHANGED <<files, born, signed, asked, tmp, memory>>

Copied(p) ==
  /\ at[p] = "copy"
  /\ cache' = Renamed(asked[p], tmp[p])
  /\ hurt' = hurt \ {asked[p]} /\ UNCHANGED hurts
  /\ IF Client[asked[p]] = "aws"
     THEN Go(p, "open") /\ UNCHANGED memory
     ELSE ReturnListing(p, tmp[p])
  /\ tmp' = [tmp EXCEPT ![p] = None]
  /\ UNCHANGED <<now, born, signed, asked>>

CopyFails(p) ==
  /\ at[p] = "copy"
  /\ Return(p, Refused("failed"))
  /\ tmp' = [tmp EXCEPT ![p] = None]
  /\ UNCHANGED <<files, born, signed, asked, memory>>

InClient(p) == Open(p) \/ Get(p) \/ GetRefused(p) \/ Copied(p) \/ CopyFails(p)

-----------------------------------------------------------------------------
(***************************************************************************)
(* The caller, and what happens around the processes: a process may be      *)
(* killed anywhere, its temporary file then stays and nothing reads it; the *)
(* user may remove the cache, or a disk damage a file of it; days pass, but *)
(* no download outlives the HTTP client's timeout.                          *)
(***************************************************************************)
Take(p) ==
  /\ answer[p] # None
  /\ answer' = [answer EXCEPT ![p] = None]
  /\ asked' = [asked EXCEPT ![p] = None]
  /\ UNCHANGED <<files, born, signed, at, tmp, memory>>

\* NewClient: nothing is in memory yet, or any more once it ends.
Begin(p) ==
  /\ at[p] = "off"
  /\ at' = [at EXCEPT ![p] = "idle"]
  /\ born' = [born EXCEPT ![p] = now]
  /\ \E s \in BOOLEAN : signed' = [signed EXCEPT ![p] = s]
  /\ UNCHANGED <<files, asked, tmp, memory, answer>>

End(p) ==
  /\ at[p] # "off"
  /\ at' = [at EXCEPT ![p] = "off"]
  /\ born' = [born EXCEPT ![p] = None]
  /\ tmp' = [tmp EXCEPT ![p] = None]
  /\ asked' = [asked EXCEPT ![p] = None]
  /\ memory' = [memory EXCEPT ![p] = Fresh]
  /\ answer' = [answer EXCEPT ![p] = None]
  /\ signed' = [signed EXCEPT ![p] = FALSE]
  /\ UNCHANGED files

Hurt(l) ==
  /\ cache[l] # None /\ hurts < MaxHurt
  /\ \/ cache' = [cache EXCEPT ![l].whole = FALSE] /\ hurt' = hurt \cup {l}
     \/ cache' = [cache EXCEPT ![l] = None] /\ UNCHANGED hurt
  /\ hurts' = hurts + 1
  /\ UNCHANGED <<now, process>>

Tick ==
  /\ now < LastDay
  /\ \A p \in Proc : at[p] = "copy" => now + 1 <= tmp[p] + Longest
  /\ now' = now + 1
  /\ UNCHANGED <<cache, hurt, hurts, process>>

Init ==
  /\ now = 0
  /\ cache \in [List -> File(0)]
  /\ hurt = {l \in List : cache[l] # None /\ ~ cache[l].whole} /\ hurts = 0
  /\ born = [p \in Proc |-> None] /\ signed = [p \in Proc |-> FALSE]
  /\ at = [p \in Proc |-> "off"]
  /\ asked = [p \in Proc |-> None] /\ tmp = [p \in Proc |-> None]
  /\ memory = [p \in Proc |-> Fresh]
  /\ answer = [p \in Proc |-> None]

Next ==
  \/ Tick
  \/ \E l \in List : Hurt(l)
  \/ \E p \in Proc : InClient(p) \/ Take(p) \/ Begin(p) \/ End(p) \/ \E l \in List : Ask(p, l)

Spec == Init /\ [][Next]_vars

-----------------------------------------------------------------------------
CacheTypeOK ==
  /\ now \in 0 .. LastDay /\ hurts \in 0 .. MaxHurt
  /\ cache \in [List -> File(now)] /\ hurt \subseteq List
  /\ at \in [Proc -> Place] /\ signed \in [Proc -> BOOLEAN]
  /\ asked \in [Proc -> List \cup {None}]
  /\ tmp \in [Proc -> 0 .. now \cup {None}] /\ born \in [Proc -> 0 .. now \cup {None}]
  /\ \A p \in Proc : (at[p] = "off") = (born[p] = None)

(***************************************************************************)
(* The clients answer as Listings promises: a listing of the list asked     *)
(* for, downloaded no more than MaxAge days before the process began, give  *)
(* or take the download, and the same again while a client keeps it.        *)
(***************************************************************************)
Promise == INSTANCE Listings WITH Oldest <- MaxAge + Longest
KeepsPromise == Promise!LSpec

(***************************************************************************)
(* Whatever processes download at once and wherever they are killed, a file *)
(* in the cache can be read, unless something from outside damaged it.      *)
(***************************************************************************)
WholeUnlessHurt == \A l \in List : cache[l] # None /\ ~ cache[l].whole => l \in hurt
=============================================================================
