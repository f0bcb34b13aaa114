-------------------------------- MODULE Sync --------------------------------
(***************************************************************************)
(* cmd/archgopher sync: every price book is read, each price that says how  *)
(* to be fetched is looked up in the price lists through clients that       *)
(* keep the promise of Listings, and the book is written back.  One sync    *)
(* runs at a time and can be killed anywhere.                               *)
(*                                                                         *)
(* A book is a sequence of entries.  What an entry says of itself is in     *)
(* layout and stays; what sync may change is in disk: the values, one per   *)
(* row and region (an entry that is no table has one row), and the dates,   *)
(* [verified, checked] per value or for a table as a whole.  Prices are     *)
(* numbers in the entry's unit.                                             *)
(***************************************************************************)
EXTENDS Listings, Integers, Sequences, SequencesExt, Library

CONSTANTS
  Syncer,      \* the process that runs sync
  Region,      \* the regions, in order
  AnyRegion,   \* book.AnyRegion
  Item,        \* what a sync spec may ask of a list
  Published,   \* list -> day -> item -> [usd] or a refusal
  Catalogs,    \* [layout, disk]: the books at first
  Options,     \* [regions, add, check]
  LastDay,     \* bound on the days
  MaxRuns      \* bound on runs of sync

Places == ToSet(Region) \cup {AnyRegion}
Prices == Int \cup {None}
Dates == [verified : BOOLEAN, checked : Int \cup {None}]
Quotes ==
  [sold : SUBSET Places,
   parts : Seq([src : [Places -> [list : List, item : Item]], times : Int])]

Distinct(s) == \A j, k \in 1 .. Len(s) : s[j] = s[k] => j = k
SoloTable(e) == e.table /\ \A r \in ToSet(e.rows) : Len(e.quoted[r].parts) = 1
ListOf(e, r, p) == e.quoted[r].parts[1].src[p].list

(***************************************************************************)
(* A row is quoted in parts, one or more.  The spec of a table names one    *)
(* service, and "{row}" the product in it: rows that are not composed are   *)
(* looked up in one list, of the region or, where the spec fixes it, of all *)
(* (Spec.For).                                                              *)
(***************************************************************************)
EntryOK(e) ==
  /\ e.synced \in BOOLEAN /\ e.table \in BOOLEAN /\ e.global \in BOOLEAN
  /\ e.rows \in Seq(DOMAIN e.quoted) /\ Len(e.rows) > 0 /\ Distinct(e.rows)
  /\ ~ e.table => Len(e.rows) = 1
  /\ \A r \in ToSet(e.rows) : e.quoted[r] \in Quotes /\ Len(e.quoted[r].parts) > 0
  /\ SoloTable(e) =>
       /\ \A r, s \in ToSet(e.rows), p \in Places : ListOf(e, r, p) = ListOf(e, s, p)
       /\ \/ \A r \in ToSet(e.rows), p, q \in Places : ListOf(e, r, p) = ListOf(e, r, q)
          \/ \A r \in ToSet(e.rows), p, q \in Places : ListOf(e, r, p) = ListOf(e, r, q) => p = q

\* What a file says of an entry; a table is dated as a whole, a value by itself.
Whole == "table"
ContentOK(e, x) ==
  /\ x \in [values : {x.values}, dates : {x.dates}]
  /\ DOMAIN x.values \subseteq ToSet(e.rows) \X Places
  /\ x.values \in [DOMAIN x.values -> Prices]
  /\ x.dates \in [IF e.table THEN {Whole} ELSE DOMAIN x.values -> Dates]

BookOK(entries, content) ==
  /\ content \in [1 .. Len(entries) -> ToSet(content)]
  /\ \A n \in 1 .. Len(entries) : ContentOK(entries[n], content[n])

\* What a book was checked for before the model begins has a date before day 0.
Earlier(date) == date.verified => date.checked # None /\ date.checked < 0

CatalogOK(c) ==
  /\ c.layout \in Seq(ToSet(c.layout)) /\ c.disk \in [1 .. Len(c.layout) -> ToSet(c.disk)]
  /\ \A b \in 1 .. Len(c.layout) :
       /\ c.layout[b] \in Seq(ToSet(c.layout[b]))
       /\ \A n \in 1 .. Len(c.layout[b]) : EntryOK(c.layout[b][n])
       /\ BookOK(c.layout[b], c.disk[b])
       /\ \A n \in 1 .. Len(c.layout[b]) : \A k \in DOMAIN c.disk[b][n].dates : Earlier(c.disk[b][n].dates[k])

ASSUME SyncAssumption ==
  /\ Syncer \in Proc
  /\ None \notin Int /\ None \notin [list : List, day : Nat]
  /\ Region \in Seq(ToSet(Region)) /\ Distinct(Region) /\ AnyRegion \notin ToSet(Region)
  /\ Oldest \in Nat /\ LastDay \in Nat /\ MaxRuns \in Nat
  /\ \A l \in List, day \in 0 .. LastDay, item \in Item :
       Published[l][day][item] \in [usd : Int] \cup [refused : STRING]
  /\ Options \subseteq [regions : SUBSET Places, add : Seq(Places), check : BOOLEAN]
  /\ \A c \in Catalogs : CatalogOK(c)

VARIABLES
  layout,   \* book -> entry -> [synced, table, global, rows, quoted]
  disk,     \* book -> what its file holds, or Torn
  run,      \* where sync is
  opts, today,
  book,     \* the book it is at
  base,     \* history: that book as it was read
  held,     \* it in memory
  here,     \* the entry it is at
  order,    \* the regions to look it up in, in order: [region, added]
  place, row,          \* the loops over them and over the entry's rows
  part, sum,           \* composite.quote
  resolved, changed,   \* table
  used,     \* history: the listings that priced this entry so far
  runs      \* how often sync has begun

lookup == <<part, sum>>
walk == <<order, place, row>>
table == <<resolved, changed, used>>
syncvars == <<layout, disk, run, opts, today, book, base, held, here, walk, lookup, table, runs>>
vars == <<listings, syncvars>>

Torn == <<>>     \* an empty file is no book
With(f, c, x) == [k \in DOMAIN f \cup {c} |-> IF k = c THEN x ELSE f[k]]

-----------------------------------------------------------------------------
(***************************************************************************)
(* What is looked up: the regions asked for, and those being added; "*"     *)
(* where the price list has one price for every region.  A table goes       *)
(* region by region, so that each list is read once.                        *)
(***************************************************************************)
Asked(r) == opts.regions = {} \/ r \in opts.regions
Added(r) == r \in ToSet(opts.add)
Steps(regions, added) == [k \in 1 .. Len(regions) |-> [region |-> regions[k], added |-> added]]

RegionalOrder(e, had) ==
  LET old == Filtered(Region, {k \in 1 .. Len(Region) : Region[k] \in had /\ Asked(Region[k])})
      every == IF AnyRegion \in had /\ e.global THEN <<AnyRegion>> ELSE <<>>
      new == IF AnyRegion \in had THEN <<>> ELSE opts.add
  IN  Steps(old \o every, FALSE) \o Steps(new, TRUE)

TableOrder(had) ==
  LET all == <<AnyRegion>> \o Region
      regions == Filtered(all, {k \in 1 .. Len(all) : Added(all[k]) \/ (all[k] \in had /\ Asked(all[k]))})
  IN  [k \in 1 .. Len(regions) |-> [region |-> regions[k], added |-> Added(regions[k])]]

Entry == layout[book][here]
RegionsHad == {c[2] : c \in DOMAIN held[here].values}
Order == IF Entry.table THEN TableOrder(RegionsHad) ELSE RegionalOrder(Entry, RegionsHad)

-----------------------------------------------------------------------------
(***************************************************************************)
(* quote: the one price of a row, or the sum of its parts; the first part   *)
(* that is refused refuses the row.                                         *)
(***************************************************************************)
Step == order[place]
Cell == <<Entry.rows[row], Step.region>>
Parts == Entry.quoted[Cell[1]].parts
Offered == LET sold == Entry.quoted[Cell[1]].sold IN sold = {} \/ Cell[2] \in sold
Source == Parts[part].src[Cell[2]]

\* Resolve: what a listing has for the item: one price, none, or several products.
Resolve(listing, item) == Published[listing.list][listing.day][item]

(***************************************************************************)
(* value: what becomes of a value, from the quote and what it was.  A row   *)
(* that nobody priced is recorded as not offered; a price that left the     *)
(* list is a failure and stays.                                             *)
(***************************************************************************)
Had == Cell \in DOMAIN held[here].values
Old == IF Had THEN held[here].values[Cell] ELSE None
OldDate == IF Had THEN held[here].dates[Cell] ELSE [verified |-> FALSE, checked |-> None]

Absent == Refused("absent")

\* Mutant: a row that is absent is not offered, whatever it was.
StaysOnlyWhenRefused(quote) == IsRefusal(quote) /\ quote # Absent

Stays(quote) == IsRefusal(quote) /\ (quote # Absent \/ Old # None)

Valued(quote) == IF quote = Absent THEN None ELSE quote.usd

NewDate(quote) ==
  IF OldDate.verified /\ Valued(quote) = Old THEN OldDate
  ELSE [verified |-> TRUE, checked |-> today]

Priced(content, quote) ==
  [content EXCEPT ![here] =
     [values |-> With(@.values, Cell, Valued(quote)),
      dates |-> IF Entry.table THEN @.dates ELSE With(@.dates, Cell, NewDate(quote))]]

\* The next row, or the first of the next region.
Advance ==
  \/ row < Len(Entry.rows) /\ row' = row + 1 /\ UNCHANGED place
  \/ row = Len(Entry.rows) /\ row' = 1 /\ place' = place + 1

\* Mutants: a row that was looked up is verified, whatever the answer; one that
\* cannot be read is read again.
SettleDates(quote) ==
  /\ held' = IF ~ Stays(quote) THEN Priced(held, quote)
             ELSE IF Entry.table \/ OldDate.verified THEN held
             ELSE [held EXCEPT ![here].dates = With(@, Cell, [verified |-> TRUE, checked |-> today])]
  /\ resolved' = (resolved /\ ~ Stays(quote))
  /\ changed' = (changed \/ (~ Stays(quote) /\ Valued(quote) # Old))
  /\ Advance
  /\ part' = 1 /\ sum' = 0
SettleRetries(quote) ==
  /\ held' = IF Stays(quote) THEN held ELSE Priced(held, quote)
  /\ resolved' = (resolved /\ ~ Stays(quote))
  /\ changed' = (changed \/ (~ Stays(quote) /\ Valued(quote) # Old))
  /\ IF Stays(quote) THEN UNCHANGED <<place, row>> ELSE Advance
  /\ part' = 1 /\ sum' = 0

\* resolve, cell: the value is settled, and the loop goes on to the next.
Settle(quote) ==
  /\ held' = IF Stays(quote) THEN held ELSE Priced(held, quote)
  /\ resolved' = (resolved /\ ~ Stays(quote))
  /\ changed' = (changed \/ (~ Stays(quote) /\ Valued(quote) # Old))
  /\ Advance
  /\ part' = 1 /\ sum' = 0

AtCell == run = "cells" /\ place <= Len(order)
Wanted == IF Step.added THEN Entry.table \/ ~ Had ELSE Had

\* cell, regional: a row without the region is left alone, unless it is being
\* added; a region that is there is not added.
PassOver ==
  /\ AtCell /\ ~ Wanted
  /\ Advance
  /\ UNCHANGED <<listings, layout, disk, run, opts, today, book, base, held, here, order,
                 lookup, table, runs>>

NotOffered ==
  /\ AtCell /\ Wanted /\ ~ Offered
  /\ Settle(Absent)
  /\ UNCHANGED <<listings, layout, disk, run, opts, today, book, base, here, order, used, runs>>

AskPart ==
  /\ AtCell /\ Wanted /\ Offered
  /\ LAsk(Syncer, Source.list)
  /\ UNCHANGED syncvars

TakePart ==
  LET got == answer[Syncer]
      price == IF IsRefusal(got) THEN got ELSE Resolve(got, Source.item)
      cost == sum + price.usd * Parts[part].times
  IN  /\ AtCell
      /\ LTake(Syncer)
      /\ used' = IF IsRefusal(got) THEN used ELSE used \cup {got}
      /\ IF IsRefusal(price) THEN Settle(price)
         ELSE IF part = Len(Parts) THEN Settle([usd |-> cost])
         ELSE /\ part' = part + 1 /\ sum' = cost
              /\ UNCHANGED <<held, resolved, changed, place, row>>
      /\ UNCHANGED <<layout, disk, run, opts, today, book, base, here, order, runs>>

\* table: verified when every value was resolved, and dated when one changed.
Dated(date) ==
  [verified |-> date.verified \/ resolved,
   checked |-> IF changed \/ date.checked = None THEN today ELSE date.checked]

BeginEntry ==
  /\ run = "entry" /\ here <= Len(held) /\ Entry.synced
  /\ order' = Order
  /\ run' = "cells"
  /\ UNCHANGED <<listings, layout, disk, opts, today, book, base, held, here, place, row,
                 lookup, table, runs>>

SkipEntry ==
  /\ run = "entry" /\ here <= Len(held) /\ ~ Entry.synced
  /\ here' = here + 1
  /\ UNCHANGED <<listings, layout, disk, run, opts, today, book, base, held, walk, lookup,
                 table, runs>>

EntryDone ==
  /\ run = "cells" /\ place > Len(order)
  /\ held' = IF Entry.table THEN [held EXCEPT ![here].dates[Whole] = Dated(@)] ELSE held
  /\ resolved' = TRUE /\ changed' = FALSE /\ used' = {}
  /\ order' = <<>> /\ place' = 1 /\ row' = 1
  /\ here' = here + 1
  /\ run' = "entry"
  /\ UNCHANGED <<listings, layout, disk, opts, today, book, base, lookup, runs>>

-----------------------------------------------------------------------------
(***************************************************************************)
(* files: book after book, each written before the next is read.  The       *)
(* first that cannot be read ends the run.                                  *)
(***************************************************************************)
Start ==
  /\ run = "off" /\ runs < MaxRuns
  /\ LBegin(Syncer)
  /\ opts' \in Options /\ today' = now
  /\ book' = 1 /\ run' = "read" /\ runs' = runs + 1
  /\ UNCHANGED <<layout, disk, base, held, here, walk, lookup, table>>

ReadBook ==
  /\ run = "read" /\ book <= Len(disk) /\ disk[book] # Torn
  /\ base' = disk[book] /\ held' = disk[book] /\ here' = 1
  /\ run' = "entry"
  /\ UNCHANGED <<listings, layout, disk, opts, today, book, walk, lookup, table, runs>>

\* os.WriteFile empties the file before it writes.
Truncate ==
  /\ run = "entry" /\ here > Len(held) /\ ~ opts.check
  /\ disk' = [disk EXCEPT ![book] = Torn]
  /\ run' = "write"
  /\ UNCHANGED <<listings, layout, opts, today, book, base, held, here, walk, lookup, table, runs>>

NextBook ==
  /\ \/ run = "write" /\ disk' = [disk EXCEPT ![book] = held]
     \/ run = "entry" /\ here > Len(held) /\ opts.check /\ UNCHANGED disk
  /\ book' = book + 1 /\ run' = "read"
  /\ base' = <<>> /\ held' = <<>> /\ here' = 1
  /\ UNCHANGED <<listings, layout, opts, today, walk, lookup, table, runs>>

Stop ==
  /\ LEnd(Syncer)
  /\ run' = "off"
  /\ base' = <<>> /\ held' = <<>> /\ here' = 1
  /\ order' = <<>> /\ place' = 1 /\ row' = 1
  /\ part' = 1 /\ sum' = 0 /\ resolved' = TRUE /\ changed' = FALSE /\ used' = {}
  /\ UNCHANGED <<layout, disk, opts, today, book, runs>>

Done == run = "read" /\ (book <= Len(disk) => disk[book] = Torn) /\ Stop
Killed == run # "off" /\ Stop

-----------------------------------------------------------------------------
Answer == (LAnswer(Syncer) \/ LRefuse(Syncer)) /\ UNCHANGED syncvars
Midnight == now < LastDay /\ LTick /\ UNCHANGED syncvars

Syncing ==
  \/ Start \/ ReadBook \/ BeginEntry \/ SkipEntry
  \/ PassOver \/ NotOffered \/ AskPart \/ Answer \/ TakePart \/ EntryDone
  \/ Truncate \/ NextBook \/ Done

Init ==
  /\ LInit
  /\ \E c \in Catalogs : layout = c.layout /\ disk = c.disk
  /\ run = "off" /\ opts = [regions |-> {}, add |-> <<>>, check |-> FALSE]
  /\ today = 0 /\ book = 1 /\ runs = 0
  /\ base = <<>> /\ held = <<>> /\ here = 1
  /\ order = <<>> /\ place = 1 /\ row = 1
  /\ part = 1 /\ sum = 0 /\ resolved = TRUE /\ changed = FALSE /\ used = {}

Next == Syncing \/ Killed \/ Midnight

Spec == Init /\ [][Next]_vars

\* A sync that has begun runs on, and so do its clients: HTTP's timeout ends what hangs.
FairSpec == Spec /\ WF_vars(run # "off" /\ Syncing)

-----------------------------------------------------------------------------
\* What the parts of a row may come to, up to the k-th, each read on one of the days.
Found(src, day) == Published[src.list][day][src.item]
WithPart(sums, p, region, days) ==
  LET src == p.src[region]
      read == {day \in days : ~ IsRefusal(Found(src, day))}
  IN  {s + Found(src, day).usd * p.times : s \in sums, day \in read}
Sums(parts, region, days) ==
  LET upTo[k \in 0 .. Len(parts)] ==
        IF k = 0 THEN {0} ELSE WithPart(upTo[k - 1], parts[k], region, days)
  IN  upTo

\* What the price lists say a row costs when its parts are read on some of the days.
CouldCost(e, c, days) ==
  LET quoted == e.quoted[c[1]]
      gone == \/ quoted.sold # {} /\ c[2] \notin quoted.sold
              \/ \E k \in 1 .. Len(quoted.parts), day \in days : IsRefusal(Found(quoted.parts[k].src[c[2]], day))
              \/ \E k \in 1 .. Len(quoted.parts) : Client[quoted.parts[k].src[c[2]].list] = "aws"
  IN  Sums(quoted.parts, c[2], days)[Len(quoted.parts)] \cup (IF gone THEN {None} ELSE {})

\* The days whose listings a sync that dates a value may have read.
ReadFor(day) == {d \in 0 .. now : d + Oldest >= day}

(***************************************************************************)
(* The rows of a table that are not composed are priced, in a region, from  *)
(* one listing, since the clients keep what they read last: "so each offer  *)
(* is read once for every row" (sync_table.go).                             *)
(***************************************************************************)
OneListing ==
  used # {} /\ SoloTable(Entry) =>
    \A x, y \in used : x.list = y.list => x.day = y.day

(***************************************************************************)
(* A value of a region that sync verified and dated is what the price lists *)
(* said, that day or as long before as a client may keep a listing: through *)
(* failures, absences, rows composed of parts, and other commands that fill *)
(* and clear the same cache.                                                *)
(***************************************************************************)
WasListed(e, x) ==
  \A c \in DOMAIN x.values :
    LET date == x.dates[c]
    IN  date.verified /\ date.checked >= 0 => x.values[c] \in CouldCost(e, c, ReadFor(date.checked))

DatedWasListed ==
  \A b \in DOMAIN disk : \A n \in DOMAIN disk[b] :
    layout[b][n].synced /\ ~ layout[b][n].table => WasListed(layout[b][n], disk[b][n])

SyncedWasListed == OneListing /\ DatedWasListed

(***************************************************************************)
(* Of a table that sync verified, every value is one that the price lists   *)
(* said: it "is verified when every value was resolved" (sync_table.go).    *)
(***************************************************************************)
VerifiedTableWasRead ==
  \A b \in DOMAIN disk : \A n \in DOMAIN disk[b] :
    LET e == layout[b][n]
        content == disk[b][n]
    IN  e.synced /\ e.table /\ content.dates[Whole].verified /\ content.dates[Whole].checked >= 0
          => \A c \in DOMAIN content.values : content.values[c] \in CouldCost(e, c, 0 .. now)

(***************************************************************************)
(* Where all values are checked already and the price lists say the same,   *)
(* "a sync that changes nothing leaves the file byte for byte the same"     *)
(* (book.Marshal).                                                          *)
(***************************************************************************)
SameLeavesFile ==
  LET sameValues == \A n \in DOMAIN base : held[n].values = base[n].values
      allChecked == \A n \in DOMAIN base : \A k \in DOMAIN base[n].dates :
                      base[n].dates[k].verified /\ base[n].dates[k].checked # None
  IN  run = "write" /\ sameValues /\ allChecked => held = base

(***************************************************************************)
(* No run forgets a price: neither a price list that cannot be read nor one *)
(* without the row takes away a value that somebody found; and what a run   *)
(* changes, in tables of composed rows too, becomes what the lists say.     *)
(***************************************************************************)
Stands(e, was, is) ==
  /\ \A c \in DOMAIN was : c \in DOMAIN is /\ (was[c] # None => is[c] # None)
  /\ \A c \in DOMAIN is :
       \/ c \in DOMAIN was /\ is[c] = was[c]
       \/ is[c] \in CouldCost(e, c, ReadFor(today))

PricesStand ==
  run \in {"entry", "cells", "write"} =>
    \A n \in DOMAIN base : Stands(layout[book][n], base[n].values, held[n].values)

PricesKept == SameLeavesFile /\ PricesStand

\* A sync that has begun comes to its end, whatever the price lists answer.
SyncEnds == run # "off" ~> run = "off"
=============================================================================
