----------------------------- MODULE PriceLists -----------------------------
(***************************************************************************)
(* What the price-list clients and their users share: lists, which client   *)
(* reads each, what it may answer and what it keeps in memory.              *)
(***************************************************************************)
EXTENDS Naturals, FiniteSets

CONSTANTS
  Proc,     \* processes: one command each
  List,     \* price lists: a service, in a region or in all
  Client,   \* list -> the client that reads it
  None

Clients == {"aws", "azure", "gcp"}

ASSUME PriceListsAssumption ==
  /\ Client \in [List -> Clients]
  /\ None \notin Nat /\ None \notin List

Refused(why) == [refused |-> why]
IsRefusal(a) == "refused" \in DOMAIN a

\* The errors a client gives for a list (sources.absent, sources.unauthorized).
Refusals(l) ==
  {Refused("failed")}
    \cup (IF Client[l] = "aws" THEN {Refused("absent")} ELSE {})
    \cup (IF Client[l] = "gcp" THEN {Refused("unauthorized")} ELSE {})

(***************************************************************************)
(* A command's memory of the lists its clients read: list -> None or the    *)
(* day it was listed.  The first two keep the list they read last           *)
(* (Client.last), the third every list for as long as it lives              *)
(* (Client.skus, and in Client.matched what was found in them).             *)
(***************************************************************************)
Fresh == [l \in List |-> None]
Held(memory, l) == memory[l] # None
LetGo(memory, c) == [l \in List |-> IF Client[l] = c THEN None ELSE memory[l]]
Kept(memory, l, day) ==
  [(IF Client[l] = "gcp" THEN memory ELSE LetGo(memory, Client[l])) EXCEPT ![l] = day]
=============================================================================
