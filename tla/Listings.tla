------------------------------ MODULE Listings ------------------------------
(***************************************************************************)
(* What the price-list clients promise the commands that use them: a        *)
(* listing is whole, is of the list that was asked for, and was the         *)
(* provider's no more than Oldest days before the command began; and what a *)
(* client keeps in memory it answers from.  Nothing is said of files, ages  *)
(* and downloads.                                                           *)
(***************************************************************************)
EXTENDS PriceLists

CONSTANT Oldest

VARIABLES
  now,     \* the day
  born,    \* the day a process began, None when it does not run
  memory,  \* what its clients keep: list -> None or the day it was listed
  asked,   \* the list it wants
  answer   \* None, a refusal, or a listing: its list, and the day it was listed

listings == <<now, born, memory, asked, answer>>

LInit ==
  /\ now = 0
  /\ born = [p \in Proc |-> None]
  /\ memory = [p \in Proc |-> Fresh]
  /\ asked = [p \in Proc |-> None] /\ answer = [p \in Proc |-> None]

LAsk(p, l) ==
  /\ born[p] # None /\ asked[p] = None
  /\ asked' = [asked EXCEPT ![p] = l]
  /\ IF Held(memory[p], l)
     THEN answer' = [answer EXCEPT ![p] = [list |-> l, day |-> memory[p][l]]] /\ UNCHANGED memory
     ELSE /\ UNCHANGED answer
          /\ \/ UNCHANGED memory
             \/ Client[l] # "gcp" /\ memory' = [memory EXCEPT ![p] = LetGo(@, Client[l])]
  /\ UNCHANGED <<now, born>>

LRefuse(p) ==
  /\ asked[p] # None /\ answer[p] = None
  /\ \E a \in Refusals(asked[p]) : answer' = [answer EXCEPT ![p] = a]
  /\ UNCHANGED <<now, born, memory, asked>>

LAnswer(p) ==
  /\ asked[p] # None /\ answer[p] = None
  /\ \E day \in 0 .. now :
       /\ born[p] <= day + Oldest
       /\ answer' = [answer EXCEPT ![p] = [list |-> asked[p], day |-> day]]
       /\ memory' = [memory EXCEPT ![p] = Kept(@, asked[p], day)]
  /\ UNCHANGED <<now, born, asked>>

LTake(p) ==
  /\ answer[p] # None
  /\ answer' = [answer EXCEPT ![p] = None]
  /\ asked' = [asked EXCEPT ![p] = None]
  /\ UNCHANGED <<now, born, memory>>

LBegin(p) ==
  /\ born[p] = None
  /\ born' = [born EXCEPT ![p] = now]
  /\ UNCHANGED <<now, memory, asked, answer>>

LEnd(p) ==
  /\ born[p] # None
  /\ born' = [born EXCEPT ![p] = None]
  /\ memory' = [memory EXCEPT ![p] = Fresh]
  /\ asked' = [asked EXCEPT ![p] = None]
  /\ answer' = [answer EXCEPT ![p] = None]
  /\ UNCHANGED now

LTick == now' = now + 1 /\ UNCHANGED <<born, memory, asked, answer>>

LNext ==
  \/ LTick
  \/ \E p \in Proc : LRefuse(p) \/ LAnswer(p) \/ LTake(p) \/ LBegin(p) \/ LEnd(p) \/ \E l \in List : LAsk(p, l)

LSpec == LInit /\ [][LNext]_listings
=============================================================================
