------------------------------- MODULE MCSync -------------------------------
(***************************************************************************)
(* Small catalogs: prices per region of a list that is absent at first and  *)
(* of one that loses a price; a table of which one row is not listed; rows  *)
(* composed of parts of two lists; and a table of one list for all regions. *)
(***************************************************************************)
EXTENDS Sync

MCClient == [l \in List |-> CASE l[1] = "ec2" -> "aws" [] l[1] = "vm" -> "azure" [] OTHER -> "gcp"]
MCRegion == <<"r1", "r2">>
MCList == ({"ec2", "vm"} \X {"r1", "r2", AnyRegion}) \cup {<<"gce", "all">>, <<"sql", "all">>}

Usd(n) == [usd |-> n]

\* Prices rise on day 2; y leaves the lists of ec2 then, z was never in them.
MCPublished ==
  [l \in List |-> [day \in 0 .. LastDay |->
     [item \in {"x", "y", "z"} |->
        CASE item = "z" -> Absent
          [] item = "y" /\ l[1] = "ec2" /\ day >= 2 -> Absent
          [] item = "y" /\ l[1] = "vm" -> Refused("ambiguous")
          [] l[2] = "r2" -> Usd(IF day >= 2 THEN 4 ELSE 3)
          [] OTHER -> Usd(IF day >= 2 THEN 2 ELSE 1)]]]

Regional(service, item) == [r \in Places |-> [list |-> <<service, r>>, item |-> item]]
Always(list, item) == [r \in Places |-> [list |-> list, item |-> item]]
One(src) == [sold |-> {}, parts |-> <<[src |-> src, times |-> 1]>>]

Unchecked == [verified |-> FALSE, checked |-> None]
Before == [verified |-> TRUE, checked |-> -7]
Single(src, global) ==
  [synced |-> TRUE, table |-> FALSE, global |-> global, rows |-> <<"it">>, quoted |-> [r \in {"it"} |-> One(src)]]
At(regions, value, date) ==
  LET cells == {<<"it", r>> : r \in regions}
  IN  [values |-> [c \in cells |-> value], dates |-> [c \in cells |-> date]]

Ec2 == [layout |-> <<<<Single(Regional("ec2", "y"), FALSE)>>, <<Single(Regional("ec2", "z"), FALSE)>>>>,
        disk |-> <<<<At({"r1"}, 1, Before)>>, <<At({"r1"}, None, Unchecked)>>>>]

ByHand == [Single(Regional("vm", "x"), FALSE) EXCEPT !.synced = FALSE]
Vm == [layout |-> <<<<ByHand, Single(Always(<<"vm", "r1">>, "x"), TRUE), Single(Regional("vm", "y"), FALSE)>>>>,
       disk |-> <<<<At({"r1"}, 5, Before), At({AnyRegion}, 9, Unchecked), At({"r1"}, None, Before)>>>>]

Table(quoted, rows, values, date) ==
  [layout |-> <<<<[synced |-> TRUE, table |-> TRUE, global |-> FALSE, rows |-> rows, quoted |-> quoted]>>>>,
   disk |-> <<<<[values |-> values, dates |-> [k \in {Whole} |-> date]]>>>>]

Machines ==
  Table([r \in {"x", "z"} |-> One(Regional("ec2", r))], <<"x", "z">>,
        [c \in {<<"x", "r1">>, <<"z", "r1">>, <<"x", "r2">>} |-> IF c[1] = "x" THEN 9 ELSE None], Unchecked)

Composed ==
  LET half == [src |-> Always(<<"gce", "all">>, "x"), times |-> 1]
      twice == [src |-> Always(<<"sql", "all">>, "y"), times |-> 2]
  IN  Table([r \in {"c"} |-> [sold |-> {"r1"}, parts |-> <<half, twice>>]], <<"c">>,
            [c \in {"c"} \X {"r1"} |-> 3], Before)

Instances ==
  Table([r \in {"x", "y"} |-> One(Always(<<"gce", "all">>, r))], <<"x", "y">>,
        [c \in {"x", "y"} \X {"r1", "r2"} |-> 9], Unchecked)

MCCatalogs == {Ec2, Vm, Machines, Composed, Instances}

MCOptions == {[regions |-> {}, add |-> <<>>, check |-> FALSE],
              [regions |-> {"r1"}, add |-> <<"r2">>, check |-> FALSE],
              [regions |-> {"r2"}, add |-> <<>>, check |-> FALSE],
              [regions |-> {}, add |-> <<>>, check |-> TRUE]}
=============================================================================
