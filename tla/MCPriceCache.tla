---------------------------- MODULE MCPriceCache ----------------------------
(***************************************************************************)
(* Two commands at once over a list of a client that keeps the last it read *)
(* and one of a client that keeps all.  A file serves the day it was        *)
(* written, a download may pass midnight.                                   *)
(***************************************************************************)
EXTENDS PriceCache, TLC

MCClient == [l \in List |-> IF l = "gce" THEN "gcp" ELSE IF l = "vm" THEN "azure" ELSE "aws"]
Symmetry == Permutations(Proc)
=============================================================================
