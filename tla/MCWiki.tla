------------------------------- MODULE MCWiki -------------------------------
(***************************************************************************)
(* A small instance of Wiki for TLC: three requests of any kind.  They are *)
(* interchangeable, so one order of the kinds stands for all.              *)
(***************************************************************************)
EXTENDS Wiki

CONSTANTS o1, o2, o3

Rank(k) == CASE k = "save" -> 1 [] k = "generate" -> 2 [] k = "revert" -> 3

Sorted == {k \in [Op -> Kind] : /\ Rank(k[o1]) <= Rank(k[o2])
                              /\ o3 \in Op => Rank(k[o2]) <= Rank(k[o3])}
=============================================================================
