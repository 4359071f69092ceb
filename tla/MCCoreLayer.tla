---------------------------- MODULE MCCoreLayer ----------------------------
(***************************************************************************)
(* Instances of CoreLayer for TLC.                                         *)
(***************************************************************************)
EXTENDS CoreLayer

OneAndOne == [n \in Node |-> IF n = 3 THEN 0 ELSE 1]

\* A difference and a product do not commute, and pass the limits of Version.
DifferenceAndProduct == {[type |-> "SUBSTRACT", value |-> 3],
                         [type |-> "MULTIPLY", value |-> 2]}
OneSum == {[type |-> "SUM", value |-> 3]}
=============================================================================
