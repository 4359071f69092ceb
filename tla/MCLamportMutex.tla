--------------------------- MODULE MCLamportMutex ---------------------------
(***************************************************************************)
(* Instances of LamportMutex for TLC: who calls requestCS how often.       *)
(***************************************************************************)
EXTENDS LamportMutex

OneEach == [n \in Node |-> 1]
TwoAndOne == [n \in Node |-> IF n = 1 THEN 2 ELSE 1]
=============================================================================
