---------------------------- MODULE MCFileEvents ----------------------------
(***************************************************************************)
(* Instances of FileEvents for TLC: one node of every layer but the core,  *)
(* which has two; two files.                                               *)
(***************************************************************************)
EXTENDS FileEvents

CONSTANTS A1, A2, B1, C1, F1, F2

Nodes == {A1, A2, B1, C1}
Arrays == [l \in 0 .. 2 |-> CASE l = 0 -> <<A1, A2>> [] l = 1 -> <<B1>> [] OTHER -> <<C1>>]
Files == {F1, F2}
Names == [f \in Files |-> IF f = F1 THEN A1 ELSE None]

\* The least value of an int of four bits: the sum of two of them wraps.
Sum == [type |-> "SUM", value |-> -8]
Read == [type |-> "READ", value |-> 0]
Unknown == [type |-> "UNKOWN", value |-> 0]

\* b, b0 and b1, each with a write in its body: the lines of
\* ClientTransactions/Examples.txt, which has them all in one file.
Lines == {[header |-> None, body |-> <<Sum, Unknown>>],
          [header |-> 0,    body |-> <<Read, Sum>>],
          [header |-> 1,    body |-> <<Sum>>]}
OneEach == [f \in Files |-> 1]
TwoAndOne == [f \in Files |-> IF f = F1 THEN 2 ELSE 1]
\* b, b0 and b1 with one transaction, a write only for the core layer.
Short == {[header |-> None, body |-> <<Sum, Unknown>>],
          [header |-> 0,    body |-> <<Sum>>],
          [header |-> 1,    body |-> <<Read>>]}
=============================================================================
