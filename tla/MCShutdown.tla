----------------------------- MODULE MCShutdown -----------------------------
(***************************************************************************)
(* The shutdown of some of the nodes, for TLC.                             *)
(***************************************************************************)
EXTENDS Shutdown

\* Two nodes of the core layer and one of each of the others: every kind of node
\* and of connection.
SomeNodes == <<"C1", "B2", "A3", "A1">>
SomeCore == {"A1", "A3"}
SomeLinks == {<<"A1", "A3">>, <<"A3", "B2">>, <<"B2", "C1">>}
SomeDown == [n \in Node |-> CASE n = "A3" -> {"B2"} [] n = "B2" -> {"C1"} [] OTHER -> {}]
=============================================================================
