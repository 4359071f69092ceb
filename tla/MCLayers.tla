------------------------------ MODULE MCLayers ------------------------------
(***************************************************************************)
(* The topology that Controller::Run builds, for TLC, as far as its nodes  *)
(* share something: B2 below A3 has C1 and C2.  B1 below A2 has no         *)
(* children, A1 has nobody below it; A2 stands for both.                   *)
(***************************************************************************)
EXTENDS Layers

CONSTANTS A2, A3, B2, C1, C2

Cores == {A2, A3}
Ones == {B2}
Twos == {C1, C2}
ParentOf == [b \in Ones |-> A3]
ChildrenOf == [b \in Ones |-> Twos]

\* Writes that only add: the order of two versions is their age.
Sums == {[type |-> "SUM", value |-> 1]}
=============================================================================
