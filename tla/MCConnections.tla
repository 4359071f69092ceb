--------------------------- MODULE MCConnections ---------------------------
(***************************************************************************)
(* The connections of Controller::Run (Controller.cpp:52-55), for TLC.     *)
(***************************************************************************)
EXTENDS Connections

\* A1, A2, A3 and B1 are 1 to 4.
To(a, b, l) == [from |-> a, to |-> b, layer |-> l]

\* The core layer and B1.
CorePlan == <<To(1, 2, 0), To(1, 3, 0), To(2, 3, 0), To(2, 4, 1)>>
=============================================================================
