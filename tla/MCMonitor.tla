----------------------------- MODULE MCMonitor -----------------------------
(***************************************************************************)
(* A node and its monitor, for TLC.                                        *)
(***************************************************************************)
EXTENDS Monitor

AllKinds == {"text", "part", "ping", "close", "bad"}
=============================================================================
