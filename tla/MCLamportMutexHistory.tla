----------------------- MODULE MCLamportMutexHistory -----------------------
(***************************************************************************)
(* Instances of LamportMutexHistory for TLC.                               *)
(***************************************************************************)
EXTENDS MCLamportMutex, LamportMutexHistory
=============================================================================
