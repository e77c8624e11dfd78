----------------------------- MODULE MCSemaphore -----------------------------
(***************************************************************************)
(* Instances of Semaphore for TLC.                                         *)
(***************************************************************************)
EXTENDS Semaphore

CONSTANTS p1, p2, p3

ThreeProcs == {p1, p2, p3}
=============================================================================
