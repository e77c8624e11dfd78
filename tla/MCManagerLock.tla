---------------------------- MODULE MCManagerLock ----------------------------
(***************************************************************************)
(* Instances of ManagerLock for TLC.                                       *)
(***************************************************************************)
EXTENDS ManagerLock

CONSTANTS p1, p2, r1, h1, h2

TwoProcs == {p1, p2}
OneReader == {r1}
HeapOnly == {h1, h2}
=============================================================================
