-------------------------- MODULE MCManagedSegment --------------------------
(***************************************************************************)
(* Instances of ManagedSegment for TLC.                                    *)
(***************************************************************************)
EXTENDS ManagedSegment

CONSTANTS p1, p2

TwoProcs == {p1, p2}
=============================================================================
