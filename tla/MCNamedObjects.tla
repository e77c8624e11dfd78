--------------------------- MODULE MCNamedObjects ---------------------------
(***************************************************************************)
(* Instances of NamedObjects for TLC.                                      *)
(***************************************************************************)
EXTENDS NamedObjects, TLC

CONSTANTS p1, p2, p3, n1, n2, a1, a2, a3

ThreePids == {p1, p2, p3}
TwoNames == {n1, n2}
ThreeHeaders == {a1, a2, a3}

(* Processes, names and addresses are interchangeable.                     *)
Symmetry == Permutations(ThreePids) \cup Permutations(TwoNames) \cup Permutations(ThreeHeaders)
=============================================================================
