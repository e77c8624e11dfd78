------------------------------ MODULE MCArrays ------------------------------
(***************************************************************************)
(* Instances of Arrays for TLC.                                            *)
(***************************************************************************)
EXTENDS Arrays, TLC

CONSTANTS v1, v2, s1, s2, e1, e2

FewTexts == {<<>>, <<e1>>, <<e1, e2>>}

(* Two vectors are interchangeable, and so are two strings.                *)
Symmetry == Permutations({v1, v2}) \cup Permutations({s1, s2})
=============================================================================
