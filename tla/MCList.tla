------------------------------- MODULE MCList -------------------------------
(***************************************************************************)
(* Instances of List for TLC.                                              *)
(***************************************************************************)
EXTENDS List

CONSTANTS list1, list2, a1, a2, b1

(* Two values of the same rank tell a stable sort from an unstable one.    *)
Ranks == [v \in Values |-> IF v = b1 THEN 2 ELSE 1]

Ranges == {<<a1>>, <<b1>>, <<b1, a2, a2>>}

(* Which storage holds which element makes no difference, and nothing but  *)
(* itself depends on the counter of allocations.                           *)
PlaceView ==
  <<[l \in Lists |-> [i \in 1 .. Len(Walk(ring, l)) |-> value[Walk(ring, l)[i]]]],
    [l \in Sentinels |-> Len(pool[l].free_nodes)], size_, Cardinality(heap)>>
=============================================================================
