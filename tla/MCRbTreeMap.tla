----------------------------- MODULE MCRbTreeMap -----------------------------
(***************************************************************************)
(* Instances of RbTreeMap for TLC.                                         *)
(***************************************************************************)
EXTENDS RbTreeMap

CONSTANTS a, b

(* One key has two values, so that insert_or_assign can be told from doing *)
(* nothing; more would only multiply the trees.                            *)
TwoForOneKey == [k \in Keys |-> IF k = 4 THEN {a, b} ELSE {a}]

(* Which storage holds which key makes no difference: no step and no       *)
(* property looks at more of a node than its key, its value and its links. *)
KeyView ==
  LET present == InTree
      NameOf(n) == IF n \in present THEN <<key[n]>> ELSE <<>>
  IN  <<NameOf(tree.root),
        {<<key[n], mapped[n], NameOf(tree.child["left"][n]), NameOf(tree.child["right"][n]),
           NameOf(tree.parent[n]), n \in tree.red>> : n \in present},
        size_, Len(pool.free_nodes), pool.cached_node_count, pool.node_pool_allocations,
        Cardinality(heap), pc, clearing, NameOf(node), NameOf(above), rounds>>
=============================================================================
