----------------------------- MODULE MCHashTable -----------------------------
(***************************************************************************)
(* Instances of HashTable for TLC.                                         *)
(***************************************************************************)
EXTENDS HashTable

CONSTANTS a, b

(* One key has two values, so that insert_or_assign can be told from doing *)
(* nothing; more would only multiply the tables.                           *)
TwoForOneKey == [k \in Keys |-> IF k = 2 THEN {a, b} ELSE {a}]

(* std::hash of an integer.                                                *)
HashOfInteger == [k \in Keys |-> k]

(* Which storage holds which key makes no difference: no step and no       *)
(* property looks at more of a node than its key, its value and its links. *)
KeyView ==
  LET listed == Listed
      NameOf(n) == IF n \in listed THEN <<key[n]>> ELSE <<>>
  IN  <<[i \in 0 .. bucket_count_ - 1 |-> NameOf(table.buckets[i])],
        {<<key[n], mapped[n], NameOf(table.bucket_prev[n]), NameOf(table.bucket_next[n]),
           NameOf(table.iter_prev[n]), NameOf(table.iter_next[n])>> : n \in listed},
        NameOf(table.head), NameOf(table.tail), size_, max_load_factor_,
        Len(pool.free_nodes), pool.cached_node_count, pool.node_pool_allocations,
        Cardinality(heap)>>
=============================================================================
