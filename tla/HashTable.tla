------------------------------ MODULE HashTable ------------------------------
(***************************************************************************)
(* SharedMemoryHashMap: the SharedMemoryHashTable with its node pool.      *)
(*                                                                         *)
(* Every node is linked twice: into the chain of its bucket and into the   *)
(* list of all nodes in the order of insertion, which iteration follows.   *)
(* The table is used under a lock of the application, so an operation is   *)
(* one step; memory for the buckets or for a node may be refused and the   *)
(* constructor of a node may throw.                                        *)
(***************************************************************************)
EXTENDS Integers, Sequences, FiniteSets, SequencesExt, NodePool

CONSTANTS
  Keys,
  Values,
  ValuesOf,     (* the values stored under a key: a bound on the input     *)
  Nodes,        (* the node storages that fit into the segment             *)
  Hash,         (* hash_function_                                          *)
  DefaultBucketCount, (* default_bucket_count                              *)
  MaxBuckets,   (* a longer bucket array does not fit into the segment     *)
  LoadUnit,     (* the maximum load 1.0                                    *)
  LoadFactors,  (* arguments of max_load_factor, in parts of that unit     *)
  Requests      (* arguments of rehash and reserve                         *)

Nil == 0

ASSUME TableAssumption ==
  /\ Nodes \subseteq Nat \ {Nil} /\ IsFiniteSet(Nodes)
  /\ Keys # {} /\ Values # {}
  /\ ValuesOf \in [Keys -> SUBSET Values]
  /\ Hash \in [Keys -> Nat]
  /\ {DefaultBucketCount, MaxBuckets, LoadUnit} \subseteq Nat \ {0}
  /\ LoadFactors \subseteq Nat \ {0}
  /\ Requests \subseteq Nat

VARIABLES
  table,  (* the bucket array, the links of the nodes, head_ and tail_     *)
  key,    (* value.first of every node                                     *)
  mapped, (* value.second of every node                                    *)
  size_,
  max_load_factor_, (* in parts of LoadUnit                                *)
  pool,   (* node_pool                                                     *)
  heap    (* the storages that the allocator can hand out                  *)

vars == <<table, key, mapped, size_, max_load_factor_, pool, heap>>

Maybe(S) == S \cup {Nil}
NoLinks == [n \in Nodes |-> Nil]

----------------------------------------------------------------------------
(* Reading the table                                                       *)

bucket_count_ == table.bucket_count

bucket_index_for(k, mod) == IF mod = 0 THEN 0 ELSE Hash[k] % mod

(* The nodes that follow n, n first, along one of the two kinds of link;   *)
(* no list that ends has more than there are.                              *)
Along(next, n) ==
  LET Longer == [w \in Seq(Nodes) |->
                   LET m == IF w = <<>> THEN n ELSE next[Last(w)]
                   IN  IF m = Nil THEN w ELSE Append(w, m)]
      walk[i \in 0 .. Cardinality(Nodes)] == IF i = 0 THEN <<>> ELSE Longer[walk[i - 1]]
  IN  walk[Cardinality(Nodes)]

Chain(i) == Along(table.bucket_next, table.buckets[i])
Iteration == Along(table.iter_next, table.head)

(* The first node with that key in the chain of the key's bucket.          *)
find_node(k) ==
  IF bucket_count_ = 0 THEN Nil
  ELSE LET chain == Chain(bucket_index_for(k, bucket_count_))
           hits == {i \in 1 .. Len(chain) : key[chain[i]] = k}
       IN  IF hits = {} THEN Nil ELSE chain[Min(hits)]

----------------------------------------------------------------------------
(* Buckets                                                                 *)

normalize_bucket_count(requested) ==
  IF requested = 0 THEN DefaultBucketCount ELSE requested

(* ceil(count / max_load_factor_)                                          *)
minimum_bucket_count_for_size(count, load) ==
  IF count = 0 THEN DefaultBucketCount ELSE (LoadUnit * count + load - 1) \div load

NewBuckets(t, count) ==
  [t EXCEPT !.buckets = [i \in 0 .. count - 1 |-> Nil], !.bucket_count = count]

(* n becomes the first node of the chain of its bucket.                    *)
PushedFront(t, n, k) ==
  LET i == bucket_index_for(k, t.bucket_count)
      next == t.buckets[i]
      linked == [t EXCEPT !.bucket_prev[n] = Nil, !.bucket_next[n] = next, !.buckets[i] = n]
  IN  IF next = Nil THEN linked ELSE [linked EXCEPT !.bucket_prev[next] = n]

(* The nodes enter the new buckets in the order of iteration.              *)
Relinked(t, nodes) ==
  LET after[i \in 0 .. Len(nodes)] ==
        IF i = 0 THEN t ELSE PushedFront(after[i - 1], nodes[i], key[nodes[i]])
  IN  after

relink_all_buckets(t) ==
  LET nodes == Along(t.iter_next, t.head) IN Relinked(t, nodes)[Len(nodes)]

(* The count that rehash settles for.                                      *)
RehashCount(requested, load) ==
  LET asked == normalize_bucket_count(requested)
      minimum == minimum_bucket_count_for_size(size_, load)
  IN  IF asked < minimum THEN minimum ELSE asked

(* Mutant: the new buckets are taken without filling them.                 *)
Rehashed_empty(count) == NewBuckets(table, count)

(* rehash once its memory is there: nothing to do for the same count.      *)
Rehashed(count) ==
  IF count = bucket_count_ THEN table ELSE relink_all_buckets(NewBuckets(table, count))

(* Mutant: the element about to come is not counted.                       *)
CountForInsert_late ==
  IF bucket_count_ = 0 \/ LoadUnit * size_ > bucket_count_ * max_load_factor_
  THEN RehashCount(IF bucket_count_ = 0 THEN DefaultBucketCount ELSE bucket_count_ * 2,
                   max_load_factor_)
  ELSE bucket_count_

(* maybe_rehash_for_insert: the number of buckets that it leaves.          *)
CountForInsert ==
  IF bucket_count_ = 0 \/ LoadUnit * (size_ + 1) > bucket_count_ * max_load_factor_
  THEN RehashCount(IF bucket_count_ = 0 THEN DefaultBucketCount ELSE bucket_count_ * 2,
                   max_load_factor_)
  ELSE bucket_count_

----------------------------------------------------------------------------
(* Linking and unlinking nodes                                             *)

(* Mutant: a new element comes first in the order of iteration.            *)
link_new_node_first(t, n, k) ==
  LET u == PushedFront(t, n, k)
      first == u.head
      prepended == [u EXCEPT !.iter_prev[n] = Nil, !.iter_next[n] = first, !.head = n]
  IN  IF first = Nil THEN [prepended EXCEPT !.tail = n]
      ELSE [prepended EXCEPT !.iter_prev[first] = n]

link_new_node(t, n, k) ==
  LET u == PushedFront(t, n, k)
      last == u.tail
      appended == [u EXCEPT !.iter_prev[n] = last, !.iter_next[n] = Nil, !.tail = n]
  IN  IF last = Nil THEN [appended EXCEPT !.head = n]
      ELSE [appended EXCEPT !.iter_next[last] = n]

unlink_bucket(t, n) ==
  LET prev == t.bucket_prev[n]
      next == t.bucket_next[n]
      u == IF prev # Nil THEN [t EXCEPT !.bucket_next[prev] = next]
           ELSE [t EXCEPT !.buckets[bucket_index_for(key[n], t.bucket_count)] = next]
  IN  IF next = Nil THEN u ELSE [u EXCEPT !.bucket_prev[next] = prev]

unlink_iteration(t, n) ==
  LET prev == t.iter_prev[n]
      next == t.iter_next[n]
      u == IF prev # Nil THEN [t EXCEPT !.iter_next[prev] = next] ELSE [t EXCEPT !.head = next]
  IN  IF next = Nil THEN [u EXCEPT !.tail = prev] ELSE [u EXCEPT !.iter_prev[next] = prev]

(* erase_node clears the links of the node before it is destroyed.         *)
Erased(t, n) ==
  [unlink_iteration(unlink_bucket(t, n), n) EXCEPT
     !.bucket_prev[n] = Nil, !.bucket_next[n] = Nil, !.iter_prev[n] = Nil, !.iter_next[n] = Nil]

----------------------------------------------------------------------------
(* Operations                                                              *)

(* insert, emplace, try_emplace, operator[] and insert_or_assign of a key  *)
(* that is not there.  If the memory for more buckets is refused nothing   *)
(* has been changed.                                                       *)
insert_value(k, v) ==
  /\ find_node(k) = Nil
  /\ CountForInsert <= MaxBuckets
  /\ \E n \in Offered(pool, heap) :
       /\ pool' = Taken(pool, heap, n).pool
       /\ heap' = Taken(pool, heap, n).heap
       /\ key' = [key EXCEPT ![n] = k]
       /\ mapped' = [mapped EXCEPT ![n] = v]
       /\ table' = link_new_node(Rehashed(CountForInsert), n, k)
  /\ size_' = size_ + 1
  /\ UNCHANGED max_load_factor_

(* The same, when there is no memory for the node or its constructor       *)
(* throws: the buckets stay rehashed.                                      *)
InsertThrows(k) ==
  /\ find_node(k) = Nil
  /\ CountForInsert <= MaxBuckets
  /\ table' = Rehashed(CountForInsert)
  /\ \/ Offered(pool, heap) = {} /\ UNCHANGED <<pool, heap>>
     \/ \E n \in Offered(pool, heap) :
          LET back == PutBack(Taken(pool, heap, n), n)
          IN  pool' = back.pool /\ heap' = back.heap
  /\ UNCHANGED <<key, mapped, size_, max_load_factor_>>

(* insert_or_assign of a key that is there.                                *)
Assign(k, v) ==
  /\ find_node(k) # Nil
  /\ mapped' = [mapped EXCEPT ![find_node(k)] = v]
  /\ UNCHANGED <<table, key, size_, max_load_factor_, pool, heap>>

(* erase by key or by iterator.                                            *)
erase(k) ==
  LET n == find_node(k)
  IN  /\ n # Nil
      /\ table' = Erased(table, n)
      /\ pool' = push_cached_node(pool, n)
      /\ size_' = size_ - 1
      /\ UNCHANGED <<key, mapped, max_load_factor_, heap>>

(* Mutant: clear leaves the buckets as they were.                          *)
clear_keeps_buckets ==
  /\ table.head # Nil
  /\ pool' = push_cached_nodes(pool, Iteration)
  /\ table' = [table EXCEPT !.head = Nil, !.tail = Nil]
  /\ size_' = 0
  /\ UNCHANGED <<key, mapped, max_load_factor_, heap>>

clear ==
  /\ table.head # Nil
  /\ pool' = push_cached_nodes(pool, Iteration)
  /\ table' = [NewBuckets(table, bucket_count_) EXCEPT !.head = Nil, !.tail = Nil]
  /\ size_' = 0
  /\ UNCHANGED <<key, mapped, max_load_factor_, heap>>

rehash(requested) ==
  /\ RehashCount(requested, max_load_factor_) <= MaxBuckets
  /\ table' = Rehashed(RehashCount(requested, max_load_factor_))
  /\ UNCHANGED <<key, mapped, size_, max_load_factor_, pool, heap>>

reserve(count) ==
  /\ minimum_bucket_count_for_size(count, max_load_factor_) > bucket_count_
  /\ rehash(minimum_bucket_count_for_size(count, max_load_factor_))

(* load_factor() > max_load_factor_, with the new maximum in place.        *)
Overloaded(load) == bucket_count_ # 0 /\ LoadUnit * size_ > bucket_count_ * load

max_load_factor(load) ==
  /\ max_load_factor_' = load
  /\ IF Overloaded(load)
     THEN LET count == RehashCount(minimum_bucket_count_for_size(size_, load), load)
          IN  count <= MaxBuckets /\ table' = Rehashed(count)
     ELSE UNCHANGED table
  /\ UNCHANGED <<key, mapped, size_, pool, heap>>

(* The memory for the rehash is refused, after the maximum has been set.   *)
MaxLoadFactorThrows(load) ==
  /\ Overloaded(load)
  /\ max_load_factor_' = load
  /\ UNCHANGED <<table, key, mapped, size_, pool, heap>>

shrink_to_fit ==
  /\ pool.free_nodes # <<>>
  /\ heap' = heap \cup CachedNodes(pool)
  /\ pool' = Shrunk(pool)
  /\ UNCHANGED <<table, key, mapped, size_, max_load_factor_>>

(* A second table is constructed by moving from this one, and destroyed:   *)
(* clear, the pool's shrink_to_fit and release_buckets.  This one goes on  *)
(* without buckets.                                                        *)
MoveAway ==
  /\ bucket_count_ # 0
  /\ table' = [NewBuckets(table, 0) EXCEPT !.head = Nil, !.tail = Nil]
  /\ size_' = 0
  /\ heap' = heap \cup {Iteration[i] : i \in 1 .. Len(Iteration)} \cup CachedNodes(pool)
  /\ pool' = NewPool
  /\ UNCHANGED <<key, mapped, max_load_factor_>>

(* A table as it is constructed for a number of buckets.                   *)
NewTable(requested) ==
  [buckets |-> [i \in 0 .. normalize_bucket_count(requested) - 1 |-> Nil],
   bucket_count |-> normalize_bucket_count(requested),
   bucket_prev |-> NoLinks, bucket_next |-> NoLinks,
   iter_prev |-> NoLinks, iter_next |-> NoLinks, head |-> Nil, tail |-> Nil]

(* Move assignment from a new table: this one is cleared, its pool and its *)
(* buckets are given back, and the other's take their place, its maximum   *)
(* load too.                                                               *)
MoveAssign(requested) ==
  /\ normalize_bucket_count(requested) <= MaxBuckets
  /\ table' = NewTable(requested)
  /\ size_' = 0
  /\ max_load_factor_' = LoadUnit
  /\ heap' = heap \cup {Iteration[i] : i \in 1 .. Len(Iteration)} \cup CachedNodes(pool)
  /\ pool' = NewPool
  /\ UNCHANGED <<key, mapped>>

Init ==
  /\ \E requested \in Requests :
       normalize_bucket_count(requested) <= MaxBuckets /\ table = NewTable(requested)
  /\ key \in [Nodes -> {CHOOSE k \in Keys : TRUE}]
  /\ mapped \in [Nodes -> {CHOOSE v \in Values : TRUE}]
  /\ size_ = 0
  /\ max_load_factor_ = LoadUnit
  /\ pool = NewPool
  /\ heap = Nodes

Next ==
  \/ \E k \in Keys : \E v \in ValuesOf[k] : insert_value(k, v) \/ Assign(k, v)
  \/ \E k \in Keys : InsertThrows(k) \/ erase(k)
  \/ clear
  \/ \E requested \in Requests :
       rehash(requested) \/ reserve(requested) \/ MoveAssign(requested)
  \/ \E load \in LoadFactors : max_load_factor(load) \/ MaxLoadFactorThrows(load)
  \/ shrink_to_fit
  \/ MoveAway

Spec == Init /\ [][Next]_vars

----------------------------------------------------------------------------
(* Properties                                                              *)

Listed == {Iteration[i] : i \in 1 .. Len(Iteration)}

Contents == {<<key[n], mapped[n]>> : n \in Listed}

(* Every variable has its type; the counters never go below zero.          *)
TypeOK ==
  /\ table.bucket_count \in 0 .. MaxBuckets
  /\ table.buckets \in [0 .. table.bucket_count - 1 -> Maybe(Nodes)]
  /\ \A links \in {table.bucket_prev, table.bucket_next, table.iter_prev, table.iter_next} :
       links \in [Nodes -> Maybe(Nodes)]
  /\ {table.head, table.tail} \subseteq Maybe(Nodes)
  /\ key \in [Nodes -> Keys]
  /\ mapped \in [Nodes -> Values]
  /\ size_ \in Nat
  /\ max_load_factor_ \in LoadFactors \cup {LoadUnit}
  /\ heap \subseteq Nodes

(* A walk along next visits every node once, and prev leads the same way   *)
(* back.                                                                   *)
TwoWay(walk, prev) ==
  /\ Cardinality({walk[i] : i \in 1 .. Len(walk)}) = Len(walk)
  /\ \A i \in 1 .. Len(walk) : prev[walk[i]] = IF i = 1 THEN Nil ELSE walk[i - 1]

(* The two ways of linking agree: the chains are two-way, hold exactly the *)
(* nodes of the iteration list, each in the bucket of its hash, and the    *)
(* list is two-way from head_ to tail_; also after a rehash whose insert   *)
(* failed and in a table that was moved from.                              *)
ChainsMatchList ==
  /\ TwoWay(Iteration, table.iter_prev)
  /\ table.tail = IF Iteration = <<>> THEN Nil ELSE Last(Iteration)
  /\ \A i \in 0 .. bucket_count_ - 1 :
       /\ TwoWay(Chain(i), table.bucket_prev)
       /\ {Chain(i)[j] : j \in 1 .. Len(Chain(i))} =
            {n \in Listed : bucket_index_for(key[n], bucket_count_) = i}
  /\ bucket_count_ = 0 => Listed = {}

(* find_node finds every element of the list, and no key is there twice.   *)
FindExact ==
  \A k \in Keys : {n \in Listed : key[n] = k} = {find_node(k)} \ {Nil}

(* No storage is lost or in two places: every one is linked, waits in the  *)
(* pool, or is the allocator's, and size() and the pool's counters say how *)
(* many there are.                                                         *)
NothingLost ==
  /\ PoolAccounts(pool, size_)
  /\ size_ = Cardinality(Listed)
  /\ size_ + Cardinality(CachedNodes(pool)) + Cardinality(heap) = Cardinality(Nodes)
  /\ Listed \cup CachedNodes(pool) \cup heap = Nodes

(* What every operation keeps of the table.                                *)
TableInv == TypeOK /\ ChainsMatchList /\ FindExact /\ NothingLost

(* load_factor() <= max_load_factor(), by multiplication.                  *)
WithinLoad(count, buckets, load) == LoadUnit * count <= buckets * load

(* No operation but one that lowers the maximum itself takes a table above *)
(* its maximum load: maybe_rehash_for_insert makes room for one more       *)
(* element, and rehash never goes below what the elements need.  The one   *)
(* exception is the first element of an empty table, at a maximum so low   *)
(* that the default number of buckets is not enough for it.  In a table    *)
(* above its maximum, which a failed max_load_factor leaves, an insert     *)
(* makes room for all elements that are already there.                     *)
LoadKept ==
  [][max_load_factor_' = max_load_factor_ =>
       /\ WithinLoad(size_, bucket_count_, max_load_factor_) =>
            \/ WithinLoad(size_, bucket_count_, max_load_factor_)'
            \/ /\ size_ = 0 /\ size_' = 1
               /\ ~WithinLoad(1, DefaultBucketCount, max_load_factor_)
       /\ size_' > size_ => WithinLoad(size_, bucket_count_', max_load_factor_)]_vars

Precedes(list, n, m) ==
  \E i, j \in 1 .. Len(list) : i < j /\ list[i] = n /\ list[j] = m

(* Iterators stay valid and iteration keeps the order of insertion: the    *)
(* elements that stay keep their nodes and their order through erasures    *)
(* and rehashes, and a new element comes last.                             *)
OrderKept ==
  [][\A old \in {Iteration}, new \in {Iteration'} :
       LET stay == {n \in ToSet(old) : \E m \in ToSet(new) : key'[m] = key[n]}
       IN  /\ stay \subseteq ToSet(new)
           /\ \A n, m \in stay : Precedes(old, n, m) => Precedes(new, n, m)
           /\ \A m \in ToSet(new) \ stay : m = table'.tail]_vars

(* The table implements the abstract map: an operation changes one key or  *)
(* removes all, and no rehash, failed insert or failed max_load_factor     *)
(* changes the map.                                                        *)
Map == INSTANCE AbstractMap WITH content <- Contents
MapSpec == Map!Spec
=============================================================================
