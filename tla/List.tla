-------------------------------- MODULE List --------------------------------
(***************************************************************************)
(* SharedMemoryList: a ring of nodes through a sentinel, with a node pool  *)
(* for the nodes that it has destroyed.                                    *)
(*                                                                         *)
(* Several lists share one segment, and nodes move between them: splice,   *)
(* merge, swap and move relink nodes and leave the pools alone, or move    *)
(* the pools along.  A list is used under a lock of the application, so an *)
(* operation is one step.  Memory for a node may be refused, and the       *)
(* constructor of an element or a predicate may throw in the middle of an  *)
(* operation.                                                              *)
(***************************************************************************)
EXTENDS Integers, Sequences, FiniteSets, SequencesExt, NodePool

CONSTANTS
  Lists,     (* the lists, each standing for its own sentinel              *)
  Temp,      (* a list that lives within one operation                     *)
  Nodes,     (* the node storages that fit into the segment                *)
  Values,
  Rank,      (* what the comparison of sort and merge looks at             *)
  Inputs,    (* bound: the ranges that are inserted or assigned            *)
  MaxSize    (* bound: the argument of resize                              *)

ASSUME ListAssumption ==
  /\ Nodes \subseteq Nat /\ IsFiniteSet(Nodes)
  /\ Values # {}
  /\ Temp \notin Lists
  /\ (Lists \cup {Temp}) \cap Nodes = {}
  /\ Rank \in [Values -> Nat]
  /\ Inputs \subseteq Seq(Values)
  /\ MaxSize \in Nat

VARIABLES
  ring,   (* BaseNode::prev and BaseNode::next                             *)
  value,  (* Node::value                                                   *)
  size_,
  pool,   (* node_pool                                                     *)
  heap    (* the storages that the allocator can hand out                  *)

vars == <<ring, value, size_, pool, heap>>

Sentinels == Lists \cup {Temp}
BaseNodes == Sentinels \cup Nodes

(* Everything that an operation works on, as one value.                    *)
Now == [ring |-> ring, value |-> value, size |-> size_, pool |-> pool, heap |-> heap]

Becomes(s) ==
  /\ ring' = s.ring /\ value' = s.value /\ size_' = s.size
  /\ pool' = s.pool /\ heap' = s.heap

(* The nodes from first to the one before last; no range has more than     *)
(* there are.                                                              *)
Between(r, first, last) ==
  LET from[i \in 0 .. Cardinality(Nodes)] ==
        [n \in BaseNodes |->
           IF i = 0 \/ n = last THEN <<>> ELSE <<n>> \o from[i - 1][r.next[n]]]
  IN  from[Cardinality(Nodes)][first]

(* The nodes of list l, in the order of iteration.                         *)
Walk(r, l) == Between(r, r.next[l], l)

(* An iterator of list l: a node, or end().                                *)
Positions(l) == ToSet(Walk(ring, l)) \cup {l}

----------------------------------------------------------------------------
(* Links                                                                   *)

reset_sentinel(r, l) == [r EXCEPT !.prev[l] = l, !.next[l] = l]

link_between(r, prev, next, n) ==
  [r EXCEPT !.prev[n] = prev, !.next[n] = next, !.next[prev] = n, !.prev[next] = n]

unlink(r, n) ==
  [r EXCEPT !.next[r.prev[n]] = r.next[n], !.prev[r.next[n]] = r.prev[n],
            !.prev[n] = n, !.next[n] = n]

count_range(r, first, last) == Len(Between(r, first, last))
is_node_in_range(r, n, first, last) == n \in ToSet(Between(r, first, last))

transfer_range_before(s, l, m, position, first, last_exclusive, moved_count) ==
  LET before_first == s.ring.prev[first]
      last == s.ring.prev[last_exclusive]
      out == [s.ring EXCEPT !.next[before_first] = last_exclusive,
                            !.prev[last_exclusive] = before_first]
      before_position == out.prev[position]
  IN  [s EXCEPT !.ring = [out EXCEPT !.next[before_position] = first,
                                     !.prev[first] = before_position,
                                     !.next[last] = position, !.prev[position] = last],
                !.size = IF l = m THEN s.size
                         ELSE [s.size EXCEPT ![l] = @ + moved_count, ![m] = @ - moved_count]]

(* The nodes become the ring of l, in the order of the vector.             *)
relink_nodes_in_order(r, l, nodes) ==
  LET ends == [r EXCEPT !.next[l] = Head(nodes), !.prev[l] = Last(nodes),
                        !.prev[Head(nodes)] = l, !.next[Last(nodes)] = l]
      linked[i \in 0 .. Len(nodes) - 1] ==
        IF i = 0 THEN ends
        ELSE [linked[i - 1] EXCEPT !.next[nodes[i]] = nodes[i + 1],
                                   !.prev[nodes[i + 1]] = nodes[i]]
  IN  IF nodes = <<>> THEN reset_sentinel(r, l) ELSE linked[Len(nodes) - 1]

(* std::stable_sort of a vector of nodes by the rank of their values: a    *)
(* node goes behind those of lower rank and those of its rank before it.   *)
stable_sort(nodes) ==
  LET rank(i) == Rank[value[nodes[i]]]
      place(j) == Cardinality({i \in 1 .. Len(nodes) :
                                 rank(i) < rank(j) \/ (rank(i) = rank(j) /\ i <= j)})
  IN  [p \in 1 .. Len(nodes) |-> nodes[CHOOSE j \in 1 .. Len(nodes) : place(j) = p]]

----------------------------------------------------------------------------
(* Elements                                                                *)

(* How many nodes create_node can still deliver for list l.                *)
Room(s, l) == Len(s.pool[l].free_nodes) + Cardinality(s.heap)

(* emplace, with memory at hand and a constructor that returns.  Which     *)
(* storage of the heap is used makes no difference.                        *)
emplace(s, l, pos, v) ==
  LET offered == Offered(s.pool[l], s.heap)
      n == CHOOSE x \in offered : \A y \in offered : x <= y
      taken == Taken(s.pool[l], s.heap, n)
  IN  [ring |-> link_between(s.ring, s.ring.prev[pos], pos, n),
       value |-> [s.value EXCEPT ![n] = v],
       size |-> [s.size EXCEPT ![l] = @ + 1],
       pool |-> [s.pool EXCEPT ![l] = taken.pool],
       heap |-> taken.heap]

(* The first i values of a range, inserted before pos.                     *)
InsertSome(s, l, pos, vals, i) ==
  LET after[j \in 0 .. i] == IF j = 0 THEN s ELSE emplace(after[j - 1], l, pos, vals[j])
  IN  after[i]

(* How far an insertion of n elements may come: to its end when there is   *)
(* memory, and anywhere before because a constructor throws.               *)
Reached(s, l, n) == {i \in 0 .. n : i <= Room(s, l)}

erase(s, l, n) ==
  [s EXCEPT !.ring = unlink(@, n), !.pool[l] = push_cached_node(@, n), !.size[l] = @ - 1]

EraseAll(s, l, nodes) ==
  LET after[i \in 0 .. Len(nodes)] ==
        IF i = 0 THEN s ELSE erase(after[i - 1], l, nodes[i])
  IN  after[Len(nodes)]

clear(s, l) ==
  [s EXCEPT !.pool[l] = push_cached_nodes(@, Walk(s.ring, l)),
            !.ring = reset_sentinel(@, l), !.size[l] = 0]

shrink_to_fit(s, l) ==
  [s EXCEPT !.heap = @ \cup CachedNodes(s.pool[l]), !.pool[l] = Shrunk(@)]

(* Mutant: the cached nodes go away with the list.                         *)
Destroyed_keeps_pool(s, l) == [clear(s, l) EXCEPT !.pool[l] = NewPool]

(* The destructor, and what the constructors do before they rethrow; the   *)
(* next list of that name starts with a new pool.                          *)
Destroyed(s, l) == [shrink_to_fit(clear(s, l), l) EXCEPT !.pool[l] = NewPool]

(* swap: only the outer links of the two rings change.                     *)
rehang(r, k, first, last, count) ==
  IF count = 0 THEN reset_sentinel(r, k)
  ELSE [r EXCEPT !.next[k] = first, !.prev[k] = last, !.prev[first] = k, !.next[last] = k]

swap(s, l, m) ==
  LET r == s.ring
      one == rehang(r, l, r.next[m], r.prev[m], s.size[m])
  IN  [s EXCEPT !.ring = rehang(one, m, r.next[l], r.prev[l], s.size[l]),
                !.size[l] = s.size[m], !.size[m] = s.size[l],
                !.pool[l] = s.pool[m], !.pool[m] = s.pool[l]]

adopt_nodes_from(s, l, m) ==
  LET r == s.ring
      first == r.next[m]
      last == r.prev[m]
      taken == [r EXCEPT !.next[l] = first, !.prev[l] = last,
                         !.prev[first] = l, !.next[last] = l]
  IN  IF s.size[m] = 0
      THEN [s EXCEPT !.ring = reset_sentinel(@, l), !.size[l] = 0]
      ELSE [s EXCEPT !.ring = reset_sentinel(taken, m), !.size[l] = s.size[m], !.size[m] = 0]

(* Move assignment: the pool of m comes along, and m starts a new one.     *)
Moved(s, l, m) ==
  LET free == shrink_to_fit(clear(s, l), l)
  IN  adopt_nodes_from([free EXCEPT !.pool[l] = free.pool[m], !.pool[m] = NewPool], l, m)

----------------------------------------------------------------------------
(* Operations                                                              *)

(* insert of a range, an initializer_list or a single value, emplace,      *)
(* push_front and push_back.  What was inserted before an exception stays. *)
insert(l, pos, vals) ==
  \E i \in Reached(Now, l, Len(vals)) : Becomes(InsertSome(Now, l, pos, vals, i))

assign(l, vals) ==
  \E i \in Reached(clear(Now, l), l, Len(vals)) :
    LET empty == clear(Now, l)
    IN  Becomes(InsertSome(empty, l, empty.ring.next[l], vals, i))

(* erase of a range or of one element, pop_front, pop_back.                *)
Erase(l, first, last) == Becomes(EraseAll(Now, l, Between(ring, first, last)))

Clear(l) == Becomes(clear(Now, l))

ShrinkToFit(l) == Becomes(shrink_to_fit(Now, l))

(* resize_default and resize_fill.                                         *)
resize(l, count, v) ==
  IF size_[l] >= count
  THEN Becomes(EraseAll(Now, l, Reverse(SubSeq(Walk(ring, l), count + 1, size_[l]))))
  ELSE \E i \in Reached(Now, l, count - size_[l]) :
         Becomes(InsertSome(Now, l, l, [j \in 1 .. count - size_[l] |-> v], i))

(* remove and remove_if, for the values of which the predicate holds; it   *)
(* throws after the first i elements, or never.                            *)
remove_if(l, matching) ==
  \E i \in 0 .. size_[l] :
    LET nodes == Walk(ring, l)
        after[j \in 0 .. i] ==
          IF j = 0 THEN Now
          ELSE IF value[nodes[j]] \in matching THEN erase(after[j - 1], l, nodes[j])
               ELSE after[j - 1]
    IN  Becomes(after[i])

(* Mutant: current advances also over an element that was erased.          *)
unique_keeps_last(l) ==
  LET nodes == Walk(ring, l)
  IN  /\ size_[l] >= 2
      /\ Becomes(EraseAll(Now, l, SelectSeq(nodes, LAMBDA n : /\ ring.next[n] # l
                                                              /\ value[n] = value[ring.next[n]])))

(* unique: current is the last element that stayed.                        *)
unique(l) ==
  \E i \in 0 .. size_[l] - 1 :
    LET nodes == Walk(ring, l)
        Visit(a, n) == IF value[a.current] = value[n]
                       THEN [a EXCEPT !.state = erase(@, l, n)] ELSE [a EXCEPT !.current = n]
        after[j \in 0 .. i] ==
          IF j = 0 THEN [state |-> Now, current |-> nodes[1]]
          ELSE Visit(after[j - 1], nodes[j + 1])
    IN  size_[l] >= 2 /\ Becomes(after[i].state)

(* reverse exchanges the two links of every node, the sentinel's too.      *)
reverse(l) ==
  /\ size_[l] >= 2
  /\ ring' = LET Turned(a, b) == [n \in BaseNodes |-> IF n \in Positions(l) THEN b[n] ELSE a[n]]
             IN  [next |-> Turned(ring.next, ring.prev), prev |-> Turned(ring.prev, ring.next)]
  /\ UNCHANGED <<value, size_, pool, heap>>

(* splice of a whole list.                                                 *)
SpliceAll(l, m, pos) ==
  /\ l # m /\ size_[m] # 0
  /\ Becomes(transfer_range_before(Now, l, m, pos, ring.next[m], m, size_[m]))

(* splice of one element.                                                  *)
SpliceOne(l, m, pos, n) ==
  /\ n # m
  /\ ~(l = m /\ pos \in {n, ring.next[n]})
  /\ Becomes(transfer_range_before(Now, l, m, pos, n, ring.next[n], 1))

(* splice of a range; nothing happens if pos lies in the range itself.     *)
SpliceRange(l, m, pos, first, last) ==
  /\ first # last
  /\ l = m => pos \notin {first, last} /\ ~is_node_in_range(ring, pos, first, last)
  /\ Becomes(transfer_range_before(Now, l, m, pos, first, last, count_range(ring, first, last)))

(* merge and sort change nothing when the comparison throws.               *)
merge(l, m) ==
  /\ l # m /\ size_[m] # 0
  /\ LET nodes == stable_sort(Walk(ring, l) \o Walk(ring, m))
     IN  ring' = reset_sentinel(relink_nodes_in_order(ring, l, nodes), m)
  /\ size_' = [size_ EXCEPT ![l] = @ + size_[m], ![m] = 0]
  /\ UNCHANGED <<value, pool, heap>>

sort(l) ==
  /\ size_[l] >= 2
  /\ ring' = relink_nodes_in_order(ring, l, stable_sort(Walk(ring, l)))
  /\ UNCHANGED <<value, size_, pool, heap>>

Swap(l, m) == l # m /\ Becomes(swap(Now, l, m))

MoveAssign(l, m) == l # m /\ Becomes(Moved(Now, l, m))

(* l = SharedMemoryList(vals): a constructor and a move assignment.        *)
ConstructAssign(l, vals) ==
  /\ Len(vals) <= Room(Now, Temp)
  /\ Becomes(Destroyed(Moved(InsertSome(Now, Temp, Temp, vals, Len(vals)), l, Temp), Temp))

(* Copy assignment: a copy is made, exchanged and destroyed.               *)
CopyAssign(l, m) ==
  LET vals == [i \in 1 .. size_[m] |-> value[Walk(ring, m)[i]]]
  IN  /\ l # m
      /\ Len(vals) <= Room(Now, Temp)
      /\ Becomes(Destroyed(swap(InsertSome(Now, Temp, Temp, vals, Len(vals)), l, Temp), Temp))

(* Either constructor throws after i elements, clears and shrinks.         *)
ConstructorThrows(vals) ==
  \E i \in Reached(Now, Temp, Len(vals) - 1) :
    Becomes(Destroyed(InsertSome(Now, Temp, Temp, vals, i), Temp))

Init ==
  /\ ring = [next |-> [n \in BaseNodes |-> n], prev |-> [n \in BaseNodes |-> n]]
  /\ value = [n \in Nodes |-> CHOOSE v \in Values : TRUE]
  /\ size_ = [l \in Sentinels |-> 0]
  /\ pool = [l \in Sentinels |-> NewPool]
  /\ heap = Nodes

Next ==
  \E l \in Lists :
    \/ \E vals \in Inputs :
         \/ \E pos \in Positions(l) : insert(l, pos, vals)
         \/ assign(l, vals) \/ ConstructAssign(l, vals) \/ ConstructorThrows(vals)
    \/ \E i, j \in 1 .. size_[l] + 1 :
         i < j /\ LET nodes == Append(Walk(ring, l), l) IN Erase(l, nodes[i], nodes[j])
    \/ Clear(l) \/ ShrinkToFit(l)
    \/ \E count \in 0 .. MaxSize, v \in Values : resize(l, count, v)
    \/ \E matching \in SUBSET Values : remove_if(l, matching)
    \/ unique(l) \/ reverse(l) \/ sort(l)
    \/ \E m \in Lists :
         \/ merge(l, m) \/ Swap(l, m) \/ MoveAssign(l, m) \/ CopyAssign(l, m)
         \/ \E pos \in Positions(l) :
              \/ SpliceAll(l, m, pos)
              \/ \E n \in Positions(m) : SpliceOne(l, m, pos, n)
              \/ \E i, j \in 1 .. size_[m] + 1 :
                   i <= j /\ LET nodes == Append(Walk(ring, m), m)
                             IN  SpliceRange(l, m, pos, nodes[i], nodes[j])

Spec == Init /\ [][Next]_vars

----------------------------------------------------------------------------
(* Properties                                                              *)

Linked(l) == ToSet(Walk(ring, l))

(* Every variable has its type.                                            *)
TypeOK ==
  /\ ring \in [next : [BaseNodes -> BaseNodes], prev : [BaseNodes -> BaseNodes]]
  /\ value \in [Nodes -> Values]
  /\ size_ \in [Sentinels -> Nat]
  /\ heap \subseteq Nodes

(* Every list is a ring that leads back over prev the way it went over     *)
(* next, and size() is the number of its elements, after any exception and *)
(* however the elements came into the list.                                *)
RingsTwoWay ==
  \A l \in Sentinels :
    /\ \A n \in Positions(l) : ring.prev[ring.next[n]] = n
    /\ size_[l] = Cardinality(Linked(l))

(* No node is lost or in two places: each is linked in one list, waits in  *)
(* one pool or is the allocator's.  In particular a node that was spliced  *)
(* or merged is destroyed into the pool of the list that it is in, and the *)
(* temporary of a copy or of a failed constructor leaves nothing behind.   *)
NothingLost ==
  LET held == [l \in Sentinels |-> Linked(l) \cup CachedNodes(pool[l])]
  IN  /\ heap \cup UNION {held[l] : l \in Sentinels} = Nodes
      /\ \A l, m \in Sentinels : l # m => held[l] \cap held[m] = {}
      /\ \A l \in Sentinels :
           /\ heap \cap held[l] = {}
           /\ Linked(l) \cap CachedNodes(pool[l]) = {}
           /\ pool[l].cached_node_count = Cardinality(CachedNodes(pool[l]))
      /\ held[Temp] = {}

(* What every operation keeps of the lists.                                *)
ListInv == TypeOK /\ RingsTwoWay /\ NothingLost

(* The lists as sequences of elements with their nodes.                    *)
Contents ==
  [l \in Lists |-> LET nodes == Walk(ring, l)
                   IN  [i \in 1 .. Len(nodes) |-> <<nodes[i], value[nodes[i]]>>]]

(* The lists implement sequences of elements that keep their nodes: every  *)
(* operation, complete or cut short by an exception, does to them what it  *)
(* says, and iterators stay valid.                                         *)
AsSequences == INSTANCE AbstractLists WITH content <- Contents
ListSpec == AsSequences!Spec
=============================================================================
