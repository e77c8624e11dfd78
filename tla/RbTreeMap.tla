------------------------------ MODULE RbTreeMap ------------------------------
(***************************************************************************)
(* SharedMemoryMap: the red-black tree of SharedMemoryRbTreeMap with its   *)
(* node pool.                                                              *)
(*                                                                         *)
(* The tree is used under a lock of the application, so an operation runs  *)
(* undisturbed; it is taken apart into the rounds of insert_fixup and      *)
(* erase_fixup, so that the properties say what each round keeps.  Left    *)
(* and right are the two values of a side, which makes one case of each    *)
(* pair of mirror images in the code.  Keys are compared by <.             *)
(***************************************************************************)
EXTENDS Integers, Sequences, FiniteSets, NodePool

CONSTANTS
  Keys,
  Values,
  ValuesOf, (* the values that are stored under a key: a bound on the input *)
  Nodes   (* the node storages that fit into the segment                   *)

Nil == 0
Sides == {"left", "right"}
Other(s) == IF s = "left" THEN "right" ELSE "left"

ASSUME KeysAssumption == Keys \subseteq Int
ASSUME ValuesOfAssumption == ValuesOf \in [Keys -> SUBSET Values]
ASSUME NodesAssumption == Nodes \subseteq Nat \ {Nil} /\ IsFiniteSet(Nodes)

VARIABLES
  tree,   (* root, and of every node its child by side, parent and is_red  *)
  key,    (* value.first of every node                                     *)
  mapped, (* value.second of every node                                    *)
  size_,
  pool,   (* node_pool                                                     *)
  heap,   (* the storages that the allocator can hand out                  *)
  pc,     (* "idle" between operations, else the loop that is running      *)
  clearing, (* erase_node was called by clear                              *)
  node,   (* the node that a fixup is at                                   *)
  above,  (* the parameter parent of erase_fixup                           *)
  rounds  (* ghost: rounds of the fixup so far                             *)

vars == <<tree, key, mapped, size_, pool, heap, pc, clearing, node,
          above, rounds>>

Maybe(S) == S \cup {Nil}

----------------------------------------------------------------------------
(* Reading the tree                                                        *)

(* sibling ? sibling->left.get() : nullptr, and the like.                  *)
Kid(t, s, n) == IF n = Nil THEN Nil ELSE t.child[s][n]

Side(t, n) == IF t.child["left"][t.parent[n]] = n THEN "left" ELSE "right"

is_red(t, n) == n \in t.red

(* minimum and maximum: as far as possible to one side.                    *)
Furthest(t, s, n) ==
  LET walk[m \in Maybe(Nodes)] ==
        IF m = Nil \/ t.child[s][m] = Nil THEN m ELSE walk[t.child[s][m]]
  IN  walk[n]

(* successor (s = "right") and predecessor (s = "left")                    *)
Neighbour(t, s, n) ==
  LET climb[m \in Nodes] ==
        IF t.parent[m] # Nil /\ t.child[s][t.parent[m]] = m
        THEN climb[t.parent[m]] ELSE t.parent[m]
  IN  IF t.child[s][n] # Nil THEN Furthest(t, Other(s), t.child[s][n]) ELSE climb[n]

find_node(k) ==
  LET walk[m \in Maybe(Nodes)] ==
        IF m = Nil \/ key[m] = k THEN m
        ELSE walk[tree.child[IF k < key[m] THEN "left" ELSE "right"][m]]
  IN  walk[tree.root]

(* lower_bound_node and upper_bound_node: the last node on the way down at *)
(* which the search turned left.                                           *)
BoundNode(TurnsLeft(_)) ==
  LET walk[m \in Maybe(Nodes)] ==
        IF m = Nil THEN Nil
        ELSE IF ~TurnsLeft(m) THEN walk[tree.child["right"][m]]
        ELSE LET better == walk[tree.child["left"][m]]
             IN  IF better = Nil THEN m ELSE better
  IN  walk[tree.root]

(* Mutant: an equal key sends the search to the right.                     *)
lower_bound_node_strict(k) == BoundNode(LAMBDA m : key[m] > k)

lower_bound_node(k) == BoundNode(LAMBDA m : key[m] >= k)
upper_bound_node(k) == BoundNode(LAMBDA m : k < key[m])

(* Where the search of insert_value ends for a key that is not there.      *)
InsertionPoint(k) ==
  LET walk[m \in Nodes] ==
        LET s == IF k < key[m] THEN "left" ELSE "right"
        IN  IF tree.child[s][m] = Nil THEN [parent |-> m, side |-> s]
            ELSE walk[tree.child[s][m]]
  IN  walk[tree.root]

----------------------------------------------------------------------------
(* Changing the tree                                                       *)

SetParent(t, n, p) == IF n = Nil THEN t ELSE [t EXCEPT !.parent[n] = p]
SetChild(t, s, n, c) == [t EXCEPT !.child[s][n] = c]
Paint(t, n, red) ==
  IF n = Nil THEN t ELSE [t EXCEPT !.red = IF red THEN @ \cup {n} ELSE @ \ {n}]

(* What leads to n from above now leads to c.                              *)
ReplaceChild(t, n, c) ==
  IF t.parent[n] = Nil THEN [t EXCEPT !.root = c]
  ELSE SetChild(t, Side(t, n), t.parent[n], c)

(* rotate_left and rotate_right: n goes down to side s.                    *)
rotate(t, s, n) ==
  LET c == t.child[Other(s)][n]
      t1 == SetParent(SetChild(t, Other(s), n, t.child[s][c]), t.child[s][c], n)
      t2 == ReplaceChild(SetParent(t1, c, t.parent[n]), n, c)
  IN  SetParent(SetChild(t2, s, c, n), n, c)

transplant(t, target, replacement) ==
  SetParent(ReplaceChild(t, target, replacement), replacement, t.parent[target])

(* link_new_node up to the fixup; the root has no parent.                  *)
Linked(t, n, k) ==
  LET fresh == [t EXCEPT !.child = [s \in Sides |-> [@[s] EXCEPT ![n] = Nil]],
                         !.parent[n] = Nil, !.red = @ \cup {n}]
      at == InsertionPoint(k)
  IN  IF t.root = Nil THEN [fresh EXCEPT !.root = n]
      ELSE SetChild(SetParent(fresh, n, at.parent), at.side, at.parent, n)

(* Mutant: the successor does not take over the left subtree.              *)
Spliced_drops_left(t, target) ==
  LET r == t.child["right"][target]
      y == Furthest(t, "left", r)
      t1 == IF t.parent[y] = target THEN t
            ELSE SetParent(SetChild(transplant(t, y, Kid(t, "right", y)), "right", y, r), r, y)
      one == IF t.child["left"][target] = Nil THEN r ELSE t.child["left"][target]
  IN  IF Nil \in {t.child[s][target] : s \in Sides}
      THEN [tree |-> transplant(t, target, one), node |-> one,
            above |-> t.parent[target], red |-> is_red(t, target)]
      ELSE [tree |-> Paint(transplant(t1, target, y), y, is_red(t, target)),
            node |-> Kid(t, "right", y),
            above |-> IF t.parent[y] = target THEN y ELSE t.parent[y],
            red |-> is_red(t, y)]

(* erase_node up to the fixup: the tree without target, where the fixup    *)
(* begins, and whether the node that left its place was red.               *)
Spliced(t, target) ==
  LET l == t.child["left"][target]
      r == t.child["right"][target]
      y == Furthest(t, "left", r)        (* removed                        *)
      x == Kid(t, "right", y)            (* replacement                    *)
      t1 == IF t.parent[y] = target
            THEN SetParent(t, x, y)
            ELSE SetParent(SetChild(transplant(t, y, x), "right", y, r), r, y)
      t2 == SetChild(transplant(t1, target, y), "left", y, l)
      one == IF l = Nil THEN r ELSE l
  IN  IF Nil \in {l, r}
      THEN [tree |-> transplant(t, target, one), node |-> one,
            above |-> t.parent[target], red |-> is_red(t, target)]
      ELSE [tree |-> Paint(SetParent(t2, l, y), y, is_red(t, target)), node |-> x,
            above |-> IF t.parent[y] = target THEN y ELSE t.parent[y],
            red |-> is_red(t, y)]

(* A round of insert_fixup at a red node with a red parent: a red uncle is *)
(* painted black and the search goes on above, else rotations end it.      *)
InsertRound(t, n) ==
  LET p == t.parent[n]
      g == t.parent[p]
      s == Side(t, p)
      uncle == t.child[Other(s)][g]
      inner == t.child[Other(s)][p] = n
      t1 == IF inner THEN rotate(t, s, p) ELSE t
      top == IF inner THEN n ELSE p
  IN  IF is_red(t, uncle)
      THEN [tree |-> Paint(Paint(Paint(t, p, FALSE), uncle, FALSE), g, TRUE), node |-> g]
      ELSE [tree |-> rotate(Paint(Paint(t1, top, FALSE), g, TRUE), Other(s), g),
            node |-> IF inner THEN p ELSE n]

(* Mutant: the colours of the far nephew are not looked at.                *)
EraseRound_far_ignored(t, n, p) ==
  LET s == IF n = Kid(t, "left", p) THEN "left" ELSE "right"
      sibling == Kid(t, Other(s), p)
  IN  [tree |-> Paint(t, sibling, TRUE), node |-> p, above |-> t.parent[p]]

(* A round of erase_fixup at n, whose side of p is one black node short.   *)
EraseRound(t, n, p) ==
  LET s == IF n = Kid(t, "left", p) THEN "left" ELSE "right"
      o == Other(s)
      first == Kid(t, o, p)
      t1 == IF is_red(t, first)
            THEN rotate(Paint(Paint(t, first, FALSE), p, TRUE), s, p) ELSE t
      sibling == Kid(t1, o, p)
      near == Kid(t1, s, sibling)
      far == Kid(t1, o, sibling)
      t2 == IF is_red(t1, far) THEN t1
            ELSE rotate(Paint(Paint(t1, near, FALSE), sibling, TRUE), o, sibling)
      second == Kid(t2, o, p)
      t3 == Paint(Paint(Paint(t2, second, is_red(t2, p)), p, FALSE), Kid(t2, o, second), FALSE)
      t4 == rotate(t3, s, p)
  IN  IF ~is_red(t1, near) /\ ~is_red(t1, far)
      THEN [tree |-> Paint(t1, sibling, TRUE), node |-> p, above |-> t1.parent[p]]
      ELSE [tree |-> t4, node |-> t4.root, above |-> Nil]

----------------------------------------------------------------------------
(* Operations                                                              *)

AfterErase == IF clearing THEN "clear" ELSE "idle"

(* insert, emplace, try_emplace and operator[] of a key that is not there. *)
(* The two searches of the code, in insert_value and in try_emplace_impl,  *)
(* are the same.                                                           *)
insert_value(k, v) ==
  /\ pc = "idle"
  /\ find_node(k) = Nil
  /\ \E n \in Offered(pool, heap) :
       /\ pool' = Taken(pool, heap, n).pool
       /\ heap' = Taken(pool, heap, n).heap
       /\ key' = [key EXCEPT ![n] = k]
       /\ mapped' = [mapped EXCEPT ![n] = v]
       /\ tree' = Linked(tree, n, k)
       /\ node' = n
  /\ pc' = "insert_fixup"
  /\ UNCHANGED <<size_, clearing, above, rounds>>

(* The constructor of the value throws: nothing has been linked yet.       *)
InsertThrows(k) ==
  /\ pc = "idle"
  /\ find_node(k) = Nil
  /\ \E n \in Offered(pool, heap) :
       LET back == PutBack(Taken(pool, heap, n), n)
       IN  pool' = back.pool /\ heap' = back.heap
  /\ UNCHANGED <<tree, key, mapped, size_, pc, clearing, node, above, rounds>>

(* insert_or_assign of a key that is there.                                *)
Assign(k, v) ==
  /\ pc = "idle"
  /\ find_node(k) # Nil
  /\ mapped' = [mapped EXCEPT ![find_node(k)] = v]
  /\ UNCHANGED <<tree, key, size_, pool, heap, pc, clearing, node, above, rounds>>

InsertFixup ==
  /\ pc = "insert_fixup"
  /\ node # tree.root /\ is_red(tree, tree.parent[node])
  /\ tree' = InsertRound(tree, node).tree
  /\ node' = InsertRound(tree, node).node
  /\ rounds' = rounds + 1
  /\ UNCHANGED <<key, mapped, size_, pool, heap, pc, clearing, above>>

(* The end of insert_fixup and of link_new_node.                           *)
InsertFixupDone ==
  /\ pc = "insert_fixup"
  /\ node = tree.root \/ ~is_red(tree, tree.parent[node])
  /\ tree' = Paint(tree, tree.root, FALSE)
  /\ size_' = size_ + 1
  /\ pc' = "idle"
  /\ node' = Nil
  /\ rounds' = 0
  /\ UNCHANGED <<key, mapped, pool, heap, clearing, above>>

(* Mutant: the successor's value is moved into target and the successor's  *)
(* node is removed in its place.                                           *)
erase_node_moving(target) ==
  LET both == Nil \notin {tree.child[s][target] : s \in Sides}
      gone == IF both THEN Neighbour(tree, "right", target) ELSE target
      rest == Spliced(tree, gone)
  IN  /\ tree' = rest.tree
      /\ key' = [key EXCEPT ![target] = key[gone]]
      /\ mapped' = [mapped EXCEPT ![target] = mapped[gone]]
      /\ pool' = push_cached_node(pool, gone)
      /\ size_' = size_ - 1
      /\ node' = IF rest.red THEN Nil ELSE rest.node
      /\ above' = IF rest.red THEN Nil ELSE rest.above
      /\ pc' = IF rest.red THEN AfterErase ELSE "erase_fixup"
      /\ UNCHANGED <<heap, rounds>>

erase_node(target) ==
  LET rest == Spliced(tree, target)
  IN  /\ tree' = rest.tree
      /\ pool' = push_cached_node(pool, target)
      /\ size_' = size_ - 1
      /\ node' = IF rest.red THEN Nil ELSE rest.node
      /\ above' = IF rest.red THEN Nil ELSE rest.above
      /\ pc' = IF rest.red THEN AfterErase ELSE "erase_fixup"
      /\ UNCHANGED <<key, mapped, heap, rounds>>

(* erase by key or by iterator.                                            *)
erase(k) ==
  /\ pc = "idle"
  /\ find_node(k) # Nil
  /\ erase_node(find_node(k))
  /\ UNCHANGED clearing

EraseFixup ==
  /\ pc = "erase_fixup"
  /\ node # tree.root /\ ~is_red(tree, node)
  /\ LET round == EraseRound(tree, node, above)
     IN  tree' = round.tree /\ node' = round.node /\ above' = round.above
  /\ rounds' = rounds + 1
  /\ UNCHANGED <<key, mapped, size_, pool, heap, pc, clearing>>

EraseFixupDone ==
  /\ pc = "erase_fixup"
  /\ node = tree.root \/ is_red(tree, node)
  /\ tree' = Paint(tree, node, FALSE)
  /\ pc' = AfterErase
  /\ node' = Nil
  /\ above' = Nil
  /\ rounds' = 0
  /\ UNCHANGED <<key, mapped, size_, pool, heap, clearing>>

(* clear erases the root until there is none.                              *)
clear ==
  /\ pc = "idle"
  /\ tree.root # Nil
  /\ pc' = "clear"
  /\ clearing' = TRUE
  /\ UNCHANGED <<tree, key, mapped, size_, pool, heap, node, above, rounds>>

ClearNext ==
  /\ pc = "clear"
  /\ \/ tree.root # Nil /\ erase_node(tree.root) /\ UNCHANGED clearing
     \/ /\ tree.root = Nil
        /\ pc' = "idle"
        /\ clearing' = FALSE
        /\ UNCHANGED <<tree, key, mapped, size_, pool, heap, node, above, rounds>>

(* The destructor is clear and this.                                       *)
shrink_to_fit ==
  /\ pc = "idle"
  /\ pool.free_nodes # <<>>
  /\ heap' = heap \cup CachedNodes(pool)
  /\ pool' = Shrunk(pool)
  /\ UNCHANGED <<tree, key, mapped, size_, pc, clearing, node, above, rounds>>

(* The nodes below n, n included.                                          *)
Below(n) ==
  LET below[m \in Maybe(Nodes)] ==
        IF m = Nil THEN {}
        ELSE {m} \cup below[tree.child["left"][m]] \cup below[tree.child["right"][m]]
  IN  below[n]

EmptyTree ==
  [root |-> Nil, child |-> [s \in Sides |-> [n \in Nodes |-> Nil]],
   parent |-> [n \in Nodes |-> Nil], red |-> {}]

(* A second map is constructed by moving from this one, pool and all, and  *)
(* destroyed.  A swap with an empty map that is destroyed does the same.   *)
MoveAway ==
  /\ pc = "idle"
  /\ tree.root # Nil
  /\ tree' = EmptyTree
  /\ size_' = 0
  /\ heap' = heap \cup Below(tree.root) \cup CachedNodes(pool)
  /\ pool' = NewPool
  /\ UNCHANGED <<key, mapped, pc, clearing, node, above, rounds>>

Init ==
  /\ tree = EmptyTree
  /\ key \in [Nodes -> {CHOOSE k \in Keys : TRUE}]
  /\ mapped \in [Nodes -> {CHOOSE v \in Values : TRUE}]
  /\ size_ = 0
  /\ pool = NewPool
  /\ heap = Nodes
  /\ pc = "idle"
  /\ clearing = FALSE
  /\ node = Nil
  /\ above = Nil
  /\ rounds = 0

Next ==
  \/ \E k \in Keys : \E v \in ValuesOf[k] : insert_value(k, v) \/ Assign(k, v)
  \/ \E k \in Keys : InsertThrows(k) \/ erase(k)
  \/ InsertFixup \/ InsertFixupDone
  \/ EraseFixup \/ EraseFixupDone
  \/ clear \/ ClearNext
  \/ shrink_to_fit
  \/ MoveAway

Spec == Init /\ [][Next]_vars

----------------------------------------------------------------------------
(* Properties                                                              *)

InTree == Below(tree.root)

Contents == {<<key[n], mapped[n]>> : n \in InTree}

(* Every variable has its type; the counters never go below zero.          *)
TypeOK ==
  /\ tree.root \in Maybe(Nodes)
  /\ tree.child \in [Sides -> [Nodes -> Maybe(Nodes)]]
  /\ tree.parent \in [Nodes -> Maybe(Nodes)]
  /\ tree.red \subseteq Nodes
  /\ key \in [Nodes -> Keys]
  /\ mapped \in [Nodes -> Values]
  /\ size_ \in Nat
  /\ heap \subseteq Nodes
  /\ pc \in {"idle", "clear", "insert_fixup", "erase_fixup"}
  /\ clearing \in BOOLEAN
  /\ {node, above} \subseteq Maybe(Nodes)
  /\ rounds \in Nat

(* The links make a search tree in every round of every operation: parents *)
(* and children agree, and the keys to the left are less and those to the  *)
(* right greater, so that no key is in the tree twice.                     *)
SearchTree ==
  /\ tree.root # Nil => tree.parent[tree.root] = Nil
  /\ \A n \in InTree, s \in Sides :
       tree.child[s][n] # Nil => tree.parent[tree.child[s][n]] = n
  /\ \A n \in InTree :
       /\ \A m \in Below(tree.child["left"][n]) : key[m] < key[n]
       /\ \A m \in Below(tree.child["right"][n]) : key[m] > key[n]

(* The side of above at which erase_fixup finds a black node missing.      *)
Short(n, s) ==
  /\ pc = "erase_fixup"
  /\ n = above
  /\ s = IF tree.child["left"][n] = node THEN "left" ELSE "right"

(* The numbers of black nodes on the ways down from n, where the missing   *)
(* one of an erase_fixup counts as there.                                  *)
BlackHeights(n) ==
  LET heights[m \in Nodes] ==
        UNION {{h + (IF m \in tree.red THEN 0 ELSE 1) + (IF Short(m, s) THEN 1 ELSE 0) :
                  h \in IF tree.child[s][m] = Nil THEN {0} ELSE heights[tree.child[s][m]]} :
                s \in Sides}
  IN  heights[n]

(* The red-black rules, and what the rounds of the two fixups keep of      *)
(* them: a red node below a red one, or as the root, is the node that a    *)
(* fixup is at, or below the one that erase_fixup is about to paint black, *)
(* and at most the side that erase_fixup is at is one black node short.    *)
RedBlack ==
  /\ tree.root # Nil => Cardinality(BlackHeights(tree.root)) = 1
  /\ \A n \in InTree \cap tree.red :
       tree.parent[n] \in tree.red \cup {Nil} =>
         \/ pc \in {"insert_fixup", "erase_fixup"} /\ n = node
         \/ pc = "erase_fixup" /\ tree.parent[n] = node

(* A fixup ends soon: it takes at most one round for each doubling of the  *)
(* tree, since every round climbs or is the last one.                      *)
FixupIsShort == 2 ^ rounds <= Cardinality(InTree) + 1

(* No storage is lost or in two places: every one is in the tree, waits in *)
(* the pool, or is the allocator's, and size() and the pool's counters say *)
(* how many there are, after a constructor that threw as well.             *)
NothingLost ==
  /\ PoolAccounts(pool, Cardinality(InTree))
  /\ Cardinality(InTree) + Cardinality(CachedNodes(pool)) + Cardinality(heap) = Cardinality(Nodes)
  /\ InTree \cup CachedNodes(pool) \cup heap = Nodes
  /\ size_ + (IF pc = "insert_fixup" THEN 1 ELSE 0) = Cardinality(InTree)

(* What every round of every operation keeps: the tree is a search tree    *)
(* and follows the red-black rules, the fixups are short, and the nodes    *)
(* are accounted for.                                                      *)
TreeInv == TypeOK /\ SearchTree /\ RedBlack /\ FixupIsShort /\ NothingLost

(* find, lower_bound, upper_bound and iteration in both directions return  *)
(* what the content of the map says they must.                             *)
SearchExact ==
  LET present == InTree
      Least(P(_)) == {n \in present : P(key[n]) /\ \A m \in present : P(key[m]) => key[n] <= key[m]}
      Only(S) == IF S = {} THEN Nil ELSE CHOOSE n \in S : TRUE
  IN  pc = "idle" =>
        /\ \A k \in Keys :
             /\ find_node(k) = Only({n \in present : key[n] = k})
             /\ lower_bound_node(k) = Only(Least(LAMBDA j : j >= k))
             /\ upper_bound_node(k) = Only(Least(LAMBDA j : j > k))
        /\ \A n \in present :
             LET next == Neighbour(tree, "right", n)
             IN  /\ next = Only(Least(LAMBDA j : j > key[n]))
                 /\ next # Nil => Neighbour(tree, "left", next) = n

(* Iterators stay valid: an element keeps its node until it is erased,     *)
(* whichever other elements come and go and however the tree is rotated.   *)
NodesStay ==
  [][LET present == InTree
         presentNext == InTree'
     IN  \A n \in present :
           (\E m \in presentNext : key'[m] = key[n]) => n \in presentNext /\ key'[n] = key[n]]_vars

(* The tree implements the abstract map: an operation changes one key, at  *)
(* the step that links or unlinks its node, and no fixup changes the map.  *)
Map == INSTANCE AbstractMap WITH content <- Contents
MapSpec == Map!Spec
=============================================================================
