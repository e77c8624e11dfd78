------------------------------ MODULE NodePool ------------------------------
(***************************************************************************)
(* SharedMemoryNodePool: the nodes that a container has destroyed wait in  *)
(* a stack for the next create; shrink_to_fit gives them back.             *)
(*                                                                         *)
(* A pool is a record of its free_nodes list and its two counters (the     *)
(* number of hits is left out); heap is the set of node storages that the  *)
(* segment's allocator can still hand out.                                 *)
(***************************************************************************)
EXTENDS Integers, Sequences, SequencesExt

NewPool == [free_nodes |-> <<>>, cached_node_count |-> 0, node_pool_allocations |-> 0]

CachedNodes(pool) == {pool.free_nodes[i] : i \in 1 .. Len(pool.free_nodes)}

pop_cached_node(pool) ==
  [pool EXCEPT !.free_nodes = Tail(@), !.cached_node_count = @ - 1]

push_cached_node(pool, n) ==
  [pool EXCEPT !.free_nodes = <<n>> \o @, !.cached_node_count = @ + 1]

(* One node after the other is destroyed.                                  *)
push_cached_nodes(pool, nodes) ==
  [pool EXCEPT !.free_nodes = Reverse(nodes) \o @, !.cached_node_count = @ + Len(nodes)]

(* The storages that create may use: the latest cached node, and only if   *)
(* there is none a fresh one.  Without either it throws bad_alloc.         *)
Offered(pool, heap) ==
  IF pool.free_nodes # <<>> THEN {Head(pool.free_nodes)} ELSE heap

(* create, up to the constructor of the node.                              *)
Taken(pool, heap, n) ==
  IF pool.free_nodes # <<>>
  THEN [pool |-> pop_cached_node(pool), heap |-> heap, from_cache |-> TRUE]
  ELSE [pool |-> [pool EXCEPT !.node_pool_allocations = @ + 1],
        heap |-> heap \ {n}, from_cache |-> FALSE]

(* create, the handler for a constructor that throws.                      *)
PutBack(taken, n) ==
  IF taken.from_cache
  THEN [taken EXCEPT !.pool = push_cached_node(@, n)]
  ELSE [taken EXCEPT !.pool.node_pool_allocations = IF @ > 0 THEN @ - 1 ELSE @,
                     !.heap = @ \cup {n}]

(* shrink_to_fit deallocates the cached nodes; the counter stops at zero.  *)
Shrunk(pool) ==
  LET given == Len(pool.free_nodes)
  IN  [free_nodes |-> <<>>, cached_node_count |-> 0,
       node_pool_allocations |->
         IF pool.node_pool_allocations >= given
         THEN pool.node_pool_allocations - given ELSE 0]

(* The counters tell the truth about n nodes in use and those that wait.   *)
PoolAccounts(pool, n) ==
  /\ pool.cached_node_count = Len(pool.free_nodes)
  /\ pool.node_pool_allocations = n + Len(pool.free_nodes)
=============================================================================
