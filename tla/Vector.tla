------------------------------- MODULE Vector -------------------------------
(***************************************************************************)
(* SharedMemoryVector: elements in one block, which grows in place when    *)
(* the allocator can expand it and moves otherwise.  A vector is used      *)
(* under a lock of the application, so an operation is one step; memory    *)
(* may be refused, and the constructor or the assignment of an element may *)
(* throw in the middle of an operation.                                    *)
(***************************************************************************)
EXTENDS Storage

CONSTANTS
  Vectors,
  MaxRequest  (* bound: the argument of reserve and resize                 *)

ASSUME VectorAssumption == MaxRequest \in Nat

VARIABLE vec  (* start, finish and end_of_storage of every vector          *)

VecSize(v) == SizeOf(vec[v])
VecCapacity(v) == CapacityOf(vec[v])
Elements(v) == Read(mem, vec[v].start, VecSize(v))

State(m, v, a) == [mem |-> m, vec |-> [vec EXCEPT ![v] = a]]
Now == [mem |-> mem, vec |-> vec]
Becomes(s) == mem' = s.mem /\ vec' = s.vec

----------------------------------------------------------------------------
(* Storage of a vector                                                     *)

(* reallocate, in place: the block becomes longer.                         *)
Expanded(v, capacity) ==
  LET a == vec[v]
  IN  {State(try_expand(mem, a.start, VecCapacity(v), capacity), v,
             ArrayAt(a.start, VecSize(v), capacity)) :
         x \in IF a.start # Null /\ CanExpand(mem, a.start, VecCapacity(v), capacity)
               THEN {1} ELSE {}}

(* The old elements are destroyed and their block is given back.           *)
release_block(m, a) ==
  IF a.start = Null THEN m
  ELSE deallocate(destroy_range(m, a.start, SizeOf(a)), a.start, CapacityOf(a))

(* reallocate, in a new block: the elements move, and the old are gone.    *)
Relocated(v, capacity) ==
  {State(release_block(ConstructAll(allocate(mem, i, capacity), i, Elements(v)), vec[v]), v,
         ArrayAt(i, VecSize(v), capacity)) : i \in Places(mem, capacity)}

reallocate(v, capacity) == Expanded(v, capacity) \cup Relocated(v, capacity)

(* Mutant: the elements that were constructed stay.                        *)
Undone_without_destroy(m, i, n, capacity) == deallocate(m, i, capacity)

(* A constructor threw after n elements in a new block.                    *)
Undone(m, i, n, capacity) == deallocate(destroy_range(m, i, n), i, capacity)

(* n elements are copied into a new block before a constructor throws: the *)
(* handlers of reallocate, assign_from and the copy constructor.           *)
CopyThrows(vals, capacity) ==
  /\ vec' = vec
  /\ \E i \in Places(mem, capacity), n \in 0 .. Len(vals) - 1 :
       mem' = Undone(ConstructAll(allocate(mem, i, capacity), i, SubSeq(vals, 1, n)),
                     i, n, capacity)

(* reserve, as the operations need it.                                     *)
WithCapacity(v, n) == IF n > VecCapacity(v) THEN reallocate(v, n) ELSE {Now}

(* Room for one more.                                                      *)
Grown(v) ==
  IF vec[v].finish = vec[v].end
  THEN reallocate(v, IF VecCapacity(v) = 0 THEN 1 ELSE VecCapacity(v) * 2)
  ELSE {Now}

----------------------------------------------------------------------------
(* Operations                                                              *)

reserve(v, n) == n > VecCapacity(v) /\ \E s \in WithCapacity(v, n) : Becomes(s)

(* push_back and emplace_back.                                             *)
push_back(v, x) ==
  \E s \in Grown(v) :
    /\ mem' = construct(s.mem, s.vec[v].finish, x)
    /\ vec' = [s.vec EXCEPT ![v].finish = @ + 1]

(* The constructor of the new element throws: the room stays.              *)
PushBackThrows(v) == \E s \in Grown(v) : Becomes(s)

pop_back(v) ==
  /\ VecSize(v) # 0
  /\ vec' = [vec EXCEPT ![v].finish = @ - 1]
  /\ mem' = destroy(mem, vec[v].finish - 1)

(* destroy_tail; clear for n = 0.                                          *)
destroy_tail(v, n) ==
  /\ n < VecSize(v)
  /\ vec' = [vec EXCEPT ![v].finish = vec[v].start + n]
  /\ mem' = destroy_range(mem, vec[v].start + n, VecSize(v) - n)

(* resize_default and resize_fill to a larger size.                        *)
resize(v, n, x) ==
  /\ n > VecSize(v)
  /\ \E s \in WithCapacity(v, n) :
       /\ mem' = ConstructAll(s.mem, s.vec[v].finish, [j \in 1 .. n - VecSize(v) |-> x])
       /\ vec' = [s.vec EXCEPT ![v].finish = s.vec[v].start + n]

(* A constructor throws after i new elements, which are destroyed again.   *)
ResizeThrows(v, n, x) ==
  /\ n > VecSize(v)
  /\ \E s \in WithCapacity(v, n), i \in 0 .. n - VecSize(v) - 1 :
       /\ mem' = destroy_range(ConstructAll(s.mem, s.vec[v].finish, [j \in 1 .. i |-> x]),
                               s.vec[v].finish, i)
       /\ vec' = s.vec

(* Mutant: the loop ends one element early.                                *)
MovedUp_but_last(v, i, n) ==
  [mem EXCEPT !.cell = [c \in 1 .. Size |-> IF c \in Span(vec[v].start + i - 1, n - 1)
                                            THEN mem.cell[c + 1] ELSE mem.cell[c]]]

(* The elements behind position i move up, one assignment after the other. *)
MovedUp(v, i, n) ==
  [mem EXCEPT !.cell = [c \in 1 .. Size |-> IF c \in Span(vec[v].start + i - 1, n)
                                            THEN mem.cell[c + 1] ELSE mem.cell[c]]]

erase(v, i) ==
  /\ vec' = [vec EXCEPT ![v].finish = @ - 1]
  /\ mem' = destroy(MovedUp(v, i, VecSize(v) - i), vec[v].finish - 1)

(* An assignment throws after n elements have moved up.                    *)
EraseThrows(v, i, n) == mem' = MovedUp(v, i, n) /\ vec' = vec

(* Copy assignment (assign_from); also a copy construction and a move      *)
(* assignment from the copy.                                               *)
assign_from(v, w) ==
  \/ /\ VecSize(w) = 0
     /\ Becomes(State(release_block(mem, vec[v]), v, NullArray))
  \/ /\ VecSize(w) # 0
     /\ \E i \in Places(mem, VecSize(w)) :
          Becomes(State(release_block(ConstructAll(allocate(mem, i, VecSize(w)), i, Elements(w)),
                                      vec[v]),
                        v, ArrayAt(i, VecSize(w), VecSize(w))))

MoveAssign(v, w) ==
  /\ mem' = release_block(mem, vec[v])
  /\ vec' = [vec EXCEPT ![v] = vec[w], ![w] = NullArray]

VectorInit == vec = [v \in Vectors |-> NullArray]

VectorNext ==
  \E v \in Vectors :
    \/ \E x \in Values : push_back(v, x)
    \/ PushBackThrows(v) \/ pop_back(v)
    \/ vec[v].finish = vec[v].end /\ CopyThrows(Elements(v), 2 * VecCapacity(v))
    \/ \E n \in 0 .. MaxRequest :
         \/ reserve(v, n) \/ destroy_tail(v, n)
         \/ n > VecCapacity(v) /\ CopyThrows(Elements(v), n)
         \/ \E x \in Values : resize(v, n, x) \/ ResizeThrows(v, n, x)
    \/ \E i \in 1 .. VecSize(v) :
         erase(v, i) \/ \E n \in 0 .. VecSize(v) - i : EraseThrows(v, i, n)
    \/ \E w \in Vectors \ {v} :
         assign_from(v, w) \/ MoveAssign(v, w) \/ CopyThrows(Elements(w), VecSize(w))

(* Every vector has a block of its own from start to end_of_storage.       *)
VectorBlocks == {<<vec[v].start, VecCapacity(v)>> : v \in {w \in Vectors : vec[w].start # Null}}

(* The cells that hold an element of some vector.                          *)
VectorCells == UNION {Span(vec[v].start, VecSize(v)) : v \in Vectors}
=============================================================================
