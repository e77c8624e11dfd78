------------------------------ MODULE Storage ------------------------------
(***************************************************************************)
(* The part of a segment that vectors and strings see of it: cells, each   *)
(* of the size of one element, and the blocks of cells that                *)
(* SharedMemoryAllocator has handed out.                                   *)
(*                                                                         *)
(* A cell is Raw or holds an object.  C++ wants every object constructed   *)
(* in raw storage and destroyed once; a cell where that went wrong is      *)
(* Broken from then on.                                                    *)
(***************************************************************************)
EXTENDS Integers, Sequences

CONSTANTS
  Size,    (* the number of cells                                          *)
  Values   (* elements and characters                                      *)

Raw == "raw"
Broken == "broken"
Zero == "zero"   (* CharT(0), behind the last character of a string        *)

(* The marks of a cell are not elements.                                   *)
ASSUME StorageAssumption == Size \in Nat /\ Values \cap {Raw, Broken, Zero} = {}

VARIABLE mem

Null == 0

Span(first, n) == first .. first + n - 1

InUse(m) == UNION {Span(b[1], b[2]) : b \in m.blocks}

(* Where allocate may place a block of n cells; nowhere means bad_alloc.   *)
Places(m, n) == {i \in 1 .. Size : Span(i, n) \subseteq (1 .. Size) \ InUse(m)}

allocate(m, i, n) == [m EXCEPT !.blocks = @ \cup {<<i, n>>}]

deallocate(m, i, n) == [m EXCEPT !.blocks = @ \ {<<i, n>>}]

(* try_expand succeeds only if free memory follows the block.              *)
CanExpand(m, i, old, new) == Span(i + old, new - old) \subseteq (1 .. Size) \ InUse(m)

try_expand(m, i, old, new) == allocate(deallocate(m, i, old), i, new)

construct(m, i, x) == [m EXCEPT !.cell[i] = IF @ = Raw THEN x ELSE Broken]

destroy(m, i) == [m EXCEPT !.cell[i] = IF @ \in Values THEN Raw ELSE Broken]

(* Objects are constructed one after the other from cell i on.             *)
ConstructAll(m, i, vals) ==
  [m EXCEPT !.cell = [c \in 1 .. Size |->
     IF c \notin Span(i, Len(vals)) THEN m.cell[c]
     ELSE IF m.cell[c] = Raw THEN vals[c - i + 1] ELSE Broken]]

destroy_range(m, i, n) ==
  [m EXCEPT !.cell = [c \in 1 .. Size |->
     IF c \notin Span(i, n) THEN m.cell[c]
     ELSE IF m.cell[c] \in Values THEN Raw ELSE Broken]]

Read(m, i, n) == [j \in 1 .. n |-> m.cell[i + j - 1]]

(* start, finish and end_of_storage.                                       *)
NullArray == [start |-> Null, finish |-> Null, end |-> Null]

ArrayAt(i, n, capacity) == [start |-> i, finish |-> i + n, end |-> i + capacity]

SizeOf(a) == IF a.start = Null THEN 0 ELSE a.finish - a.start
CapacityOf(a) == IF a.start = Null THEN 0 ELSE a.end - a.start
=============================================================================
