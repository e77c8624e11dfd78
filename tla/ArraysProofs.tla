---------------------------- MODULE ArraysProofs ----------------------------
(***************************************************************************)
(* Proofs about Arrays for any numbers of vectors, strings and cells, any  *)
(* elements, and any arguments of the operations.                          *)
(***************************************************************************)
EXTENDS Arrays, SequenceTheorems, TLAPS

----------------------------------------------------------------------------
(* The inductive invariant, of cells, blocks, vectors and strings.         *)

Cells == Values \cup {Raw, Zero, Broken}
Triples == [start : Nat, finish : Nat, end : Nat]

(* A vector has no block, or one of at least one cell within the segment.  *)
VectorArray(a) ==
  \/ a.start = Null /\ a.finish = Null /\ a.end = Null
  \/ 1 <= a.start /\ a.start <= a.finish /\ a.finish <= a.end /\ a.start < a.end
       /\ a.end <= Size + 1

(* The block of a string has one more cell, for CharT(0).                  *)
StringArray(a) ==
  \/ a.start = Null /\ a.finish = Null /\ a.end = Null
  \/ 1 <= a.start /\ a.start <= a.finish /\ a.finish <= a.end /\ a.end <= Size

(* Cell i is in the block of a vector, in that of a string, or holds one   *)
(* of the objects.                                                         *)
InVector(a, i) == a.start # Null /\ a.start <= i /\ i < a.end
InString(a, i) == a.start # Null /\ a.start <= i /\ i <= a.end
Holds(a, i) == a.start # Null /\ a.start <= i /\ i < a.finish

VectorBlock(a) == IF a.start = Null THEN {} ELSE {<<a.start, a.end - a.start>>}
StringBlock(a) == IF a.start = Null THEN {} ELSE {<<a.start, a.end - a.start + 1>>}

Shapes(vc, st) ==
  /\ vc \in [Vectors -> Triples] /\ st \in [Strings -> Triples]
  /\ \A v \in Vectors : VectorArray(vc[v])
  /\ \A s \in Strings : StringArray(st[s])

(* No cell is in two blocks.                                               *)
Apart(vc, st) ==
  \A i \in 1 .. Size :
    /\ \A v, w \in Vectors : InVector(vc[v], i) /\ InVector(vc[w], i) => v = w
    /\ \A s, u \in Strings : InString(st[s], i) /\ InString(st[u], i) => s = u
    /\ \A v \in Vectors, s \in Strings : ~(InVector(vc[v], i) /\ InString(st[s], i))

Owned(blocks, vc, st) ==
  /\ \A v \in Vectors : VectorBlock(vc[v]) \subseteq blocks
  /\ \A s \in Strings : StringBlock(st[s]) \subseteq blocks
  /\ \A b \in blocks : \/ \E v \in Vectors : b \in VectorBlock(vc[v])
                       \/ \E s \in Strings : b \in StringBlock(st[s])

(* Elements and characters are where they should be, every string ends     *)
(* with CharT(0), and every cell that is no element is raw, save for the   *)
(* cells of strings, which need no destructor.                             *)
Filled(cell, vc, st) ==
  /\ cell \in [1 .. Size -> Cells]
  /\ \A i \in 1 .. Size :
       /\ \A v \in Vectors : Holds(vc[v], i) => cell[i] \in Values
       /\ \A s \in Strings : Holds(st[s], i) => cell[i] \in Values
       /\ \A s \in Strings : InString(st[s], i) /\ i = st[s].finish => cell[i] = Zero
       /\ \/ \E v \in Vectors : Holds(vc[v], i)
          \/ \E s \in Strings : InString(st[s], i)
          \/ cell[i] = Raw

Good(cell, blocks, vc, st) ==
  /\ Shapes(vc, st)
  /\ Apart(vc, st)
  /\ Owned(blocks, vc, st)
  /\ Filled(cell, vc, st)

Memory(m) == m = [cell |-> m.cell, blocks |-> m.blocks]

Sound(m, vc, st) == Memory(m) /\ Good(m.cell, m.blocks, vc, st)

IInv == Sound(mem, vec, str)

(* What an array contains.                                                 *)
ContentOf(cell, a) == [j \in 1 .. SizeOf(a) |-> cell[a.start + j - 1]]

(* No array has cell i.                                                    *)
Unowned(vc, st, i) ==
  /\ \A v \in Vectors : ~InVector(vc[v], i)
  /\ \A s \in Strings : ~InString(st[s], i)

----------------------------------------------------------------------------
(* One array is replaced by another.                                       *)

(* The elements lie in the block.                                          *)
LEMMA HoldsInside ==
  ASSUME NEW a \in Triples, NEW i \in Nat
  PROVE  /\ VectorArray(a) /\ Holds(a, i) => InVector(a, i)
         /\ StringArray(a) /\ Holds(a, i) => InString(a, i) /\ i # a.finish
BY DEF Triples, VectorArray, StringArray, Holds, InVector, InString

(* Cell j of d cells from p on lies within the segment.                    *)
LEMMA CellWithin ==
  ASSUME NEW p \in Nat, NEW d \in Nat, NEW e \in Nat, 1 <= p, p + d <= e + 1,
         NEW j \in 1 .. d
  PROVE  p + j - 1 \in 1 .. e /\ p + j - 1 < p + d
OBVIOUS

(* An array that keeps its cells keeps its contents.                       *)
LEMMA SameContent ==
  ASSUME NEW a \in Triples, VectorArray(a) \/ StringArray(a),
         NEW cell, NEW cell2,
         \A i \in 1 .. Size : Holds(a, i) => cell2[i] = cell[i]
  PROVE  ContentOf(cell2, a) = ContentOf(cell, a)
<1>1. ASSUME NEW j \in 1 .. SizeOf(a)
      PROVE  cell2[a.start + j - 1] = cell[a.start + j - 1]
  <2>1. a.start \in Nat /\ a.finish \in Nat /\ a.end \in Nat /\ Size \in Nat
    BY StorageAssumption DEF Triples
  <2>2. a.start # Null /\ SizeOf(a) = a.finish - a.start
    BY <1>1 DEF SizeOf
  <2>3. a.start + j - 1 \in 1 .. Size /\ Holds(a, a.start + j - 1)
    BY <2>1, <2>2 DEF VectorArray, StringArray, Holds, Null
  <2> QED
    BY <2>3
<1> QED
  BY <1>1 DEF ContentOf

(* Vector v gets the array a, in its own cells and in free ones.  What it  *)
(* leaves is raw, what it takes holds the elements, the rest stays.        *)
VectorFits(cell, blocks, vc, st, v, a, cell2, blocks2) ==
  /\ VectorArray(a)
  /\ \A i \in 1 .. Size : InVector(a, i) => InVector(vc[v], i) \/ Unowned(vc, st, i)
  /\ blocks2 = (blocks \ VectorBlock(vc[v])) \cup VectorBlock(a)
  /\ cell2 \in [1 .. Size -> Cells]
  /\ \A i \in 1 .. Size : InVector(vc[v], i) \/ InVector(a, i) \/ cell2[i] = cell[i]
  /\ \A i \in 1 .. Size : InVector(vc[v], i) \/ InVector(a, i) =>
       IF Holds(a, i) THEN cell2[i] \in Values ELSE cell2[i] = Raw

(* The state stays good, and no other array shows the difference.          *)
LEMMA VectorReplaced ==
  ASSUME NEW cell, NEW blocks, NEW vc, NEW st, Good(cell, blocks, vc, st),
         NEW v \in Vectors, NEW a \in Triples, NEW cell2, NEW blocks2,
         VectorFits(cell, blocks, vc, st, v, a, cell2, blocks2)
  PROVE  /\ Good(cell2, blocks2, [vc EXCEPT ![v] = a], st)
         /\ \A w \in Vectors \ {v} : ContentOf(cell2, vc[w]) = ContentOf(cell, vc[w])
         /\ \A s \in Strings : ContentOf(cell2, st[s]) = ContentOf(cell, st[s])
<1>0. VectorArray(a) /\ cell2 \in [1 .. Size -> Cells]
  BY DEF VectorFits
<1> DEFINE wc == [vc EXCEPT ![v] = a]
<1>1. Shapes(vc, st) /\ Apart(vc, st) /\ Owned(blocks, vc, st) /\ Filled(cell, vc, st)
  BY DEF Good
<1>2. wc[v] = a /\ \A w \in Vectors \ {v} : wc[w] = vc[w]
  BY <1>1 DEF Shapes
<1>3. Shapes(wc, st)
  BY <1>0, <1>1, <1>2 DEF Shapes
<1> HIDE DEF wc
<1>4. \A i \in 1 .. Size :
        /\ \A w \in Vectors \ {v} : InVector(vc[w], i) => ~InVector(vc[v], i) /\ ~InVector(a, i)
        /\ \A s \in Strings : InString(st[s], i) => ~InVector(vc[v], i) /\ ~InVector(a, i)
  BY <1>1 DEF Apart, Unowned, VectorFits
<1>5. Apart(wc, st)
  BY <1>1, <1>2, <1>4 DEF Apart
<1>6. Owned(blocks2, wc, st)
  <2>1. \A w \in Vectors \ {v} : VectorBlock(vc[w]) \cap VectorBlock(vc[v]) = {}
    <3> SUFFICES ASSUME NEW w \in Vectors \ {v}, vc[w].start # Null, vc[w].start = vc[v].start
                 PROVE  FALSE
      BY DEF VectorBlock
    <3>1. vc[w].start \in 1 .. Size /\ InVector(vc[w], vc[w].start) /\ InVector(vc[v], vc[w].start)
      BY <1>1, StorageAssumption DEF Shapes, Triples, VectorArray, InVector
    <3> QED
      BY <3>1, <1>4
  <2>2. \A s \in Strings : StringBlock(st[s]) \cap VectorBlock(vc[v]) = {}
    <3> SUFFICES ASSUME NEW s \in Strings, st[s].start # Null, st[s].start = vc[v].start
                 PROVE  FALSE
      BY DEF VectorBlock, StringBlock
    <3>1. st[s].start \in 1 .. Size /\ InString(st[s], st[s].start) /\ InVector(vc[v], st[s].start)
      BY <1>1, StorageAssumption
         DEF Shapes, Triples, VectorArray, StringArray, InVector, InString
    <3> QED
      BY <3>1, <1>4
  <2>3. \A w \in Vectors : VectorBlock(wc[w]) \subseteq blocks2
    BY <2>1, <1>1, <1>2 DEF Owned, VectorFits
  <2>4. \A s \in Strings : StringBlock(st[s]) \subseteq blocks2
    BY <2>2, <1>1 DEF Owned, VectorFits
  <2>5. ASSUME NEW b \in blocks2
        PROVE  \/ \E w \in Vectors : b \in VectorBlock(wc[w])
               \/ \E s \in Strings : b \in StringBlock(st[s])
    <3>1. CASE b \in VectorBlock(a)
      BY <3>1, <1>2
    <3>2. CASE b \in blocks /\ b \notin VectorBlock(vc[v])
      BY <3>2, <1>1, <1>2 DEF Owned
    <3> QED
      BY <3>1, <3>2 DEF VectorFits
  <2> QED
    BY <2>3, <2>4, <2>5 DEF Owned
<1>7. /\ \A w \in Vectors, i \in 1 .. Size : Holds(vc[w], i) => InVector(vc[w], i)
      /\ \A s \in Strings, i \in 1 .. Size : Holds(st[s], i) => InString(st[s], i)
  BY <1>1, HoldsInside DEF Shapes
<1>8. \A i \in 1 .. Size : Holds(a, i) => InVector(a, i)
  BY <1>0, HoldsInside
<1>9. Filled(cell2, wc, st)
  <2> SUFFICES ASSUME NEW i \in 1 .. Size
               PROVE  /\ \A w \in Vectors : Holds(wc[w], i) => cell2[i] \in Values
                      /\ \A s \in Strings : Holds(st[s], i) => cell2[i] \in Values
                      /\ \A s \in Strings :
                           InString(st[s], i) /\ i = st[s].finish => cell2[i] = Zero
                      /\ \/ \E w \in Vectors : Holds(wc[w], i)
                         \/ \E s \in Strings : InString(st[s], i)
                         \/ cell2[i] = Raw
    BY <1>0 DEF Filled
  <2>1. \A w \in Vectors : Holds(wc[w], i) => cell2[i] \in Values
    <3> SUFFICES ASSUME NEW w \in Vectors, Holds(wc[w], i) PROVE cell2[i] \in Values
      OBVIOUS
    <3>1. CASE w = v
      BY <3>1, <1>2, <1>8 DEF VectorFits
    <3>2. CASE w # v
      BY <3>2, <1>1, <1>2, <1>4, <1>7 DEF Filled, VectorFits
    <3> QED
      BY <3>1, <3>2
  <2>2. /\ \A s \in Strings : Holds(st[s], i) => cell2[i] \in Values
        /\ \A s \in Strings : InString(st[s], i) /\ i = st[s].finish => cell2[i] = Zero
    BY <1>1, <1>4, <1>7 DEF Filled, VectorFits
  <2>3. \/ \E w \in Vectors : Holds(wc[w], i)
        \/ \E s \in Strings : InString(st[s], i)
        \/ cell2[i] = Raw
    <3>1. CASE InVector(vc[v], i) \/ InVector(a, i)
      BY <3>1, <1>2 DEF VectorFits
    <3>2. CASE ~InVector(vc[v], i) /\ ~InVector(a, i)
      BY <3>2, <1>1, <1>2, <1>7 DEF Filled, VectorFits
    <3> QED
      BY <3>1, <3>2
  <2> QED
    BY <2>1, <2>2, <2>3
<1>10. \A w \in Vectors \ {v} : ContentOf(cell2, vc[w]) = ContentOf(cell, vc[w])
  <2> SUFFICES ASSUME NEW w \in Vectors \ {v} PROVE ContentOf(cell2, vc[w]) = ContentOf(cell, vc[w])
    OBVIOUS
  <2>1. \A i \in 1 .. Size : Holds(vc[w], i) => cell2[i] = cell[i]
    BY <1>4, <1>7 DEF VectorFits
  <2> QED
    BY <2>1, <1>1, SameContent DEF Shapes
<1>11. \A s \in Strings : ContentOf(cell2, st[s]) = ContentOf(cell, st[s])
  <2> SUFFICES ASSUME NEW s \in Strings PROVE ContentOf(cell2, st[s]) = ContentOf(cell, st[s])
    OBVIOUS
  <2>1. \A i \in 1 .. Size : Holds(st[s], i) => cell2[i] = cell[i]
    BY <1>4, <1>7 DEF VectorFits
  <2> QED
    BY <2>1, <1>1, SameContent DEF Shapes
<1> QED
  BY <1>3, <1>5, <1>6, <1>9, <1>10, <1>11 DEF Good, wc

(* The same of a string, whose cells are only raw when it leaves them.     *)
StringFits(cell, blocks, vc, st, s, a, cell2, blocks2) ==
  /\ StringArray(a)
  /\ \A i \in 1 .. Size : InString(a, i) => InString(st[s], i) \/ Unowned(vc, st, i)
  /\ blocks2 = (blocks \ StringBlock(st[s])) \cup StringBlock(a)
  /\ cell2 \in [1 .. Size -> Cells]
  /\ \A i \in 1 .. Size : InString(st[s], i) \/ InString(a, i) \/ cell2[i] = cell[i]
  /\ \A i \in 1 .. Size : InString(st[s], i) /\ ~InString(a, i) => cell2[i] = Raw
  /\ \A i \in 1 .. Size : InString(a, i) =>
       (Holds(a, i) => cell2[i] \in Values) /\ (i = a.finish => cell2[i] = Zero)

(* The state stays good, and no other array shows the difference.          *)
LEMMA StringReplaced ==
  ASSUME NEW cell, NEW blocks, NEW vc, NEW st, Good(cell, blocks, vc, st),
         NEW s \in Strings, NEW a \in Triples, NEW cell2, NEW blocks2,
         StringFits(cell, blocks, vc, st, s, a, cell2, blocks2)
  PROVE  /\ Good(cell2, blocks2, vc, [st EXCEPT ![s] = a])
         /\ \A v \in Vectors : ContentOf(cell2, vc[v]) = ContentOf(cell, vc[v])
         /\ \A u \in Strings \ {s} : ContentOf(cell2, st[u]) = ContentOf(cell, st[u])
<1>0. StringArray(a) /\ cell2 \in [1 .. Size -> Cells]
  BY DEF StringFits
<1> DEFINE wt == [st EXCEPT ![s] = a]
<1>1. Shapes(vc, st) /\ Apart(vc, st) /\ Owned(blocks, vc, st) /\ Filled(cell, vc, st)
  BY DEF Good
<1>2. wt[s] = a /\ \A u \in Strings \ {s} : wt[u] = st[u]
  BY <1>1 DEF Shapes
<1>3. Shapes(vc, wt)
  BY <1>0, <1>1, <1>2 DEF Shapes
<1> HIDE DEF wt
<1>4. \A i \in 1 .. Size :
        /\ \A u \in Strings \ {s} : InString(st[u], i) => ~InString(st[s], i) /\ ~InString(a, i)
        /\ \A v \in Vectors : InVector(vc[v], i) => ~InString(st[s], i) /\ ~InString(a, i)
  BY <1>1 DEF Apart, Unowned, StringFits
<1>5. Apart(vc, wt)
  BY <1>1, <1>2, <1>4 DEF Apart
<1>6. Owned(blocks2, vc, wt)
  <2>1. \A u \in Strings \ {s} : StringBlock(st[u]) \cap StringBlock(st[s]) = {}
    <3> SUFFICES ASSUME NEW u \in Strings \ {s}, st[u].start # Null, st[u].start = st[s].start
                 PROVE  FALSE
      BY DEF StringBlock
    <3>1. st[u].start \in 1 .. Size /\ InString(st[u], st[u].start) /\ InString(st[s], st[u].start)
      BY <1>1, StorageAssumption DEF Shapes, Triples, StringArray, InString
    <3> QED
      BY <3>1, <1>4
  <2>2. \A v \in Vectors : VectorBlock(vc[v]) \cap StringBlock(st[s]) = {}
    <3> SUFFICES ASSUME NEW v \in Vectors, vc[v].start # Null, st[s].start = vc[v].start
                 PROVE  FALSE
      BY DEF VectorBlock, StringBlock
    <3>1. vc[v].start \in 1 .. Size /\ InString(st[s], vc[v].start) /\ InVector(vc[v], vc[v].start)
      BY <1>1, StorageAssumption
         DEF Shapes, Triples, VectorArray, StringArray, InVector, InString
    <3> QED
      BY <3>1, <1>4
  <2>3. \A u \in Strings : StringBlock(wt[u]) \subseteq blocks2
    BY <2>1, <1>1, <1>2 DEF Owned, StringFits
  <2>4. \A v \in Vectors : VectorBlock(vc[v]) \subseteq blocks2
    BY <2>2, <1>1 DEF Owned, StringFits
  <2>5. ASSUME NEW b \in blocks2
        PROVE  \/ \E v \in Vectors : b \in VectorBlock(vc[v])
               \/ \E u \in Strings : b \in StringBlock(wt[u])
    <3>1. CASE b \in StringBlock(a)
      BY <3>1, <1>2
    <3>2. CASE b \in blocks /\ b \notin StringBlock(st[s])
      BY <3>2, <1>1, <1>2 DEF Owned
    <3> QED
      BY <3>1, <3>2 DEF StringFits
  <2> QED
    BY <2>3, <2>4, <2>5 DEF Owned
<1>7. /\ \A v \in Vectors, i \in 1 .. Size : Holds(vc[v], i) => InVector(vc[v], i)
      /\ \A u \in Strings, i \in 1 .. Size : Holds(st[u], i) => InString(st[u], i)
  BY <1>1, HoldsInside DEF Shapes
<1>8. \A i \in 1 .. Size : Holds(a, i) => InString(a, i)
  BY <1>0, HoldsInside
<1>9. Filled(cell2, vc, wt)
  <2> SUFFICES ASSUME NEW i \in 1 .. Size
               PROVE  /\ \A v \in Vectors : Holds(vc[v], i) => cell2[i] \in Values
                      /\ \A u \in Strings : Holds(wt[u], i) => cell2[i] \in Values
                      /\ \A u \in Strings :
                           InString(wt[u], i) /\ i = wt[u].finish => cell2[i] = Zero
                      /\ \/ \E v \in Vectors : Holds(vc[v], i)
                         \/ \E u \in Strings : InString(wt[u], i)
                         \/ cell2[i] = Raw
    BY <1>0 DEF Filled
  <2>1. \A v \in Vectors : Holds(vc[v], i) => cell2[i] \in Values
    BY <1>1, <1>4, <1>7 DEF Filled, StringFits
  <2>2. \A u \in Strings : /\ Holds(wt[u], i) => cell2[i] \in Values
                           /\ InString(wt[u], i) /\ i = wt[u].finish => cell2[i] = Zero
    <3> SUFFICES ASSUME NEW u \in Strings
                 PROVE  /\ Holds(wt[u], i) => cell2[i] \in Values
                        /\ InString(wt[u], i) /\ i = wt[u].finish => cell2[i] = Zero
      OBVIOUS
    <3>1. CASE u = s
      BY <3>1, <1>2, <1>8 DEF StringFits
    <3>2. CASE u # s
      BY <3>2, <1>1, <1>2, <1>4, <1>7 DEF Filled, StringFits
    <3> QED
      BY <3>1, <3>2
  <2>3. \/ \E v \in Vectors : Holds(vc[v], i)
        \/ \E u \in Strings : InString(wt[u], i)
        \/ cell2[i] = Raw
    <3>1. CASE InString(a, i)
      BY <3>1, <1>2
    <3>2. CASE InString(st[s], i) /\ ~InString(a, i)
      BY <3>2 DEF StringFits
    <3>3. CASE ~InString(st[s], i) /\ ~InString(a, i)
      BY <3>3, <1>1, <1>2 DEF Filled, StringFits
    <3> QED
      BY <3>1, <3>2, <3>3
  <2> QED
    BY <2>1, <2>2, <2>3
<1>10. \A v \in Vectors : ContentOf(cell2, vc[v]) = ContentOf(cell, vc[v])
  <2> SUFFICES ASSUME NEW v \in Vectors PROVE ContentOf(cell2, vc[v]) = ContentOf(cell, vc[v])
    OBVIOUS
  <2>1. \A i \in 1 .. Size : Holds(vc[v], i) => cell2[i] = cell[i]
    BY <1>4, <1>7 DEF StringFits
  <2> QED
    BY <2>1, <1>1, SameContent DEF Shapes
<1>11. \A u \in Strings \ {s} : ContentOf(cell2, st[u]) = ContentOf(cell, st[u])
  <2> SUFFICES ASSUME NEW u \in Strings \ {s} PROVE ContentOf(cell2, st[u]) = ContentOf(cell, st[u])
    OBVIOUS
  <2>1. \A i \in 1 .. Size : Holds(st[u], i) => cell2[i] = cell[i]
    BY <1>4, <1>7 DEF StringFits
  <2> QED
    BY <2>1, <1>1, SameContent DEF Shapes
<1> QED
  BY <1>3, <1>5, <1>6, <1>9, <1>10, <1>11 DEF Good, wt

(* A vector, or a string, without a block takes over that of another.      *)
LEMMA VectorMoved ==
  ASSUME NEW cell, NEW blocks, NEW vc, NEW st, Good(cell, blocks, vc, st),
         NEW v \in Vectors, NEW w \in Vectors, v # w, vc[v] = NullArray
  PROVE  Good(cell, blocks, [vc EXCEPT ![v] = vc[w], ![w] = NullArray], st)
<1> DEFINE wc == [vc EXCEPT ![v] = vc[w], ![w] = NullArray]
<1>1. Shapes(vc, st) /\ Apart(vc, st) /\ Owned(blocks, vc, st) /\ Filled(cell, vc, st)
  BY DEF Good
<1>2. wc[v] = vc[w] /\ wc[w] = NullArray /\ \A x \in Vectors \ {v, w} : wc[x] = vc[x]
  BY <1>1 DEF Shapes
<1>3. NullArray \in Triples /\ VectorArray(NullArray) /\ VectorBlock(NullArray) = {}
  BY DEF NullArray, Null, Triples, VectorArray, VectorBlock
<1>4. Shapes(wc, st)
  BY <1>1, <1>2, <1>3 DEF Shapes
<1> HIDE DEF wc
<1>5. \A i \in 1 .. Size : ~InVector(NullArray, i) /\ ~Holds(NullArray, i)
  BY DEF NullArray, InVector, Holds
<1>6. Apart(wc, st)
  BY <1>1, <1>2, <1>5 DEF Apart
<1>7. Owned(blocks, wc, st)
  <2>1. \A x \in Vectors : VectorBlock(wc[x]) \subseteq blocks
    BY <1>1, <1>2, <1>3 DEF Owned
  <2>2. \A x \in Vectors : \A b \in VectorBlock(vc[x]) : \E y \in Vectors : b \in VectorBlock(wc[y])
    BY <1>2, <1>3
  <2> QED
    BY <2>1, <2>2, <1>1 DEF Owned
<1>8. Filled(cell, wc, st)
  <2>1. \A i \in 1 .. Size, x \in Vectors : Holds(wc[x], i) => cell[i] \in Values
    BY <1>1, <1>2, <1>5 DEF Filled
  <2>2. \A i \in 1 .. Size, x \in Vectors : Holds(vc[x], i) => \E y \in Vectors : Holds(wc[y], i)
    BY <1>2, <1>5
  <2> QED
    BY <2>1, <2>2, <1>1 DEF Filled
<1> QED
  BY <1>4, <1>6, <1>7, <1>8 DEF Good, wc

(* The same of strings.                                                    *)
LEMMA StringMoved ==
  ASSUME NEW cell, NEW blocks, NEW vc, NEW st, Good(cell, blocks, vc, st),
         NEW s \in Strings, NEW u \in Strings, s # u, st[s] = NullArray
  PROVE  Good(cell, blocks, vc, [st EXCEPT ![s] = st[u], ![u] = NullArray])
<1> DEFINE wt == [st EXCEPT ![s] = st[u], ![u] = NullArray]
<1>1. Shapes(vc, st) /\ Apart(vc, st) /\ Owned(blocks, vc, st) /\ Filled(cell, vc, st)
  BY DEF Good
<1>2. wt[s] = st[u] /\ wt[u] = NullArray /\ \A x \in Strings \ {s, u} : wt[x] = st[x]
  BY <1>1 DEF Shapes
<1>3. NullArray \in Triples /\ StringArray(NullArray) /\ StringBlock(NullArray) = {}
  BY DEF NullArray, Null, Triples, StringArray, StringBlock
<1>4. Shapes(vc, wt)
  BY <1>1, <1>2, <1>3 DEF Shapes
<1> HIDE DEF wt
<1>5. \A i \in 1 .. Size : ~InString(NullArray, i) /\ ~Holds(NullArray, i)
  BY DEF NullArray, InString, Holds
<1>6. Apart(vc, wt)
  BY <1>1, <1>2, <1>5 DEF Apart
<1>7. Owned(blocks, vc, wt)
  <2>1. \A x \in Strings : StringBlock(wt[x]) \subseteq blocks
    BY <1>1, <1>2, <1>3 DEF Owned
  <2>2. \A x \in Strings : \A b \in StringBlock(st[x]) : \E y \in Strings : b \in StringBlock(wt[y])
    BY <1>2, <1>3
  <2> QED
    BY <2>1, <2>2, <1>1 DEF Owned
<1>8. Filled(cell, vc, wt)
  <2>1. \A i \in 1 .. Size, x \in Strings :
          /\ Holds(wt[x], i) => cell[i] \in Values
          /\ InString(wt[x], i) /\ i = wt[x].finish => cell[i] = Zero
    BY <1>1, <1>2, <1>5 DEF Filled
  <2>2. \A i \in 1 .. Size, x \in Strings : InString(st[x], i) => \E y \in Strings : InString(wt[y], i)
    BY <1>2, <1>5
  <2> QED
    BY <2>1, <2>2, <1>1 DEF Filled
<1> QED
  BY <1>4, <1>6, <1>7, <1>8 DEF Good, wt

----------------------------------------------------------------------------
(* Cells and places.                                                       *)

(* A cell that allocate may use belongs to nobody, and is raw.             *)
LEMMA FreeCell ==
  ASSUME NEW m, NEW vc, NEW st, Good(m.cell, m.blocks, vc, st),
         NEW i \in (1 .. Size) \ InUse(m)
  PROVE  Unowned(vc, st, i) /\ m.cell[i] = Raw
<1>1. /\ Shapes(vc, st) /\ Owned(m.blocks, vc, st) /\ Filled(m.cell, vc, st)
  BY DEF Good
<1>2. \A b \in m.blocks : i \notin Span(b[1], b[2])
  BY DEF InUse
<1>3. ASSUME NEW v \in Vectors PROVE ~InVector(vc[v], i)
  <2> SUFFICES ASSUME InVector(vc[v], i) PROVE FALSE
    OBVIOUS
  <2>1. PICK a \in Triples : a = vc[v]
    BY <1>1 DEF Shapes
  <2>2. <<a.start, a.end - a.start>> \in m.blocks
    BY <2>1, <1>1 DEF Owned, VectorBlock, InVector
  <2>3. i \in Span(a.start, a.end - a.start)
    BY <2>1, StorageAssumption DEF Span, InVector, Triples
  <2> QED
    BY <2>2, <2>3, <1>2
<1>4. ASSUME NEW s \in Strings PROVE ~InString(st[s], i)
  <2> SUFFICES ASSUME InString(st[s], i) PROVE FALSE
    OBVIOUS
  <2>1. PICK a \in Triples : a = st[s]
    BY <1>1 DEF Shapes
  <2>2. <<a.start, a.end - a.start + 1>> \in m.blocks
    BY <2>1, <1>1 DEF Owned, StringBlock, InString
  <2>3. i \in Span(a.start, a.end - a.start + 1)
    BY <2>1, StorageAssumption DEF Span, InString, Triples
  <2> QED
    BY <2>2, <2>3, <1>2
<1>5. m.cell[i] = Raw
  <2>1. \A v \in Vectors : ~Holds(vc[v], i)
    BY <1>1, <1>3, HoldsInside DEF Shapes
  <2> QED
    BY <2>1, <1>1, <1>4 DEF Filled
<1> QED
  BY <1>3, <1>4, <1>5 DEF Unowned

(* A place for n cells lies within the segment and is free.                *)
LEMMA PlaceFacts ==
  ASSUME NEW m, NEW vc, NEW st, Good(m.cell, m.blocks, vc, st),
         NEW n \in Nat, n # 0, NEW i \in Places(m, n)
  PROVE  /\ i \in 1 .. Size /\ i + n <= Size + 1
         /\ \A c \in 1 .. Size : i <= c /\ c < i + n => Unowned(vc, st, c) /\ m.cell[c] = Raw
<1>1. i \in 1 .. Size /\ Span(i, n) \subseteq (1 .. Size) \ InUse(m)
  BY DEF Places
<1>2. i + n - 1 \in Span(i, n)
  BY <1>1, StorageAssumption DEF Span
<1>3. i + n <= Size + 1
  BY <1>1, <1>2, StorageAssumption
<1>4. ASSUME NEW c \in 1 .. Size, i <= c, c < i + n PROVE Unowned(vc, st, c) /\ m.cell[c] = Raw
  <2>1. c \in (1 .. Size) \ InUse(m)
    BY <1>1, <1>4, StorageAssumption DEF Span
  <2> QED
    BY <2>1, FreeCell
<1> QED
  BY <1>1, <1>3, <1>4

(* The cells of a vector that hold no element are raw.                     *)
LEMMA SpareCell ==
  ASSUME NEW cell, NEW blocks, NEW vc, NEW st, Good(cell, blocks, vc, st),
         NEW v \in Vectors, NEW i \in 1 .. Size, InVector(vc[v], i)
  PROVE  IF Holds(vc[v], i) THEN cell[i] \in Values ELSE cell[i] = Raw
<1>1. \A w \in Vectors : Holds(vc[w], i) => InVector(vc[w], i)
  BY HoldsInside DEF Good, Shapes
<1> QED
  BY <1>1 DEF Good, Apart, Filled

(* The contents of an array are a sequence of elements.                    *)
LEMMA ContentIsSeq ==
  ASSUME NEW cell, NEW blocks, NEW vc, NEW st, Good(cell, blocks, vc, st), NEW a,
         \/ \E v \in Vectors : a = vc[v]
         \/ \E s \in Strings : a = st[s]
  PROVE  /\ ContentOf(cell, a) \in Seq(Values)
         /\ Len(ContentOf(cell, a)) = SizeOf(a) /\ SizeOf(a) \in Nat
<1>1. a \in Triples /\ (VectorArray(a) \/ StringArray(a))
  BY DEF Good, Shapes
<1>2. a.start \in Nat /\ a.finish \in Nat /\ a.end \in Nat /\ Size \in Nat
  BY <1>1, StorageAssumption DEF Triples
<1>3. SizeOf(a) \in Nat /\ (a.start # Null => SizeOf(a) = a.finish - a.start /\ a.finish <= Size + 1)
  BY <1>1, <1>2 DEF SizeOf, VectorArray, StringArray, Null
<1>4. ASSUME NEW j \in 1 .. SizeOf(a) PROVE cell[a.start + j - 1] \in Values
  <2>1. a.start # Null
    BY <1>4, <1>3 DEF SizeOf
  <2>2. a.start + j - 1 \in 1 .. Size /\ Holds(a, a.start + j - 1)
    BY <2>1, <1>1, <1>2, <1>3, <1>4 DEF Holds, VectorArray, StringArray, Null
  <2> QED
    BY <2>2 DEF Good, Filled
<1>5. ContentOf(cell, a) \in [1 .. SizeOf(a) -> Values]
  BY <1>4 DEF ContentOf
<1> QED
  BY <1>3, <1>5

----------------------------------------------------------------------------
(* States as a whole, and what their arrays contain.                       *)

All(m, vc, st) ==
  [x \in Vectors \cup Strings |->
     IF x \in Vectors THEN ContentOf(m.cell, vc[x]) ELSE ContentOf(m.cell, st[x])]

(* A step that leaves a sound state, where x contains text and every other *)
(* array what it did.                                                      *)
Puts(m, vc, st, x, text, m2, vc2, st2) ==
  /\ Sound(m2, vc2, st2)
  /\ All(m2, vc2, st2) = [All(m, vc, st) EXCEPT ![x] = text]

(* The array of a vector changes, and no other.                            *)
LEMMA VectorSet ==
  ASSUME NEW m, NEW vc, NEW st, Sound(m, vc, st), NEW v \in Vectors, NEW a \in Triples,
         NEW m2, Memory(m2), VectorFits(m.cell, m.blocks, vc, st, v, a, m2.cell, m2.blocks)
  PROVE  Puts(m, vc, st, v, ContentOf(m2.cell, a), m2, [vc EXCEPT ![v] = a], st)
<1>1. Good(m.cell, m.blocks, vc, st)
  BY DEF Sound
<1>2. /\ Good(m2.cell, m2.blocks, [vc EXCEPT ![v] = a], st)
      /\ \A w \in Vectors \ {v} : ContentOf(m2.cell, vc[w]) = ContentOf(m.cell, vc[w])
      /\ \A s \in Strings : ContentOf(m2.cell, st[s]) = ContentOf(m.cell, st[s])
  BY <1>1, VectorReplaced
<1>3. vc \in [Vectors -> Triples]
  BY <1>1 DEF Good, Shapes
<1>4. ASSUME NEW x \in Vectors \cup Strings
      PROVE  All(m2, [vc EXCEPT ![v] = a], st)[x]
               = [All(m, vc, st) EXCEPT ![v] = ContentOf(m2.cell, a)][x]
  BY <1>2, <1>3, ArraysAssumption DEF All
<1> QED
  BY <1>2, <1>4 DEF All, Sound, Puts

(* The array of a string changes, and no other.                            *)
LEMMA StringSet ==
  ASSUME NEW m, NEW vc, NEW st, Sound(m, vc, st), NEW s \in Strings, NEW a \in Triples,
         NEW m2, Memory(m2), StringFits(m.cell, m.blocks, vc, st, s, a, m2.cell, m2.blocks)
  PROVE  Puts(m, vc, st, s, ContentOf(m2.cell, a), m2, vc, [st EXCEPT ![s] = a])
<1>1. Good(m.cell, m.blocks, vc, st)
  BY DEF Sound
<1>2. /\ Good(m2.cell, m2.blocks, vc, [st EXCEPT ![s] = a])
      /\ \A v \in Vectors : ContentOf(m2.cell, vc[v]) = ContentOf(m.cell, vc[v])
      /\ \A u \in Strings \ {s} : ContentOf(m2.cell, st[u]) = ContentOf(m.cell, st[u])
  BY <1>1, StringReplaced
<1>3. st \in [Strings -> Triples]
  BY <1>1 DEF Good, Shapes
<1>4. ASSUME NEW x \in Vectors \cup Strings
      PROVE  All(m2, vc, [st EXCEPT ![s] = a])[x]
               = [All(m, vc, st) EXCEPT ![s] = ContentOf(m2.cell, a)][x]
  BY <1>2, <1>3, ArraysAssumption DEF All
<1> QED
  BY <1>2, <1>4 DEF All, Sound, Puts

(* What the proofs below keep using of the array of a vector.              *)
LEMMA VectorFacts ==
  ASSUME NEW m, NEW vc, NEW st, Sound(m, vc, st), NEW v \in Vectors
  PROVE  /\ vc \in [Vectors -> Triples] /\ vc[v] \in Triples /\ VectorArray(vc[v])
         /\ vc[v].start \in Nat /\ vc[v].finish \in Nat /\ vc[v].end \in Nat
         /\ Size \in Nat /\ m.cell \in [1 .. Size -> Cells]
         /\ SizeOf(vc[v]) \in Nat /\ CapacityOf(vc[v]) \in Nat
         /\ SizeOf(vc[v]) <= CapacityOf(vc[v])
         /\ vc[v].start # Null => /\ SizeOf(vc[v]) = vc[v].finish - vc[v].start
                                  /\ CapacityOf(vc[v]) = vc[v].end - vc[v].start
         /\ \A i \in 1 .. Size : Holds(vc[v], i) => InVector(vc[v], i)
<1>1. /\ vc \in [Vectors -> Triples] /\ vc[v] \in Triples /\ VectorArray(vc[v])
      /\ Size \in Nat /\ m.cell \in [1 .. Size -> Cells]
  BY StorageAssumption DEF Sound, Good, Shapes, Filled
<1>2. vc[v].start \in Nat /\ vc[v].finish \in Nat /\ vc[v].end \in Nat
  BY <1>1 DEF Triples
<1>3. \A i \in 1 .. Size : Holds(vc[v], i) => InVector(vc[v], i)
  BY <1>1, HoldsInside
<1> QED
  BY <1>1, <1>2, <1>3 DEF SizeOf, CapacityOf, VectorArray, Null
----------------------------------------------------------------------------
(* What the operators of Storage and Vector do to the cells.               *)

(* release_block leaves the cells of the elements raw, if they were        *)
(* elements, and the block free.                                           *)
LEMMA ReleaseCells ==
  ASSUME NEW m, Memory(m), m.cell \in [1 .. Size -> Cells],
         NEW a \in Triples, VectorArray(a), NEW r, r = release_block(m, a)
  PROVE  /\ Memory(r) /\ r.blocks = m.blocks \ VectorBlock(a)
         /\ r.cell \in [1 .. Size -> Cells]
         /\ \A c \in 1 .. Size :
              r.cell[c] = IF Holds(a, c) THEN (IF m.cell[c] \in Values THEN Raw ELSE Broken)
                          ELSE m.cell[c]
<1>1. a.start \in Nat /\ a.finish \in Nat /\ a.end \in Nat /\ Size \in Nat
  BY StorageAssumption DEF Triples
<1>2. CASE a.start = Null
  BY <1>2 DEF release_block, VectorBlock, Holds
<1>3. CASE a.start # Null
  <2>1. SizeOf(a) = a.finish - a.start /\ CapacityOf(a) = a.end - a.start
    BY <1>3 DEF SizeOf, CapacityOf
  <2>2. \A c \in 1 .. Size : c \in Span(a.start, SizeOf(a)) <=> Holds(a, c)
    BY <2>1, <1>1, <1>3 DEF Span, Holds
  <2>3. PICK d : d = destroy_range(m, a.start, SizeOf(a))
    OBVIOUS
  <2>4. /\ Memory(d) /\ d.blocks = m.blocks
        /\ d.cell = [c \in 1 .. Size |->
             IF c \notin Span(a.start, SizeOf(a)) THEN m.cell[c]
             ELSE IF m.cell[c] \in Values THEN Raw ELSE Broken]
    BY <2>3 DEF destroy_range, Memory
  <2>5. r = deallocate(d, a.start, a.end - a.start)
    BY <2>1, <2>3, <1>3 DEF release_block
  <2>6. Memory(r) /\ r.blocks = m.blocks \ {<<a.start, a.end - a.start>>} /\ r.cell = d.cell
    BY <2>4, <2>5 DEF deallocate, Memory
  <2>7. VectorBlock(a) = {<<a.start, a.end - a.start>>}
    BY <1>3 DEF VectorBlock
  <2>8. d.cell \in [1 .. Size -> Cells]
    BY <2>4 DEF Cells
  <2> QED
    BY <2>2, <2>4, <2>6, <2>7, <2>8
<1> QED
  BY <1>2, <1>3

(* r is m with the elements vals in cells that were raw.                   *)
Constructed(m, i, vals, r) ==
  /\ Memory(r) /\ r.blocks = m.blocks
  /\ r.cell \in [1 .. Size -> Cells]
  /\ \A c \in 1 .. Size :
       r.cell[c] = IF i <= c /\ c < i + Len(vals)
                   THEN (IF m.cell[c] = Raw THEN vals[c - i + 1] ELSE Broken)
                   ELSE m.cell[c]

(* That is what ConstructAll makes of it.                                  *)
LEMMA ConstructCells ==
  ASSUME NEW m, Memory(m), m.cell \in [1 .. Size -> Cells],
         NEW i \in Nat, NEW vals \in Seq(Values), NEW r, r = ConstructAll(m, i, vals)
  PROVE  Constructed(m, i, vals, r)
<1>1. Len(vals) \in Nat /\ Size \in Nat
  BY StorageAssumption
<1>2. \A c \in 1 .. Size : c \in Span(i, Len(vals)) <=> i <= c /\ c < i + Len(vals)
  BY <1>1 DEF Span
<1>3. \A c \in 1 .. Size : c \in Span(i, Len(vals)) => vals[c - i + 1] \in Values
  <2> SUFFICES ASSUME NEW c \in 1 .. Size, c \in Span(i, Len(vals)) PROVE vals[c - i + 1] \in Values
    OBVIOUS
  <2>1. c - i + 1 \in 1 .. Len(vals)
    BY <1>1, <1>2
  <2> QED
    BY <2>1
<1>4. /\ Memory(r) /\ r.blocks = m.blocks
      /\ r.cell = [c \in 1 .. Size |-> IF c \notin Span(i, Len(vals)) THEN m.cell[c]
                                       ELSE IF m.cell[c] = Raw THEN vals[c - i + 1] ELSE Broken]
  BY DEF ConstructAll, Memory
<1>5. r.cell \in [1 .. Size -> Cells]
  BY <1>3, <1>4 DEF Cells
<1> QED
  BY <1>2, <1>4, <1>5 DEF Constructed

----------------------------------------------------------------------------
(* The operations on one vector.                                           *)

(* The objects and the block of vector v are given back.                   *)
LEMMA Released ==
  ASSUME NEW m, NEW vc, NEW st, Sound(m, vc, st), NEW v \in Vectors,
         NEW r, r = release_block(m, vc[v])
  PROVE  Puts(m, vc, st, v, <<>>, r, [vc EXCEPT ![v] = NullArray], st)
<1>1. PICK a \in Triples : a = vc[v] /\ VectorArray(a)
  BY VectorFacts
<1>2. /\ Memory(m) /\ m.cell \in [1 .. Size -> Cells]
  BY VectorFacts DEF Sound
<1>3. PICK n \in Triples : n = NullArray
  BY DEF NullArray, Null, Triples
<1>4. VectorArray(n) /\ VectorBlock(n) = {}
      /\ \A i \in 1 .. Size : ~InVector(n, i) /\ ~Holds(n, i)
  BY <1>3 DEF NullArray, VectorArray, VectorBlock, InVector, Holds
<1>5. /\ Memory(r) /\ r.blocks = m.blocks \ VectorBlock(a)
      /\ r.cell \in [1 .. Size -> Cells]
      /\ \A c \in 1 .. Size :
           r.cell[c] = IF Holds(a, c) THEN (IF m.cell[c] \in Values THEN Raw ELSE Broken)
                       ELSE m.cell[c]
  BY <1>1, <1>2, ReleaseCells
<1>6. \A i \in 1 .. Size : InVector(a, i) => r.cell[i] = Raw
  BY <1>1, <1>5, SpareCell DEF Sound
<1>7. \A i \in 1 .. Size : InVector(a, i) \/ r.cell[i] = m.cell[i]
  BY <1>1, <1>5, HoldsInside
<1>8. VectorFits(m.cell, m.blocks, vc, st, v, n, r.cell, r.blocks)
  BY <1>1, <1>4, <1>5, <1>6, <1>7 DEF VectorFits
<1>9. ContentOf(r.cell, n) = <<>>
  BY <1>3 DEF ContentOf, SizeOf, NullArray
<1>10. Puts(m, vc, st, v, ContentOf(r.cell, n), r, [vc EXCEPT ![v] = n], st)
  BY <1>5, <1>8, VectorSet
<1> QED
  BY <1>3, <1>9, <1>10

(* reallocate in a new block, and assign_from: the elements vals are       *)
(* constructed in a new block, and the old ones are given back.            *)
LEMMA NewBlock ==
  ASSUME NEW m, NEW vc, NEW st, Sound(m, vc, st), NEW v \in Vectors,
         NEW cap \in Nat, cap # 0, NEW vals \in Seq(Values), Len(vals) <= cap,
         NEW i \in Places(m, cap),
         NEW r, r = release_block(ConstructAll(allocate(m, i, cap), i, vals), vc[v]),
         NEW vc2, vc2 = [vc EXCEPT ![v] = ArrayAt(i, Len(vals), cap)]
  PROVE  Puts(m, vc, st, v, vals, r, vc2, st)
<1>1. PICK a \in Triples : a = vc[v] /\ VectorArray(a)
  BY VectorFacts
<1>2. /\ Memory(m) /\ m.cell \in [1 .. Size -> Cells] /\ Size \in Nat
      /\ Good(m.cell, m.blocks, vc, st)
  BY VectorFacts DEF Sound
<1>3. /\ i \in 1 .. Size /\ i + cap <= Size + 1 /\ Len(vals) \in Nat /\ i \in Nat
      /\ \A c \in 1 .. Size : i <= c /\ c < i + cap => Unowned(vc, st, c) /\ m.cell[c] = Raw
  <2>1. /\ i \in 1 .. Size /\ i + cap <= Size + 1
        /\ \A c \in 1 .. Size : i <= c /\ c < i + cap => Unowned(vc, st, c) /\ m.cell[c] = Raw
    BY <1>2, PlaceFacts
  <2> QED
    BY <2>1, <1>2
<1>4. PICK n \in Triples : n = ArrayAt(i, Len(vals), cap)
  <2>1. i + Len(vals) \in Nat /\ i + cap \in Nat
    BY <1>3
  <2> QED
    BY <2>1, <1>3 DEF ArrayAt, Triples
<1>5. n.start = i /\ n.finish = i + Len(vals) /\ n.end = i + cap
  BY <1>4 DEF ArrayAt
<1>6. VectorArray(n) /\ VectorBlock(n) = {<<i, cap>>}
  BY <1>2, <1>3, <1>5 DEF VectorArray, VectorBlock, Null
<1>7. \A c \in 1 .. Size : /\ InVector(n, c) <=> i <= c /\ c < i + cap
                           /\ Holds(n, c) <=> i <= c /\ c < i + Len(vals)
  BY <1>2, <1>3, <1>5 DEF InVector, Holds, Null
<1>8. PICK m1 : m1 = allocate(m, i, cap)
  OBVIOUS
<1>9. Memory(m1) /\ m1.cell = m.cell /\ m1.blocks = m.blocks \cup {<<i, cap>>}
  BY <1>2, <1>8 DEF allocate, Memory
<1>10. PICK m2 : m2 = ConstructAll(m1, i, vals)
  OBVIOUS
<1>11. /\ Memory(m2) /\ m2.blocks = m1.blocks
       /\ m2.cell \in [1 .. Size -> Cells]
       /\ \A c \in 1 .. Size :
            m2.cell[c] = IF i <= c /\ c < i + Len(vals)
                         THEN (IF m.cell[c] = Raw THEN vals[c - i + 1] ELSE Broken)
                         ELSE m.cell[c]
  <2>1. m1.cell \in [1 .. Size -> Cells]
    BY <1>2, <1>9
  <2>2. Constructed(m1, i, vals, m2)
    BY <2>1, <1>3, <1>9, <1>10, ConstructCells
  <2> QED
    BY <2>2, <1>9 DEF Constructed
<1>12. /\ Memory(r) /\ r.blocks = m2.blocks \ VectorBlock(a)
       /\ r.cell \in [1 .. Size -> Cells]
       /\ \A c \in 1 .. Size :
            r.cell[c] = IF Holds(a, c) THEN (IF m2.cell[c] \in Values THEN Raw ELSE Broken)
                        ELSE m2.cell[c]
  BY <1>1, <1>8, <1>10, <1>11, ReleaseCells
<1>13. \A c \in 1 .. Size : InVector(n, c) => Unowned(vc, st, c) /\ ~InVector(a, c) /\ ~Holds(a, c)
  BY <1>1, <1>3, <1>7, HoldsInside DEF Unowned
<1>14. \A c \in 1 .. Size : Holds(n, c) => r.cell[c] = vals[c - i + 1] /\ r.cell[c] \in Values
  <2> SUFFICES ASSUME NEW c \in 1 .. Size, Holds(n, c)
               PROVE  r.cell[c] = vals[c - i + 1] /\ r.cell[c] \in Values
    OBVIOUS
  <2>1. i <= c /\ c < i + Len(vals) /\ InVector(n, c)
    BY <1>3, <1>7
  <2>2. r.cell[c] = vals[c - i + 1]
    BY <2>1, <1>3, <1>7, <1>11, <1>12, <1>13
  <2>3. c - i + 1 \in 1 .. Len(vals)
    BY <2>1, <1>3
  <2> QED
    BY <2>2, <2>3
<1>15. \A c \in 1 .. Size : InVector(n, c) /\ ~Holds(n, c) => r.cell[c] = Raw
  BY <1>3, <1>7, <1>11, <1>12, <1>13
<1>16. \A c \in 1 .. Size : InVector(a, c) => r.cell[c] = Raw /\ ~Holds(n, c)
  <2> SUFFICES ASSUME NEW c \in 1 .. Size, InVector(a, c) PROVE r.cell[c] = Raw /\ ~Holds(n, c)
    OBVIOUS
  <2>1. ~InVector(n, c) /\ ~Holds(n, c)
    BY <1>6, <1>13, HoldsInside
  <2>2. m2.cell[c] = m.cell[c]
    BY <2>1, <1>7, <1>11
  <2>3. IF Holds(a, c) THEN m.cell[c] \in Values ELSE m.cell[c] = Raw
    BY <1>1, <1>2, SpareCell
  <2> QED
    BY <2>1, <2>2, <2>3, <1>12
<1>17. \A c \in 1 .. Size : InVector(a, c) \/ InVector(n, c) \/ r.cell[c] = m.cell[c]
  <2> SUFFICES ASSUME NEW c \in 1 .. Size, ~InVector(a, c), ~InVector(n, c)
               PROVE  r.cell[c] = m.cell[c]
    OBVIOUS
  <2>1. ~Holds(a, c) /\ ~Holds(n, c)
    BY <1>1, <1>6, HoldsInside
  <2> QED
    BY <2>1, <1>7, <1>11, <1>12
<1>18. r.blocks = (m.blocks \ VectorBlock(vc[v])) \cup VectorBlock(n)
  <2>1. <<i, cap>> \notin VectorBlock(a)
    <3> SUFFICES ASSUME a.start = i PROVE FALSE
      BY <1>3 DEF VectorBlock
    <3>1. InVector(a, i) /\ InVector(n, i)
      BY <1>1, <1>2, <1>3, <1>7 DEF InVector, VectorArray, Triples, Null
    <3> QED
      BY <3>1, <1>3, <1>13
  <2> QED
    BY <2>1, <1>1, <1>6, <1>9, <1>11, <1>12
<1>19. VectorFits(m.cell, m.blocks, vc, st, v, n, r.cell, r.blocks)
  BY <1>1, <1>6, <1>12, <1>13, <1>14, <1>15, <1>16, <1>17, <1>18 DEF VectorFits
<1>20. ContentOf(r.cell, n) = vals
  <2>1. SizeOf(n) = Len(vals)
    BY <1>3, <1>5 DEF SizeOf, Null
  <2>2. ASSUME NEW j \in 1 .. Len(vals) PROVE r.cell[n.start + j - 1] = vals[j]
    <3>1. i + j - 1 \in 1 .. Size /\ Holds(n, i + j - 1) /\ (i + j - 1) - i + 1 = j
      BY <1>2, <1>3, <1>5 DEF Holds, Null
    <3> QED
      BY <3>1, <1>5, <1>14
  <2>3. ContentOf(r.cell, n) = [j \in 1 .. Len(vals) |-> vals[j]]
    BY <2>1, <2>2 DEF ContentOf
  <2> QED
    BY <2>3
<1>21. Puts(m, vc, st, v, ContentOf(r.cell, n), r, [vc EXCEPT ![v] = n], st)
  BY <1>12, <1>19, VectorSet
<1> QED
  BY <1>4, <1>20, <1>21

(* Two steps on the same array, and a step that changes no contents.       *)
LEMMA PutsTwice ==
  ASSUME NEW m, NEW vc, NEW st, NEW x \in Vectors \cup Strings, NEW t,
         NEW m2, NEW vc2, NEW st2, Puts(m, vc, st, x, t, m2, vc2, st2),
         NEW t2, NEW m3, NEW vc3, NEW st3, Puts(m2, vc2, st2, x, t2, m3, vc3, st3)
  PROVE  Puts(m, vc, st, x, t2, m3, vc3, st3)
<1>1. PICK f : f = All(m, vc, st) /\ f = [y \in Vectors \cup Strings |-> f[y]]
  BY DEF All
<1>2. [[f EXCEPT ![x] = t] EXCEPT ![x] = t2] = [f EXCEPT ![x] = t2]
  BY <1>1
<1> QED
  BY <1>1, <1>2 DEF Puts

(* An operation that puts back what an array contains leaves all of them   *)
(* as they were.                                                           *)
LEMMA PutsSame ==
  ASSUME NEW m, NEW vc, NEW st, NEW x \in Vectors \cup Strings, NEW t, t = All(m, vc, st)[x],
         NEW m2, NEW vc2, NEW st2, Puts(m, vc, st, x, t, m2, vc2, st2)
  PROVE  Sound(m2, vc2, st2) /\ All(m2, vc2, st2) = All(m, vc, st)
<1>1. PICK f : f = All(m, vc, st) /\ f = [y \in Vectors \cup Strings |-> f[y]]
  BY DEF All
<1>2. [f EXCEPT ![x] = t] = f
  BY <1>1
<1> QED
  BY <1>1, <1>2 DEF Puts

(* What makes a function the concatenation of two sequences.               *)
Joined(f, p, d, q, k) ==
  /\ f = [j \in 1 .. d + k |-> f[j]]
  /\ \A j \in 1 .. d : f[j] = p[j]
  /\ \A j \in 1 .. k : f[d + j] = q[j]

(* A function that is p up to d and q behind it is the concatenation of    *)
(* the two.                                                                *)
LEMMA ConcatIs ==
  ASSUME NEW p \in Seq(Values), NEW q \in Seq(Values), NEW d \in Nat, NEW k \in Nat,
         d = Len(p), k = Len(q), NEW f, Joined(f, p, d, q, k)
  PROVE  f = p \o q
<1>1. p \o q \in Seq(Values) /\ Len(p \o q) = d + k
  BY ConcatProperties
<1>2. PICK c \in Seq(Values) : c = p \o q /\ Len(c) = d + k
  BY <1>1
<1>3. ASSUME NEW j \in 1 .. d + k PROVE f[j] = c[j]
  <2>1. CASE j <= d
    <3>1. j \in 1 .. d /\ c[j] = p[j]
      BY <2>1, <1>2
    <3> QED
      BY <3>1 DEF Joined
  <2>2. CASE j > d
    <3>1. PICK i \in 1 .. k : j = d + i
      <4>1. j - d \in 1 .. k /\ j = d + (j - d)
        BY <2>2
      <4> QED
        BY <4>1
    <3>2. c[j] = q[i]
      BY <3>1, <2>2, <1>2
    <3> QED
      BY <3>1, <3>2 DEF Joined
  <2> QED
    BY <2>1, <2>2
<1>4. c = [j \in 1 .. Len(c) |-> c[j]]
  OBVIOUS
<1>5. f = [j \in 1 .. d + k |-> c[j]]
  BY <1>3 DEF Joined
<1> QED
  BY <1>2, <1>4, <1>5

(* Where the j-th of k cells behind the first d cells lies.                *)
LEMMA Within ==
  ASSUME NEW size \in Nat, NEW start \in Nat, NEW finish \in Nat, NEW d \in Nat, NEW k \in Nat,
         NEW j \in 1 .. k, 1 <= start, finish = start + d, finish + k <= size + 1
  PROVE  finish + j - 1 \in 1 .. size
OBVIOUS

(* The cells behind the first old of cap cells.                            *)
LEMMA SpanBehind ==
  ASSUME NEW p \in Nat, NEW old \in Nat, NEW cap \in Nat
  PROVE  Span(p + old, cap - old) = (p + old) .. (p + cap - 1)
<1>1. p + old + (cap - old) - 1 = p + cap - 1
  OBVIOUS
<1> QED
  BY <1>1 DEF Span

(* Cell j of a second part, behind d cells.                                *)
LEMMA CellBehind ==
  ASSUME NEW p \in Nat, NEW d \in Nat, NEW j \in Nat
  PROVE  p + (d + j) - 1 = (p + d) + j - 1
OBVIOUS

(* reallocate in place.                                                    *)
LEMMA Lengthened ==
  ASSUME NEW m, NEW vc, NEW st, Sound(m, vc, st), NEW v \in Vectors, vc[v].start # Null,
         NEW cap \in Nat, cap > CapacityOf(vc[v]),
         CanExpand(m, vc[v].start, CapacityOf(vc[v]), cap),
         NEW r, r = try_expand(m, vc[v].start, CapacityOf(vc[v]), cap),
         NEW vc2, vc2 = [vc EXCEPT ![v] = ArrayAt(vc[v].start, SizeOf(vc[v]), cap)]
  PROVE  Puts(m, vc, st, v, ContentOf(m.cell, vc[v]), r, vc2, st)
<1>1. PICK a \in Triples : a = vc[v]
  BY VectorFacts
<1>2. /\ VectorArray(a) /\ a.start \in Nat /\ a.finish \in Nat /\ a.end \in Nat
      /\ Size \in Nat /\ m.cell \in [1 .. Size -> Cells] /\ Memory(m)
      /\ SizeOf(a) = a.finish - a.start /\ CapacityOf(a) = a.end - a.start
      /\ a.start # Null /\ Good(m.cell, m.blocks, vc, st)
  BY <1>1, VectorFacts DEF Sound
<1>3. PICK n \in Triples : n = ArrayAt(a.start, SizeOf(a), cap)
  <2>1. a.start + SizeOf(a) \in Nat /\ a.start + cap \in Nat
    BY <1>2
  <2> QED
    BY <2>1, <1>2 DEF ArrayAt, Triples
<1>4. n.start = a.start /\ n.finish = a.finish /\ n.end = a.start + cap
  BY <1>2, <1>3 DEF ArrayAt
<1>5. \A c \in a.end .. a.start + cap - 1 : c \in (1 .. Size) \ InUse(m)
  <2>1. PICK old \in Nat : old = CapacityOf(a) /\ a.end = a.start + old
    BY <1>2 DEF VectorArray
  <2>2. a.start \in Nat
    BY <1>2
  <2>3. Span(a.start + old, cap - old) = (a.start + old) .. (a.start + cap - 1)
    BY <2>2, SpanBehind
  <2>4. Span(a.start + old, cap - old) \subseteq (1 .. Size) \ InUse(m)
    BY <2>1, <1>1 DEF CanExpand
  <2> QED
    BY <2>1, <2>3, <2>4
<1>6. a.start + cap <= Size + 1 /\ a.end < a.start + cap
  <2>1. a.start + cap - 1 \in a.end .. a.start + cap - 1
    BY <1>1, <1>2
  <2> QED
    BY <2>1, <1>1, <1>2, <1>5
<1>7. \A c \in 1 .. Size : /\ InVector(n, c) => InVector(a, c) \/ c \in a.end .. a.start + cap - 1
                           /\ InVector(a, c) => InVector(n, c)
                           /\ Holds(n, c) <=> Holds(a, c)
  BY <1>2, <1>4, <1>6 DEF InVector, Holds
<1>8. VectorArray(n)
  BY <1>2, <1>4, <1>6 DEF VectorArray, Null
<1>9. /\ Memory(r) /\ r.cell = m.cell
      /\ r.blocks = (m.blocks \ {<<a.start, a.end - a.start>>}) \cup {<<a.start, cap>>}
  BY <1>1, <1>2 DEF try_expand, allocate, deallocate, Memory
<1>10. VectorBlock(n) = {<<a.start, cap>>} /\ VectorBlock(a) = {<<a.start, a.end - a.start>>}
  <2>1. n.end - n.start = cap
    BY <1>2, <1>4
  <2> QED
    BY <2>1, <1>2, <1>4 DEF VectorBlock
<1>11. \A c \in 1 .. Size : InVector(n, c) /\ ~InVector(a, c) => Unowned(vc, st, c) /\ m.cell[c] = Raw
  BY <1>2, <1>5, <1>7, FreeCell
<1>12. \A c \in 1 .. Size : InVector(a, c) => IF Holds(a, c) THEN m.cell[c] \in Values ELSE m.cell[c] = Raw
  BY <1>1, <1>2, SpareCell
<1>13. \A c \in 1 .. Size : Holds(a, c) => InVector(a, c)
  BY <1>2, HoldsInside
<1>14. VectorFits(m.cell, m.blocks, vc, st, v, n, r.cell, r.blocks)
  <2>1. \A c \in 1 .. Size : InVector(a, c) \/ InVector(n, c) =>
          IF Holds(n, c) THEN m.cell[c] \in Values ELSE m.cell[c] = Raw
    BY <1>7, <1>11, <1>12, <1>13
  <2> QED
    BY <2>1, <1>1, <1>2, <1>8, <1>9, <1>10, <1>11 DEF VectorFits
<1>15. ContentOf(r.cell, n) = ContentOf(m.cell, a)
  BY <1>4, <1>9 DEF ContentOf, SizeOf
<1>16. Puts(m, vc, st, v, ContentOf(r.cell, n), r, [vc EXCEPT ![v] = n], st)
  BY <1>9, <1>14, VectorSet
<1> QED
  BY <1>1, <1>3, <1>15, <1>16

(* New elements are constructed behind the last one.                       *)
LEMMA Extended ==
  ASSUME NEW m, NEW vc, NEW st, Sound(m, vc, st), NEW v \in Vectors, vc[v].start # Null,
         NEW vals \in Seq(Values), vc[v].finish + Len(vals) <= vc[v].end,
         NEW r, r = ConstructAll(m, vc[v].finish, vals),
         NEW vc2, vc2 = [vc EXCEPT ![v].finish = vc[v].finish + Len(vals)]
  PROVE  Puts(m, vc, st, v, ContentOf(m.cell, vc[v]) \o vals, r, vc2, st)
<1>1. PICK a \in Triples : a = vc[v]
  BY VectorFacts
<1>2. /\ VectorArray(a) /\ a.start \in Nat /\ a.finish \in Nat /\ a.end \in Nat
      /\ Size \in Nat /\ m.cell \in [1 .. Size -> Cells] /\ Memory(m)
      /\ SizeOf(a) = a.finish - a.start
      /\ a.start # Null /\ Good(m.cell, m.blocks, vc, st) /\ vc \in [Vectors -> Triples]
  BY <1>1, VectorFacts DEF Sound
<1>21. a.start \in Nat /\ a.finish \in Nat /\ Size \in Nat
  BY <1>2
<1>20. Len(vals) \in Nat /\ a.finish + Len(vals) \in Nat /\ a.finish + Len(vals) <= a.end
  BY <1>1, <1>2
<1>3. PICK n \in Triples : n = [a EXCEPT !.finish = a.finish + Len(vals)]
  BY <1>20 DEF Triples
<1>4. n.start = a.start /\ n.finish = a.finish + Len(vals) /\ n.end = a.end
  BY <1>3 DEF Triples
<1>5. VectorArray(n) /\ VectorBlock(n) = VectorBlock(a)
  BY <1>20, <1>2, <1>4 DEF VectorArray, VectorBlock, Null
<1>6. \A c \in 1 .. Size :
        /\ InVector(n, c) <=> InVector(a, c)
        /\ Holds(n, c) <=> Holds(a, c) \/ (a.finish <= c /\ c < a.finish + Len(vals))
        /\ a.finish <= c => ~Holds(a, c)
        /\ Holds(n, c) => InVector(a, c)
  BY <1>20, <1>2, <1>4 DEF VectorArray, InVector, Holds, Null
<1>7. /\ Memory(r) /\ r.blocks = m.blocks
      /\ r.cell \in [1 .. Size -> Cells]
      /\ \A c \in 1 .. Size :
           r.cell[c] = IF a.finish <= c /\ c < a.finish + Len(vals)
                       THEN (IF m.cell[c] = Raw THEN vals[c - a.finish + 1] ELSE Broken)
                       ELSE m.cell[c]
  <2>1. Constructed(m, a.finish, vals, r)
    BY <1>1, <1>2, ConstructCells
  <2> QED
    BY <2>1 DEF Constructed
<1>8. \A c \in 1 .. Size : InVector(a, c) => IF Holds(a, c) THEN m.cell[c] \in Values ELSE m.cell[c] = Raw
  BY <1>1, <1>2, SpareCell
<1>9. \A c \in 1 .. Size : a.finish <= c /\ c < a.finish + Len(vals) =>
        r.cell[c] = vals[c - a.finish + 1] /\ r.cell[c] \in Values
  <2> SUFFICES ASSUME NEW c \in 1 .. Size, a.finish <= c, c < a.finish + Len(vals)
               PROVE  r.cell[c] = vals[c - a.finish + 1] /\ r.cell[c] \in Values
    OBVIOUS
  <2>1. r.cell[c] = vals[c - a.finish + 1]
    BY <1>6, <1>7, <1>8
  <2>2. c - a.finish + 1 \in 1 .. Len(vals)
    BY <1>2, <1>20
  <2> QED
    BY <2>1, <2>2
<1>10. VectorFits(m.cell, m.blocks, vc, st, v, n, r.cell, r.blocks)
  <2>1. \A c \in 1 .. Size : InVector(a, c) =>
          IF Holds(n, c) THEN r.cell[c] \in Values ELSE r.cell[c] = Raw
    BY <1>6, <1>7, <1>8, <1>9, <1>2, <1>20
  <2>2. \A c \in 1 .. Size : InVector(a, c) \/ r.cell[c] = m.cell[c]
    BY <1>6, <1>7
  <2>3. VectorBlock(a) \subseteq m.blocks
    BY <1>1, <1>2 DEF Good, Owned
  <2> QED
    BY <2>1, <2>2, <2>3, <1>1, <1>5, <1>6, <1>7 DEF VectorFits
<1>11. ContentOf(r.cell, n) = ContentOf(m.cell, a) \o vals
  <2>1. PICK p \in Seq(Values) : p = ContentOf(m.cell, a) /\ Len(p) = a.finish - a.start
    BY <1>1, <1>2, ContentIsSeq
  <2>2. PICK k \in Nat : k = Len(vals)
    BY <1>20
  <2>3. PICK d \in Nat : d = a.finish - a.start
    BY <1>2 DEF VectorArray, Null
  <2>4. SizeOf(n) = d + k /\ SizeOf(a) = d
    BY <2>2, <2>3, <1>2, <1>4 DEF SizeOf
  <2>5. a.finish + k <= Size + 1 /\ a.finish = a.start + d /\ 1 <= a.start
    BY <2>2, <2>3, <1>2, <1>20 DEF VectorArray, Null
  <2>6. ASSUME NEW j \in 1 .. d PROVE r.cell[a.start + j - 1] = p[j]
    <3>0. a.start + d <= Size + 1
      BY <2>5, <2>2, <2>3, <1>21
    <3>1. a.start + j - 1 \in 1 .. Size /\ a.start + j - 1 < a.finish
      BY <3>0, <2>5, <1>21, CellWithin
    <3>2. r.cell[a.start + j - 1] = m.cell[a.start + j - 1]
      BY <3>1, <1>2, <1>7
    <3> QED
      BY <3>2, <2>1, <2>4 DEF ContentOf
  <2>7. ASSUME NEW j \in 1 .. k PROVE r.cell[a.start + (d + j) - 1] = vals[j]
    <3>1. PICK c \in Int : c = a.start + (d + j) - 1
      BY <1>21
    <3>2. c = a.finish + j - 1
      <4>1. a.start \in Nat /\ j \in Nat /\ a.finish = a.start + d
        BY <2>5, <1>21
      <4>2. a.start + (d + j) - 1 = (a.start + d) + j - 1
        BY <4>1, CellBehind
      <4> QED
        BY <3>1, <4>1, <4>2
    <3>3. a.finish <= c /\ c < a.finish + k /\ c - a.finish + 1 = j
      BY <3>2, <1>21
    <3>4. c \in 1 .. Size
      BY <3>2, <2>5, <1>21, Within
    <3> QED
      BY <3>1, <3>3, <3>4, <2>2, <1>9, <1>21
  <2>8. PICK f : f = ContentOf(r.cell, n) /\ f = [j \in 1 .. d + k |-> r.cell[a.start + j - 1]]
    BY <2>4, <1>4 DEF ContentOf
  <2>9. \A j \in 1 .. d : f[j] = p[j]
    BY <2>6, <2>8
  <2>10. \A j \in 1 .. k : f[d + j] = vals[j]
    <3> SUFFICES ASSUME NEW j \in 1 .. k PROVE f[d + j] = vals[j]
      OBVIOUS
    <3>1. d + j \in 1 .. d + k
      OBVIOUS
    <3> QED
      BY <3>1, <2>7, <2>8
  <2>11. f = [j \in 1 .. d + k |-> f[j]]
    BY <2>8
  <2>12. Joined(f, p, d, vals, k)
    BY <2>9, <2>10, <2>11 DEF Joined
  <2>13. f = p \o vals
    BY <2>1, <2>2, <2>3, <2>12, ConcatIs
  <2> QED
    BY <2>1, <2>8, <2>13
<1>12. Puts(m, vc, st, v, ContentOf(r.cell, n), r, [vc EXCEPT ![v] = n], st)
  BY <1>7, <1>10, VectorSet
<1>13. vc2 = [vc EXCEPT ![v] = n]
  BY <1>1, <1>2, <1>3
<1> QED
  BY <1>1, <1>11, <1>12, <1>13

(* destroy_range leaves the cells of elements raw.                         *)
LEMMA DestroyCells ==
  ASSUME NEW m, Memory(m), m.cell \in [1 .. Size -> Cells],
         NEW i \in Nat, NEW n \in Nat, NEW r, r = destroy_range(m, i, n)
  PROVE  /\ Memory(r) /\ r.blocks = m.blocks
         /\ r.cell \in [1 .. Size -> Cells]
         /\ \A c \in 1 .. Size :
              r.cell[c] = IF i <= c /\ c < i + n THEN (IF m.cell[c] \in Values THEN Raw ELSE Broken)
                          ELSE m.cell[c]
<1>1. \A c \in 1 .. Size : c \in Span(i, n) <=> i <= c /\ c < i + n
  BY StorageAssumption DEF Span
<1>2. /\ Memory(r) /\ r.blocks = m.blocks
      /\ r.cell = [c \in 1 .. Size |-> IF c \notin Span(i, n) THEN m.cell[c]
                                       ELSE IF m.cell[c] \in Values THEN Raw ELSE Broken]
  BY DEF destroy_range, Memory
<1> QED
  BY <1>1, <1>2 DEF Cells

(* construct and destroy of one object.                                    *)
LEMMA OneCell ==
  ASSUME NEW m, Memory(m), m.cell \in [1 .. Size -> Cells], NEW i \in 1 .. Size, NEW x
  PROVE  /\ construct(m, i, x) = ConstructAll(m, i, <<x>>)
         /\ destroy(m, i) = destroy_range(m, i, 1)
<1>1. \A c \in 1 .. Size : c \in Span(i, 1) <=> c = i
  BY StorageAssumption DEF Span
<1>2. Len(<<x>>) = 1 /\ <<x>>[i - i + 1] = x
  BY StorageAssumption
<1>3. [m.cell EXCEPT ![i] = IF @ = Raw THEN x ELSE Broken]
        = [c \in 1 .. Size |-> IF c \notin Span(i, 1) THEN m.cell[c]
                               ELSE IF m.cell[c] = Raw THEN <<x>>[c - i + 1] ELSE Broken]
  BY <1>1, <1>2
<1>4. [m.cell EXCEPT ![i] = IF @ \in Values THEN Raw ELSE Broken]
        = [c \in 1 .. Size |-> IF c \notin Span(i, 1) THEN m.cell[c]
                               ELSE IF m.cell[c] \in Values THEN Raw ELSE Broken]
  BY <1>1
<1> QED
  BY <1>2, <1>3, <1>4 DEF construct, destroy, ConstructAll, destroy_range, Memory

(* n cells from i on are raw.                                              *)
RawCells(cell, i, n) == \A c \in 1 .. Size : i <= c /\ c < i + n => cell[c] = Raw

(* Objects are constructed in raw cells and destroyed again.               *)
LEMMA Undo ==
  ASSUME NEW m, Memory(m), m.cell \in [1 .. Size -> Cells],
         NEW i \in Nat, NEW vals \in Seq(Values), NEW n \in Nat, n = Len(vals),
         RawCells(m.cell, i, n)
  PROVE  destroy_range(ConstructAll(m, i, vals), i, n) = m
<1>1. PICK m1 : m1 = ConstructAll(m, i, vals)
  OBVIOUS
<1>2. PICK m2 : m2 = destroy_range(m1, i, n)
  OBVIOUS
<1>3. /\ Memory(m1) /\ m1.blocks = m.blocks
      /\ m1.cell \in [1 .. Size -> Cells]
      /\ \A c \in 1 .. Size :
           m1.cell[c] = IF i <= c /\ c < i + n
                        THEN (IF m.cell[c] = Raw THEN vals[c - i + 1] ELSE Broken)
                        ELSE m.cell[c]
  <2>1. Constructed(m, i, vals, m1)
    BY <1>1, ConstructCells
  <2> QED
    BY <2>1 DEF Constructed
<1>4. /\ Memory(m2) /\ m2.blocks = m1.blocks
      /\ m2.cell \in [1 .. Size -> Cells]
      /\ \A c \in 1 .. Size :
           m2.cell[c] = IF i <= c /\ c < i + n THEN (IF m1.cell[c] \in Values THEN Raw ELSE Broken)
                        ELSE m1.cell[c]
  BY <1>2, <1>3, DestroyCells
<1>5. \A c \in 1 .. Size : m2.cell[c] = m.cell[c]
  <2> SUFFICES ASSUME NEW c \in 1 .. Size PROVE m2.cell[c] = m.cell[c]
    OBVIOUS
  <2>1. CASE i <= c /\ c < i + n
    <3>1. c - i + 1 \in 1 .. Len(vals)
      BY <2>1, StorageAssumption
    <3>2. vals[c - i + 1] \in Values
      BY <3>1
    <3>3. m.cell[c] = Raw
      BY <2>1 DEF RawCells
    <3> QED
      BY <3>2, <3>3, <2>1, <1>3, <1>4
  <2>2. CASE ~(i <= c /\ c < i + n)
    BY <2>2, <1>3, <1>4
  <2> QED
    BY <2>1, <2>2
<1>6. m2.cell = m.cell
  <2>1. m.cell = [c \in 1 .. Size |-> m.cell[c]]
    OBVIOUS
  <2>2. m2.cell = [c \in 1 .. Size |-> m2.cell[c]]
    BY <1>4
  <2>3. [c \in 1 .. Size |-> m2.cell[c]] = [c \in 1 .. Size |-> m.cell[c]]
    BY <1>5
  <2> QED
    BY <2>1, <2>2, <2>3
<1> QED
  BY <1>1, <1>2, <1>3, <1>4, <1>6 DEF Memory

(* The handlers after a constructor threw in a new block.                  *)
LEMMA CopyUndone ==
  ASSUME NEW m, NEW vc, NEW st, Sound(m, vc, st), NEW v \in Vectors,
         NEW cap \in Nat, cap # 0, NEW i \in Places(m, cap),
         NEW vals \in Seq(Values), NEW n \in Nat, n = Len(vals), n <= cap
  PROVE  Undone(ConstructAll(allocate(m, i, cap), i, vals), i, n, cap) = m
<1>1. /\ Memory(m) /\ m.cell \in [1 .. Size -> Cells] /\ Size \in Nat
      /\ Good(m.cell, m.blocks, vc, st)
  BY VectorFacts DEF Sound
<1>2. /\ i \in 1 .. Size
      /\ \A c \in 1 .. Size : i <= c /\ c < i + cap => Unowned(vc, st, c) /\ m.cell[c] = Raw
  BY <1>1, PlaceFacts
<1>3. i \in Nat /\ \A c \in 1 .. Size : i <= c /\ c < i + n => m.cell[c] = Raw
  BY <1>1, <1>2
<1>4. PICK m1 : m1 = allocate(m, i, cap)
  OBVIOUS
<1>5. Memory(m1) /\ m1.cell = m.cell /\ m1.blocks = m.blocks \cup {<<i, cap>>}
  BY <1>1, <1>4 DEF allocate, Memory
<1>6. destroy_range(ConstructAll(m1, i, vals), i, n) = m1
  <2>1. m1.cell \in [1 .. Size -> Cells] /\ RawCells(m1.cell, i, n)
    BY <1>1, <1>3, <1>5 DEF RawCells
  <2> QED
    BY <2>1, <1>3, <1>5, Undo
<1>7. <<i, cap>> \notin m.blocks
  <2> SUFFICES ASSUME <<i, cap>> \in m.blocks PROVE FALSE
    OBVIOUS
  <2>1. i \in Span(i, cap)
    BY <1>1, <1>2 DEF Span
  <2>2. i \in InUse(m)
    BY <2>1 DEF InUse
  <2> QED
    BY <2>1, <2>2 DEF Places
<1>8. deallocate(m1, i, cap) = m
  BY <1>1, <1>5, <1>7 DEF deallocate, Memory
<1> QED
  BY <1>4, <1>6, <1>8 DEF Undone

(* The spare cells of a vector are raw.                                    *)
LEMMA SpareCells ==
  ASSUME NEW m, NEW vc, NEW st, Sound(m, vc, st), NEW v \in Vectors, vc[v].start # Null
  PROVE  \A c \in 1 .. Size : vc[v].finish <= c /\ c < vc[v].end => m.cell[c] = Raw
<1> SUFFICES ASSUME NEW c \in 1 .. Size, vc[v].finish <= c, c < vc[v].end PROVE m.cell[c] = Raw
  OBVIOUS
<1>1. /\ VectorArray(vc[v]) /\ vc[v].start \in Nat /\ vc[v].finish \in Nat /\ vc[v].end \in Nat
      /\ Size \in Nat /\ Good(m.cell, m.blocks, vc, st)
  BY VectorFacts DEF Sound
<1>2. InVector(vc[v], c) /\ ~Holds(vc[v], c)
  BY <1>1 DEF InVector, Holds, VectorArray
<1> QED
  BY <1>1, <1>2, SpareCell

(* The last elements are destroyed.                                        *)
LEMMA Truncated ==
  ASSUME NEW m, NEW vc, NEW st, Sound(m, vc, st), NEW v \in Vectors, vc[v].start # Null,
         NEW k \in 0 .. SizeOf(vc[v]), NEW r,
         r = destroy_range(m, vc[v].start + k, SizeOf(vc[v]) - k),
         NEW vc2, vc2 = [vc EXCEPT ![v].finish = vc[v].start + k]
  PROVE  Puts(m, vc, st, v, SubSeq(ContentOf(m.cell, vc[v]), 1, k), r, vc2, st)
<1>1. PICK a \in Triples : a = vc[v]
  BY VectorFacts
<1>2. /\ VectorArray(a) /\ a.start \in Nat /\ a.finish \in Nat /\ a.end \in Nat
      /\ Size \in Nat /\ m.cell \in [1 .. Size -> Cells] /\ Memory(m)
      /\ SizeOf(a) = a.finish - a.start
      /\ a.start # Null /\ Good(m.cell, m.blocks, vc, st) /\ vc \in [Vectors -> Triples]
  BY <1>1, VectorFacts DEF Sound
<1>3. k \in Nat /\ a.start + k \in Nat /\ a.start + k <= a.finish /\ k <= SizeOf(a)
  BY <1>1, <1>2
<1>4. PICK n \in Triples : n = [a EXCEPT !.finish = a.start + k]
  BY <1>3 DEF Triples
<1>5. n.start = a.start /\ n.finish = a.start + k /\ n.end = a.end
  BY <1>4 DEF Triples
<1>6. VectorArray(n) /\ VectorBlock(n) = VectorBlock(a)
  BY <1>2, <1>3, <1>5 DEF VectorArray, VectorBlock, Null
<1>7. \A c \in 1 .. Size :
        /\ InVector(n, c) <=> InVector(a, c)
        /\ Holds(n, c) <=> Holds(a, c) /\ c < a.start + k
        /\ a.start + k <= c /\ c < a.finish <=> Holds(a, c) /\ ~Holds(n, c)
        /\ Holds(a, c) => InVector(a, c)
  BY <1>2, <1>3, <1>5 DEF VectorArray, InVector, Holds, Null
<1>8. /\ Memory(r) /\ r.blocks = m.blocks
      /\ r.cell \in [1 .. Size -> Cells]
      /\ \A c \in 1 .. Size :
           r.cell[c] = IF a.start + k <= c /\ c < a.finish
                       THEN (IF m.cell[c] \in Values THEN Raw ELSE Broken)
                       ELSE m.cell[c]
  <2>1. PICK d \in Nat : d = SizeOf(a) - k
    BY <1>2, <1>3
  <2>2. PICK e \in Nat : e = a.start + k
    BY <1>3
  <2>3. r = destroy_range(m, e, d) /\ e + d = a.finish
    BY <2>1, <2>2, <1>1, <1>2
  <2>4. /\ Memory(r) /\ r.blocks = m.blocks
        /\ r.cell \in [1 .. Size -> Cells]
        /\ \A c \in 1 .. Size :
             r.cell[c] = IF e <= c /\ c < e + d
                         THEN (IF m.cell[c] \in Values THEN Raw ELSE Broken)
                         ELSE m.cell[c]
    BY <2>3, <1>2, DestroyCells
  <2> QED
    BY <2>2, <2>3, <2>4
<1>9. \A c \in 1 .. Size : InVector(a, c) => IF Holds(a, c) THEN m.cell[c] \in Values ELSE m.cell[c] = Raw
  BY <1>1, <1>2, SpareCell
<1>10. VectorFits(m.cell, m.blocks, vc, st, v, n, r.cell, r.blocks)
  <2>1. \A c \in 1 .. Size : InVector(a, c) =>
          IF Holds(n, c) THEN r.cell[c] \in Values ELSE r.cell[c] = Raw
    BY <1>7, <1>8, <1>9
  <2>2. \A c \in 1 .. Size : InVector(a, c) \/ r.cell[c] = m.cell[c]
    BY <1>7, <1>8
  <2>3. VectorBlock(a) \subseteq m.blocks
    BY <1>1, <1>2 DEF Good, Owned
  <2> QED
    BY <2>1, <2>2, <2>3, <1>1, <1>6, <1>7, <1>8 DEF VectorFits
<1>11. ContentOf(r.cell, n) = SubSeq(ContentOf(m.cell, a), 1, k)
  <2>1. PICK p \in Seq(Values) : p = ContentOf(m.cell, a) /\ Len(p) = SizeOf(a)
    BY <1>1, <1>2, ContentIsSeq
  <2>2. SizeOf(n) = k
    BY <1>2, <1>3, <1>5 DEF SizeOf
  <2>3. ASSUME NEW j \in 1 .. k PROVE r.cell[a.start + j - 1] = p[j]
    <3>1. a.start + j - 1 < a.start + k /\ j \in 1 .. SizeOf(a)
      BY <1>2, <1>3
    <3>0. 1 <= a.start /\ a.start + k <= Size + 1
      BY <1>2, <1>3 DEF VectorArray, Null
    <3>2. a.start + j - 1 \in 1 .. Size
      BY <3>0, <1>2, <1>3, CellWithin
    <3>3. r.cell[a.start + j - 1] = m.cell[a.start + j - 1]
      BY <3>1, <3>2, <1>2, <1>3, <1>8
    <3> QED
      BY <3>1, <3>3, <2>1 DEF ContentOf
  <2>4. ContentOf(r.cell, n) = [j \in 1 .. k |-> p[j]]
    BY <2>2, <2>3, <1>5 DEF ContentOf
  <2>5. SubSeq(p, 1, k) = [j \in 1 .. k |-> p[j]]
    BY <2>1, <1>3
  <2> QED
    BY <2>1, <2>4, <2>5
<1>12. Puts(m, vc, st, v, ContentOf(r.cell, n), r, [vc EXCEPT ![v] = n], st)
  BY <1>8, <1>10, VectorSet
<1>13. vc2 = [vc EXCEPT ![v] = n]
  BY <1>1, <1>2, <1>4
<1> QED
  BY <1>1, <1>11, <1>12, <1>13

(* The cells of n of d elements, from the i-th element in cell e on.       *)
LEMMA ShiftedCells ==
  ASSUME NEW size \in Nat, NEW start \in Nat, NEW d \in Nat, NEW i \in 1 .. d, NEW n \in Nat,
         i + n <= d, 1 <= start, start + d <= size + 1, NEW e \in Nat, e = start + i - 1,
         NEW c \in 1 .. size
  PROVE  /\ e <= c /\ c < e + n => c + 1 \in 1 .. size /\ start <= c /\ c + 1 < start + d
         /\ \A j \in 1 .. d : c = start + j - 1 => (c \in e .. e + n - 1 <=> j \in i .. i + n - 1)
OBVIOUS

(* The elements behind position i move up.                                 *)
LEMMA Shifted ==
  ASSUME Sound(mem, vec, str), NEW v \in Vectors, NEW i \in 1 .. SizeOf(vec[v]),
         NEW n \in 0 .. SizeOf(vec[v]) - i, NEW r, r = MovedUp(v, i, n),
         NEW s, s = ContentOf(mem.cell, vec[v])
  PROVE  Puts(mem, vec, str, v,
              [j \in 1 .. SizeOf(vec[v]) |-> IF j \in i .. i + n - 1 THEN s[j + 1] ELSE s[j]],
              r, vec, str)
<1>1. PICK a \in Triples : a = vec[v]
  BY VectorFacts
<1>2. /\ VectorArray(a) /\ a.start \in Nat /\ a.finish \in Nat /\ a.end \in Nat
      /\ Size \in Nat /\ mem.cell \in [1 .. Size -> Cells] /\ Memory(mem)
      /\ SizeOf(a) \in Nat /\ (a.start # Null => SizeOf(a) = a.finish - a.start)
      /\ Good(mem.cell, mem.blocks, vec, str) /\ vec \in [Vectors -> Triples]
  BY <1>1, VectorFacts DEF Sound
<1>3. a.start # Null
  BY <1>1, <1>2 DEF SizeOf
<1>4. PICK d \in Nat : d = SizeOf(a) /\ a.finish = a.start + d
  BY <1>2, <1>3
<1>5. i \in 1 .. d /\ n \in Nat /\ i + n <= d
  BY <1>1, <1>4
<1>6. 1 <= a.start /\ a.start + d <= Size + 1 /\ a.start + d <= a.end
  BY <1>2, <1>3, <1>4 DEF VectorArray
<1>7. PICK e \in Nat : e = a.start + i - 1 /\ e + n < a.start + d /\ a.start <= e
  <2>1. PICK p \in Nat : p = a.start
    BY <1>2
  <2>2. p + i - 1 \in Nat /\ p + i - 1 + n < p + d /\ p <= p + i - 1
    BY <1>5
  <2> QED
    BY <2>1, <2>2
<1>8. /\ Memory(r) /\ r.blocks = mem.blocks
      /\ r.cell = [c \in 1 .. Size |-> IF c \in Span(e, n) THEN mem.cell[c + 1] ELSE mem.cell[c]]
  BY <1>1, <1>2, <1>7 DEF MovedUp, Memory
<1>9. \A c \in 1 .. Size : Holds(a, c) => mem.cell[c] \in Values
  BY <1>1, <1>2 DEF Good, Filled
<1>10. \A c \in 1 .. Size : c \in Span(e, n) =>
         /\ c + 1 \in 1 .. Size /\ Holds(a, c) /\ Holds(a, c + 1)
         /\ e <= c /\ c < e + n
  <2>1. \A c \in 1 .. Size : c \in Span(e, n) => e <= c /\ c < e + n
    BY <1>2, <1>5 DEF Span
  <2>2. ASSUME NEW c \in 1 .. Size, e <= c, c < e + n
        PROVE  c + 1 \in 1 .. Size /\ a.start <= c /\ c + 1 < a.start + d
    <3>1. PICK start \in Nat : start = a.start /\ 1 <= start /\ start + d <= Size + 1
      BY <1>2, <1>6
    <3>2. e = start + i - 1 /\ i \in 1 .. d /\ n \in Nat /\ i + n <= d /\ Size \in Nat
      BY <3>1, <1>2, <1>5, <1>7
    <3>3. c + 1 \in 1 .. Size /\ start <= c /\ c + 1 < start + d
      BY <2>2, <3>1, <3>2, ShiftedCells
    <3> QED
      BY <3>1, <3>3
  <2> QED
    BY <2>1, <2>2, <1>2, <1>3, <1>4 DEF Holds
<1>11. /\ r.cell \in [1 .. Size -> Cells]
       /\ \A c \in 1 .. Size : Holds(a, c) => r.cell[c] \in Values
       /\ \A c \in 1 .. Size : Holds(a, c) \/ r.cell[c] = mem.cell[c]
  BY <1>2, <1>8, <1>9, <1>10 DEF Cells
<1>12. \A c \in 1 .. Size : /\ InVector(a, c) /\ ~Holds(a, c) => mem.cell[c] = Raw
                            /\ Holds(a, c) => InVector(a, c)
  BY <1>1, <1>2, SpareCell, HoldsInside
<1>13. VectorFits(mem.cell, mem.blocks, vec, str, v, a, r.cell, r.blocks)
  <2>1. VectorBlock(a) \subseteq mem.blocks
    BY <1>1, <1>2 DEF Good, Owned
  <2>2. \A c \in 1 .. Size : InVector(a, c) \/ r.cell[c] = mem.cell[c]
    BY <1>11, <1>12
  <2>3. \A c \in 1 .. Size : InVector(a, c) =>
          IF Holds(a, c) THEN r.cell[c] \in Values ELSE r.cell[c] = Raw
    BY <1>11, <1>12
  <2> QED
    BY <2>1, <2>2, <2>3, <1>1, <1>2, <1>8, <1>11 DEF VectorFits
<1>14. Puts(mem, vec, str, v, ContentOf(r.cell, a), r, [vec EXCEPT ![v] = a], str)
  <2>1. Sound(mem, vec, str) /\ Memory(r)
    BY <1>8
  <2> QED
    BY <2>1, <1>13, VectorSet
<1>15. [vec EXCEPT ![v] = a] = vec
  BY <1>1, <1>2
<1>16. ASSUME NEW j \in 1 .. d
       PROVE  r.cell[a.start + j - 1] = IF j \in i .. i + n - 1 THEN s[j + 1] ELSE s[j]
  <2>0. a.start + j - 1 \in 1 .. Size
    BY <1>2, <1>6, CellWithin
  <2>1. PICK c \in 1 .. Size : c = a.start + j - 1
    BY <2>0
  <2>2. c \in Span(e, n) <=> j \in i .. i + n - 1
    <3>1. a.start \in Nat /\ Size \in Nat
      BY <1>2
    <3>2. c \in e .. e + n - 1 <=> j \in i .. i + n - 1
      BY <3>1, <2>1, <1>5, <1>6, <1>7, ShiftedCells
    <3> QED
      BY <3>2 DEF Span
  <2>3. s[j] = mem.cell[c]
    BY <2>1, <1>1, <1>4 DEF ContentOf
  <2>4. CASE j \in i .. i + n - 1
    <3>1. j + 1 \in 1 .. d /\ c + 1 = a.start + (j + 1) - 1
      <4>1. a.start \in Nat /\ j \in Nat /\ c \in Nat
        BY <1>2
      <4>2. j + 1 \in 1 .. d
        BY <2>4, <1>5
      <4>3. c + 1 = a.start + (j + 1) - 1
        BY <4>1, <2>1
      <4> QED
        BY <4>2, <4>3
    <3>2. s[j + 1] = mem.cell[c + 1]
      BY <3>1, <1>1, <1>4 DEF ContentOf
    <3> QED
      BY <3>2, <2>1, <2>2, <2>4, <1>8
  <2>5. CASE j \notin i .. i + n - 1
    BY <2>1, <2>2, <2>3, <2>5, <1>8
  <2> QED
    BY <2>4, <2>5
<1>17. ContentOf(r.cell, a)
         = [j \in 1 .. SizeOf(vec[v]) |-> IF j \in i .. i + n - 1 THEN s[j + 1] ELSE s[j]]
  BY <1>1, <1>4, <1>16 DEF ContentOf
<1> QED
  BY <1>14, <1>15, <1>17

----------------------------------------------------------------------------
(* The actions of vectors.                                                 *)

(* Elements(v) is what the array of v contains.                            *)
LEMMA ElementsAre ==
  ASSUME Sound(mem, vec, str), NEW v \in Vectors
  PROVE  /\ Elements(v) = ContentOf(mem.cell, vec[v])
         /\ Elements(v) = All(mem, vec, str)[v]
         /\ Elements(v) \in Seq(Values) /\ Len(Elements(v)) = VecSize(v) /\ VecSize(v) \in Nat
<1>1. Elements(v) = ContentOf(mem.cell, vec[v])
  BY DEF Elements, Read, ContentOf, VecSize
<1>2. /\ ContentOf(mem.cell, vec[v]) \in Seq(Values) /\ SizeOf(vec[v]) \in Nat
      /\ Len(ContentOf(mem.cell, vec[v])) = SizeOf(vec[v])
  BY ContentIsSeq DEF Sound
<1> QED
  BY <1>1, <1>2 DEF All, VecSize

(* What was put into a vector is what it contains.                         *)
LEMMA PutsContent ==
  ASSUME NEW m, NEW vc, NEW st, NEW v \in Vectors, NEW t, NEW m2, NEW vc2, NEW st2,
         Puts(m, vc, st, v, t, m2, vc2, st2)
  PROVE  ContentOf(m2.cell, vc2[v]) = t
<1>1. All(m2, vc2, st2)[v] = t
  BY DEF Puts, All
<1> QED
  BY <1>1 DEF All

(* A step that changes nothing puts into a vector what it contains.        *)
LEMMA PutsNothing ==
  ASSUME Sound(mem, vec, str), NEW v \in Vectors
  PROVE  Puts(mem, vec, str, v, Elements(v), mem, vec, str)
<1>1. Elements(v) = All(mem, vec, str)[v]
  BY ElementsAre
<1>2. PICK f : f = All(mem, vec, str) /\ f = [y \in Vectors \cup Strings |-> f[y]]
  BY DEF All
<1>3. [f EXCEPT ![v] = f[v]] = f
  BY <1>2
<1> QED
  BY <1>1, <1>2, <1>3 DEF Puts

(* A state s that has room for n elements in the block of v.               *)
Room(v, n, s) ==
  /\ Puts(mem, vec, str, v, Elements(v), s.mem, s.vec, str)
  /\ s.vec[v].start # Null
  /\ s.vec[v].finish = s.vec[v].start + VecSize(v)
  /\ s.vec[v].start + n <= s.vec[v].end

(* reallocate gives a vector a block of the capacity that was asked for,   *)
(* in place or elsewhere, with the same elements.                          *)
LEMMA Reallocated ==
  ASSUME Sound(mem, vec, str), NEW v \in Vectors, NEW cap \in Nat, cap > VecCapacity(v),
         NEW s \in reallocate(v, cap)
  PROVE  Room(v, cap, s)
<1>1. PICK a \in Triples : a = vec[v]
  BY VectorFacts
<1>2. /\ vec \in [Vectors -> Triples] /\ a.start \in Nat /\ Size \in Nat
      /\ VecSize(v) \in Nat /\ VecCapacity(v) \in Nat /\ VecSize(v) <= VecCapacity(v)
      /\ Good(mem.cell, mem.blocks, vec, str)
  BY <1>1, VectorFacts DEF VecSize, VecCapacity, Sound
<1>3. Elements(v) = ContentOf(mem.cell, vec[v]) /\ Elements(v) \in Seq(Values) /\ Len(Elements(v)) = VecSize(v)
  BY ElementsAre
<1>4. CASE s \in Expanded(v, cap)
  <2>1. /\ a.start # Null /\ CanExpand(mem, a.start, VecCapacity(v), cap)
        /\ s = State(try_expand(mem, a.start, VecCapacity(v), cap), v, ArrayAt(a.start, VecSize(v), cap))
    BY <1>1, <1>4 DEF Expanded
  <2>2. PICK r, vc2 : /\ r = try_expand(mem, vec[v].start, CapacityOf(vec[v]), cap)
                      /\ vc2 = [vec EXCEPT ![v] = ArrayAt(vec[v].start, SizeOf(vec[v]), cap)]
    OBVIOUS
  <2>3. s.mem = r /\ s.vec = vc2
    BY <2>1, <2>2, <1>1 DEF State, VecSize, VecCapacity
  <2>4. /\ vec[v].start # Null /\ cap > CapacityOf(vec[v])
        /\ CanExpand(mem, vec[v].start, CapacityOf(vec[v]), cap)
    BY <2>1, <1>1 DEF VecCapacity
  <2>5. Puts(mem, vec, str, v, ContentOf(mem.cell, vec[v]), r, vc2, str)
    BY <2>2, <2>4, Lengthened
  <2>6. vc2[v] = ArrayAt(a.start, VecSize(v), cap)
    BY <2>2, <1>1, <1>2 DEF VecSize
  <2> QED
    BY <2>1, <2>3, <2>5, <2>6, <1>2, <1>3 DEF Room, ArrayAt
<1>5. CASE s \in Relocated(v, cap)
  <2>1. PICK i \in Places(mem, cap) :
          s = State(release_block(ConstructAll(allocate(mem, i, cap), i, Elements(v)), vec[v]), v,
                    ArrayAt(i, VecSize(v), cap))
    BY <1>5 DEF Relocated
  <2>2. PICK r, vc2 : /\ r = release_block(ConstructAll(allocate(mem, i, cap), i, Elements(v)), vec[v])
                      /\ vc2 = [vec EXCEPT ![v] = ArrayAt(i, Len(Elements(v)), cap)]
    OBVIOUS
  <2>3. s.mem = r /\ s.vec = vc2
    BY <2>1, <2>2, <1>3 DEF State
  <2>4. cap # 0 /\ Len(Elements(v)) <= cap
    BY <1>2, <1>3
  <2>5. Puts(mem, vec, str, v, Elements(v), r, vc2, str)
    BY <2>2, <2>4, <1>3, NewBlock
  <2>6. vc2[v] = ArrayAt(i, VecSize(v), cap) /\ i \in 1 .. Size
    BY <2>2, <1>2, <1>3 DEF Places
  <2> QED
    BY <2>3, <2>5, <2>6, <1>2 DEF Room, ArrayAt, Null
<1> QED
  BY <1>4, <1>5 DEF reallocate

(* So does reserve, as the operations use it.                              *)
LEMMA CapacityGiven ==
  ASSUME Sound(mem, vec, str), NEW v \in Vectors, NEW n \in Nat, n > VecSize(v),
         NEW s \in WithCapacity(v, n)
  PROVE  Room(v, n, s)
<1>1. /\ vec[v].start \in Nat /\ vec[v].finish \in Nat /\ vec[v].end \in Nat
      /\ VecSize(v) \in Nat /\ VecCapacity(v) \in Nat
      /\ vec[v].start # Null => /\ VecSize(v) = vec[v].finish - vec[v].start
                                /\ VecCapacity(v) = vec[v].end - vec[v].start
  BY VectorFacts DEF VecSize, VecCapacity
<1>2. CASE n > VecCapacity(v)
  BY <1>2, Reallocated DEF WithCapacity
<1>3. CASE ~(n > VecCapacity(v))
  <2>1. s.mem = mem /\ s.vec = vec
    BY <1>3 DEF WithCapacity, Now
  <2>2. vec[v].start # Null
    BY <1>1, <1>3 DEF VecCapacity, CapacityOf
  <2>3. vec[v].finish = vec[v].start + VecSize(v) /\ vec[v].start + n <= vec[v].end
    BY <2>2, <1>1, <1>3
  <2> QED
    BY <2>1, <2>2, <2>3, PutsNothing DEF Room
<1> QED
  BY <1>2, <1>3

(* Room for one more is made when there is none: a capacity that is        *)
(* doubled is larger than before, and one that is not 0.                   *)
LEMMA RoomGrown ==
  ASSUME Sound(mem, vec, str), NEW v \in Vectors, NEW s \in Grown(v)
  PROVE  Room(v, VecSize(v) + 1, s)
<1>1. /\ vec[v].start \in Nat /\ vec[v].finish \in Nat /\ vec[v].end \in Nat
      /\ VecSize(v) \in Nat /\ VecCapacity(v) \in Nat /\ VecSize(v) <= VecCapacity(v)
      /\ vec[v].start # Null => /\ VecSize(v) = vec[v].finish - vec[v].start
                                /\ VecCapacity(v) = vec[v].end - vec[v].start
      /\ VectorArray(vec[v]) /\ vec \in [Vectors -> Triples]
  BY VectorFacts DEF VecSize, VecCapacity
<1>2. CASE vec[v].finish = vec[v].end
  <2>1. PICK cap \in Nat : cap = IF VecCapacity(v) = 0 THEN 1 ELSE VecCapacity(v) * 2
    BY <1>1
  <2>2. cap > VecCapacity(v) /\ cap >= VecSize(v) + 1
    BY <2>1, <1>1
  <2>3. Room(v, cap, s)
    BY <2>1, <2>2, <1>2, Reallocated DEF Grown
  <2>4. s.vec[v].start \in Nat /\ s.vec[v].end \in Nat
    <3>1. Sound(s.mem, s.vec, str)
      BY <2>3 DEF Room, Puts
    <3> QED
      BY <3>1, VectorFacts
  <2> QED
    BY <2>2, <2>3, <2>4, <1>1 DEF Room
<1>3. CASE vec[v].finish # vec[v].end
  <2>1. s.mem = mem /\ s.vec = vec
    BY <1>3 DEF Grown, Now
  <2>2. vec[v].start # Null
    BY <1>1, <1>3 DEF VectorArray, Null
  <2>3. /\ vec[v].finish = vec[v].start + VecSize(v)
        /\ vec[v].start + (VecSize(v) + 1) <= vec[v].end
    BY <2>2, <1>1, <1>3 DEF VectorArray
  <2> QED
    BY <2>1, <2>2, <2>3, PutsNothing DEF Room
<1> QED
  BY <1>2, <1>3

(* Room is made for a vector, and nothing shows of it.                     *)
LEMMA RoomFacts ==
  ASSUME NEW v \in Vectors, NEW n \in Nat, NEW s, Room(v, n, s)
  PROVE  /\ Sound(s.mem, s.vec, str) /\ s.vec[v].start # Null
         /\ ContentOf(s.mem.cell, s.vec[v]) = Elements(v)
         /\ s.vec[v].start \in Nat /\ s.vec[v].finish \in Nat /\ s.vec[v].end \in Nat
<1>1. Sound(s.mem, s.vec, str) /\ Puts(mem, vec, str, v, Elements(v), s.mem, s.vec, str)
  BY DEF Room, Puts
<1>2. ContentOf(s.mem.cell, s.vec[v]) = Elements(v)
  BY <1>1, PutsContent
<1>3. s.vec[v].start \in Nat /\ s.vec[v].finish \in Nat /\ s.vec[v].end \in Nat
  BY <1>1, VectorFacts
<1> QED
  BY <1>1, <1>2, <1>3 DEF Room

(* Elements are constructed in the room that was made.                     *)
LEMMA RoomUsed ==
  ASSUME Sound(mem, vec, str), NEW v \in Vectors, NEW vals \in Seq(Values), NEW k \in Nat,
         k = Len(vals), NEW n \in Nat, n = VecSize(v) + k, NEW s, Room(v, n, s),
         NEW r, r = ConstructAll(s.mem, s.vec[v].finish, vals),
         NEW vc2, vc2 = [s.vec EXCEPT ![v].finish = s.vec[v].finish + k]
  PROVE  Puts(mem, vec, str, v, Elements(v) \o vals, r, vc2, str)
<1>1. PICK m1, vc1 : m1 = s.mem /\ vc1 = s.vec
  OBVIOUS
<1>2. /\ Sound(m1, vc1, str) /\ vc1[v].start # Null
      /\ ContentOf(m1.cell, vc1[v]) = Elements(v)
      /\ vc1[v].start \in Nat /\ vc1[v].finish \in Nat /\ vc1[v].end \in Nat
  BY <1>1, RoomFacts
<1>3. VecSize(v) \in Nat
  BY ElementsAre
<1>4. vc1[v].finish + Len(vals) <= vc1[v].end
  <2>1. PICK p \in Nat, q \in Nat, e \in Nat : p = vc1[v].start /\ q = vc1[v].finish /\ e = vc1[v].end
    BY <1>2
  <2>2. q = p + VecSize(v) /\ p + n <= e
    BY <2>1, <1>1 DEF Room
  <2>3. q + k <= e
    BY <2>2, <1>3
  <2> QED
    BY <2>1, <2>3
<1>5. r = ConstructAll(m1, vc1[v].finish, vals) /\ vc2 = [vc1 EXCEPT ![v].finish = vc1[v].finish + Len(vals)]
  BY <1>1
<1>6. Puts(m1, vc1, str, v, ContentOf(m1.cell, vc1[v]) \o vals, r, vc2, str)
  BY <1>2, <1>4, <1>5, Extended
<1>7. Puts(m1, vc1, str, v, Elements(v) \o vals, r, vc2, str)
  BY <1>2, <1>6
<1>8. Puts(mem, vec, str, v, Elements(v), m1, vc1, str)
  BY <1>1 DEF Room
<1> QED
  BY <1>7, <1>8, PutsTwice

(* push_back appends its argument, whether the block had room, grew or     *)
(* moved.                                                                  *)
LEMMA PushBack ==
  ASSUME Sound(mem, vec, str), NEW v \in Vectors, NEW x \in Values, push_back(v, x)
  PROVE  Puts(mem, vec, str, v, Elements(v) \o <<x>>, mem', vec', str)
<1>1. PICK s \in Grown(v) : /\ mem' = construct(s.mem, s.vec[v].finish, x)
                            /\ vec' = [s.vec EXCEPT ![v].finish = @ + 1]
  BY DEF push_back
<1>2. VecSize(v) \in Nat /\ VecSize(v) + 1 \in Nat
  BY ElementsAre
<1>3. Room(v, VecSize(v) + 1, s)
  BY RoomGrown
<1>4. /\ Sound(s.mem, s.vec, str) /\ s.vec[v].start # Null
      /\ s.vec[v].start \in Nat /\ s.vec[v].finish \in Nat /\ s.vec[v].end \in Nat
  BY <1>2, <1>3, RoomFacts
<1>5. /\ Memory(s.mem) /\ s.mem.cell \in [1 .. Size -> Cells] /\ VectorArray(s.vec[v]) /\ Size \in Nat
  BY <1>4, VectorFacts DEF Sound
<1>6. s.vec[v].finish \in 1 .. Size
  BY <1>2, <1>3, <1>4, <1>5 DEF VectorArray, Room
<1>7. PICK r, vc2 : r = mem' /\ vc2 = vec'
  OBVIOUS
<1>8. /\ r = ConstructAll(s.mem, s.vec[v].finish, <<x>>)
      /\ vc2 = [s.vec EXCEPT ![v].finish = s.vec[v].finish + 1]
  BY <1>1, <1>5, <1>6, <1>7, OneCell
<1>9. <<x>> \in Seq(Values) /\ Len(<<x>>) = 1
  OBVIOUS
<1>10. Puts(mem, vec, str, v, Elements(v) \o <<x>>, r, vc2, str)
  BY <1>2, <1>3, <1>8, <1>9, RoomUsed
<1> QED
  BY <1>7, <1>10

(* The room stays when the constructor of the new element throws.          *)
LEMMA PushBackThrown ==
  ASSUME Sound(mem, vec, str), NEW v \in Vectors, PushBackThrows(v)
  PROVE  Puts(mem, vec, str, v, Elements(v), mem', vec', str)
<1>1. PICK s \in Grown(v) : Becomes(s)
  BY DEF PushBackThrows
<1>2. Room(v, VecSize(v) + 1, s)
  BY RoomGrown
<1> QED
  BY <1>1, <1>2 DEF Becomes, Room

(* reserve does not change the elements.                                   *)
LEMMA ReserveStep ==
  ASSUME Sound(mem, vec, str), NEW v \in Vectors, NEW n \in Nat, reserve(v, n)
  PROVE  Puts(mem, vec, str, v, Elements(v), mem', vec', str)
<1>1. PICK s \in WithCapacity(v, n) : n > VecCapacity(v) /\ Becomes(s)
  BY DEF reserve
<1>2. n > VecSize(v)
  BY <1>1, VectorFacts DEF VecSize, VecCapacity
<1>3. Room(v, n, s)
  BY <1>2, CapacityGiven
<1> QED
  BY <1>1, <1>3 DEF Becomes, Room

(* resize to a larger size appends copies of its argument.                 *)
LEMMA ResizeStep ==
  ASSUME Sound(mem, vec, str), NEW v \in Vectors, NEW n \in Nat, NEW x \in Values, resize(v, n, x)
  PROVE  /\ n > VecSize(v)
         /\ Puts(mem, vec, str, v, Elements(v) \o [j \in 1 .. n - VecSize(v) |-> x], mem', vec', str)
<1>1. PICK s \in WithCapacity(v, n) :
        /\ n > VecSize(v)
        /\ mem' = ConstructAll(s.mem, s.vec[v].finish, [j \in 1 .. n - VecSize(v) |-> x])
        /\ vec' = [s.vec EXCEPT ![v].finish = s.vec[v].start + n]
  BY DEF resize
<1>2. VecSize(v) \in Nat
  BY ElementsAre
<1>3. Room(v, n, s)
  BY <1>1, CapacityGiven
<1>4. PICK k \in Nat : k = n - VecSize(v) /\ n = VecSize(v) + k
  BY <1>1, <1>2
<1>5. PICK vals : vals = [j \in 1 .. k |-> x]
  OBVIOUS
<1>6. vals \in Seq(Values) /\ Len(vals) = k
  BY <1>5
<1>7. s.vec[v].start \in Nat /\ s.vec[v].finish \in Nat
  BY <1>3, RoomFacts
<1>8. s.vec[v].start + n = s.vec[v].finish + k
  BY <1>2, <1>3, <1>4, <1>7 DEF Room
<1>9. PICK r, vc2 : r = mem' /\ vc2 = vec'
  OBVIOUS
<1>10. /\ r = ConstructAll(s.mem, s.vec[v].finish, vals)
       /\ vc2 = [s.vec EXCEPT ![v].finish = s.vec[v].finish + k]
  BY <1>1, <1>4, <1>5, <1>8, <1>9
<1>11. Puts(mem, vec, str, v, Elements(v) \o vals, r, vc2, str)
  BY <1>3, <1>4, <1>6, <1>10, RoomUsed
<1> QED
  BY <1>1, <1>4, <1>5, <1>9, <1>11

(* The elements that were constructed are destroyed, and the room stays.   *)
LEMMA ResizeThrown ==
  ASSUME Sound(mem, vec, str), NEW v \in Vectors, NEW n \in Nat, NEW x \in Values, ResizeThrows(v, n, x)
  PROVE  Puts(mem, vec, str, v, Elements(v), mem', vec', str)
<1>1. PICK s \in WithCapacity(v, n), i \in 0 .. n - VecSize(v) - 1 :
        /\ n > VecSize(v)
        /\ mem' = destroy_range(ConstructAll(s.mem, s.vec[v].finish, [j \in 1 .. i |-> x]),
                                s.vec[v].finish, i)
        /\ vec' = s.vec
  BY DEF ResizeThrows
<1>2. VecSize(v) \in Nat
  BY ElementsAre
<1>3. Room(v, n, s) /\ i \in Nat /\ VecSize(v) + i <= n
  BY <1>1, <1>2, CapacityGiven
<1>4. /\ Sound(s.mem, s.vec, str) /\ s.vec[v].start # Null
      /\ s.vec[v].start \in Nat /\ s.vec[v].finish \in Nat /\ s.vec[v].end \in Nat
  BY <1>3, RoomFacts
<1>5. Memory(s.mem) /\ s.mem.cell \in [1 .. Size -> Cells] /\ Size \in Nat
  BY <1>4, VectorFacts DEF Sound
<1>6. \A c \in 1 .. Size : s.vec[v].finish <= c /\ c < s.vec[v].end => s.mem.cell[c] = Raw
  BY <1>4, SpareCells
<1>7. s.vec[v].finish + i <= s.vec[v].end
  BY <1>2, <1>3, <1>4 DEF Room
<1>8. \A c \in 1 .. Size : s.vec[v].finish <= c /\ c < s.vec[v].finish + i => s.mem.cell[c] = Raw
  BY <1>3, <1>4, <1>5, <1>6, <1>7
<1>9. PICK vals : vals = [j \in 1 .. i |-> x]
  OBVIOUS
<1>10. vals \in Seq(Values) /\ Len(vals) = i
  BY <1>3, <1>9
<1>11. destroy_range(ConstructAll(s.mem, s.vec[v].finish, vals), s.vec[v].finish, i) = s.mem
  <2>0. PICK m : m = s.mem
    OBVIOUS
  <2>1. PICK p \in Nat : m = s.mem /\ p = s.vec[v].finish
    BY <2>0, <1>4
  <2>2. /\ Memory(m) /\ m.cell \in [1 .. Size -> Cells]
        /\ RawCells(m.cell, p, i)
    BY <2>1, <1>5, <1>8 DEF RawCells
  <2>3. i \in Nat /\ vals \in Seq(Values) /\ i = Len(vals)
    BY <1>3, <1>10
  <2>4. destroy_range(ConstructAll(m, p, vals), p, i) = m
    BY <2>2, <2>3, Undo
  <2> QED
    BY <2>1, <2>4
<1> QED
  BY <1>1, <1>3, <1>9, <1>11 DEF Room

(* After CopyThrows everything is as before.                               *)
LEMMA CopyThrown ==
  ASSUME Sound(mem, vec, str), NEW v \in Vectors, NEW vals \in Seq(Values),
         NEW cap \in Nat, Len(vals) <= cap, CopyThrows(vals, cap)
  PROVE  mem' = mem /\ vec' = vec
<1>1. PICK i \in Places(mem, cap), n \in 0 .. Len(vals) - 1 :
        mem' = Undone(ConstructAll(allocate(mem, i, cap), i, SubSeq(vals, 1, n)), i, n, cap)
  BY DEF CopyThrows
<1>2. n \in Nat /\ n <= Len(vals) /\ n <= cap /\ cap # 0
  BY <1>1
<1>3. PICK part : part = SubSeq(vals, 1, n)
  OBVIOUS
<1>4. part \in Seq(Values) /\ Len(part) = n
  BY <1>2, <1>3
<1>5. Undone(ConstructAll(allocate(mem, i, cap), i, part), i, n, cap) = mem
  BY <1>2, <1>4, CopyUndone
<1> QED
  BY <1>1, <1>3, <1>5 DEF CopyThrows

(* destroy_tail and clear.                                                 *)
LEMMA TailDestroyed ==
  ASSUME Sound(mem, vec, str), NEW v \in Vectors, NEW n \in Nat, destroy_tail(v, n)
  PROVE  n < VecSize(v) /\ Puts(mem, vec, str, v, SubSeq(Elements(v), 1, n), mem', vec', str)
<1>1. /\ n < VecSize(v)
      /\ vec' = [vec EXCEPT ![v].finish = vec[v].start + n]
      /\ mem' = destroy_range(mem, vec[v].start + n, VecSize(v) - n)
  BY DEF destroy_tail
<1>2. VecSize(v) \in Nat /\ Elements(v) = ContentOf(mem.cell, vec[v])
  BY ElementsAre
<1>3. n \in 0 .. SizeOf(vec[v]) /\ vec[v].start # Null
  BY <1>1, <1>2 DEF VecSize, SizeOf
<1>4. PICK r, vc2 : r = mem' /\ vc2 = vec'
  OBVIOUS
<1>5. /\ r = destroy_range(mem, vec[v].start + n, SizeOf(vec[v]) - n)
      /\ vc2 = [vec EXCEPT ![v].finish = vec[v].start + n]
  BY <1>1, <1>4 DEF VecSize
<1>6. Puts(mem, vec, str, v, SubSeq(ContentOf(mem.cell, vec[v]), 1, n), r, vc2, str)
  BY <1>3, <1>5, Truncated
<1> QED
  BY <1>1, <1>2, <1>4, <1>6

(* The last element is destroyed, as pop_back and erase do it.             *)
LEMMA LastDestroyed ==
  ASSUME NEW m, NEW vc, NEW st, Sound(m, vc, st), NEW v \in Vectors, SizeOf(vc[v]) # 0,
         NEW r, r = destroy(m, vc[v].finish - 1),
         NEW vc2, vc2 = [vc EXCEPT ![v].finish = vc[v].finish - 1]
  PROVE  Puts(m, vc, st, v, SubSeq(ContentOf(m.cell, vc[v]), 1, SizeOf(vc[v]) - 1), r, vc2, st)
<1>1. /\ vc[v].start \in Nat /\ vc[v].finish \in Nat /\ vc[v].end \in Nat /\ Size \in Nat
      /\ Memory(m) /\ m.cell \in [1 .. Size -> Cells] /\ VectorArray(vc[v]) /\ SizeOf(vc[v]) \in Nat
      /\ vc[v].start # Null => SizeOf(vc[v]) = vc[v].finish - vc[v].start
  BY VectorFacts DEF Sound
<1>2. vc[v].start # Null
  BY DEF SizeOf
<1>3. PICK k \in 0 .. SizeOf(vc[v]) : k = SizeOf(vc[v]) - 1
  BY <1>1
<1>4. vc[v].finish - 1 = vc[v].start + k /\ SizeOf(vc[v]) - k = 1 /\ vc[v].finish - 1 \in 1 .. Size
  <2>1. PICK d \in Nat : d = SizeOf(vc[v]) /\ d # 0 /\ vc[v].finish = vc[v].start + d
    BY <1>1, <1>2
  <2>2. 1 <= vc[v].start /\ vc[v].finish <= Size + 1
    BY <1>1, <1>2 DEF VectorArray
  <2>3. vc[v].finish - 1 = vc[v].start + k /\ SizeOf(vc[v]) - k = 1
    <3>1. PICK e \in Nat, f \in Nat : e = vc[v].start /\ f = vc[v].finish
      BY <1>1
    <3>2. k = d - 1 /\ f = e + d
      BY <3>1, <2>1, <1>3
    <3>3. f - 1 = e + k /\ d - k = 1
      BY <3>2
    <3> QED
      BY <3>1, <3>3, <2>1
  <2>4. vc[v].finish - 1 >= 1 /\ vc[v].finish - 1 <= Size
    BY <2>1, <2>2, <1>1
  <2> QED
    BY <2>3, <2>4, <1>1
<1>5. /\ r = destroy_range(m, vc[v].start + k, SizeOf(vc[v]) - k)
      /\ vc2 = [vc EXCEPT ![v].finish = vc[v].start + k]
  BY <1>1, <1>4, OneCell
<1>6. Puts(m, vc, st, v, SubSeq(ContentOf(m.cell, vc[v]), 1, k), r, vc2, st)
  BY <1>2, <1>5, Truncated
<1> QED
  BY <1>3, <1>6

(* pop_back removes the last element.                                      *)
LEMMA PopBack ==
  ASSUME Sound(mem, vec, str), NEW v \in Vectors, pop_back(v)
  PROVE  /\ VecSize(v) # 0
         /\ Puts(mem, vec, str, v, SubSeq(Elements(v), 1, VecSize(v) - 1), mem', vec', str)
<1>1. PICK r, vc2 : r = mem' /\ vc2 = vec'
  OBVIOUS
<1>2. /\ SizeOf(vec[v]) # 0 /\ r = destroy(mem, vec[v].finish - 1)
      /\ vc2 = [vec EXCEPT ![v].finish = vec[v].finish - 1]
  BY <1>1 DEF pop_back, VecSize
<1>3. Puts(mem, vec, str, v, SubSeq(ContentOf(mem.cell, vec[v]), 1, SizeOf(vec[v]) - 1), r, vc2, str)
  BY <1>2, LastDestroyed
<1> QED
  BY <1>1, <1>2, <1>3, ElementsAre DEF VecSize

(* What the elements are after n of them have moved up from position i.    *)
MovedText(t, i, n) == [j \in 1 .. Len(t) |-> IF j \in i .. i + n - 1 THEN t[j + 1] ELSE t[j]]

(* Elements that n assignments of erase have moved up are still a sequence *)
(* of the same length.                                                     *)
LEMMA MovedIsSeq ==
  ASSUME NEW t \in Seq(Values), NEW i \in 1 .. Len(t), NEW n \in 0 .. Len(t) - i
  PROVE  MovedText(t, i, n) \in Seq(Values) /\ Len(MovedText(t, i, n)) = Len(t)
<1>1. PICK d \in Nat : d = Len(t)
  OBVIOUS
<1>2. \A j \in 1 .. d : j \in i .. i + n - 1 => j + 1 \in 1 .. d
  BY <1>1
<1>3. \A j \in 1 .. d : t[j] \in Values
  BY <1>1
<1>4. MovedText(t, i, n) \in [1 .. d -> Values]
  BY <1>1, <1>2, <1>3 DEF MovedText
<1> QED
  BY <1>1, <1>4

(* All of them have moved up, and the last one is gone.                    *)
LEMMA ErasedText ==
  ASSUME NEW t \in Seq(Values), NEW i \in 1 .. Len(t)
  PROVE  SubSeq(MovedText(t, i, Len(t) - i), 1, Len(t) - 1)
           = SubSeq(t, 1, i - 1) \o SubSeq(t, i + 1, Len(t))
<1>1. PICK d \in Nat : d = Len(t) /\ i \in 1 .. d
  OBVIOUS
<1>2. PICK u \in Seq(Values) : u = MovedText(t, i, d - i) /\ Len(u) = d
  <2>1. d - i \in 0 .. Len(t) - i
    BY <1>1
  <2> QED
    BY <2>1, <1>1, MovedIsSeq
<1>3. PICK p, q, f : /\ p = SubSeq(t, 1, i - 1) /\ q = SubSeq(t, i + 1, d)
                     /\ f = SubSeq(u, 1, d - 1)
  OBVIOUS
<1>4. PICK a \in Nat, b \in Nat : a = i - 1 /\ b = d - i /\ a + b = d - 1
  <2>1. i - 1 \in Nat /\ d - i \in Nat /\ (i - 1) + (d - i) = d - 1
    BY <1>1
  <2> QED
    BY <2>1
<1>5. /\ p \in Seq(Values) /\ Len(p) = a
      /\ \A j \in 1 .. a : p[j] = t[j]
  BY <1>1, <1>3, <1>4
<1>6. /\ q \in Seq(Values) /\ Len(q) = b
      /\ \A j \in 1 .. b : q[j] = t[i + j]
  BY <1>1, <1>3, <1>4
<1>7. f = [j \in 1 .. a + b |-> u[j]]
  BY <1>1, <1>2, <1>3, <1>4
<1>8. \A j \in 1 .. d : u[j] = IF i <= j /\ j < d THEN t[j + 1] ELSE t[j]
  BY <1>1, <1>2 DEF MovedText
<1>9. Joined(f, p, a, q, b)
  <2>1. ASSUME NEW j \in 1 .. a PROVE f[j] = p[j]
    BY <1>1, <1>4, <1>5, <1>7, <1>8
  <2>2. ASSUME NEW j \in 1 .. b PROVE f[a + j] = q[j]
    <3>1. a + j \in 1 .. a + b /\ a + j \in 1 .. d /\ i <= a + j /\ a + j < d /\ a + j + 1 = i + j
      BY <1>1, <1>4
    <3> QED
      BY <3>1, <1>6, <1>7, <1>8
  <2> QED
    BY <2>1, <2>2, <1>7 DEF Joined
<1>10. f = p \o q
  BY <1>5, <1>6, <1>9, ConcatIs
<1> QED
  BY <1>1, <1>2, <1>3, <1>10

(* The assignments of erase change no cell of another array.               *)
LEMMA MovedUpText ==
  ASSUME Sound(mem, vec, str), NEW v \in Vectors, NEW i \in 1 .. VecSize(v),
         NEW n \in 0 .. VecSize(v) - i, NEW r, r = MovedUp(v, i, n)
  PROVE  Puts(mem, vec, str, v, MovedText(Elements(v), i, n), r, vec, str)
<1>1. PICK s : s = ContentOf(mem.cell, vec[v])
  OBVIOUS
<1>2. s = Elements(v) /\ Len(s) = SizeOf(vec[v])
  BY <1>1, ElementsAre DEF VecSize
<1>3. Puts(mem, vec, str, v,
           [j \in 1 .. SizeOf(vec[v]) |-> IF j \in i .. i + n - 1 THEN s[j + 1] ELSE s[j]],
           r, vec, str)
  BY <1>1, Shifted DEF VecSize
<1> QED
  BY <1>2, <1>3 DEF MovedText

(* erase removes the element at i: all behind it move up, and the last one *)
(* is destroyed.                                                           *)
LEMMA Erased ==
  ASSUME Sound(mem, vec, str), NEW v \in Vectors, NEW i \in 1 .. VecSize(v), erase(v, i)
  PROVE  Puts(mem, vec, str, v,
              SubSeq(Elements(v), 1, i - 1) \o SubSeq(Elements(v), i + 1, VecSize(v)),
              mem', vec', str)
<1>1. PICK n \in 0 .. VecSize(v) - i : n = VecSize(v) - i
  BY ElementsAre
<1>2. PICK m1 : m1 = MovedUp(v, i, n)
  OBVIOUS
<1>3. Puts(mem, vec, str, v, MovedText(Elements(v), i, n), m1, vec, str)
  BY <1>2, MovedUpText
<1>4. ContentOf(m1.cell, vec[v]) = MovedText(Elements(v), i, n) /\ Sound(m1, vec, str)
  <2>1. ContentOf(m1.cell, vec[v]) = MovedText(Elements(v), i, n)
    BY <1>3, PutsContent
  <2> QED
    BY <2>1, <1>3 DEF Puts
<1>5. PICK r, vc2 : r = mem' /\ vc2 = vec'
  OBVIOUS
<1>6. /\ SizeOf(vec[v]) # 0 /\ r = destroy(m1, vec[v].finish - 1)
      /\ vc2 = [vec EXCEPT ![v].finish = vec[v].finish - 1]
  BY <1>1, <1>2, <1>5 DEF erase, VecSize
<1>7. Puts(m1, vec, str, v, SubSeq(ContentOf(m1.cell, vec[v]), 1, SizeOf(vec[v]) - 1), r, vc2, str)
  BY <1>4, <1>6, LastDestroyed
<1>8. SubSeq(MovedText(Elements(v), i, n), 1, VecSize(v) - 1)
        = SubSeq(Elements(v), 1, i - 1) \o SubSeq(Elements(v), i + 1, VecSize(v))
  <2>1. PICK t \in Seq(Values) : t = Elements(v) /\ Len(t) = VecSize(v)
    BY ElementsAre
  <2>2. SubSeq(MovedText(t, i, Len(t) - i), 1, Len(t) - 1)
          = SubSeq(t, 1, i - 1) \o SubSeq(t, i + 1, Len(t))
    BY <2>1, ErasedText
  <2> QED
    BY <2>1, <2>2, <1>1
<1>9. Puts(m1, vec, str, v,
           SubSeq(Elements(v), 1, i - 1) \o SubSeq(Elements(v), i + 1, VecSize(v)), r, vc2, str)
  BY <1>4, <1>7, <1>8 DEF VecSize
<1> QED
  BY <1>3, <1>5, <1>9, PutsTwice

(* erase whose assignment throws has moved n elements up and destroyed     *)
(* none.                                                                   *)
LEMMA EraseThrown ==
  ASSUME Sound(mem, vec, str), NEW v \in Vectors, NEW i \in 1 .. VecSize(v),
         NEW n \in 0 .. VecSize(v) - i, EraseThrows(v, i, n)
  PROVE  Puts(mem, vec, str, v, MovedText(Elements(v), i, n), mem', vec', str)
<1>1. PICK r : r = mem' /\ r = MovedUp(v, i, n) /\ vec' = vec
  BY DEF EraseThrows
<1>2. Puts(mem, vec, str, v, MovedText(Elements(v), i, n), r, vec, str)
  BY <1>1, MovedUpText
<1> QED
  BY <1>1, <1>2

(* assign_from copies the elements of the other vector, in the block it    *)
(* has or in a new one.                                                    *)
LEMMA Assigned ==
  ASSUME Sound(mem, vec, str), NEW v \in Vectors, NEW w \in Vectors, assign_from(v, w)
  PROVE  Puts(mem, vec, str, v, Elements(w), mem', vec', str)
<1>1. /\ Elements(w) \in Seq(Values) /\ Len(Elements(w)) = VecSize(w) /\ VecSize(w) \in Nat
  BY ElementsAre
<1>2. PICK r, vc2 : r = mem' /\ vc2 = vec'
  OBVIOUS
<1>3. CASE /\ VecSize(w) = 0
           /\ Becomes(State(release_block(mem, vec[v]), v, NullArray))
  <2>1. r = release_block(mem, vec[v]) /\ vc2 = [vec EXCEPT ![v] = NullArray]
    BY <1>2, <1>3 DEF Becomes, State
  <2>2. Puts(mem, vec, str, v, <<>>, r, [vec EXCEPT ![v] = NullArray], str)
    BY <2>1, Released
  <2>3. Elements(w) = <<>>
    BY <1>1, <1>3
  <2> QED
    BY <2>1, <2>2, <2>3, <1>2
<1>4. CASE /\ VecSize(w) # 0
           /\ \E i \in Places(mem, VecSize(w)) :
                Becomes(State(release_block(ConstructAll(allocate(mem, i, VecSize(w)), i, Elements(w)),
                                            vec[v]),
                              v, ArrayAt(i, VecSize(w), VecSize(w))))
  <2>1. PICK i \in Places(mem, VecSize(w)) :
          Becomes(State(release_block(ConstructAll(allocate(mem, i, VecSize(w)), i, Elements(w)), vec[v]),
                        v, ArrayAt(i, VecSize(w), VecSize(w))))
    BY <1>4
  <2>2. PICK cap \in Nat, vals \in Seq(Values) :
          cap = VecSize(w) /\ vals = Elements(w) /\ Len(vals) = cap /\ cap # 0
    BY <1>1, <1>4
  <2>3. /\ r = release_block(ConstructAll(allocate(mem, i, cap), i, vals), vec[v])
        /\ vc2 = [vec EXCEPT ![v] = ArrayAt(i, Len(vals), cap)]
    BY <2>1, <2>2, <1>2 DEF Becomes, State
  <2>4. Puts(mem, vec, str, v, vals, r, vc2, str)
    <3>1. i \in Places(mem, cap) /\ cap # 0 /\ Len(vals) <= cap
      BY <2>2
    <3> QED
      BY <3>1, <2>3, NewBlock
  <2> QED
    BY <2>2, <2>4, <1>2
<1> QED
  BY <1>3, <1>4 DEF assign_from

(* Everything of w is v's afterwards.                                      *)
LEMMA Moved ==
  ASSUME Sound(mem, vec, str), NEW v \in Vectors, NEW w \in Vectors \ {v}, MoveAssign(v, w)
  PROVE  /\ Sound(mem', vec', str)
         /\ All(mem', vec', str) = [All(mem, vec, str) EXCEPT ![v] = Elements(w), ![w] = <<>>]
<1>1. PICK r, vc1 : r = release_block(mem, vec[v]) /\ vc1 = [vec EXCEPT ![v] = NullArray]
  OBVIOUS
<1>2. Puts(mem, vec, str, v, <<>>, r, vc1, str)
  BY <1>1, Released
<1>3. PICK vc2 : vc2 = [vc1 EXCEPT ![v] = vc1[w], ![w] = NullArray]
  OBVIOUS
<1>4. vec \in [Vectors -> Triples]
  BY VectorFacts
<1>5. mem' = r /\ vec' = vc2
  BY <1>1, <1>3, <1>4 DEF MoveAssign
<1>6. vc1[v] = NullArray /\ vc1[w] = vec[w] /\ vc1 = [y \in Vectors |-> vc1[y]]
  BY <1>1, <1>4
<1>7. Sound(r, vc1, str) /\ All(r, vc1, str) = [All(mem, vec, str) EXCEPT ![v] = <<>>]
  BY <1>2 DEF Puts
<1>8. Sound(r, vc2, str)
  <2>1. Good(r.cell, r.blocks, vc1, str) /\ w \in Vectors /\ v # w
    BY <1>7 DEF Sound
  <2>2. Good(r.cell, r.blocks, [vc1 EXCEPT ![v] = vc1[w], ![w] = NullArray], str)
    BY <2>1, <1>6, VectorMoved
  <2> QED
    BY <2>2, <1>3, <1>7 DEF Sound
<1>9. ContentOf(r.cell, NullArray) = <<>>
  BY DEF ContentOf, NullArray, SizeOf
<1>10. Elements(w) = All(mem, vec, str)[w]
  BY ElementsAre
<1>11. ASSUME NEW x \in Vectors \cup Strings
       PROVE  All(r, vc2, str)[x]
                = [All(mem, vec, str) EXCEPT ![v] = Elements(w), ![w] = <<>>][x]
  <2>1. All(r, vc1, str)[x] = IF x = v THEN <<>> ELSE All(mem, vec, str)[x]
    BY <1>7 DEF All
  <2>2. All(r, vc1, str)[w] = All(mem, vec, str)[w]
    BY <1>7 DEF All
  <2>3. CASE x = v
    <3>1. All(r, vc2, str)[x] = ContentOf(r.cell, vc1[w])
      BY <2>3, <1>3, <1>6 DEF All
    <3>2. All(r, vc1, str)[w] = ContentOf(r.cell, vc1[w])
      BY DEF All
    <3> QED
      BY <3>1, <3>2, <2>2, <2>3, <1>10 DEF All
  <2>4. CASE x = w
    <3>1. All(r, vc2, str)[x] = <<>>
      BY <2>4, <1>3, <1>6, <1>9 DEF All
    <3> QED
      BY <3>1, <2>4 DEF All
  <2>5. CASE x \notin {v, w}
    <3>1. All(r, vc2, str)[x] = All(r, vc1, str)[x]
      BY <2>5, <1>3, <1>6 DEF All
    <3> QED
      BY <3>1, <2>1, <2>5 DEF All
  <2> QED
    BY <2>3, <2>4, <2>5
<1>12. All(r, vc2, str) = [All(mem, vec, str) EXCEPT ![v] = Elements(w), ![w] = <<>>]
  BY <1>11 DEF All
<1> QED
  BY <1>5, <1>8, <1>12

----------------------------------------------------------------------------
(* What the operators of String do to the cells.                           *)

(* What the invariant says of one string.                                  *)
LEMMA StringFacts ==
  ASSUME NEW m, NEW vc, NEW st, Sound(m, vc, st), NEW s \in Strings
  PROVE  /\ st \in [Strings -> Triples] /\ st[s] \in Triples /\ StringArray(st[s])
         /\ st[s].start \in Nat /\ st[s].finish \in Nat /\ st[s].end \in Nat
         /\ Size \in Nat /\ m.cell \in [1 .. Size -> Cells]
         /\ SizeOf(st[s]) \in Nat /\ CapacityOf(st[s]) \in Nat
         /\ SizeOf(st[s]) <= CapacityOf(st[s])
         /\ st[s].start # Null => /\ SizeOf(st[s]) = st[s].finish - st[s].start
                                  /\ CapacityOf(st[s]) = st[s].end - st[s].start
<1>1. /\ st \in [Strings -> Triples] /\ st[s] \in Triples /\ StringArray(st[s])
      /\ Size \in Nat /\ m.cell \in [1 .. Size -> Cells]
  BY StorageAssumption DEF Sound, Good, Shapes, Filled
<1>2. st[s].start \in Nat /\ st[s].finish \in Nat /\ st[s].end \in Nat
  BY <1>1 DEF Triples
<1> QED
  BY <1>1, <1>2 DEF SizeOf, CapacityOf, StringArray, Null

(* Written puts the characters and CharT(0) behind them, and nothing else. *)
LEMMA WrittenCells ==
  ASSUME NEW m, Memory(m), m.cell \in [1 .. Size -> Cells],
         NEW i \in Nat, NEW text \in Seq(Values), NEW n \in Nat, n = Len(text),
         NEW r, r = Written(m, i, text)
  PROVE  /\ Memory(r) /\ r.blocks = m.blocks
         /\ r.cell \in [1 .. Size -> Cells]
         /\ \A c \in 1 .. Size :
              /\ i <= c /\ c < i + n => r.cell[c] = text[c - i + 1] /\ r.cell[c] \in Values
              /\ c = i + n => r.cell[c] = Zero
              /\ c < i \/ i + n < c => r.cell[c] = m.cell[c]
<1>1. \A c \in 1 .. Size : c \in Span(i, n) <=> i <= c /\ c < i + n
  BY StorageAssumption DEF Span
<1>2. \A c \in 1 .. Size : c \in Span(i, n) => text[c - i + 1] \in Values
  <2> SUFFICES ASSUME NEW c \in 1 .. Size, c \in Span(i, n) PROVE text[c - i + 1] \in Values
    OBVIOUS
  <2>1. c - i + 1 \in 1 .. Len(text)
    BY <1>1, StorageAssumption
  <2> QED
    BY <2>1
<1>3. /\ Memory(r) /\ r.blocks = m.blocks
      /\ r.cell = [c \in 1 .. Size |-> IF c \in Span(i, n) THEN text[c - i + 1]
                                       ELSE IF c = i + n THEN Zero ELSE m.cell[c]]
  BY DEF Written, Memory
<1>4. r.cell \in [1 .. Size -> Cells]
  BY <1>2, <1>3 DEF Cells
<1>5. ASSUME NEW c \in 1 .. Size
      PROVE  /\ i <= c /\ c < i + n => r.cell[c] = text[c - i + 1] /\ r.cell[c] \in Values
             /\ c = i + n => r.cell[c] = Zero
             /\ c < i \/ i + n < c => r.cell[c] = m.cell[c]
  <2>1. c \in Int /\ (c = i + n => ~(c < i + n)) /\ (c < i \/ i + n < c => ~(i <= c /\ c <= i + n))
    BY StorageAssumption
  <2> QED
    BY <2>1, <1>1, <1>2, <1>3
<1> QED
  BY <1>3, <1>4, <1>5

(* release_storage leaves the whole block raw and free.                    *)
LEMMA ReleaseStringCells ==
  ASSUME NEW m, Memory(m), m.cell \in [1 .. Size -> Cells],
         NEW a \in Triples, StringArray(a), NEW r, r = release_storage(m, a)
  PROVE  /\ Memory(r) /\ r.blocks = m.blocks \ StringBlock(a)
         /\ r.cell \in [1 .. Size -> Cells]
         /\ \A c \in 1 .. Size : r.cell[c] = IF InString(a, c) THEN Raw ELSE m.cell[c]
<1>1. a.start \in Nat /\ a.finish \in Nat /\ a.end \in Nat /\ Size \in Nat
  BY StorageAssumption DEF Triples
<1>2. CASE a.start = Null
  BY <1>2 DEF release_storage, StringBlock, InString
<1>3. CASE a.start # Null
  <2>1. CapacityOf(a) + 1 = a.end - a.start + 1
    BY <1>3 DEF CapacityOf
  <2>2. \A c \in 1 .. Size : c \in Span(a.start, a.end - a.start + 1) <=> InString(a, c)
    BY <1>1, <1>3 DEF Span, InString
  <2>3. PICK d : d = deallocate(m, a.start, a.end - a.start + 1)
    OBVIOUS
  <2>4. Memory(d) /\ d.cell = m.cell /\ d.blocks = m.blocks \ {<<a.start, a.end - a.start + 1>>}
    BY <2>3 DEF deallocate, Memory
  <2>5. r = Forgotten(d, a.start, a.end - a.start + 1)
    BY <2>1, <2>3, <1>3 DEF release_storage
  <2>6. /\ Memory(r) /\ r.blocks = d.blocks
        /\ r.cell = [c \in 1 .. Size |-> IF c \in Span(a.start, a.end - a.start + 1)
                                         THEN Raw ELSE m.cell[c]]
    BY <2>4, <2>5 DEF Forgotten, Memory
  <2>7. StringBlock(a) = {<<a.start, a.end - a.start + 1>>}
    BY <1>3 DEF StringBlock
  <2>8. r.cell \in [1 .. Size -> Cells]
    BY <2>6 DEF Cells
  <2> QED
    BY <2>2, <2>4, <2>6, <2>7, <2>8
<1> QED
  BY <1>2, <1>3

(* A text that was written is read again.                                  *)
TextAt(cell, i, text, n) ==
  \A c \in 1 .. Size : i <= c /\ c < i + n => cell[c] = text[c - i + 1]

(* An array whose cells are a text contains that text.                     *)
LEMMA ReadBack ==
  ASSUME NEW cell, NEW a, NEW i \in 1 .. Size, NEW text \in Seq(Values), NEW n \in Nat,
         n = Len(text), i + n <= Size, a.start = i, a.finish = i + n, TextAt(cell, i, text, n)
  PROVE  ContentOf(cell, a) = text
<1>1. SizeOf(a) = n
  BY StorageAssumption DEF SizeOf, Null
<1>2. ASSUME NEW j \in 1 .. n PROVE cell[i + j - 1] = text[j]
  <2>1. i + j - 1 \in 1 .. Size /\ i <= i + j - 1 /\ i + j - 1 < i + n /\ (i + j - 1) - i + 1 = j
    BY StorageAssumption
  <2> QED
    BY <2>1 DEF TextAt
<1>3. ContentOf(cell, a) = [j \in 1 .. n |-> text[j]]
  BY <1>1, <1>2 DEF ContentOf
<1> QED
  BY <1>3

(* Block and characters of string s are given back.                        *)
LEMMA StringReleased ==
  ASSUME NEW m, NEW vc, NEW st, Sound(m, vc, st), NEW s \in Strings,
         NEW r, r = release_storage(m, st[s])
  PROVE  Puts(m, vc, st, s, <<>>, r, vc, [st EXCEPT ![s] = NullArray])
<1>1. PICK a \in Triples : a = st[s] /\ StringArray(a)
  BY StringFacts
<1>2. Memory(m) /\ m.cell \in [1 .. Size -> Cells]
  BY StringFacts DEF Sound
<1>3. PICK n \in Triples : n = NullArray
  BY DEF NullArray, Null, Triples
<1>4. StringArray(n) /\ StringBlock(n) = {}
      /\ \A i \in 1 .. Size : ~InString(n, i) /\ ~Holds(n, i)
  BY <1>3 DEF NullArray, StringArray, StringBlock, InString, Holds
<1>5. /\ Memory(r) /\ r.blocks = m.blocks \ StringBlock(a)
      /\ r.cell \in [1 .. Size -> Cells]
      /\ \A c \in 1 .. Size : r.cell[c] = IF InString(a, c) THEN Raw ELSE m.cell[c]
  BY <1>1, <1>2, ReleaseStringCells
<1>6. StringFits(m.cell, m.blocks, vc, st, s, n, r.cell, r.blocks)
  BY <1>1, <1>4, <1>5 DEF StringFits
<1>7. ContentOf(r.cell, n) = <<>>
  BY <1>3 DEF ContentOf, SizeOf, NullArray
<1>8. Puts(m, vc, st, s, ContentOf(r.cell, n), r, vc, [st EXCEPT ![s] = n])
  BY <1>5, <1>6, StringSet
<1> QED
  BY <1>3, <1>7, <1>8

(* A text in a new block.                                                  *)
LEMMA TextInNewBlock ==
  ASSUME NEW m, NEW vc, NEW st, Sound(m, vc, st), NEW s \in Strings,
         NEW cap \in Nat, NEW text \in Seq(Values), Len(text) <= cap,
         NEW i \in Places(m, cap + 1),
         NEW r, r = Written(release_storage(allocate(m, i, cap + 1), st[s]), i, text),
         NEW st2, st2 = [st EXCEPT ![s] = ArrayAt(i, Len(text), cap)]
  PROVE  Puts(m, vc, st, s, text, r, vc, st2)
<1>1. PICK a \in Triples : a = st[s] /\ StringArray(a)
  BY StringFacts
<1>2. /\ Memory(m) /\ m.cell \in [1 .. Size -> Cells] /\ Size \in Nat
      /\ Good(m.cell, m.blocks, vc, st)
  BY StringFacts DEF Sound
<1>3. PICK k \in Nat : k = Len(text) /\ k <= cap
  OBVIOUS
<1>4. PICK l \in Nat : l = cap + 1 /\ l # 0
  OBVIOUS
<1>5. /\ i \in 1 .. Size /\ i + l <= Size + 1
      /\ \A c \in 1 .. Size : i <= c /\ c < i + l => Unowned(vc, st, c) /\ m.cell[c] = Raw
  BY <1>2, <1>4, PlaceFacts
<1>6. PICK n \in Triples : n = ArrayAt(i, k, cap)
  <2>1. i \in Nat /\ i + k \in Nat /\ i + cap \in Nat
    BY <1>2, <1>5
  <2> QED
    BY <2>1 DEF ArrayAt, Triples
<1>7. n.start = i /\ n.finish = i + k /\ n.end = i + cap
  BY <1>6 DEF ArrayAt
<1>8. StringArray(n) /\ StringBlock(n) = {<<i, l>>}
  <2>1. i \in Nat /\ i # 0 /\ i + cap - i + 1 = l /\ i + cap <= Size
    BY <1>2, <1>4, <1>5
  <2> QED
    BY <2>1, <1>3, <1>7 DEF StringArray, StringBlock, Null
<1>9. \A c \in 1 .. Size : /\ InString(n, c) <=> i <= c /\ c < i + l
                           /\ Holds(n, c) <=> i <= c /\ c < i + k
  BY <1>2, <1>4, <1>5, <1>7 DEF InString, Holds, Null
<1>10. PICK m1 : m1 = allocate(m, i, l)
  OBVIOUS
<1>11. Memory(m1) /\ m1.cell = m.cell /\ m1.blocks = m.blocks \cup {<<i, l>>}
  BY <1>2, <1>10 DEF allocate, Memory
<1>12. PICK m2 : m2 = release_storage(m1, a)
  OBVIOUS
<1>13. /\ Memory(m2) /\ m2.blocks = m1.blocks \ StringBlock(a)
       /\ m2.cell \in [1 .. Size -> Cells]
       /\ \A c \in 1 .. Size : m2.cell[c] = IF InString(a, c) THEN Raw ELSE m1.cell[c]
  BY <1>1, <1>2, <1>11, <1>12, ReleaseStringCells
<1>14. /\ Memory(r) /\ r.blocks = m2.blocks
       /\ r.cell \in [1 .. Size -> Cells]
       /\ \A c \in 1 .. Size :
            /\ i <= c /\ c < i + k => r.cell[c] = text[c - i + 1] /\ r.cell[c] \in Values
            /\ c = i + k => r.cell[c] = Zero
            /\ c < i \/ i + k < c => r.cell[c] = m2.cell[c]
  <2>1. r = Written(m2, i, text) /\ i \in Nat /\ k = Len(text)
    BY <1>1, <1>2, <1>3, <1>4, <1>5, <1>10, <1>12
  <2>2. Memory(m2) /\ m2.cell \in [1 .. Size -> Cells]
    BY <1>13
  <2> QED
    BY <2>1, <2>2, WrittenCells
<1>15. \A c \in 1 .. Size : InString(n, c) => Unowned(vc, st, c) /\ ~InString(a, c)
  BY <1>1, <1>5, <1>9 DEF Unowned
<1>16. \A c \in 1 .. Size : ~InString(n, c) => r.cell[c] = IF InString(a, c) THEN Raw ELSE m.cell[c]
  <2> SUFFICES ASSUME NEW c \in 1 .. Size, ~InString(n, c)
               PROVE  r.cell[c] = IF InString(a, c) THEN Raw ELSE m.cell[c]
    OBVIOUS
  <2>1. c < i \/ i + k < c
    BY <1>2, <1>3, <1>4, <1>5, <1>9
  <2> QED
    BY <2>1, <1>11, <1>13, <1>14
<1>17. r.blocks = (m.blocks \ StringBlock(st[s])) \cup StringBlock(n)
  <2>1. <<i, l>> \notin StringBlock(a)
    <3> SUFFICES ASSUME a.start = i PROVE FALSE
      BY <1>5 DEF StringBlock
    <3>0. i # Null /\ i <= i /\ i < i + l
      BY <1>2, <1>4, <1>5 DEF Null
    <3>1. InString(a, i) /\ InString(n, i)
      <4>1. a.start <= a.end
        BY <3>0, <1>1 DEF StringArray, Triples
      <4> QED
        BY <3>0, <4>1, <1>5, <1>9 DEF InString
    <3> QED
      BY <3>1, <1>5, <1>15
  <2> QED
    BY <2>1, <1>1, <1>8, <1>11, <1>13, <1>14
<1>18. StringFits(m.cell, m.blocks, vc, st, s, n, r.cell, r.blocks)
  BY <1>1, <1>7, <1>8, <1>9, <1>14, <1>15, <1>16, <1>17 DEF StringFits
<1>19. ContentOf(r.cell, n) = text
  <2>1. i + k <= Size
    BY <1>2, <1>3, <1>4, <1>5
  <2>2. TextAt(r.cell, i, text, k)
    BY <1>14 DEF TextAt
  <2> QED
    BY <2>1, <2>2, <1>3, <1>5, <1>7, ReadBack
<1>20. Puts(m, vc, st, s, ContentOf(r.cell, n), r, vc, [st EXCEPT ![s] = n])
  BY <1>14, <1>18, StringSet
<1> QED
  BY <1>3, <1>6, <1>19, <1>20

(* The last of the cells that try_expand adds.                             *)
LEMMA ExtendedEnd ==
  ASSUME NEW i \in Int, NEW old \in Int, NEW cap \in Int
  PROVE  /\ i + (old + 1) + ((cap + 1) - (old + 1)) - 1 = i + cap /\ i + (old + 1) = i + old + 1
         /\ cap > old => i + cap \in (i + old + 1) .. (i + cap)
OBVIOUS

(* A text in the present block of the string, which may become longer.     *)
LEMMA TextInPlace ==
  ASSUME NEW m, NEW vc, NEW st, Sound(m, vc, st), NEW s \in Strings, st[s].start # Null,
         NEW cap \in Nat, NEW text \in Seq(Values), Len(text) <= cap,
         NEW m1,
         \/ m1 = m /\ cap = CapacityOf(st[s])
         \/ /\ cap > CapacityOf(st[s])
            /\ CanExpand(m, st[s].start, CapacityOf(st[s]) + 1, cap + 1)
            /\ m1 = try_expand(m, st[s].start, CapacityOf(st[s]) + 1, cap + 1),
         NEW r, r = Written(m1, st[s].start, text),
         NEW st2, st2 = [st EXCEPT ![s] = ArrayAt(st[s].start, Len(text), cap)]
  PROVE  Puts(m, vc, st, s, text, r, vc, st2)
<1>1. PICK a \in Triples : a = st[s]
  BY StringFacts
<1>2. /\ StringArray(a) /\ a.start \in Nat /\ a.finish \in Nat /\ a.end \in Nat
      /\ Size \in Nat /\ m.cell \in [1 .. Size -> Cells] /\ Memory(m)
      /\ CapacityOf(a) = a.end - a.start
      /\ a.start # Null /\ Good(m.cell, m.blocks, vc, st)
  BY <1>1, StringFacts DEF Sound
<1>3. PICK k \in Nat : k = Len(text) /\ k <= cap
  OBVIOUS
<1>4. PICK i \in 1 .. Size : i = a.start
  BY <1>2 DEF StringArray
<1>5. /\ Memory(m1) /\ m1.cell = m.cell
      /\ m1.blocks = (m.blocks \ StringBlock(a)) \cup {<<i, cap + 1>>}
      /\ i + cap <= Size /\ a.end <= i + cap
      /\ \A c \in 1 .. Size : a.end < c /\ c <= i + cap => Unowned(vc, st, c)
  <2>0. StringBlock(a) = {<<i, CapacityOf(a) + 1>>} /\ StringBlock(a) \subseteq m.blocks
    BY <1>1, <1>2, <1>4 DEF StringBlock, Good, Owned
  <2>1. CASE m1 = m /\ cap = CapacityOf(st[s])
    <3>1. i + cap = a.end /\ a.end <= Size
      BY <2>1, <1>1, <1>2, <1>4 DEF StringArray
    <3>2. \A c \in 1 .. Size : ~(a.end < c /\ c <= i + cap)
      BY <3>1, <1>2
    <3>3. m1.blocks = (m.blocks \ StringBlock(a)) \cup {<<i, cap + 1>>}
      <4>1. CapacityOf(a) = cap /\ m1.blocks = m.blocks
        BY <2>1, <1>1
      <4>2. StringBlock(a) = {<<i, cap + 1>>}
        BY <4>1, <2>0
      <4> QED
        BY <4>1, <4>2, <2>0
    <3>4. i + cap <= Size /\ a.end <= i + cap
      BY <3>1, <1>2
    <3> QED
      BY <3>2, <3>3, <3>4, <2>1, <1>2
  <2>2. CASE /\ cap > CapacityOf(st[s])
             /\ CanExpand(m, st[s].start, CapacityOf(st[s]) + 1, cap + 1)
             /\ m1 = try_expand(m, st[s].start, CapacityOf(st[s]) + 1, cap + 1)
    <3>1. PICK old \in Nat : old = CapacityOf(a) /\ a.end = i + old /\ cap > old
      BY <2>2, <1>1, <1>2, <1>4 DEF StringArray
    <3>2. CanExpand(m, i, old + 1, cap + 1) /\ m1 = try_expand(m, i, old + 1, cap + 1)
      BY <2>2, <3>1, <1>1, <1>4
    <3>3. /\ Memory(m1) /\ m1.cell = m.cell
          /\ m1.blocks = (m.blocks \ {<<i, old + 1>>}) \cup {<<i, cap + 1>>}
      BY <3>2, <1>2 DEF try_expand, allocate, deallocate, Memory
    <3>4. \A c \in (i + old + 1) .. (i + cap) : c \in (1 .. Size) \ InUse(m)
      <4>1. Span(i + (old + 1), (cap + 1) - (old + 1)) = (i + old + 1) .. (i + cap)
        <5>1. i + (old + 1) + ((cap + 1) - (old + 1)) - 1 = i + cap /\ i + (old + 1) = i + old + 1
          BY ExtendedEnd
        <5> QED
          BY <5>1 DEF Span
      <4> QED
        BY <4>1, <3>2 DEF CanExpand
    <3>5. i + cap \in (i + old + 1) .. (i + cap)
      BY <3>1, ExtendedEnd
    <3>6. i + cap <= Size
      BY <3>4, <3>5, <1>2
    <3>7. ASSUME NEW c \in 1 .. Size, a.end < c, c <= i + cap PROVE Unowned(vc, st, c)
      <4>1. c \in (i + old + 1) .. (i + cap)
        BY <3>1, <3>7, <1>2
      <4> QED
        BY <4>1, <3>4, <1>2, FreeCell
    <3>8. a.end <= i + cap
      BY <3>1, <1>2
    <3> QED
      BY <3>1, <3>3, <3>6, <3>7, <3>8, <2>0
  <2> QED
    BY <2>1, <2>2
<1>6. PICK n \in Triples : n = ArrayAt(i, k, cap)
  <2>1. i \in Nat /\ i + k \in Nat /\ i + cap \in Nat
    BY <1>2
  <2> QED
    BY <2>1 DEF ArrayAt, Triples
<1>7. n.start = i /\ n.finish = i + k /\ n.end = i + cap
  BY <1>6 DEF ArrayAt
<1>8. StringArray(n) /\ StringBlock(n) = {<<i, cap + 1>>}
  <2>1. i \in Nat /\ i # 0 /\ i + cap - i + 1 = cap + 1
    BY <1>2
  <2> QED
    BY <2>1, <1>3, <1>5, <1>7 DEF StringArray, StringBlock, Null
<1>9. \A c \in 1 .. Size : /\ InString(n, c) <=> i <= c /\ c <= i + cap
                           /\ Holds(n, c) <=> i <= c /\ c < i + k
                           /\ InString(a, c) <=> i <= c /\ c <= a.end
  BY <1>2, <1>4, <1>7 DEF InString, Holds, Null
<1>10. /\ Memory(r) /\ r.blocks = m1.blocks
       /\ r.cell \in [1 .. Size -> Cells]
       /\ \A c \in 1 .. Size :
            /\ i <= c /\ c < i + k => r.cell[c] = text[c - i + 1] /\ r.cell[c] \in Values
            /\ c = i + k => r.cell[c] = Zero
            /\ c < i \/ i + k < c => r.cell[c] = m1.cell[c]
  <2>1. r = Written(m1, i, text) /\ i \in Nat /\ m1.cell \in [1 .. Size -> Cells]
    BY <1>1, <1>2, <1>4, <1>5
  <2> QED
    BY <2>1, <1>3, <1>5, WrittenCells
<1>11. \A c \in 1 .. Size : /\ InString(a, c) => InString(n, c)
                            /\ InString(n, c) => InString(a, c) \/ Unowned(vc, st, c)
                            /\ InString(n, c) \/ r.cell[c] = m.cell[c]
  <2> SUFFICES ASSUME NEW c \in 1 .. Size
               PROVE  /\ InString(a, c) => InString(n, c)
                      /\ InString(n, c) => InString(a, c) \/ Unowned(vc, st, c)
                      /\ InString(n, c) \/ r.cell[c] = m.cell[c]
    OBVIOUS
  <2>1. c \in Int /\ a.end \in Int /\ i \in Int
    BY <1>2
  <2>2. i <= c /\ c <= a.end => i <= c /\ c <= i + cap
    BY <2>1, <1>5
  <2>3. i <= c /\ c <= i + cap => (i <= c /\ c <= a.end) \/ (a.end < c /\ c <= i + cap)
    BY <2>1, <1>5
  <2>4. ~(i <= c /\ c <= i + cap) => c < i \/ i + k < c
    BY <2>1, <1>3
  <2> QED
    BY <2>2, <2>3, <2>4, <1>5, <1>9, <1>10
<1>12. StringFits(m.cell, m.blocks, vc, st, s, n, r.cell, r.blocks)
  BY <1>1, <1>5, <1>7, <1>8, <1>9, <1>10, <1>11 DEF StringFits
<1>13. ContentOf(r.cell, n) = text
  <2>1. i + k <= Size
    BY <1>2, <1>3, <1>5
  <2>2. TextAt(r.cell, i, text, k)
    BY <1>10 DEF TextAt
  <2> QED
    BY <2>1, <2>2, <1>3, <1>7, ReadBack
<1>14. Puts(m, vc, st, s, ContentOf(r.cell, n), r, vc, [st EXCEPT ![s] = n])
  BY <1>10, <1>12, StringSet
<1>15. st2 = [st EXCEPT ![s] = n]
  BY <1>1, <1>3, <1>4, <1>6
<1> QED
  BY <1>13, <1>14, <1>15

----------------------------------------------------------------------------
(* The actions of strings.                                                 *)

(* The text of a string is what the string contains.                       *)
LEMMA TextIs ==
  ASSUME Sound(mem, vec, str), NEW s \in Strings
  PROVE  /\ Text(s) = ContentOf(mem.cell, str[s])
         /\ Text(s) = All(mem, vec, str)[s]
         /\ Text(s) \in Seq(Values) /\ Len(Text(s)) = StrSize(s) /\ StrSize(s) \in Nat
<1>1. Text(s) = ContentOf(mem.cell, str[s])
  BY DEF Text, Read, ContentOf, StrSize
<1>2. /\ ContentOf(mem.cell, str[s]) \in Seq(Values) /\ SizeOf(str[s]) \in Nat
      /\ Len(ContentOf(mem.cell, str[s])) = SizeOf(str[s])
  BY ContentIsSeq DEF Sound
<1>3. s \notin Vectors
  BY ArraysAssumption
<1> QED
  BY <1>1, <1>2, <1>3 DEF All, StrSize

(* What was put into a string is what it contains.                         *)
LEMMA PutsText ==
  ASSUME NEW m, NEW vc, NEW st, NEW s \in Strings, NEW t, NEW m2, NEW vc2, NEW st2,
         Puts(m, vc, st, s, t, m2, vc2, st2)
  PROVE  ContentOf(m2.cell, st2[s]) = t
<1>1. All(m2, vc2, st2)[s] = t
  BY DEF Puts, All
<1>2. s \notin Vectors
  BY ArraysAssumption
<1> QED
  BY <1>1, <1>2 DEF All

(* A step that changes nothing puts into a string what it contains.        *)
LEMMA PutsNoText ==
  ASSUME NEW m, NEW vc, NEW st, Sound(m, vc, st), NEW s \in Strings
  PROVE  Puts(m, vc, st, s, ContentOf(m.cell, st[s]), m, vc, st)
<1>1. ContentOf(m.cell, st[s]) = All(m, vc, st)[s]
  BY ArraysAssumption DEF All
<1>2. PICK f : f = All(m, vc, st) /\ f = [y \in Vectors \cup Strings |-> f[y]]
  BY DEF All
<1>3. [f EXCEPT ![s] = f[s]] = f
  BY <1>2
<1> QED
  BY <1>1, <1>2, <1>3 DEF Puts

(* String s of state t has a block for n characters in u, and its text.    *)
Roomy(t, s, n, u) ==
  /\ Puts(t.mem, vec, t.str, s, ContentOf(t.mem.cell, t.str[s]), u.mem, vec, u.str)
  /\ u.str[s].start # Null
  /\ n <= CapacityOf(u.str[s])

(* reallocate gives a string room for n characters and CharT(0), in place  *)
(* or elsewhere, with the same text.                                       *)
LEMMA StrReallocated ==
  ASSUME NEW t, Sound(t.mem, vec, t.str), NEW s \in Strings, NEW n \in Nat,
         t.str[s].start = Null \/ n > CapacityOf(t.str[s]),
         NEW u \in StrReallocate(t, s, n)
  PROVE  Roomy(t, s, n, u)
<1>1. PICK m, st : m = t.mem /\ st = t.str
  OBVIOUS
<1>2. /\ st \in [Strings -> Triples] /\ st[s] \in Triples /\ st[s].start \in Nat
      /\ SizeOf(st[s]) \in Nat /\ CapacityOf(st[s]) \in Nat /\ SizeOf(st[s]) <= CapacityOf(st[s])
      /\ Size \in Nat /\ Sound(m, vec, st) /\ Good(m.cell, m.blocks, vec, st)
  BY <1>1, StringFacts DEF Sound
<1>3. PICK text : text = ContentOf(m.cell, st[s])
  OBVIOUS
<1>4. text \in Seq(Values) /\ Len(text) = SizeOf(st[s]) /\ text = Read(t.mem, st[s].start, SizeOf(st[s]))
  BY <1>1, <1>2, <1>3, ContentIsSeq DEF Read, ContentOf
<1>5. Len(text) <= n
  <2>1. CASE st[s].start = Null
    BY <2>1, <1>4 DEF SizeOf
  <2>2. CASE n > CapacityOf(st[s])
    BY <2>2, <1>2, <1>4
  <2> QED
    BY <2>1, <2>2, <1>1
<1>6. PICK m1, i :
        /\ u = InBlock(t, s, m1, i, text, n)
        /\ \/ /\ i = st[s].start /\ st[s].start # Null /\ n > CapacityOf(st[s])
              /\ CanExpand(m, st[s].start, CapacityOf(st[s]) + 1, n + 1)
              /\ m1 = try_expand(m, st[s].start, CapacityOf(st[s]) + 1, n + 1)
           \/ i \in Places(m, n + 1) /\ m1 = release_storage(allocate(m, i, n + 1), st[s])
  BY <1>1, <1>4 DEF StrReallocate
<1>7. PICK r, st2 : r = Written(m1, i, text) /\ st2 = [st EXCEPT ![s] = ArrayAt(i, Len(text), n)]
  OBVIOUS
<1>8. u.mem = r /\ u.str = st2
  BY <1>1, <1>6, <1>7 DEF InBlock
<1>9. Puts(m, vec, st, s, text, r, vec, st2) /\ i # Null /\ i \in Nat
  <2>1. CASE /\ i = st[s].start /\ st[s].start # Null /\ n > CapacityOf(st[s])
             /\ CanExpand(m, st[s].start, CapacityOf(st[s]) + 1, n + 1)
             /\ m1 = try_expand(m, st[s].start, CapacityOf(st[s]) + 1, n + 1)
    <3>1. /\ r = Written(m1, st[s].start, text)
          /\ st2 = [st EXCEPT ![s] = ArrayAt(st[s].start, Len(text), n)]
      BY <2>1, <1>7
    <3>2. Puts(m, vec, st, s, text, r, vec, st2)
      BY <3>1, <2>1, <1>2, <1>4, <1>5, TextInPlace
    <3> QED
      BY <3>2, <2>1, <1>2
  <2>2. CASE i \in Places(m, n + 1) /\ m1 = release_storage(allocate(m, i, n + 1), st[s])
    <3>1. r = Written(release_storage(allocate(m, i, n + 1), st[s]), i, text)
      BY <2>2, <1>7
    <3>2. Puts(m, vec, st, s, text, r, vec, st2)
      BY <3>1, <2>2, <1>2, <1>4, <1>5, <1>7, TextInNewBlock
    <3>3. i \in 1 .. Size
      BY <2>2 DEF Places
    <3> QED
      BY <3>2, <3>3, <1>2 DEF Null
  <2> QED
    BY <2>1, <2>2, <1>6
<1>10. st2[s].start = i /\ CapacityOf(st2[s]) = n
  <2>1. st2[s] = ArrayAt(i, Len(text), n)
    BY <1>2, <1>7
  <2>2. (i + n) - i = n
    BY <1>9
  <2> QED
    BY <2>1, <2>2, <1>9 DEF ArrayAt, CapacityOf
<1> QED
  BY <1>1, <1>3, <1>8, <1>9, <1>10 DEF Roomy

(* So does reserve.                                                        *)
LEMMA IsReserved ==
  ASSUME NEW t, Sound(t.mem, vec, t.str), NEW s \in Strings, NEW n \in Nat, NEW u \in Reserved(t, s, n)
  PROVE  Roomy(t, s, n, u)
<1>1. CASE t.str[s].start = Null \/ n > CapacityOf(t.str[s])
  BY <1>1, StrReallocated DEF Reserved
<1>2. CASE ~(t.str[s].start = Null \/ n > CapacityOf(t.str[s]))
  <2>1. u = t
    BY <1>2 DEF Reserved
  <2>2. CapacityOf(t.str[s]) \in Nat
    BY StringFacts
  <2>3. Puts(t.mem, vec, t.str, s, ContentOf(t.mem.cell, t.str[s]), t.mem, vec, t.str)
    BY PutsNoText
  <2> QED
    BY <2>1, <2>2, <2>3, <1>2 DEF Roomy
<1> QED
  BY <1>1, <1>2

(* init_empty gives a string that was moved from a block again.            *)
LEMMA HasBlock ==
  ASSUME NEW t, Sound(t.mem, vec, t.str), NEW s \in Strings, NEW u \in WithBlock(t, s)
  PROVE  Roomy(t, s, 0, u)
<1>1. CASE t.str[s].start = Null
  BY <1>1, StrReallocated DEF WithBlock
<1>2. CASE t.str[s].start # Null
  <2>1. u = t
    BY <1>2 DEF WithBlock
  <2>2. CapacityOf(t.str[s]) \in Nat
    BY StringFacts
  <2>3. Puts(t.mem, vec, t.str, s, ContentOf(t.mem.cell, t.str[s]), t.mem, vec, t.str)
    BY PutsNoText
  <2> QED
    BY <2>1, <2>2, <2>3, <1>2 DEF Roomy
<1> QED
  BY <1>1, <1>2

(* A text is written where there is room for it.                           *)
LEMMA HasText ==
  ASSUME NEW t, Sound(t.mem, vec, t.str), NEW s \in Strings, NEW n \in Nat, NEW u, Roomy(t, s, n, u),
         NEW text \in Seq(Values), Len(text) <= n, NEW w, w = WithText(u, s, text)
  PROVE  Puts(t.mem, vec, t.str, s, text, w.mem, vec, w.str)
<1>1. PICK m, st : m = u.mem /\ st = u.str
  OBVIOUS
<1>2. /\ Puts(t.mem, vec, t.str, s, ContentOf(t.mem.cell, t.str[s]), m, vec, st)
      /\ st[s].start # Null /\ n <= CapacityOf(st[s])
  BY <1>1 DEF Roomy
<1>3. Sound(m, vec, st)
  BY <1>2 DEF Puts
<1>4. PICK cap \in Nat : cap = CapacityOf(st[s])
  BY <1>3, StringFacts
<1>5. PICK r, st2 : /\ r = Written(m, st[s].start, text)
                    /\ st2 = [st EXCEPT ![s] = ArrayAt(st[s].start, Len(text), cap)]
  OBVIOUS
<1>6. Len(text) <= cap
  BY <1>2, <1>4
<1>7. Puts(m, vec, st, s, text, r, vec, st2)
  BY <1>2, <1>3, <1>4, <1>5, <1>6, TextInPlace
<1>8. w.mem = r /\ w.str = st2
  BY <1>1, <1>4, <1>5 DEF WithText, InBlock
<1> QED
  BY <1>2, <1>7, <1>8, PutsTwice

(* reserve does not change the text.                                       *)
LEMMA StrReserveStep ==
  ASSUME Sound(mem, vec, str), NEW s \in Strings, NEW n \in Nat, StrReserve(s, n)
  PROVE  Puts(mem, vec, str, s, Text(s), mem', vec, str')
<1>1. PICK t \in Reserved(StrNow, s, n) : StrBecomes(t)
  BY DEF StrReserve
<1>2. StrNow.mem = mem /\ StrNow.str = str
  BY DEF StrNow
<1>3. Roomy(StrNow, s, n, t)
  BY <1>2, IsReserved
<1>4. Text(s) = ContentOf(mem.cell, str[s])
  BY TextIs
<1> QED
  BY <1>1, <1>2, <1>3, <1>4 DEF Roomy, StrBecomes

(* assign puts the new text, with or without a new block.                  *)
LEMMA AssignStep ==
  ASSUME Sound(mem, vec, str), NEW s \in Strings, NEW text \in Seq(Values), assign(s, text)
  PROVE  Puts(mem, vec, str, s, text, mem', vec, str')
<1>1. PICK t \in WithBlock(StrNow, s) :
        \E u \in Reserved(t, s, Len(text)) : StrBecomes(WithText(u, s, text))
  BY DEF assign
<1>2. PICK u \in Reserved(t, s, Len(text)) : StrBecomes(WithText(u, s, text))
  BY <1>1
<1>3. StrNow.mem = mem /\ StrNow.str = str
  BY DEF StrNow
<1>4. Roomy(StrNow, s, 0, t)
  BY <1>3, HasBlock
<1>5. PICK n \in Nat : n = Len(text)
  OBVIOUS
<1>6. Sound(t.mem, vec, t.str)
  BY <1>4 DEF Roomy, Puts
<1>7. Roomy(t, s, n, u)
  BY <1>2, <1>5, <1>6, IsReserved
<1>8. PICK w : w = WithText(u, s, text)
  OBVIOUS
<1>9. Puts(t.mem, vec, t.str, s, text, w.mem, vec, w.str)
  BY <1>5, <1>6, <1>7, <1>8, HasText
<1>10. Puts(mem, vec, str, s, ContentOf(mem.cell, str[s]), t.mem, vec, t.str)
  BY <1>3, <1>4 DEF Roomy
<1>11. Puts(mem, vec, str, s, text, w.mem, vec, w.str)
  BY <1>9, <1>10, PutsTwice
<1> QED
  BY <1>2, <1>8, <1>11 DEF StrBecomes

(* assign that is refused memory keeps the old text, which is empty when   *)
(* the string was moved from.                                              *)
LEMMA AssignThrown ==
  ASSUME Sound(mem, vec, str), NEW s \in Strings, NEW text, AssignThrows(s, text)
  PROVE  Puts(mem, vec, str, s, Text(s), mem', vec, str')
<1>1. PICK t \in WithBlock(StrNow, s) : StrBecomes(t)
  BY DEF AssignThrows
<1>2. StrNow.mem = mem /\ StrNow.str = str
  BY DEF StrNow
<1>3. Roomy(StrNow, s, 0, t)
  BY <1>2, HasBlock
<1> QED
  BY <1>1, <1>2, <1>3, TextIs DEF Roomy, StrBecomes

(* append puts the text behind the old one.                                *)
LEMMA AppendStep ==
  ASSUME Sound(mem, vec, str), NEW s \in Strings, NEW text \in Seq(Values), append(s, text)
  PROVE  Puts(mem, vec, str, s, Text(s) \o text, mem', vec, str')
<1>1. PICK t \in Reserved(StrNow, s, StrSize(s) + Len(text)) :
        StrBecomes(WithText(t, s, Text(s) \o text))
  BY DEF append
<1>2. StrNow.mem = mem /\ StrNow.str = str
  BY DEF StrNow
<1>3. PICK old \in Seq(Values) : old = Text(s) /\ Len(old) = StrSize(s)
  BY TextIs
<1>4. PICK all \in Seq(Values) : all = old \o text /\ Len(all) = Len(old) + Len(text)
  BY <1>3, ConcatProperties
<1>5. PICK n \in Nat : n = StrSize(s) + Len(text) /\ Len(all) = n
  BY <1>3, <1>4
<1>6. Roomy(StrNow, s, n, t)
  BY <1>1, <1>2, <1>5, IsReserved
<1>7. PICK w : w = WithText(t, s, all)
  OBVIOUS
<1>8. Puts(StrNow.mem, vec, StrNow.str, s, all, w.mem, vec, w.str)
  <2>1. Sound(StrNow.mem, vec, StrNow.str) /\ Len(all) <= n
    BY <1>2, <1>5
  <2> QED
    BY <2>1, <1>6, <1>7, HasText
<1> QED
  BY <1>1, <1>2, <1>3, <1>4, <1>7, <1>8 DEF StrBecomes

(* clear puts the empty text.                                              *)
LEMMA ClearStep ==
  ASSUME Sound(mem, vec, str), NEW s \in Strings, StrClear(s)
  PROVE  Puts(mem, vec, str, s, <<>>, mem', vec, str')
<1>1. StrNow.mem = mem /\ StrNow.str = str
  BY DEF StrNow
<1>2. Roomy(StrNow, s, 0, StrNow)
  <2>1. CapacityOf(str[s]) \in Nat
    BY StringFacts
  <2>2. Puts(mem, vec, str, s, ContentOf(mem.cell, str[s]), mem, vec, str)
    BY PutsNoText
  <2> QED
    BY <2>1, <2>2, <1>1 DEF Roomy, StrClear
<1>3. PICK w, text : w = WithText(StrNow, s, text) /\ text = <<>>
  OBVIOUS
<1>4. text \in Seq(Values) /\ Len(text) <= 0
  BY <1>3
<1>5. Puts(StrNow.mem, vec, StrNow.str, s, text, w.mem, vec, w.str)
  <2>1. Sound(StrNow.mem, vec, StrNow.str) /\ 0 \in Nat
    BY <1>1
  <2> QED
    BY <2>1, <1>2, <1>3, <1>4, HasText
<1> QED
  BY <1>1, <1>3, <1>5 DEF StrClear, StrBecomes

(* A temporary string that is moved in puts its text, and the old block is *)
(* given back.                                                             *)
LEMMA ConstructAssigned ==
  ASSUME Sound(mem, vec, str), NEW s \in Strings, NEW text \in Seq(Values), StrConstructAssign(s, text)
  PROVE  Puts(mem, vec, str, s, text, mem', vec, str')
<1>1. PICK n \in Nat : n = Len(text)
  OBVIOUS
<1>2. PICK i \in Places(mem, n + 1) :
        StrBecomes(InBlock(StrNow, s, release_storage(allocate(mem, i, n + 1), str[s]), i, text, n))
  BY <1>1 DEF StrConstructAssign
<1>3. PICK r, st2 : r = mem' /\ st2 = str'
  OBVIOUS
<1>4. /\ r = Written(release_storage(allocate(mem, i, n + 1), str[s]), i, text)
      /\ st2 = [str EXCEPT ![s] = ArrayAt(i, Len(text), n)]
  BY <1>2, <1>3 DEF StrBecomes, InBlock, StrNow
<1>5. Puts(mem, vec, str, s, text, r, vec, st2)
  <2>1. i \in Places(mem, n + 1) /\ Len(text) <= n
    BY <1>1, <1>2
  <2> QED
    BY <2>1, <1>4, TextInNewBlock
<1> QED
  BY <1>3, <1>5

(* Move assignment hands over the text and leaves the other string without *)
(* a block.                                                                *)
LEMMA StrMoved ==
  ASSUME Sound(mem, vec, str), NEW s \in Strings, NEW u \in Strings \ {s}, StrMoveAssign(s, u)
  PROVE  /\ Sound(mem', vec, str')
         /\ All(mem', vec, str') = [All(mem, vec, str) EXCEPT ![s] = Text(u), ![u] = <<>>]
<1>1. PICK r, st1 : r = release_storage(mem, str[s]) /\ st1 = [str EXCEPT ![s] = NullArray]
  OBVIOUS
<1>2. Puts(mem, vec, str, s, <<>>, r, vec, st1)
  BY <1>1, StringReleased
<1>3. PICK st2 : st2 = [st1 EXCEPT ![s] = st1[u], ![u] = NullArray]
  OBVIOUS
<1>4. str \in [Strings -> Triples]
  BY StringFacts
<1>5. mem' = r /\ str' = st2
  BY <1>1, <1>3, <1>4 DEF StrMoveAssign
<1>6. st1[s] = NullArray /\ st1[u] = str[u] /\ st1 = [y \in Strings |-> st1[y]]
  BY <1>1, <1>4
<1>7. Sound(r, vec, st1) /\ All(r, vec, st1) = [All(mem, vec, str) EXCEPT ![s] = <<>>]
  BY <1>2 DEF Puts
<1>8. Sound(r, vec, st2)
  <2>1. Good(r.cell, r.blocks, vec, st1) /\ u \in Strings /\ s # u
    BY <1>7 DEF Sound
  <2>2. Good(r.cell, r.blocks, vec, [st1 EXCEPT ![s] = st1[u], ![u] = NullArray])
    BY <2>1, <1>6, StringMoved
  <2> QED
    BY <2>2, <1>3, <1>7 DEF Sound
<1>9. ContentOf(r.cell, NullArray) = <<>>
  BY DEF ContentOf, NullArray, SizeOf
<1>10. Text(u) = All(mem, vec, str)[u]
  BY TextIs
<1>11. ASSUME NEW x \in Vectors \cup Strings
       PROVE  All(r, vec, st2)[x] = [All(mem, vec, str) EXCEPT ![s] = Text(u), ![u] = <<>>][x]
  <2>0. s \notin Vectors /\ u \notin Vectors
    BY ArraysAssumption
  <2>1. All(r, vec, st1)[x] = IF x = s THEN <<>> ELSE All(mem, vec, str)[x]
    BY <1>7 DEF All
  <2>2. All(r, vec, st1)[u] = All(mem, vec, str)[u]
    BY <1>7 DEF All
  <2>3. CASE x = s
    <3>1. All(r, vec, st2)[x] = ContentOf(r.cell, st1[u])
      BY <2>0, <2>3, <1>3, <1>6 DEF All
    <3>2. All(r, vec, st1)[u] = ContentOf(r.cell, st1[u])
      BY <2>0 DEF All
    <3> QED
      BY <3>1, <3>2, <2>2, <2>3, <1>10 DEF All
  <2>4. CASE x = u
    <3>1. All(r, vec, st2)[x] = <<>>
      BY <2>0, <2>4, <1>3, <1>6, <1>9 DEF All
    <3> QED
      BY <3>1, <2>4 DEF All
  <2>5. CASE x \notin {s, u}
    <3>1. All(r, vec, st2)[x] = All(r, vec, st1)[x]
      BY <2>5, <1>3, <1>6 DEF All
    <3> QED
      BY <3>1, <2>1, <2>5 DEF All
  <2> QED
    BY <2>3, <2>4, <2>5
<1>12. All(r, vec, st2) = [All(mem, vec, str) EXCEPT ![s] = Text(u), ![u] = <<>>]
  BY <1>11 DEF All
<1> QED
  BY <1>5, <1>8, <1>12

----------------------------------------------------------------------------
(* Every step is a step of the sequences, or none.                         *)

(* The refinement mapping shows what all arrays contain.                   *)
LEMMA ContentsNow ==
  /\ Contents = All(mem, vec, str)
  /\ Contents = [y \in Vectors \cup Strings |-> Contents[y]]
BY DEF Contents, All, Elements, Text, Read, ContentOf, VecSize, StrSize

(* The same before and after a step.                                       *)
LEMMA ContentsAre ==
  /\ Contents = All(mem, vec, str)
  /\ Contents' = All(mem', vec', str')
<1>1. (Contents = All(mem, vec, str))'
  BY ContentsNow, PTL
<1> QED
  BY <1>1, ContentsNow

(* The step that Puts describes, as a step of Contents.                    *)
LEMMA PutsSequence ==
  ASSUME NEW x \in Vectors \cup Strings, NEW t, Puts(mem, vec, str, x, t, mem', vec', str')
  PROVE  IInv' /\ Contents' = [Contents EXCEPT ![x] = t]
BY ContentsAre DEF Puts, IInv

(* A step that puts back what an array contains is a stuttering step of    *)
(* the sequences.                                                          *)
LEMMA UnchangedSequence ==
  ASSUME NEW x \in Vectors \cup Strings, NEW t, t = All(mem, vec, str)[x],
         Puts(mem, vec, str, x, t, mem', vec', str')
  PROVE  IInv' /\ Contents' = Contents
<1>1. PICK m2, vc2, st2 : m2 = mem' /\ vc2 = vec' /\ st2 = str'
  OBVIOUS
<1>2. Sound(m2, vc2, st2) /\ All(m2, vc2, st2) = All(mem, vec, str)
  BY <1>1, PutsSame
<1> QED
  BY <1>1, <1>2, ContentsAre DEF IInv

(* The sequence that a vector implements is its elements.                  *)
LEMMA VectorSequence ==
  ASSUME IInv, NEW v \in Vectors
  PROVE  /\ Contents[v] = Elements(v) /\ All(mem, vec, str)[v] = Elements(v)
         /\ Elements(v) \in Seq(Values) /\ Len(Elements(v)) = VecSize(v) /\ VecSize(v) \in Nat
         /\ Contents = [y \in Vectors \cup Strings |-> Contents[y]]
BY ElementsAre, ContentsNow DEF IInv

(* The sequence that a string implements is its text.                      *)
LEMMA StringSequence ==
  ASSUME IInv, NEW s \in Strings
  PROVE  /\ Contents[s] = Text(s) /\ All(mem, vec, str)[s] = Text(s)
         /\ Text(s) \in Seq(Values) /\ Len(Text(s)) = StrSize(s) /\ StrSize(s) \in Nat
         /\ Contents = [y \in Vectors \cup Strings |-> Contents[y]]
BY TextIs, ContentsNow DEF IInv

(* Copies of one element behind the others extend the sequence.            *)
LEMMA ExtendStep ==
  ASSUME IInv, NEW v \in Vectors, NEW x \in Values, NEW d \in Nat, d # 0,
         Contents' = [Contents EXCEPT ![v] = Elements(v) \o [i \in 1 .. d |-> x]]
  PROVE  AsSequences!Extend(v)
<1>1. Contents[v] = Elements(v) /\ Contents = [y \in Vectors \cup Strings |-> Contents[y]]
  BY VectorSequence
<1>2. PICK p \in Seq(Values), q \in Seq(Values) :
        p = Elements(v) /\ q = [i \in 1 .. d |-> x] /\ Len(q) = d
  <2>1. [i \in 1 .. d |-> x] \in Seq(Values) /\ Len([i \in 1 .. d |-> x]) = d
    OBVIOUS
  <2> QED
    BY <2>1, VectorSequence
<1>3. Contents'[v] = p \o q
  BY <1>1, <1>2
<1>4. Len(p \o q) = Len(p) + d
  BY <1>2, ConcatProperties
<1>5. Len(Contents'[v]) - Len(Contents[v]) = d
  BY <1>1, <1>2, <1>3, <1>4
<1>6. Contents' = [Contents EXCEPT ![v] = Contents[v] \o [i \in 1 .. d |-> x]] /\ d > 0
  BY <1>1
<1> QED
  BY <1>5, <1>6 DEF AsSequences!Extend, AsSequences!Becomes

(* What a step has to show.                                                *)
Simulates == IInv' /\ (AsSequences!Next \/ Contents' = Contents)

(* Every operation on a vector keeps the invariant and is a step of the    *)
(* sequences, or none when it only moves the block or fails.               *)
LEMMA VectorStep ==
  ASSUME IInv, VectorNext, UNCHANGED str
  PROVE  Simulates
<1>1. PICK v \in Vectors :
        \/ \E x \in Values : push_back(v, x)
        \/ PushBackThrows(v) \/ pop_back(v)
        \/ vec[v].finish = vec[v].end /\ CopyThrows(Elements(v), 2 * VecCapacity(v))
        \/ \E n \in 0 .. MaxRequest :
             \/ reserve(v, n) \/ destroy_tail(v, n)
             \/ n > VecCapacity(v) /\ CopyThrows(Elements(v), n)
             \/ \E x \in Values : resize(v, n, x) \/ ResizeThrows(v, n, x)
        \/ \E i \in 1 .. VecSize(v) :
             erase(v, i) \/ \E n \in 0 .. VecSize(v) - i : EraseThrows(v, i, n)
        \/ \E w \in Vectors \ {v} :
             assign_from(v, w) \/ MoveAssign(v, w) \/ CopyThrows(Elements(w), VecSize(w))
  BY DEF VectorNext
<1>2. Sound(mem, vec, str) /\ str' = str
  BY DEF IInv
<1>3. /\ Contents[v] = Elements(v) /\ All(mem, vec, str)[v] = Elements(v)
      /\ Elements(v) \in Seq(Values) /\ Len(Elements(v)) = VecSize(v) /\ VecSize(v) \in Nat
      /\ Contents = [y \in Vectors \cup Strings |-> Contents[y]]
  BY VectorSequence
<1>4. VecCapacity(v) \in Nat /\ VecSize(v) <= VecCapacity(v)
  BY <1>2, VectorFacts DEF VecSize, VecCapacity
<1>5. ASSUME Puts(mem, vec, str, v, Elements(v), mem', vec', str) PROVE Simulates
  BY <1>2, <1>3, <1>5, UnchangedSequence DEF Simulates
<1>6. ASSUME NEW t, Puts(mem, vec, str, v, t, mem', vec', str)
      PROVE  IInv' /\ Contents' = [Contents EXCEPT ![v] = t]
  BY <1>2, <1>6, PutsSequence
<1>7. ASSUME mem' = mem, vec' = vec PROVE Simulates
  <2>1. IInv' /\ Contents' = Contents
    BY <1>2, <1>7, ContentsAre DEF IInv
  <2> QED
    BY <2>1 DEF Simulates
<1>8. ASSUME NEW x \in Values, push_back(v, x) PROVE Simulates
  <2>1. Puts(mem, vec, str, v, Elements(v) \o <<x>>, mem', vec', str)
    BY <1>2, <1>8, PushBack
  <2>2. IInv' /\ Contents' = [Contents EXCEPT ![v] = Elements(v) \o <<x>>]
    BY <2>1, <1>6
  <2>3. PICK d \in Nat : d = 1
    OBVIOUS
  <2>4. <<x>> = [i \in 1 .. d |-> x] /\ d # 0
    BY <2>3
  <2>5. Contents' = [Contents EXCEPT ![v] = Elements(v) \o [i \in 1 .. d |-> x]]
    BY <2>2, <2>4
  <2>6. AsSequences!Extend(v)
    BY <2>4, <2>5, ExtendStep
  <2> QED
    BY <2>2, <2>6 DEF Simulates, AsSequences!Next
<1>9. CASE PushBackThrows(v)
  BY <1>2, <1>5, <1>9, PushBackThrown
<1>10. CASE pop_back(v)
  <2>1. /\ VecSize(v) # 0
        /\ Puts(mem, vec, str, v, SubSeq(Elements(v), 1, VecSize(v) - 1), mem', vec', str)
    BY <1>2, <1>10, PopBack
  <2>2. IInv' /\ Contents' = [Contents EXCEPT ![v] = SubSeq(Elements(v), 1, VecSize(v) - 1)]
    BY <2>1, <1>6
  <2>3. VecSize(v) - 1 \in 0 .. Len(Contents[v])
    BY <2>1, <1>3
  <2>4. AsSequences!Truncate(v)
    BY <2>2, <2>3, <1>3 DEF AsSequences!Truncate, AsSequences!Becomes
  <2> QED
    BY <2>2, <2>4 DEF Simulates, AsSequences!Next
<1>11. CASE CopyThrows(Elements(v), 2 * VecCapacity(v))
  <2>1. PICK cap \in Nat : cap = 2 * VecCapacity(v) /\ Len(Elements(v)) <= cap
    BY <1>3, <1>4
  <2> QED
    BY <2>1, <1>2, <1>3, <1>7, <1>11, CopyThrown
<1>12. ASSUME NEW n \in 0 .. MaxRequest, reserve(v, n) PROVE Simulates
  <2>1. n \in Nat
    BY VectorAssumption
  <2> QED
    BY <2>1, <1>2, <1>5, <1>12, ReserveStep
<1>13. ASSUME NEW n \in 0 .. MaxRequest, destroy_tail(v, n) PROVE Simulates
  <2>1. n \in Nat
    BY VectorAssumption
  <2>2. n < VecSize(v) /\ Puts(mem, vec, str, v, SubSeq(Elements(v), 1, n), mem', vec', str)
    BY <2>1, <1>2, <1>13, TailDestroyed
  <2>3. IInv' /\ Contents' = [Contents EXCEPT ![v] = SubSeq(Elements(v), 1, n)]
    BY <2>2, <1>6
  <2>4. n \in 0 .. Len(Contents[v])
    BY <2>1, <2>2, <1>3
  <2>5. AsSequences!Truncate(v)
    BY <2>3, <2>4, <1>3 DEF AsSequences!Truncate, AsSequences!Becomes
  <2> QED
    BY <2>3, <2>5 DEF Simulates, AsSequences!Next
<1>14. ASSUME NEW n \in 0 .. MaxRequest, n > VecCapacity(v), CopyThrows(Elements(v), n) PROVE Simulates
  <2>1. n \in Nat /\ Len(Elements(v)) <= n
    BY <1>3, <1>4, <1>14, VectorAssumption
  <2> QED
    BY <2>1, <1>2, <1>3, <1>7, <1>14, CopyThrown
<1>15. ASSUME NEW n \in 0 .. MaxRequest, NEW x \in Values, resize(v, n, x) PROVE Simulates
  <2>1. n \in Nat
    BY VectorAssumption
  <2>2. /\ n > VecSize(v)
        /\ Puts(mem, vec, str, v, Elements(v) \o [j \in 1 .. n - VecSize(v) |-> x], mem', vec', str)
    BY <2>1, <1>2, <1>15, ResizeStep
  <2>3. PICK d \in Nat : d = n - VecSize(v) /\ d # 0
    BY <2>1, <2>2, <1>3
  <2>4. IInv' /\ Contents' = [Contents EXCEPT ![v] = Elements(v) \o [j \in 1 .. d |-> x]]
    BY <2>2, <2>3, <1>6
  <2>5. AsSequences!Extend(v)
    BY <2>3, <2>4, ExtendStep
  <2> QED
    BY <2>4, <2>5 DEF Simulates, AsSequences!Next
<1>16. ASSUME NEW n \in 0 .. MaxRequest, NEW x \in Values, ResizeThrows(v, n, x) PROVE Simulates
  <2>1. n \in Nat
    BY VectorAssumption
  <2> QED
    BY <2>1, <1>2, <1>5, <1>16, ResizeThrown
<1>17. ASSUME NEW i \in 1 .. VecSize(v), erase(v, i) PROVE Simulates
  <2>1. Puts(mem, vec, str, v,
             SubSeq(Elements(v), 1, i - 1) \o SubSeq(Elements(v), i + 1, VecSize(v)), mem', vec', str)
    BY <1>2, <1>17, Erased
  <2>2. IInv' /\ Contents' = [Contents EXCEPT ![v] =
                   SubSeq(Elements(v), 1, i - 1) \o SubSeq(Elements(v), i + 1, VecSize(v))]
    BY <2>1, <1>6
  <2>3. i \in 1 .. Len(Contents[v])
    BY <1>3
  <2>4. AsSequences!Erase(v)
    BY <2>2, <2>3, <1>3 DEF AsSequences!Erase, AsSequences!Becomes
  <2> QED
    BY <2>2, <2>4 DEF Simulates, AsSequences!Next
<1>18. ASSUME NEW i \in 1 .. VecSize(v), NEW n \in 0 .. VecSize(v) - i, EraseThrows(v, i, n)
       PROVE  Simulates
  <2>1. Puts(mem, vec, str, v, MovedText(Elements(v), i, n), mem', vec', str)
    BY <1>2, <1>18, EraseThrown
  <2>2. IInv' /\ Contents' = [Contents EXCEPT ![v] = MovedText(Elements(v), i, n)]
    BY <2>1, <1>6
  <2>3. CASE n = 0
    <3>1. \A j \in 1 .. Len(Elements(v)) : j \notin i .. i + n - 1
      BY <2>3, <1>3
    <3>2. MovedText(Elements(v), i, n) = [j \in 1 .. Len(Elements(v)) |-> Elements(v)[j]]
      BY <3>1 DEF MovedText
    <3>3. MovedText(Elements(v), i, n) = Elements(v)
      BY <3>2, <1>3
    <3> QED
      BY <3>3, <2>1, <1>5
  <2>4. CASE n # 0
    <3>1. i \in 1 .. Len(Contents[v]) /\ n \in 1 .. Len(Contents[v]) - i
      BY <2>4, <1>3
    <3>2. AsSequences!Erase(v)
      BY <3>1, <2>2, <1>3 DEF AsSequences!Erase, AsSequences!Becomes, MovedText
    <3> QED
      BY <3>2, <2>2 DEF Simulates, AsSequences!Next
  <2> QED
    BY <2>3, <2>4
<1>19. ASSUME NEW w \in Vectors \ {v}, assign_from(v, w) PROVE Simulates
  <2>1. Puts(mem, vec, str, v, Elements(w), mem', vec', str)
    BY <1>2, <1>19, Assigned
  <2>2. IInv' /\ Contents' = [Contents EXCEPT ![v] = Elements(w)]
    BY <2>1, <1>6
  <2>3. Contents[w] = Elements(w)
    BY VectorSequence
  <2>4. AsSequences!Copy(v, w)
    BY <2>2, <2>3 DEF AsSequences!Copy, AsSequences!Becomes
  <2> QED
    BY <2>2, <2>4 DEF Simulates, AsSequences!Next
<1>20. ASSUME NEW w \in Vectors \ {v}, MoveAssign(v, w) PROVE Simulates
  <2>1. /\ Sound(mem', vec', str)
        /\ All(mem', vec', str) = [All(mem, vec, str) EXCEPT ![v] = Elements(w), ![w] = <<>>]
    BY <1>2, <1>20, Moved
  <2>2. Contents[w] = Elements(w)
    BY VectorSequence
  <2>3. IInv' /\ Contents' = [Contents EXCEPT ![v] = Contents[w], ![w] = <<>>]
    BY <2>1, <2>2, <1>2, ContentsAre DEF IInv
  <2>4. AsSequences!Move(v, w)
    BY <2>3 DEF AsSequences!Move
  <2> QED
    BY <2>3, <2>4 DEF Simulates, AsSequences!Next
<1>21. ASSUME NEW w \in Vectors \ {v}, CopyThrows(Elements(w), VecSize(w)) PROVE Simulates
  <2>1. Elements(w) \in Seq(Values) /\ Len(Elements(w)) = VecSize(w) /\ VecSize(w) \in Nat
    BY VectorSequence
  <2> QED
    BY <2>1, <1>2, <1>7, <1>21, CopyThrown
<1> QED
  BY <1>1, <1>8, <1>9, <1>10, <1>11, <1>12, <1>13, <1>14, <1>15, <1>16, <1>17, <1>18, <1>19,
     <1>20, <1>21

(* The same of every operation on a string.                                *)
LEMMA StringStep ==
  ASSUME IInv, StringNext, UNCHANGED vec
  PROVE  Simulates
<1>1. PICK s \in Strings :
        \/ \E text \in Texts :
             \/ assign(s, text) \/ AssignThrows(s, text) \/ StrConstructAssign(s, text)
             \/ append(s, text) \/ StrReserve(s, Len(text))
        \/ StrClear(s)
        \/ \E u \in Strings \ {s} :
             \/ StrMoveAssign(s, u) \/ StrConstructAssign(s, Text(u))
             \/ assign(s, Text(u)) \/ AssignThrows(s, Text(u))
  BY DEF StringNext
<1>2. Sound(mem, vec, str) /\ vec' = vec
  BY DEF IInv
<1>3. /\ Contents[s] = Text(s) /\ All(mem, vec, str)[s] = Text(s)
      /\ Text(s) \in Seq(Values) /\ Len(Text(s)) = StrSize(s) /\ StrSize(s) \in Nat
  BY StringSequence
<1>4. ASSUME Puts(mem, vec, str, s, Text(s), mem', vec, str') PROVE Simulates
  BY <1>2, <1>3, <1>4, UnchangedSequence DEF Simulates
<1>5. ASSUME NEW t, Puts(mem, vec, str, s, t, mem', vec, str')
      PROVE  IInv' /\ Contents' = [Contents EXCEPT ![s] = t]
  BY <1>2, <1>5, PutsSequence
<1>6. ASSUME NEW text \in Texts PROVE text \in Seq(Values) /\ Len(text) \in Nat
  BY StringAssumption
<1>7. ASSUME NEW text \in Texts, assign(s, text) \/ StrConstructAssign(s, text) PROVE Simulates
  <2>1. Puts(mem, vec, str, s, text, mem', vec, str')
    BY <1>2, <1>6, <1>7, AssignStep, ConstructAssigned
  <2>2. IInv' /\ Contents' = [Contents EXCEPT ![s] = text]
    BY <2>1, <1>5
  <2>3. AsSequences!Assign(s)
    BY <2>2 DEF AsSequences!Assign, AsSequences!Becomes
  <2> QED
    BY <2>2, <2>3 DEF Simulates, AsSequences!Next
<1>8. ASSUME NEW text, AssignThrows(s, text) PROVE Simulates
  BY <1>2, <1>4, <1>8, AssignThrown
<1>9. ASSUME NEW text \in Texts, append(s, text) PROVE Simulates
  <2>1. Puts(mem, vec, str, s, Text(s) \o text, mem', vec, str')
    BY <1>2, <1>6, <1>9, AppendStep
  <2>2. IInv' /\ Contents' = [Contents EXCEPT ![s] = Contents[s] \o text]
    BY <2>1, <1>3, <1>5
  <2>3. AsSequences!Append_(s)
    BY <2>2 DEF AsSequences!Append_, AsSequences!Becomes
  <2> QED
    BY <2>2, <2>3 DEF Simulates, AsSequences!Next
<1>10. ASSUME NEW text \in Texts, StrReserve(s, Len(text)) PROVE Simulates
  BY <1>2, <1>4, <1>6, <1>10, StrReserveStep
<1>11. CASE StrClear(s)
  <2>1. Puts(mem, vec, str, s, <<>>, mem', vec, str')
    BY <1>2, <1>11, ClearStep
  <2>2. IInv' /\ Contents' = [Contents EXCEPT ![s] = <<>>]
    BY <2>1, <1>5
  <2>3. 0 \in 0 .. Len(Contents[s]) /\ SubSeq(Contents[s], 1, 0) = <<>>
    BY <1>3
  <2>4. AsSequences!Truncate(s)
    BY <2>2, <2>3 DEF AsSequences!Truncate, AsSequences!Becomes
  <2> QED
    BY <2>2, <2>4 DEF Simulates, AsSequences!Next
<1>12. ASSUME NEW u \in Strings \ {s}, StrMoveAssign(s, u) PROVE Simulates
  <2>1. /\ Sound(mem', vec, str')
        /\ All(mem', vec, str') = [All(mem, vec, str) EXCEPT ![s] = Text(u), ![u] = <<>>]
    BY <1>2, <1>12, StrMoved
  <2>2. Contents[u] = Text(u)
    BY StringSequence
  <2>3. IInv' /\ Contents' = [Contents EXCEPT ![s] = Contents[u], ![u] = <<>>]
    BY <2>1, <2>2, <1>2, ContentsAre DEF IInv
  <2>4. AsSequences!Move(s, u)
    BY <2>3 DEF AsSequences!Move
  <2> QED
    BY <2>3, <2>4 DEF Simulates, AsSequences!Next
<1>13. ASSUME NEW u \in Strings \ {s}, assign(s, Text(u)) \/ StrConstructAssign(s, Text(u))
       PROVE  Simulates
  <2>1. Contents[u] = Text(u) /\ Text(u) \in Seq(Values)
    BY StringSequence
  <2>2. Puts(mem, vec, str, s, Text(u), mem', vec, str')
    BY <2>1, <1>2, <1>13, AssignStep, ConstructAssigned
  <2>3. IInv' /\ Contents' = [Contents EXCEPT ![s] = Contents[u]]
    BY <2>1, <2>2, <1>5
  <2>4. AsSequences!Copy(s, u)
    BY <2>3 DEF AsSequences!Copy, AsSequences!Becomes
  <2> QED
    BY <2>3, <2>4 DEF Simulates, AsSequences!Next
<1> QED
  BY <1>1, <1>7, <1>8, <1>9, <1>10, <1>11, <1>12, <1>13

----------------------------------------------------------------------------
(* The theorems.                                                           *)

(* A string that was just constructed.                                     *)
LEMMA EmptyString ==
  ASSUME NEW p \in 1 .. Size
  PROVE  /\ ArrayAt(p, 0, 0) \in Triples /\ StringArray(ArrayAt(p, 0, 0))
         /\ StringBlock(ArrayAt(p, 0, 0)) = {<<p, 1>>} /\ SizeOf(ArrayAt(p, 0, 0)) = 0
         /\ \A i \in 1 .. Size : /\ InString(ArrayAt(p, 0, 0), i) <=> i = p
                               /\ ~Holds(ArrayAt(p, 0, 0), i)
<1>0. p \in Nat /\ p # Null /\ 1 <= p /\ p <= Size /\ Size \in Nat
  BY StorageAssumption DEF Null
<1>1. PICK q \in Nat : q = p /\ q # Null /\ 1 <= q /\ q <= Size /\ Size \in Nat
  BY <1>0
<1>2. ArrayAt(p, 0, 0) = [start |-> q, finish |-> q, end |-> q]
  BY <1>1 DEF ArrayAt
<1>3. PICK a : a = ArrayAt(p, 0, 0)
  OBVIOUS
<1>4. a \in Triples /\ a.start = q /\ a.finish = q /\ a.end = q
  BY <1>2, <1>3 DEF Triples
<1>5. StringArray(a) /\ SizeOf(a) = 0
  BY <1>1, <1>4 DEF StringArray, SizeOf
<1>6. StringBlock(a) = {<<q, 1>>}
  BY <1>1, <1>4 DEF StringBlock
<1>7. ASSUME NEW i \in 1 .. Size PROVE (InString(a, i) <=> i = q) /\ ~Holds(a, i)
  BY <1>1, <1>4 DEF InString, Holds
<1> QED
  BY <1>1, <1>3, <1>4, <1>5, <1>6, <1>7

(* The initial state is sound, and everything is empty.                    *)
LEMMA InitStep ==
  ASSUME Init
  PROVE  IInv /\ AsSequences!Init
<1>1. PICK place \in [Strings -> 1 .. Size] :
        /\ \A s, u \in Strings : s # u => place[s] # place[u]
        /\ str = [s \in Strings |-> ArrayAt(place[s], 0, 0)]
        /\ mem = [cell |-> [i \in 1 .. Size |-> IF \E s \in Strings : place[s] = i
                                                THEN Zero ELSE Raw],
                  blocks |-> {<<place[s], 1>> : s \in Strings}]
  BY DEF Init
<1>2. vec = [v \in Vectors |-> NullArray]
  BY DEF Init, VectorInit
<1>3. \A s \in Strings : place[s] \in 1 .. Size /\ str[s] = ArrayAt(place[s], 0, 0)
  BY <1>1
<1>4. \A v \in Vectors : vec[v] = NullArray /\ vec[v].start = Null
  BY <1>2 DEF NullArray
<1>5. /\ \A v \in Vectors, i \in 1 .. Size : ~InVector(vec[v], i) /\ ~Holds(vec[v], i)
      /\ \A v \in Vectors : VectorBlock(vec[v]) = {}
  BY <1>4 DEF InVector, Holds, VectorBlock
<1>6. /\ \A s \in Strings, i \in 1 .. Size : (InString(str[s], i) <=> i = place[s]) /\ ~Holds(str[s], i)
      /\ \A s \in Strings : StringBlock(str[s]) = {<<place[s], 1>>}
  BY <1>3, EmptyString
<1>7. Shapes(vec, str)
  <2>1. NullArray \in Triples /\ VectorArray(NullArray)
    BY DEF NullArray, Null, Triples, VectorArray
  <2>2. vec \in [Vectors -> Triples] /\ \A v \in Vectors : VectorArray(vec[v])
    BY <2>1, <1>2
  <2>3. \A s \in Strings : str[s] \in Triples
    BY <1>3, EmptyString
  <2>4. str \in [Strings -> Triples]
    BY <2>3, <1>1
  <2>5. \A s \in Strings : StringArray(str[s])
    BY <1>3, EmptyString
  <2> QED
    BY <2>2, <2>4, <2>5 DEF Shapes
<1>8. Apart(vec, str)
  BY <1>1, <1>5, <1>6 DEF Apart
<1>9. mem.cell = [i \in 1 .. Size |-> IF \E s \in Strings : place[s] = i THEN Zero ELSE Raw]
      /\ mem.blocks = {<<place[s], 1>> : s \in Strings} /\ Memory(mem)
  BY <1>1 DEF Memory
<1>10. Owned(mem.blocks, vec, str)
  <2>1. \A s \in Strings : <<place[s], 1>> \in StringBlock(str[s]) /\ <<place[s], 1>> \in mem.blocks
    BY <1>6, <1>9
  <2>2. \A s \in Strings : StringBlock(str[s]) \subseteq mem.blocks
    BY <2>1, <1>6
  <2>3. \A b \in mem.blocks : \E s \in Strings : b \in StringBlock(str[s])
    BY <2>1, <1>9
  <2> QED
    BY <2>2, <2>3, <1>5 DEF Owned
<1>11. Filled(mem.cell, vec, str)
  <2>1. mem.cell \in [1 .. Size -> Cells]
    BY <1>9 DEF Cells
  <2> QED
    BY <2>1, <1>5, <1>6, <1>9 DEF Filled
<1>12. IInv
  BY <1>7, <1>8, <1>9, <1>10, <1>11 DEF IInv, Sound, Good
<1>13. Contents = [a \in Vectors \cup Strings |-> <<>>]
  <2>1. \A v \in Vectors : ContentOf(mem.cell, vec[v]) = <<>>
    BY <1>4 DEF ContentOf, SizeOf
  <2>2. \A s \in Strings : SizeOf(str[s]) = 0
    BY <1>3, EmptyString
  <2>3. \A s \in Strings : ContentOf(mem.cell, str[s]) = <<>>
    BY <2>2 DEF ContentOf
  <2>4. All(mem, vec, str) = [a \in Vectors \cup Strings |-> <<>>]
    BY <2>1, <2>3 DEF All
  <2> QED
    BY <2>4, ContentsNow
<1> QED
  BY <1>12, <1>13 DEF AsSequences!Init

(* Every step keeps the invariant and implements a step of the sequences.  *)
LEMMA NextStep ==
  ASSUME IInv, [Next]_vars
  PROVE  IInv' /\ [AsSequences!Next]_Contents
<1>1. CASE Next
  <2>1. Simulates
    BY <1>1, VectorStep, StringStep DEF Next
  <2> QED
    BY <2>1 DEF Simulates
<1>2. CASE UNCHANGED vars
  <2>1. mem' = mem /\ vec' = vec /\ str' = str
    BY <1>2 DEF vars
  <2>2. IInv' /\ Contents' = Contents
    BY <2>1, ContentsAre DEF IInv
  <2> QED
    BY <2>2
<1> QED
  BY <1>1, <1>2

(* Every reachable state is sound: arrays have well-formed blocks of their *)
(* own, and every cell holds what it should.                               *)
THEOREM Invariant == Spec => []IInv
<1>1. Init => IInv
  BY InitStep
<1>2. IInv /\ [Next]_vars => IInv'
  BY NextStep
<1> QED
  BY <1>1, <1>2, PTL DEF Spec

(* Vectors and strings implement sequences: wherever their blocks are,     *)
(* whatever was refused or thrown, an operation changes the contents as    *)
(* AbstractArrays says and touches no other array.                         *)
THEOREM ImplementSequences == Spec => ArraySpec
<1>1. Init => IInv /\ AsSequences!Init
  BY InitStep
<1>2. IInv /\ [Next]_vars => IInv' /\ [AsSequences!Next]_Contents
  BY NextStep
<1> QED
  BY <1>1, <1>2, PTL DEF Spec, ArraySpec, AsSequences!Spec

(* Cells of a block, and of an array within the segment.                   *)
LEMMA CellsOf ==
  ASSUME NEW a \in Triples, a.start # Null
  PROVE  /\ VectorArray(a) => \A i : i \in Span(a.start, a.end - a.start)
                                       <=> i \in 1 .. Size /\ InVector(a, i)
         /\ StringArray(a) => \A i : i \in Span(a.start, a.end - a.start + 1)
                                       <=> i \in 1 .. Size /\ InString(a, i)
         /\ VectorArray(a) => \A i : i \in Span(a.start, a.finish - a.start)
                                       <=> i \in 1 .. Size /\ Holds(a, i)
<1>1. PICK p, f, e \in Nat : p = a.start /\ f = a.finish /\ e = a.end
  BY DEF Triples
<1>2. Size \in Nat
  BY StorageAssumption
<1>3. ASSUME VectorArray(a), NEW i
      PROVE  /\ i \in Span(a.start, a.end - a.start) <=> i \in 1 .. Size /\ InVector(a, i)
             /\ i \in Span(a.start, a.finish - a.start) <=> i \in 1 .. Size /\ Holds(a, i)
  <2>1. 1 <= p /\ p <= f /\ f <= e /\ p < e /\ e <= Size + 1
    BY <1>1, <1>3 DEF VectorArray
  <2>2. /\ i \in p .. p + (e - p) - 1 <=> i \in 1 .. Size /\ p <= i /\ i < e
        /\ i \in p .. p + (f - p) - 1 <=> i \in 1 .. Size /\ p <= i /\ i < f
    BY <2>1, <1>2
  <2> QED
    BY <2>2, <1>1 DEF Span, InVector, Holds
<1>4. ASSUME StringArray(a), NEW i
      PROVE  i \in Span(a.start, a.end - a.start + 1) <=> i \in 1 .. Size /\ InString(a, i)
  <2>1. 1 <= p /\ p <= f /\ f <= e /\ e <= Size
    BY <1>1, <1>4 DEF StringArray
  <2>2. i \in p .. p + (e - p + 1) - 1 <=> i \in 1 .. Size /\ p <= i /\ i <= e
    BY <2>1, <1>2
  <2> QED
    BY <2>2, <1>1 DEF Span, InString
<1> QED
  BY <1>3, <1>4

(* The inductive invariant contains the properties that TLC checks.        *)
LEMMA TypesFollow == IInv => TypeOK
<1> SUFFICES ASSUME IInv PROVE TypeOK
  OBVIOUS
<1>1. Shapes(vec, str) /\ Filled(mem.cell, vec, str)
  BY DEF IInv, Sound, Good
<1>2. mem.cell \in [1 .. Size -> Values \cup {Raw, Zero, Broken}]
  BY <1>1 DEF Filled, Cells
<1>3. ASSUME NEW a \in Triples, VectorArray(a) \/ StringArray(a)
      PROVE  a = NullArray \/ (a.start \in 1 .. Size /\ a.start <= a.finish /\ a.finish <= a.end)
  <2>1. CASE a.start = Null /\ a.finish = Null /\ a.end = Null
    BY <2>1 DEF Triples, NullArray
  <2>2. CASE ~(a.start = Null /\ a.finish = Null /\ a.end = Null)
    BY <2>2, <1>3, StorageAssumption DEF Triples, VectorArray, StringArray
  <2> QED
    BY <2>1, <2>2
<1>4. \A a \in {vec[v] : v \in Vectors} \cup {str[s] : s \in Strings} :
        a \in Triples /\ (VectorArray(a) \/ StringArray(a))
  BY <1>1 DEF Shapes
<1> QED
  BY <1>2, <1>3, <1>4 DEF TypeOK

(* The block of an array, as VectorBlocks and StringBlocks have it.        *)
LEMMA BlocksAre ==
  ASSUME IInv
  PROVE  mem.blocks = VectorBlocks \cup StringBlocks
<1>1. Owned(mem.blocks, vec, str)
  BY DEF IInv, Sound, Good
<1>2. \A b : b \in VectorBlocks <=> \E v \in Vectors : b \in VectorBlock(vec[v])
  BY DEF VectorBlocks, VectorBlock, VecCapacity, CapacityOf
<1>3. \A b : b \in StringBlocks <=> \E s \in Strings : b \in StringBlock(str[s])
  BY DEF StringBlocks, StringBlock, CapacityOf
<1> QED
  BY <1>1, <1>2, <1>3 DEF Owned

(* Who owns a block, and its cells.                                        *)
LEMMA Owners ==
  ASSUME IInv, NEW b \in mem.blocks
  PROVE  \/ \E v \in Vectors :
              /\ vec[v].start # Null /\ b = <<vec[v].start, vec[v].end - vec[v].start>>
              /\ \A i : i \in Span(b[1], b[2]) <=> i \in 1 .. Size /\ InVector(vec[v], i)
         \/ \E s \in Strings :
              /\ str[s].start # Null /\ b = <<str[s].start, str[s].end - str[s].start + 1>>
              /\ \A i : i \in Span(b[1], b[2]) <=> i \in 1 .. Size /\ InString(str[s], i)
<1>1. Owned(mem.blocks, vec, str) /\ Shapes(vec, str)
  BY DEF IInv, Sound, Good
<1>2. CASE \E v \in Vectors : b \in VectorBlock(vec[v])
  <2>1. PICK v \in Vectors : b \in VectorBlock(vec[v])
    BY <1>2
  <2>2. vec[v].start # Null /\ b = <<vec[v].start, vec[v].end - vec[v].start>>
    BY <2>1 DEF VectorBlock
  <2>3. \A i : i \in Span(vec[v].start, vec[v].end - vec[v].start)
                 <=> i \in 1 .. Size /\ InVector(vec[v], i)
    BY <2>2, <1>1, CellsOf DEF Shapes
  <2>4. b[1] = vec[v].start /\ b[2] = vec[v].end - vec[v].start
    BY <2>2
  <2> QED
    BY <2>2, <2>3, <2>4
<1>3. CASE \E s \in Strings : b \in StringBlock(str[s])
  <2>1. PICK s \in Strings : b \in StringBlock(str[s])
    BY <1>3
  <2>2. str[s].start # Null /\ b = <<str[s].start, str[s].end - str[s].start + 1>>
    BY <2>1 DEF StringBlock
  <2>3. \A i : i \in Span(str[s].start, str[s].end - str[s].start + 1)
                 <=> i \in 1 .. Size /\ InString(str[s], i)
    BY <2>2, <1>1, CellsOf DEF Shapes
  <2>4. b[1] = str[s].start /\ b[2] = str[s].end - str[s].start + 1
    BY <2>2
  <2> QED
    BY <2>2, <2>3, <2>4
<1> QED
  BY <1>1, <1>2, <1>3 DEF Owned

(* The first cell of an array is its own.                                  *)
LEMMA FirstCell ==
  ASSUME IInv
  PROVE  /\ \A v \in Vectors : vec[v].start # Null =>
              vec[v].start \in 1 .. Size /\ InVector(vec[v], vec[v].start)
         /\ \A s \in Strings : str[s].start # Null =>
              str[s].start \in 1 .. Size /\ InString(str[s], str[s].start)
<1>1. Shapes(vec, str) /\ Size \in Nat
  BY StorageAssumption DEF IInv, Sound, Good
<1>2. ASSUME NEW a \in Triples, a.start # Null
      PROVE  /\ VectorArray(a) => a.start \in 1 .. Size /\ InVector(a, a.start)
             /\ StringArray(a) => a.start \in 1 .. Size /\ InString(a, a.start)
  BY <1>1, <1>2 DEF Triples, VectorArray, StringArray, InVector, InString
<1> QED
  BY <1>1, <1>2 DEF Shapes

(* The blocks are owned, each by one array.                                *)
LEMMA BlocksFollow == IInv => BlocksOwned
<1> SUFFICES ASSUME IInv PROVE BlocksOwned
  OBVIOUS
<1>1. Apart(vec, str)
  BY DEF IInv, Sound, Good
<1>2. ASSUME NEW b \in mem.blocks, NEW c \in mem.blocks, b # c
      PROVE  Span(b[1], b[2]) \cap Span(c[1], c[2]) = {}
  <2> SUFFICES ASSUME NEW i, i \in Span(b[1], b[2]), i \in Span(c[1], c[2]) PROVE FALSE
    OBVIOUS
  <2>1. \/ \E v \in Vectors : /\ b = <<vec[v].start, vec[v].end - vec[v].start>>
                              /\ i \in 1 .. Size /\ InVector(vec[v], i)
        \/ \E s \in Strings : /\ b = <<str[s].start, str[s].end - str[s].start + 1>>
                              /\ i \in 1 .. Size /\ InString(str[s], i)
    BY Owners
  <2>2. \/ \E v \in Vectors : /\ c = <<vec[v].start, vec[v].end - vec[v].start>>
                              /\ i \in 1 .. Size /\ InVector(vec[v], i)
        \/ \E s \in Strings : /\ c = <<str[s].start, str[s].end - str[s].start + 1>>
                              /\ i \in 1 .. Size /\ InString(str[s], i)
    BY Owners
  <2> QED
    BY <2>1, <2>2, <1>1, <1>2 DEF Apart
<1>3. /\ \A v, w \in Vectors : vec[v].start = vec[w].start => v = w \/ vec[v].start = Null
      /\ \A s, u \in Strings : str[s].start = str[u].start => s = u \/ str[s].start = Null
      /\ \A v \in Vectors, s \in Strings : vec[v].start = str[s].start => vec[v].start = Null
  BY <1>1, FirstCell DEF Apart
<1> QED
  BY <1>2, <1>3, BlocksAre DEF BlocksOwned

(* The objects outside of strings are exactly the elements of vectors.     *)
LEMMA LifetimesFollow == IInv => LifetimesExact
<1> SUFFICES ASSUME IInv, NEW i \in (1 .. Size) \ StringCells
             PROVE  /\ mem.cell[i] \in Values \cup {Raw}
                    /\ mem.cell[i] \in Values <=> i \in VectorCells
  BY DEF LifetimesExact
<1>1. Shapes(vec, str) /\ Filled(mem.cell, vec, str)
  BY DEF IInv, Sound, Good
<1>2. ASSUME NEW s \in Strings PROVE ~InString(str[s], i)
  <2> SUFFICES ASSUME InString(str[s], i) PROVE FALSE
    OBVIOUS
  <2>1. str[s].start # Null /\ str[s] \in Triples /\ StringArray(str[s])
    BY <1>1 DEF InString, Shapes
  <2>2. i \in Span(str[s].start, str[s].end - str[s].start + 1)
    BY <2>1, CellsOf
  <2>3. PICK b : b = <<str[s].start, str[s].end - str[s].start + 1>>
    OBVIOUS
  <2>4. b \in StringBlocks
    BY <2>1, <2>3 DEF StringBlocks, CapacityOf
  <2>5. b[1] = str[s].start /\ b[2] = str[s].end - str[s].start + 1
    BY <2>3
  <2> QED
    BY <2>2, <2>4, <2>5 DEF StringCells
<1>3. i \in VectorCells <=> \E v \in Vectors : Holds(vec[v], i)
  <2>1. ASSUME NEW v \in Vectors
        PROVE  i \in Span(vec[v].start, VecSize(v)) <=> Holds(vec[v], i)
    <3>1. CASE vec[v].start = Null
      <4>1. Span(Null, 0) = {}
        BY DEF Span, Null
      <4> QED
        BY <3>1, <4>1 DEF VecSize, SizeOf, Holds
    <3>2. CASE vec[v].start # Null
      <4>1. VecSize(v) = vec[v].finish - vec[v].start /\ vec[v] \in Triples /\ VectorArray(vec[v])
        BY <3>2, <1>1 DEF VecSize, SizeOf, Shapes
      <4> QED
        BY <3>2, <4>1, CellsOf
    <3> QED
      BY <3>1, <3>2
  <2> QED
    BY <2>1 DEF VectorCells
<1>4. Raw \notin Values
  BY StorageAssumption
<1> QED
  BY <1>1, <1>2, <1>3, <1>4 DEF Filled

(* Every string with a block ends with CharT(0).                           *)
LEMMA TerminationFollows == IInv => StringsTerminated
<1> SUFFICES ASSUME IInv, NEW s \in Strings, str[s].start # Null
             PROVE  /\ str[s].finish \in Span(str[s].start, CapacityOf(str[s]) + 1)
                    /\ <<str[s].start, CapacityOf(str[s]) + 1>> \in mem.blocks
                    /\ mem.cell[str[s].finish] = Zero
                    /\ \A i \in 1 .. StrSize(s) : Text(s)[i] \in Values
  BY DEF StringsTerminated
<1>1. /\ str[s] \in Triples /\ StringArray(str[s])
      /\ Owned(mem.blocks, vec, str) /\ Filled(mem.cell, vec, str)
  BY DEF IInv, Sound, Good, Shapes
<1>2. CapacityOf(str[s]) = str[s].end - str[s].start
  BY DEF CapacityOf
<1>3. str[s].finish \in 1 .. Size /\ InString(str[s], str[s].finish)
  BY <1>1, StorageAssumption DEF Triples, StringArray, InString
<1>4. str[s].finish \in Span(str[s].start, CapacityOf(str[s]) + 1)
  BY <1>1, <1>2, <1>3, CellsOf
<1>5. <<str[s].start, CapacityOf(str[s]) + 1>> \in mem.blocks
  BY <1>1, <1>2 DEF Owned, StringBlock
<1>6. mem.cell[str[s].finish] = Zero
  BY <1>1, <1>3 DEF Filled
<1>7. Text(s) \in Seq(Values) /\ Len(Text(s)) = StrSize(s)
  BY StringSequence
<1>8. \A i \in 1 .. StrSize(s) : Text(s)[i] \in Values
  BY <1>7, ElementOfSeq
<1> QED
  BY <1>4, <1>5, <1>6, <1>8

(* Blocks are owned once and given back once, and the objects in them are  *)
(* exactly the elements, whichever allocation fails or constructor throws. *)
THEOREM ArraysCorrect == Spec => []ArrayInv
<1>1. IInv => ArrayInv
  BY TypesFollow, BlocksFollow, LifetimesFollow DEF ArrayInv
<1> QED
  BY <1>1, Invariant, PTL

(* c_str() always ends with CharT(0), in the block and behind the text.    *)
THEOREM TextsTerminated == Spec => []StringsTerminated
  BY TerminationFollows, Invariant, PTL
=============================================================================
