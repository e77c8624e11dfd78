------------------------------- MODULE Arrays -------------------------------
(***************************************************************************)
(* Vectors and strings in one segment.  Each grows in place or moves       *)
(* depending on what the others have left free around its block.           *)
(***************************************************************************)
EXTENDS Vector, String

ASSUME ArraysAssumption == Vectors \cap Strings = {}

vars == <<mem, vec, str>>

(* Every string starts with a block for CharT(0), where allocate chose it. *)
Init ==
  /\ VectorInit
  /\ \E place \in [Strings -> 1 .. Size] :
       /\ \A s, u \in Strings : s # u => place[s] # place[u]
       /\ str = [s \in Strings |-> ArrayAt(place[s], 0, 0)]
       /\ mem = [cell |-> [i \in 1 .. Size |-> IF \E s \in Strings : place[s] = i
                                               THEN Zero ELSE Raw],
                 blocks |-> {<<place[s], 1>> : s \in Strings}]

Next ==
  \/ VectorNext /\ UNCHANGED str
  \/ StringNext /\ UNCHANGED vec

Spec == Init /\ [][Next]_vars

----------------------------------------------------------------------------
(* Properties                                                              *)

(* Every variable has its type.                                            *)
TypeOK ==
  /\ mem.cell \in [1 .. Size -> Values \cup {Raw, Zero, Broken}]
  /\ \A a \in {vec[v] : v \in Vectors} \cup {str[s] : s \in Strings} :
       a = NullArray \/ (a.start \in 1 .. Size /\ a.start <= a.finish /\ a.finish <= a.end)

(* The allocated blocks are exactly those of the arrays, each the only     *)
(* owner of its own, so that none leaks and none is given back twice.      *)
BlocksOwned ==
  /\ mem.blocks = VectorBlocks \cup StringBlocks
  /\ \A b, c \in mem.blocks : b # c => Span(b[1], b[2]) \cap Span(c[1], c[2]) = {}
  /\ \A v, w \in Vectors : vec[v].start = vec[w].start => v = w \/ vec[v].start = Null
  /\ \A s, u \in Strings : str[s].start = str[u].start => s = u \/ str[s].start = Null
  /\ \A v \in Vectors, s \in Strings : vec[v].start = str[s].start => vec[v].start = Null

(* The constructed objects are exactly the elements from start to finish:  *)
(* nothing is constructed over an element, read or destroyed before it was *)
(* constructed, or left behind, whichever constructor throws.              *)
LifetimesExact ==
  \A i \in (1 .. Size) \ StringCells :
    /\ mem.cell[i] \in Values \cup {Raw}
    /\ mem.cell[i] \in Values <=> i \in VectorCells

(* What every operation keeps of the arrays.                               *)
ArrayInv == TypeOK /\ BlocksOwned /\ LifetimesExact

(* c_str() of a string that has a block ends with CharT(0) within it, and  *)
(* not before the end of the text.                                         *)
StringsTerminated ==
  \A s \in Strings :
    str[s].start # Null =>
      /\ str[s].finish \in Span(str[s].start, CapacityOf(str[s]) + 1)
      /\ <<str[s].start, CapacityOf(str[s]) + 1>> \in mem.blocks
      /\ mem.cell[str[s].finish] = Zero
      /\ \A i \in 1 .. StrSize(s) : Text(s)[i] \in Values

Contents ==
  [a \in Vectors \cup Strings |-> IF a \in Vectors THEN Elements(a) ELSE Text(a)]

(* Vectors and strings implement sequences: growing in place, moving and   *)
(* failing do not show, and no operation on one changes another.           *)
AsSequences == INSTANCE AbstractArrays WITH content <- Contents
ArraySpec == AsSequences!Spec
=============================================================================
