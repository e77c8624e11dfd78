---------------------------- MODULE AbstractLists ----------------------------
(***************************************************************************)
(* What SharedMemoryList promises: sequences of elements.  An element is a *)
(* pair of the node that holds it and its value.  The node is what an      *)
(* iterator points to, so that an operation which keeps an element keeps   *)
(* the iterators to it valid, also when the element changes its list.      *)
(***************************************************************************)
EXTENDS Integers, Sequences, FiniteSets, SequencesExt

CONSTANTS
  Lists,
  Values,
  Rank,    (* the order by which lists are sorted and merged               *)
  Inputs   (* the sequences of values that are inserted or assigned        *)

VARIABLE content

ValuesOf(s) == [i \in 1 .. Len(s) |-> s[i][2]]
NodesOf(s) == {s[i][1] : i \in 1 .. Len(s)}

(* No element is there twice, and none is in one of the lists.             *)
Apart(t, lists) ==
  /\ \A i, j \in 1 .. Len(t) : t[i][1] = t[j][1] => i = j
  /\ \A m \in lists : NodesOf(t) \cap NodesOf(content[m]) = {}

(* t holds the elements that s has in the places of P, in their order.     *)
Keeps(t, s, P) ==
  /\ Len(t) = Cardinality(P)
  /\ ToSet(t) = {s[i] : i \in P}
  /\ \A a, b \in 1 .. Len(t) :
       a < b => \E i, j \in P : i < j /\ t[a] = s[i] /\ t[b] = s[j]

Cut(s, i, j) == SubSeq(s, 1, i) \o SubSeq(s, j + 1, Len(s))
Paste(s, i, t) == SubSeq(s, 1, i) \o t \o SubSeq(s, i + 1, Len(s))

(* t is what a call that was given some input, or a count and a value, may *)
(* have made of it: the whole, or a part if it threw.                      *)
FromInput(t) ==
  \/ \E vals \in Inputs : IsPrefix(ValuesOf(t), vals)
  \/ \E v \in Values : ValuesOf(t) = [i \in 1 .. Len(t) |-> v]

Only(l) == \A m \in Lists \ {l} : content'[m] = content[m]
Becomes(l, s) == content' = [content EXCEPT ![l] = s]

(* l keeps the elements in the places of P.                                *)
Left(l, P) ==
  /\ Only(l)
  /\ \E s \in {content[l]}, t \in {content'[l]} : Keeps(t, s, P)

(* insert and emplace, resize to a larger size: the new elements come one  *)
(* after the other, in nodes that no element had.                          *)
Insert(l) ==
  \E i \in 0 .. Len(content[l]) :
    LET new == SubSeq(content'[l], i + 1, i + Len(content'[l]) - Len(content[l]))
    IN  /\ content'[l] = Paste(content[l], i, new)
        /\ FromInput(new)
        /\ Apart(new, Lists)
        /\ Only(l)

(* assign: the elements are replaced.                                      *)
Assign(l) == FromInput(content'[l]) /\ Apart(content'[l], Lists \ {l}) /\ Only(l)

(* erase, pop_front, pop_back, clear, resize to a smaller size: the        *)
(* elements in the places above i and up to j go.                          *)
Erase(l) ==
  \E j \in 0 .. Len(content[l]) : \E i \in 0 .. j :
    Left(l, (1 .. Len(content[l])) \ (i + 1 .. j))

(* remove and remove_if; the predicate may throw after the first i.        *)
RemoveIf(l) ==
  \E P \in SUBSET Values, i \in 0 .. Len(content[l]) :
    LET s == content[l]
    IN  Left(l, {j \in 1 .. Len(s) : j > i \/ s[j][2] \notin P})

(* unique: of a run of equal elements the first stays.                     *)
Unique(l) ==
  \E i \in 0 .. Len(content[l]) :
    LET s == content[l]
    IN  Left(l, {j \in 1 .. Len(s) : j = 1 \/ j > i \/ s[j][2] # s[j - 1][2]})

(* s arranged by rank; elements of the same rank keep their order.         *)
IsStableSort(t, s) ==
  /\ Len(t) = Len(s)
  /\ ToSet(t) = ToSet(s)
  /\ \A i, j \in 1 .. Len(t) :
       i < j =>
         \/ Rank[t[i][2]] < Rank[t[j][2]]
         \/ /\ Rank[t[i][2]] = Rank[t[j][2]]
            /\ \E a, b \in 1 .. Len(s) : a < b /\ s[a] = t[i] /\ s[b] = t[j]

Sort(l) == IsStableSort(content'[l], content[l]) /\ Only(l)

(* merge leaves the elements of l before those of m of the same rank.      *)
Merge(l, m) ==
  /\ l # m
  /\ IsStableSort(content'[l], content[l] \o content[m])
  /\ content'[m] = <<>>
  /\ \A o \in Lists \ {l, m} : content'[o] = content[o]

(* splice of one element, a range or all, from another list or within one. *)
Splice(l, m) ==
  \E j \in 1 .. Len(content[m]) : \E i \in 0 .. j - 1 :
    IF l = m
    THEN \E k \in 0 .. Len(content[l]) - (j - i) :
           Becomes(l, Paste(Cut(content[l], i, j), k, SubSeq(content[l], i + 1, j)))
    ELSE \E k \in 0 .. Len(content[l]) :
           content' = [content EXCEPT ![l] = Paste(content[l], k, SubSeq(content[m], i + 1, j)),
                                      ![m] = Cut(content[m], i, j)]

(* Move assignment, and a swap.                                            *)
Move(l, m) == l # m /\ content' = [content EXCEPT ![l] = content[m], ![m] = <<>>]
Swap(l, m) == content' = [content EXCEPT ![l] = content[m], ![m] = content[l]]

(* Copy assignment: the same values in nodes that no element had.          *)
Copy(l, m) ==
  /\ ValuesOf(content'[l]) = ValuesOf(content[m])
  /\ Apart(content'[l], Lists)
  /\ Only(l)

Init == content = [l \in Lists |-> <<>>]

Next ==
  \E l \in Lists :
    \/ Insert(l) \/ Assign(l) \/ Erase(l) \/ RemoveIf(l) \/ Unique(l) \/ Sort(l)
    \/ Becomes(l, Reverse(content[l]))
    \/ \E m \in Lists :
         Merge(l, m) \/ Splice(l, m) \/ Move(l, m) \/ Swap(l, m) \/ Copy(l, m)

Spec == Init /\ [][Next]_content
=============================================================================
