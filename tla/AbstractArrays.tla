--------------------------- MODULE AbstractArrays ---------------------------
(***************************************************************************)
(* What SharedMemoryVector and SharedMemoryString promise: sequences.      *)
(* With one exception (an assignment that throws within erase) an          *)
(* operation that fails leaves its sequence as it was.                     *)
(***************************************************************************)
EXTENDS Integers, Sequences

CONSTANTS Vectors, Strings, Values, Texts

VARIABLE content

Becomes(a, s) == content' = [content EXCEPT ![a] = s]

(* push_back, and resize to a larger size.                                 *)
Extend(v) ==
  \E x \in Values :
    LET d == Len(content'[v]) - Len(content[v])
    IN  d > 0 /\ Becomes(v, content[v] \o [i \in 1 .. d |-> x])

(* pop_back, clear, and resize to a smaller size.                          *)
Truncate(a) == \E n \in 0 .. Len(content[a]) : Becomes(a, SubSeq(content[a], 1, n))

(* erase of position i, complete or cut short after n assignments.         *)
Erase(v) ==
  \E i \in 1 .. Len(content[v]) :
    LET s == content[v]
        Shifted(n) == [j \in 1 .. Len(s) |-> IF j \in i .. i + n - 1 THEN s[j + 1] ELSE s[j]]
    IN  \/ Becomes(v, SubSeq(s, 1, i - 1) \o SubSeq(s, i + 1, Len(s)))
        \/ \E n \in 1 .. Len(s) - i : Becomes(v, Shifted(n))

Assign(s) == \E text \in Texts : Becomes(s, text)
Append_(s) == \E text \in Texts : Becomes(s, content[s] \o text)

(* Between two vectors or two strings.                                     *)
Copy(a, b) == Becomes(a, content[b])
Move(a, b) == content' = [content EXCEPT ![a] = content[b], ![b] = <<>>]

Init == content = [a \in Vectors \cup Strings |-> <<>>]

Next ==
  \/ \E v \in Vectors :
       \/ Extend(v) \/ Truncate(v) \/ Erase(v)
       \/ \E w \in Vectors : Copy(v, w) \/ Move(v, w)
  \/ \E s \in Strings :
       \/ Assign(s) \/ Append_(s) \/ Truncate(s)
       \/ \E u \in Strings : Copy(s, u) \/ Move(s, u)

Spec == Init /\ [][Next]_content
=============================================================================
