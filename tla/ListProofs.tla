----------------------------- MODULE ListProofs -----------------------------
(***************************************************************************)
(* Proofs about List for any lists and values, any number of node          *)
(* storages, any order of the values and any ranges that are inserted.     *)
(*                                                                         *)
(* A state is sound with sequences W of the nodes that the lists link, F   *)
(* of those that their pools cache, and a home H of every node: each list  *)
(* is a ring of its sequence, and each node has one home.  The first part  *)
(* is about rings and sequences, the next about each operation on them;    *)
(* then every action of List leads from a sound state to a sound one, and  *)
(* at last to what AbstractLists says of it.                               *)
(***************************************************************************)
EXTENDS List, SequenceTheorems, FiniteSetTheorems, WellFoundedInduction, TLAPS

----------------------------------------------------------------------------
(* Rings                                                                   *)

(* The elements of a sequence, and whether no two of its places share one. *)
Elements(w) == {w[i] : i \in 1 .. Len(w)}
Distinct(w) == \A i, j \in 1 .. Len(w) : w[i] = w[j] => i = j

(* The base node in place i of the ring of l: its sentinel is in front of  *)
(* the first node and behind the last.                                     *)
Place(l, w, i) == IF i \in 1 .. Len(w) THEN w[i] ELSE l

(* w is linked both ways between the two ends of the sentinel of l.        *)
IsRing(r, l, w) ==
  /\ Distinct(w)
  /\ \A i \in 0 .. Len(w) : /\ r.next[Place(l, w, i)] = Place(l, w, i + 1)
                            /\ r.prev[Place(l, w, i + 1)] = Place(l, w, i)

(* c is linked both ways within.                                           *)
IsChain(r, c) ==
  /\ Distinct(c)
  /\ \A i \in 1 .. Len(c) - 1 : r.next[c[i]] = c[i + 1] /\ r.prev[c[i + 1]] = c[i]

(* Links between base nodes, and a sequence of nodes for every sentinel.   *)
RingShape == [next : [BaseNodes -> BaseNodes], prev : [BaseNodes -> BaseNodes]]
Sequences == [Sentinels -> Seq(Nodes)]

(* Every list l is a ring of W[l], and no node is in two of them.          *)
Rings(r, W) ==
  /\ r \in RingShape
  /\ W \in Sequences
  /\ \A l \in Sentinels : IsRing(r, l, W[l])
  /\ \A l, m \in Sentinels : l # m => Elements(W[l]) \cap Elements(W[m]) = {}

(* The nodes of c are in no list.                                          *)
Loose(c, W) == \A l \in Sentinels : Elements(c) \cap Elements(W[l]) = {}

(* w without the places from i up to the one before j.                     *)
CutOut(w, i, j) == [p \in 1 .. Len(w) - (j - i) |-> IF p < i THEN w[p] ELSE w[p + (j - i)]]

(* w with c behind the first k.                                            *)
Pasted(w, k, c) ==
  [p \in 1 .. Len(w) + Len(c) |->
     IF p <= k THEN w[p] ELSE IF p <= k + Len(c) THEN c[p - k] ELSE w[p - Len(c)]]

(* A nonempty set of natural numbers has a least element.                  *)
LEMMA LeastExists ==
  ASSUME NEW S \in SUBSET Nat, S # {}
  PROVE  \E x \in S : \A y \in S : x <= y
<1>1. PICK x \in S : \A y \in S : ~(<<y, x>> \in OpToRel(<, Nat))
  BY NatLessThanWellFounded, WFMin, Zenon
<1>2. OpToRel(<, Nat) = {ss \in Nat \X Nat : ss[1] < ss[2]}
  BY DEF OpToRel
<1>3. ASSUME NEW y \in S, y < x PROVE FALSE
  <2>1. <<y, x>> \in Nat \X Nat /\ <<y, x>>[1] < <<y, x>>[2]
    BY <1>3
  <2> QED
    BY <2>1, <1>1, <1>2, Zenon
<1> QED
  BY <1>3

(* A sentinel is no node.                                                  *)
LEMMA SentinelsApart ==
  /\ Sentinels \cap Nodes = {} /\ Sentinels \subseteq BaseNodes /\ Nodes \subseteq BaseNodes
  /\ IsFiniteSet(Nodes) /\ Nodes \subseteq Nat
  BY ListAssumption DEF Sentinels, BaseNodes

(* A place of a ring is a node of the list or its sentinel.                *)
LEMMA PlaceType ==
  ASSUME NEW l \in Sentinels, NEW w \in Seq(Nodes), NEW i \in Int
  PROVE  /\ Place(l, w, i) \in BaseNodes
         /\ i \in 1 .. Len(w) => Place(l, w, i) = w[i] /\ w[i] \in Nodes /\ w[i] \in Elements(w)
         /\ i \notin 1 .. Len(w) => Place(l, w, i) = l
<1>1. i \in 1 .. Len(w) => w[i] \in Nodes
  OBVIOUS
<1>2. i \in 1 .. Len(w) => w[i] \in Elements(w)
  BY DEF Elements
<1> QED
  BY <1>1, <1>2, SentinelsApart DEF Place

(* Going round, no base node comes twice.                                  *)
LEMMA PlaceInjective ==
  ASSUME NEW l \in Sentinels, NEW w \in Seq(Nodes), Distinct(w)
  PROVE  /\ \A i, j \in 0 .. Len(w) : Place(l, w, i) = Place(l, w, j) => i = j
         /\ \A i, j \in 1 .. Len(w) + 1 : Place(l, w, i) = Place(l, w, j) => i = j
<1>0. Len(w) \in Nat
  OBVIOUS
<1>1. ASSUME NEW i \in 1 .. Len(w), NEW j \in 0 .. Len(w) + 1, Place(l, w, i) = Place(l, w, j)
      PROVE  i = j
  <2>1. Place(l, w, i) = w[i] /\ w[i] \in Nodes /\ l \notin Nodes
    BY PlaceType, SentinelsApart
  <2>2. j \in 1 .. Len(w)
    BY <1>0, <1>1, <2>1 DEF Place
  <2>3. Place(l, w, j) = w[j]
    BY <2>2 DEF Place
  <2> QED
    BY <1>1, <2>1, <2>2, <2>3 DEF Distinct
<1> QED
  BY <1>0, <1>1

(* A ring is not disturbed by what happens to other base nodes.            *)
LEMMA RingFrame ==
  ASSUME NEW r, NEW q, NEW l \in Sentinels, NEW w \in Seq(Nodes), IsRing(r, l, w),
         \A n \in Elements(w) \cup {l} : q.next[n] = r.next[n] /\ q.prev[n] = r.prev[n]
  PROVE  IsRing(q, l, w)
<1>0. Len(w) \in Nat
  OBVIOUS
<1>1. \A i \in 0 .. Len(w) + 1 : Place(l, w, i) \in Elements(w) \cup {l}
  BY <1>0, PlaceType
<1>2. ASSUME NEW i \in 0 .. Len(w)
      PROVE  /\ q.next[Place(l, w, i)] = Place(l, w, i + 1)
             /\ q.prev[Place(l, w, i + 1)] = Place(l, w, i)
  <2>1. i \in 0 .. Len(w) + 1 /\ i + 1 \in 0 .. Len(w) + 1
    BY <1>0
  <2>2. /\ r.next[Place(l, w, i)] = Place(l, w, i + 1)
        /\ r.prev[Place(l, w, i + 1)] = Place(l, w, i)
    BY DEF IsRing
  <2> QED
    BY <1>1, <2>1, <2>2
<1> QED
  BY <1>2 DEF IsRing

(* What is known of the rings of two lists: they share no base node.       *)
LEMMA RingsApart ==
  ASSUME NEW r, NEW W, Rings(r, W), NEW l \in Sentinels, NEW m \in Sentinels, l # m
  PROVE  /\ W[l] \in Seq(Nodes) /\ W[m] \in Seq(Nodes)
         /\ (Elements(W[l]) \cup {l}) \cap (Elements(W[m]) \cup {m}) = {}
<1>1. W[l] \in Seq(Nodes) /\ W[m] \in Seq(Nodes)
  BY DEF Rings, Sequences
<1>2. Elements(W[l]) \subseteq Nodes /\ Elements(W[m]) \subseteq Nodes
  BY <1>1 DEF Elements
<1>3. Elements(W[l]) \cap Elements(W[m]) = {}
  BY DEF Rings
<1> QED
  BY <1>1, <1>2, <1>3, SentinelsApart

(* To show that all lists are rings again after one of them has changed.   *)
LEMMA RingsReplaced ==
  ASSUME NEW r, NEW W, Rings(r, W), NEW l \in Sentinels, NEW w \in Seq(Nodes),
         NEW q \in RingShape, IsRing(q, l, w),
         \A m \in Sentinels \ {l} : Elements(w) \cap Elements(W[m]) = {},
         \A m \in Sentinels \ {l} : \A n \in Elements(W[m]) \cup {m} :
           q.next[n] = r.next[n] /\ q.prev[n] = r.prev[n]
  PROVE  Rings(q, [W EXCEPT ![l] = w])
<1> DEFINE V == [W EXCEPT ![l] = w]
<1>1. W \in Sequences
  BY DEF Rings
<1>2. V \in Sequences /\ V[l] = w /\ \A m \in Sentinels \ {l} : V[m] = W[m]
  BY <1>1 DEF Sequences
<1> HIDE DEF V
<1>3. ASSUME NEW m \in Sentinels PROVE IsRing(q, m, V[m])
  <2>1. CASE m = l
    BY <2>1, <1>2
  <2>2. CASE m # l
    <3>1. IsRing(r, m, W[m]) /\ W[m] \in Seq(Nodes)
      BY <1>1 DEF Rings, Sequences
    <3>2. \A n \in Elements(W[m]) \cup {m} : q.next[n] = r.next[n] /\ q.prev[n] = r.prev[n]
      BY <2>2
    <3>3. IsRing(q, m, W[m])
      BY <3>1, <3>2, RingFrame
    <3> QED
      BY <2>2, <3>3, <1>2
  <2> QED
    BY <2>1, <2>2
<1>4. ASSUME NEW m \in Sentinels, NEW o \in Sentinels, m # o
      PROVE  Elements(V[m]) \cap Elements(V[o]) = {}
  <2>1. Elements(W[m]) \cap Elements(W[o]) = {}
    BY <1>4 DEF Rings
  <2> QED
    BY <1>2, <1>4, <2>1
<1>5. Rings(q, V)
  BY <1>2, <1>3, <1>4 DEF Rings
<1> QED
  BY <1>5 DEF V

(* The sequence with a part cut out.                                       *)
LEMMA CutFacts ==
  ASSUME NEW l \in Sentinels, NEW w \in Seq(Nodes), Distinct(w),
         NEW i \in 1 .. Len(w), NEW j \in i + 1 .. Len(w) + 1
  PROVE  LET v == CutOut(w, i, j)
         IN  /\ v \in Seq(Nodes) /\ Len(v) = Len(w) - (j - i) /\ Len(v) \in Nat
             /\ Distinct(v)
             /\ \A p \in 0 .. Len(v) + 1 :
                  Place(l, v, p) = Place(l, w, IF p < i THEN p ELSE p + (j - i))
             /\ Elements(v) = {w[p] : p \in 1 .. Len(w) \ i .. j - 1}
<1> DEFINE v == CutOut(w, i, j)
<1>0. Len(w) \in Nat /\ i \in Nat /\ j \in Nat /\ i >= 1 /\ i < j /\ j <= Len(w) + 1
  OBVIOUS
<1>a. PICK L \in Nat : L = Len(w)
  BY <1>0
<1>b. PICK d \in Nat : d = j - i /\ d <= L /\ d >= 1
  BY <1>0, <1>a
<1>1. v = [p \in 1 .. L - d |-> IF p < i THEN w[p] ELSE w[p + d]]
  BY <1>a, <1>b DEF CutOut
<1>2. \A p \in 1 .. L - d : (IF p < i THEN w[p] ELSE w[p + d]) \in Nodes
  BY <1>0, <1>a, <1>b
<1>3. v \in Seq(Nodes) /\ Len(v) = L - d /\ L - d \in Nat
  BY <1>1, <1>2, <1>b
<1>4. \A p \in 1 .. L - d : v[p] = IF p < i THEN w[p] ELSE w[p + d]
  BY <1>1
<1> HIDE DEF v
<1>5. Distinct(v)
  <2> SUFFICES ASSUME NEW p \in 1 .. L - d, NEW q \in 1 .. L - d, v[p] = v[q] PROVE p = q
    BY <1>3 DEF Distinct
  <2>1. PICK x \in 1 .. L : v[p] = w[x] /\ x = IF p < i THEN p ELSE p + d
    BY <1>0, <1>b, <1>4
  <2>2. PICK y \in 1 .. L : v[q] = w[y] /\ y = IF q < i THEN q ELSE q + d
    BY <1>0, <1>b, <1>4
  <2>3. x = y
    BY <2>1, <2>2, <1>a DEF Distinct
  <2> QED
    BY <2>1, <2>2, <2>3, <1>0, <1>b
<1>6. ASSUME NEW p \in 0 .. Len(v) + 1
      PROVE  Place(l, v, p) = Place(l, w, IF p < i THEN p ELSE p + (j - i))
  <2>0. p \in 0 .. L - d + 1
    BY <1>3
  <2>1. CASE p \in 1 .. L - d
    BY <2>1, <1>0, <1>3, <1>4, <1>a, <1>b, SMTT(20) DEF Place
  <2>2. CASE p = 0
    BY <2>2, <1>0, <1>3, <1>a, <1>b DEF Place
  <2>3. CASE p = L - d + 1
    <3>1. p \notin 1 .. L - d
      BY <2>3
    <3>2. Place(l, v, p) = l
      BY <3>1, <1>3 DEF Place
    <3>3. (IF p < i THEN p ELSE p + d) = L + 1
      BY <2>3, <1>0, <1>a, <1>b
    <3>4. Place(l, w, L + 1) = l
      BY <1>a DEF Place
    <3> QED
      BY <3>2, <3>3, <3>4, <1>b
  <2> QED
    BY <2>0, <2>1, <2>2, <2>3
<1>7. Elements(v) = {w[p] : p \in 1 .. Len(w) \ i .. j - 1}
  <2>1. ASSUME NEW n \in Elements(v) PROVE n \in {w[p] : p \in 1 .. Len(w) \ i .. j - 1}
    <3>1. PICK p \in 1 .. L - d : n = v[p]
      BY <1>3 DEF Elements
    <3>2. PICK x \in 1 .. L : v[p] = w[x] /\ x = IF p < i THEN p ELSE p + d
      BY <1>0, <1>b, <1>4
    <3>3. x \notin i .. j - 1
      BY <3>2, <1>0, <1>b
    <3> QED
      BY <3>1, <3>2, <3>3, <1>a
  <2>2. ASSUME NEW x \in 1 .. Len(w) \ i .. j - 1 PROVE w[x] \in Elements(v)
    <3>1. PICK p \in 1 .. L - d : x = IF p < i THEN p ELSE p + d
      <4>1. CASE x < i
        <5>1. x \in 1 .. L - d
          BY <4>1, <1>0, <1>a, <1>b
        <5> QED
          BY <4>1, <5>1
      <4>2. CASE x >= i
        <5>1. x - d \in 1 .. L - d /\ ~(x - d < i) /\ x = (x - d) + d
          BY <4>2, <1>0, <1>a, <1>b
        <5> QED
          BY <5>1
      <4> QED
        BY <4>1, <4>2
    <3>2. v[p] = w[x]
      BY <3>1, <1>4
    <3> QED
      BY <3>2, <1>3 DEF Elements
  <2> QED
    BY <2>1, <2>2
<1> QED
  BY <1>3, <1>5, <1>6, <1>7, <1>a, <1>b DEF v

(* Two links that change: next of a and prev of b.                         *)
LEMMA TwoLinks ==
  ASSUME NEW r \in RingShape, NEW a \in BaseNodes, NEW b \in BaseNodes,
         NEW x \in BaseNodes, NEW y \in BaseNodes
  PROVE  LET q == [r EXCEPT !.next[a] = x, !.prev[b] = y]
         IN  /\ q \in RingShape
             /\ \A n \in BaseNodes : /\ q.next[n] = IF n = a THEN x ELSE r.next[n]
                                     /\ q.prev[n] = IF n = b THEN y ELSE r.prev[n]
  BY DEF RingShape

(* The links between a and b are closed over what lies between them.       *)
Bridged(r, a, b) == [r EXCEPT !.next[a] = b, !.prev[b] = a]

(* What the links are then.                                                *)
LEMMA BridgedFacts ==
  ASSUME NEW r \in RingShape, NEW a \in BaseNodes, NEW b \in BaseNodes
  PROVE  /\ Bridged(r, a, b) \in RingShape
         /\ \A n \in BaseNodes : /\ Bridged(r, a, b).next[n] = IF n = a THEN b ELSE r.next[n]
                                 /\ Bridged(r, a, b).prev[n] = IF n = b THEN a ELSE r.prev[n]
  BY DEF Bridged, RingShape

(* The part of a ring between two places is taken out, and stays a chain.  *)
LEMMA CutRings ==
  ASSUME NEW r, NEW W, Rings(r, W), NEW m \in Sentinels,
         NEW i \in 1 .. Len(W[m]), NEW j \in i + 1 .. Len(W[m]) + 1
  PROVE  LET c == SubSeq(W[m], i, j - 1)
             q == Bridged(r, Place(m, W[m], i - 1), Place(m, W[m], j))
             V == [W EXCEPT ![m] = CutOut(W[m], i, j)]
         IN  /\ Rings(q, V)
             /\ IsChain(q, c) /\ c \in Seq(Nodes) /\ Len(c) = j - i
             /\ Elements(c) = {W[m][p] : p \in i .. j - 1}
             /\ Loose(c, V)
<1> DEFINE w == W[m]
           c == SubSeq(w, i, j - 1)
           v == CutOut(w, i, j)
           a == Place(m, w, i - 1)
           b == Place(m, w, j)
           q == Bridged(r, a, b)
           V == [W EXCEPT ![m] = v]
<1>0. w \in Seq(Nodes) /\ Distinct(w) /\ IsRing(r, m, w) /\ r \in RingShape /\ W \in Sequences
  BY DEF Rings, Sequences, IsRing
<1>a. PICK L \in Nat : L = Len(w)
  BY <1>0
<1>b. i \in Nat /\ j \in Nat /\ 1 <= i /\ i < j /\ j <= L + 1
  BY <1>a
<1>c. PICK d \in Nat : d = j - i /\ d >= 1 /\ d <= L
  BY <1>b
<1> HIDE DEF w
<1>1. /\ v \in Seq(Nodes) /\ Len(v) = L - d /\ Distinct(v)
      /\ \A p \in 0 .. L - d + 1 : Place(m, v, p) = Place(m, w, IF p < i THEN p ELSE p + d)
      /\ Elements(v) = {w[p] : p \in 1 .. L \ i .. j - 1}
  <2>1. i \in 1 .. Len(w) /\ j \in i + 1 .. Len(w) + 1
    BY <1>a, <1>b
  <2> HIDE DEF v
  <2> QED
    BY <2>1, <1>0, <1>a, <1>b, <1>c, CutFacts DEF v
<1>2. a \in BaseNodes /\ b \in BaseNodes
  BY <1>0, <1>b, PlaceType
<1>3. /\ q \in RingShape
      /\ \A n \in BaseNodes : /\ q.next[n] = IF n = a THEN b ELSE r.next[n]
                              /\ q.prev[n] = IF n = b THEN a ELSE r.prev[n]
  <2> HIDE DEF a, b
  <2> QED
    BY <1>0, <1>2, BridgedFacts
<1>4. \A x \in 0 .. L : /\ r.next[Place(m, w, x)] = Place(m, w, x + 1)
                        /\ r.prev[Place(m, w, x + 1)] = Place(m, w, x)
  BY <1>0, <1>a DEF IsRing
<1>5. /\ \A x, y \in 0 .. L : Place(m, w, x) = Place(m, w, y) => x = y
      /\ \A x, y \in 1 .. L + 1 : Place(m, w, x) = Place(m, w, y) => x = y
  BY <1>0, <1>a, PlaceInjective
<1>6. \A x \in 0 .. L + 1 : Place(m, w, x) \in BaseNodes
  BY <1>0, PlaceType
<1>7. a = Place(m, w, i - 1) /\ b = Place(m, w, j) /\ i - 1 \in 0 .. L /\ j \in 1 .. L + 1
  BY <1>b
<1> HIDE DEF q, v, a, b
<1>8. IsRing(q, m, v)
  <2> SUFFICES ASSUME NEW p \in 0 .. L - d
               PROVE  /\ q.next[Place(m, v, p)] = Place(m, v, p + 1)
                      /\ q.prev[Place(m, v, p + 1)] = Place(m, v, p)
    BY <1>1 DEF IsRing
  <2>0. p \in 0 .. L - d + 1 /\ p + 1 \in 0 .. L - d + 1
    BY <1>c
  <2>1. CASE p < i - 1
    <3>1. Place(m, v, p) = Place(m, w, p) /\ Place(m, v, p + 1) = Place(m, w, p + 1)
      BY <1>1, <1>b, <2>0, <2>1
    <3>2. p \in 0 .. L /\ p + 1 \in 1 .. L + 1 /\ p # i - 1 /\ p + 1 # j /\ p + 1 \in 0 .. L + 1
          /\ p \in 0 .. L + 1
      BY <1>b, <2>1
    <3>3. Place(m, w, p) # a /\ Place(m, w, p + 1) # b
      BY <3>2, <1>5, <1>7
    <3> QED
      BY <3>1, <3>2, <3>3, <1>3, <1>4, <1>6
  <2>2. CASE p = i - 1
    <3>1. Place(m, v, p) = a /\ Place(m, v, p + 1) = b
      <4>1. p < i /\ ~(p + 1 < i) /\ (p + 1) + d = j
        BY <1>b, <1>c, <2>2
      <4> QED
        BY <4>1, <1>1, <2>0, <1>7, <2>2
    <3> QED
      BY <3>1, <1>2, <1>3
  <2>3. CASE p > i - 1
    <3>0. ~(p < i) /\ ~(p + 1 < i) /\ (p + 1) + d = (p + d) + 1
      BY <1>b, <1>c, <2>3
    <3>1. Place(m, v, p) = Place(m, w, p + d) /\ Place(m, v, p + 1) = Place(m, w, (p + d) + 1)
      BY <1>1, <2>0, <3>0
    <3>2. /\ p + d \in 0 .. L /\ (p + d) + 1 \in 1 .. L + 1 /\ p + d # i - 1 /\ (p + d) + 1 # j
          /\ p + d \in 0 .. L + 1 /\ (p + d) + 1 \in 0 .. L + 1
      BY <1>b, <1>c, <2>3
    <3>3. Place(m, w, p + d) # a /\ Place(m, w, (p + d) + 1) # b
      BY <3>2, <1>5, <1>7
    <3> QED
      BY <3>1, <3>2, <3>3, <1>3, <1>4, <1>6
  <2> QED
    BY <2>1, <2>2, <2>3, <1>b
<1>9. Elements(v) \subseteq Elements(w)
  BY <1>1, <1>a DEF Elements
<1>10. a \in Elements(w) \cup {m} /\ b \in Elements(w) \cup {m}
  BY <1>0, <1>b, <1>7, PlaceType
<1>11. ASSUME NEW l \in Sentinels \ {m}
       PROVE  /\ Elements(v) \cap Elements(W[l]) = {} /\ W[l] \in Seq(Nodes)
              /\ \A n \in Elements(W[l]) \cup {l} :
                   q.next[n] = r.next[n] /\ q.prev[n] = r.prev[n]
  <2>1. (Elements(w) \cup {m}) \cap (Elements(W[l]) \cup {l}) = {} /\ W[l] \in Seq(Nodes)
    BY RingsApart DEF w
  <2>2. Elements(W[l]) \subseteq Nodes
    BY <2>1 DEF Elements
  <2>3. Elements(W[l]) \cup {l} \subseteq BaseNodes
    BY <2>2, SentinelsApart
  <2> QED
    BY <2>1, <2>3, <1>3, <1>9, <1>10
<1>12. Rings(q, V)
  BY <1>1, <1>3, <1>8, <1>11, RingsReplaced
<1>13. c \in Seq(Nodes) /\ Len(c) = d /\ \A p \in 1 .. d : c[p] = w[p + (i - 1)]
  <2>1. \A p \in i .. j - 1 : p \in 1 .. L
    BY <1>b
  <2>2. \A p \in i .. j - 1 : w[p] \in Nodes
    BY <1>0, <1>a, <2>1
  <2>3. c \in Seq(Nodes) /\ Len(c) = (j - 1) - i + 1
        /\ \A p \in 1 .. (j - 1) - i + 1 : c[p] = w[i + p - 1]
    BY <1>b, <2>2, <1>0, <1>a, SubSeqProperties
  <2>4. (j - 1) - i + 1 = d
    BY <1>b, <1>c
  <2>5. \A p \in 1 .. d : i + p - 1 = p + (i - 1)
    BY <1>b
  <2> QED
    BY <2>3, <2>4, <2>5
<1> HIDE DEF c
<1>14. Elements(c) = {w[p] : p \in i .. j - 1}
  <2>1. ASSUME NEW p \in 1 .. d PROVE c[p] \in {w[x] : x \in i .. j - 1}
    <3>1. p + (i - 1) \in i .. j - 1
      BY <1>b, <1>c
    <3> QED
      BY <3>1, <1>13
  <2>2. ASSUME NEW x \in i .. j - 1 PROVE w[x] \in Elements(c)
    <3>1. x - (i - 1) \in 1 .. d /\ (x - (i - 1)) + (i - 1) = x
      BY <1>b, <1>c
    <3>2. c[x - (i - 1)] = w[x]
      BY <3>1, <1>13
    <3> QED
      BY <3>1, <3>2, <1>13 DEF Elements
  <2> QED
    BY <2>1, <2>2, <1>13 DEF Elements
<1>15. IsChain(q, c)
  <2>1. ASSUME NEW x \in 1 .. d, NEW y \in 1 .. d, c[x] = c[y] PROVE x = y
    <3>1. x + (i - 1) \in 1 .. L /\ y + (i - 1) \in 1 .. L
      BY <1>b, <1>c
    <3>2. x + (i - 1) = y + (i - 1)
      BY <2>1, <3>1, <1>0, <1>13, <1>a DEF Distinct
    <3> QED
      BY <3>2, <1>b
  <2>2. ASSUME NEW x \in 1 .. d - 1
        PROVE  q.next[c[x]] = c[x + 1] /\ q.prev[c[x + 1]] = c[x]
    <3>1. PICK y \in 1 .. L - 1 : y = x + (i - 1) /\ y # i - 1 /\ y + 1 # j
      BY <1>b, <1>c
    <3>2. c[x] = w[y] /\ c[x + 1] = w[y + 1]
      <4>1. x \in 1 .. d /\ x + 1 \in 1 .. d /\ (x + 1) + (i - 1) = y + 1
        BY <3>1, <1>b, <1>c
      <4> QED
        BY <4>1, <3>1, <1>13
    <3>3. /\ y \in 0 .. L /\ y + 1 \in 1 .. L + 1 /\ y \in 0 .. L + 1 /\ y + 1 \in 0 .. L + 1
          /\ y \in 1 .. Len(w) /\ y + 1 \in 1 .. Len(w)
      BY <3>1, <1>a
    <3>4. Place(m, w, y) = w[y] /\ Place(m, w, y + 1) = w[y + 1]
      BY <3>3 DEF Place
    <3>5. w[y] # a /\ w[y + 1] # b
      BY <3>1, <3>3, <3>4, <1>5, <1>7
    <3>6. r.next[w[y]] = w[y + 1] /\ r.prev[w[y + 1]] = w[y]
      BY <3>3, <3>4, <1>4
    <3>7. w[y] \in BaseNodes /\ w[y + 1] \in BaseNodes
      BY <3>3, <3>4, <1>6
    <3> QED
      BY <3>2, <3>5, <3>6, <3>7, <1>3
  <2> QED
    BY <2>1, <2>2, <1>13 DEF IsChain, Distinct
<1>16. Loose(c, V)
  <2> SUFFICES ASSUME NEW l \in Sentinels PROVE Elements(c) \cap Elements(V[l]) = {}
    BY DEF Loose
  <2>1. CASE l = m
    <3>1. V[l] = v
      BY <2>1, <1>0 DEF Sequences
    <3>2. ASSUME NEW n \in Elements(c), n \in Elements(v) PROVE FALSE
      <4>1. PICK x \in i .. j - 1 : n = w[x]
        BY <1>14
      <4>2. PICK y \in 1 .. L \ i .. j - 1 : n = w[y]
        BY <1>1, <3>2
      <4>3. x \in 1 .. L /\ y \in 1 .. L
        BY <1>b
      <4>4. x = y
        BY <4>1, <4>2, <4>3, <1>0, <1>a DEF Distinct
      <4> QED
        BY <4>4
    <3> QED
      BY <3>1, <3>2
  <2>2. CASE l # m
    <3>1. V[l] = W[l]
      BY <2>2, <1>0 DEF Sequences
    <3>2. Elements(c) \subseteq Elements(w)
      <4>1. i .. j - 1 \subseteq 1 .. L
        BY <1>b
      <4> QED
        BY <4>1, <1>14, <1>a DEF Elements
    <3>3. Elements(w) \cap Elements(W[l]) = {}
      BY <2>2 DEF Rings, w
    <3> QED
      BY <3>1, <3>2, <3>3
  <2> QED
    BY <2>1, <2>2
<1>17. Len(c) = j - i
  BY <1>13, <1>c
<1> QED
  BY <1>12, <1>13, <1>14, <1>15, <1>16, <1>17 DEF w, c, q, V, v, a, b

(* The sequence with a chain put in.                                       *)
LEMMA PasteFacts ==
  ASSUME NEW l \in Sentinels, NEW w \in Seq(Nodes), Distinct(w), NEW k \in 0 .. Len(w),
         NEW c \in Seq(Nodes), Distinct(c), Elements(c) \cap Elements(w) = {}
  PROVE  LET v == Pasted(w, k, c)
         IN  /\ v \in Seq(Nodes) /\ Len(v) = Len(w) + Len(c) /\ Len(v) \in Nat
             /\ Distinct(v)
             /\ \A p \in 0 .. Len(v) + 1 :
                  Place(l, v, p) = IF p <= k THEN Place(l, w, p)
                                   ELSE IF p <= k + Len(c) THEN c[p - k]
                                   ELSE Place(l, w, p - Len(c))
             /\ Elements(v) = Elements(w) \cup Elements(c)
<1> DEFINE v == Pasted(w, k, c)
<1>a. PICK L \in Nat : L = Len(w)
  OBVIOUS
<1>b. PICK C \in Nat : C = Len(c)
  OBVIOUS
<1>c. k \in Nat /\ k <= L
  BY <1>a
<1>1. v = [p \in 1 .. L + C |->
             IF p <= k THEN w[p] ELSE IF p <= k + C THEN c[p - k] ELSE w[p - C]]
  BY <1>a, <1>b DEF Pasted
<1>2. ASSUME NEW p \in 1 .. L + C
      PROVE  \/ p <= k /\ p \in 1 .. L
             \/ ~(p <= k) /\ p <= k + C /\ p - k \in 1 .. C
             \/ ~(p <= k) /\ ~(p <= k + C) /\ p - C \in 1 .. L /\ p - C > k
  BY <1>c
<1>3. /\ \A p \in 1 .. L : w[p] \in Nodes /\ w[p] \in Elements(w)
      /\ \A p \in 1 .. C : c[p] \in Nodes /\ c[p] \in Elements(c)
  BY <1>a, <1>b DEF Elements
<1>4. \A p \in 1 .. L + C :
        (IF p <= k THEN w[p] ELSE IF p <= k + C THEN c[p - k] ELSE w[p - C]) \in Nodes
  BY <1>2, <1>3
<1>5. v \in Seq(Nodes) /\ Len(v) = L + C /\ L + C \in Nat
  BY <1>1, <1>4
<1>6. \A p \in 1 .. L + C :
        v[p] = IF p <= k THEN w[p] ELSE IF p <= k + C THEN c[p - k] ELSE w[p - C]
  BY <1>1
<1> HIDE DEF v
<1>7. Distinct(v)
  <2> SUFFICES ASSUME NEW p \in 1 .. L + C, NEW q \in 1 .. L + C, v[p] = v[q] PROVE p = q
    BY <1>5 DEF Distinct
  <2>1. /\ \A x, y \in 1 .. L : w[x] = w[y] => x = y
        /\ \A x, y \in 1 .. C : c[x] = c[y] => x = y
        /\ \A x \in 1 .. L, y \in 1 .. C : w[x] # c[y]
    BY <1>3, <1>a, <1>b DEF Distinct
  <2>2. \/ v[p] = w[p] /\ p <= k /\ p \in 1 .. L
        \/ v[p] = c[p - k] /\ p > k /\ p - k \in 1 .. C /\ p <= k + C
        \/ v[p] = w[p - C] /\ p > k + C /\ p - C \in 1 .. L /\ p - C > k
    BY <1>2, <1>6, <1>c, SMTT(20)
  <2>3. \/ v[q] = w[q] /\ q <= k /\ q \in 1 .. L
        \/ v[q] = c[q - k] /\ q > k /\ q - k \in 1 .. C /\ q <= k + C
        \/ v[q] = w[q - C] /\ q > k + C /\ q - C \in 1 .. L /\ q - C > k
    BY <1>2, <1>6, <1>c
  <2> QED
    BY <2>1, <2>2, <2>3, <1>c
<1>8. ASSUME NEW p \in 0 .. L + C + 1
      PROVE  Place(l, v, p) = IF p <= k THEN Place(l, w, p)
                              ELSE IF p <= k + C THEN c[p - k]
                              ELSE Place(l, w, p - C)
  <2>1. CASE p \in 1 .. L + C
    <3>1. Place(l, v, p) = v[p]
      BY <2>1, <1>5 DEF Place
    <3>2. /\ p \in 1 .. L => Place(l, w, p) = w[p]
          /\ p - C \in 1 .. L => Place(l, w, p - C) = w[p - C]
      BY <1>a DEF Place
    <3> QED
      BY <2>1, <3>1, <3>2, <1>2, <1>6
  <2>2. CASE p = 0
    BY <2>2, <1>5, <1>a, <1>c DEF Place
  <2>3. CASE p = L + C + 1
    <3>1. ~(p <= k) /\ ~(p <= k + C) /\ p - C = L + 1 /\ p \notin 1 .. L + C
      BY <2>3, <1>c
    <3>2. Place(l, v, p) = l /\ Place(l, w, L + 1) = l
      BY <3>1, <1>5, <1>a DEF Place
    <3> QED
      BY <3>1, <3>2
  <2> QED
    BY <2>1, <2>2, <2>3
<1>9. Elements(v) = Elements(w) \cup Elements(c)
  <2>1. ASSUME NEW p \in 1 .. L + C PROVE v[p] \in Elements(w) \cup Elements(c)
    BY <1>2, <1>3, <1>6
  <2>2. ASSUME NEW x \in 1 .. L PROVE w[x] \in Elements(v)
    <3>1. CASE x <= k
      <4>1. x \in 1 .. L + C /\ v[x] = w[x]
        BY <3>1, <1>6
      <4> QED
        BY <4>1, <1>5 DEF Elements
    <3>2. CASE x > k
      <4>1. x + C \in 1 .. L + C /\ v[x + C] = w[x]
        BY <3>2, <1>6, <1>c
      <4> QED
        BY <4>1, <1>5 DEF Elements
    <3> QED
      BY <3>1, <3>2, <1>c
  <2>3. ASSUME NEW x \in 1 .. C PROVE c[x] \in Elements(v)
    <3>1. x + k \in 1 .. L + C /\ v[x + k] = c[x]
      BY <1>6, <1>c
    <3> QED
      BY <3>1, <1>5 DEF Elements
  <2>4. /\ Elements(v) = {v[p] : p \in 1 .. L + C}
        /\ Elements(w) = {w[p] : p \in 1 .. L}
        /\ Elements(c) = {c[p] : p \in 1 .. C}
    BY <1>5, <1>a, <1>b DEF Elements
  <2> QED
    BY <2>1, <2>2, <2>3, <2>4, Zenon
<1> QED
  BY <1>5, <1>7, <1>8, <1>9, <1>a, <1>b DEF v

(* In q, what runs from first to last hangs between a and b, and the other *)
(* links are those of r.                                                   *)
Hangs(q, r, a, first, last, b) ==
  /\ q \in RingShape
  /\ \A n \in BaseNodes :
       /\ q.next[n] = IF n = a THEN first ELSE IF n = last THEN b ELSE r.next[n]
       /\ q.prev[n] = IF n = first THEN a ELSE IF n = b THEN last ELSE r.prev[n]

(* A chain of nodes that are in no list is put into a ring.                *)
LEMMA PasteRings ==
  ASSUME NEW r, NEW W, Rings(r, W), NEW l \in Sentinels, NEW k \in 0 .. Len(W[l]),
         NEW c \in Seq(Nodes), IsChain(r, c), Len(c) >= 1, Loose(c, W),
         NEW q, Hangs(q, r, Place(l, W[l], k), c[1], c[Len(c)], Place(l, W[l], k + 1))
  PROVE  Rings(q, [W EXCEPT ![l] = Pasted(W[l], k, c)])
<1> DEFINE w == W[l]
           v == Pasted(w, k, c)
           a == Place(l, w, k)
           b == Place(l, w, k + 1)
<1>0. w \in Seq(Nodes) /\ Distinct(w) /\ IsRing(r, l, w) /\ r \in RingShape /\ W \in Sequences
  BY DEF Rings, Sequences, IsRing
<1>a. PICK L \in Nat : L = Len(w)
  BY <1>0
<1>b. PICK C \in Nat : C = Len(c) /\ C >= 1
  OBVIOUS
<1>c. k \in Nat /\ k <= L
  BY <1>a
<1>d. Distinct(c) /\ Elements(c) \cap Elements(w) = {}
  BY DEF IsChain, Loose
<1> HIDE DEF w
<1>1. /\ v \in Seq(Nodes) /\ Len(v) = L + C /\ Distinct(v)
      /\ \A p \in 0 .. L + C + 1 :
           Place(l, v, p) = IF p <= k THEN Place(l, w, p)
                            ELSE IF p <= k + C THEN c[p - k] ELSE Place(l, w, p - C)
      /\ Elements(v) = Elements(w) \cup Elements(c)
  <2>1. k \in 0 .. Len(w)
    BY <1>a, <1>c
  <2> HIDE DEF v
  <2> QED
    BY <2>1, <1>0, <1>a, <1>b, <1>d, PasteFacts DEF v
<1>2. \A n \in BaseNodes :
        /\ q.next[n] = IF n = a THEN c[1] ELSE IF n = c[C] THEN b ELSE r.next[n]
        /\ q.prev[n] = IF n = c[1] THEN a ELSE IF n = b THEN c[C] ELSE r.prev[n]
  BY <1>b DEF Hangs, w
<1>3. q \in RingShape
  BY DEF Hangs
<1>4. \A x \in 0 .. L : /\ r.next[Place(l, w, x)] = Place(l, w, x + 1)
                        /\ r.prev[Place(l, w, x + 1)] = Place(l, w, x)
  BY <1>0, <1>a DEF IsRing
<1>5. /\ \A x, y \in 0 .. L : Place(l, w, x) = Place(l, w, y) => x = y
      /\ \A x, y \in 1 .. L + 1 : Place(l, w, x) = Place(l, w, y) => x = y
  BY <1>0, <1>a, PlaceInjective
<1>6. \A x \in 0 .. L + 1 : Place(l, w, x) \in BaseNodes /\ Place(l, w, x) \in Elements(w) \cup {l}
  BY <1>0, PlaceType
<1>7. a = Place(l, w, k) /\ b = Place(l, w, k + 1) /\ k \in 0 .. L /\ k + 1 \in 1 .. L + 1
  BY <1>c
<1>8. \A p \in 1 .. C : c[p] \in Nodes /\ c[p] \in Elements(c) /\ c[p] \in BaseNodes
  <2>1. \A p \in 1 .. C : c[p] \in Nodes
    BY <1>b
  <2>2. \A p \in 1 .. C : c[p] \in Elements(c)
    BY <1>b DEF Elements
  <2> QED
    BY <2>1, <2>2, SentinelsApart
<1>9. \A p \in 1 .. C, x \in 0 .. L + 1 : c[p] # Place(l, w, x)
  BY <1>6, <1>8, <1>d, SentinelsApart
<1>10. \A p \in 1 .. C - 1 : r.next[c[p]] = c[p + 1] /\ r.prev[c[p + 1]] = c[p]
  BY <1>b DEF IsChain
<1>11. \A x, y \in 1 .. C : c[x] = c[y] => x = y
  BY <1>b, <1>d DEF Distinct
<1> HIDE DEF v, a, b
<1>12. IsRing(q, l, v)
  <2> SUFFICES ASSUME NEW p \in 0 .. L + C
               PROVE  /\ q.next[Place(l, v, p)] = Place(l, v, p + 1)
                      /\ q.prev[Place(l, v, p + 1)] = Place(l, v, p)
    BY <1>1 DEF IsRing
  <2>0. p \in 0 .. L + C + 1 /\ p + 1 \in 0 .. L + C + 1
    OBVIOUS
  <2>1. CASE p < k
    <3>1. Place(l, v, p) = Place(l, w, p) /\ Place(l, v, p + 1) = Place(l, w, p + 1)
      <4>1. p <= k /\ p + 1 <= k
        BY <2>1, <1>c
      <4> QED
        BY <4>1, <2>0, <1>1
    <3>2. /\ p \in 0 .. L /\ p + 1 \in 1 .. L + 1 /\ p \in 0 .. L + 1 /\ p + 1 \in 0 .. L + 1
          /\ p # k /\ p + 1 # k + 1
      BY <2>1, <1>c
    <3>3. Place(l, w, p) # a /\ Place(l, w, p + 1) # b
      BY <3>2, <1>5, <1>7
    <3>4. Place(l, w, p) # c[C] /\ Place(l, w, p + 1) # c[1]
      BY <3>2, <1>9, <1>b
    <3> QED
      BY <3>1, <3>2, <3>3, <3>4, <1>2, <1>4, <1>6
  <2>2. CASE p = k
    <3>1. Place(l, v, p) = a /\ Place(l, v, p + 1) = c[1]
      <4>1. p <= k /\ ~(p + 1 <= k) /\ p + 1 <= k + C /\ (p + 1) - k = 1
        BY <2>2, <1>b, <1>c
      <4> QED
        BY <4>1, <2>0, <2>2, <1>1, <1>7
    <3>2. a \in BaseNodes /\ c[1] \in BaseNodes
      BY <1>6, <1>7, <1>8, <1>b
    <3> QED
      BY <3>1, <3>2, <1>2
  <2>3. CASE p > k /\ p < k + C
    <3>0. PICK x \in 1 .. C - 1 : x = p - k
      BY <2>3, <1>b, <1>c
    <3>1. Place(l, v, p) = c[x] /\ Place(l, v, p + 1) = c[x + 1]
      <4>1. ~(p <= k) /\ p <= k + C /\ ~(p + 1 <= k) /\ p + 1 <= k + C /\ (p + 1) - k = x + 1
        BY <2>3, <3>0, <1>b, <1>c
      <4> QED
        BY <4>1, <3>0, <2>0, <1>1
    <3>2. x \in 1 .. C /\ x + 1 \in 1 .. C /\ x # C /\ x + 1 # 1 /\ C \in 1 .. C /\ 1 \in 1 .. C
      BY <3>0, <1>b
    <3>3. c[x] # c[C] /\ c[x + 1] # c[1]
      BY <3>2, <1>11
    <3>4. c[x] # a /\ c[x + 1] # b
      BY <3>2, <1>7, <1>9
    <3>5. c[x] \in BaseNodes /\ c[x + 1] \in BaseNodes
      BY <3>2, <1>8
    <3>6. r.next[c[x]] = c[x + 1] /\ r.prev[c[x + 1]] = c[x]
      BY <3>0, <1>10
    <3> QED
      BY <3>1, <3>3, <3>4, <3>5, <3>6, <1>2
  <2>4. CASE p = k + C
    <3>1. Place(l, v, p) = c[C] /\ Place(l, v, p + 1) = b
      <4>1. /\ ~(p <= k) /\ p <= k + C /\ p - k = C
            /\ ~(p + 1 <= k) /\ ~(p + 1 <= k + C) /\ (p + 1) - C = k + 1
        BY <2>4, <1>b, <1>c
      <4> QED
        BY <4>1, <2>0, <1>1, <1>7
    <3>2. C \in 1 .. C /\ 1 \in 1 .. C /\ k \in 0 .. L + 1 /\ k + 1 \in 0 .. L + 1
      BY <1>b, <1>c
    <3>3. c[C] # a /\ b # c[1]
      BY <3>2, <1>7, <1>9
    <3>4. b \in BaseNodes /\ c[C] \in BaseNodes
      BY <3>2, <1>6, <1>7, <1>8
    <3> QED
      BY <3>1, <3>3, <3>4, <1>2
  <2>5. CASE p > k + C
    <3>0. PICK x \in k + 1 .. L : x = p - C
      BY <2>5, <1>b, <1>c
    <3>1. Place(l, v, p) = Place(l, w, x) /\ Place(l, v, p + 1) = Place(l, w, x + 1)
      <4>1. /\ ~(p <= k) /\ ~(p <= k + C)
            /\ ~(p + 1 <= k) /\ ~(p + 1 <= k + C) /\ (p + 1) - C = x + 1
        BY <2>5, <3>0, <1>b, <1>c
      <4> QED
        BY <4>1, <3>0, <2>0, <1>1
    <3>2. /\ x \in 0 .. L /\ x + 1 \in 1 .. L + 1 /\ x \in 0 .. L + 1 /\ x + 1 \in 0 .. L + 1
          /\ x # k /\ x + 1 # k + 1
      BY <3>0, <1>c
    <3>3. Place(l, w, x) # a /\ Place(l, w, x + 1) # b
      BY <3>2, <1>5, <1>7
    <3>4. Place(l, w, x) # c[C] /\ Place(l, w, x + 1) # c[1]
      BY <3>2, <1>9, <1>b
    <3> QED
      BY <3>1, <3>2, <3>3, <3>4, <1>2, <1>4, <1>6, SMTT(20)
  <2> QED
    BY <2>1, <2>2, <2>3, <2>4, <2>5, <1>b, <1>c
<1>13. a \in Elements(w) \cup {l} /\ b \in Elements(w) \cup {l}
       /\ c[1] \in Elements(c) /\ c[C] \in Elements(c)
  BY <1>6, <1>7, <1>8, <1>b
<1>14. ASSUME NEW m \in Sentinels \ {l}
       PROVE  /\ Elements(v) \cap Elements(W[m]) = {}
              /\ \A n \in Elements(W[m]) \cup {m} :
                   q.next[n] = r.next[n] /\ q.prev[n] = r.prev[n]
  <2>1. (Elements(w) \cup {l}) \cap (Elements(W[m]) \cup {m}) = {} /\ W[m] \in Seq(Nodes)
    BY RingsApart DEF w
  <2>2. Elements(c) \cap Elements(W[m]) = {}
    BY DEF Loose
  <2>3. Elements(W[m]) \subseteq Nodes /\ Elements(c) \subseteq Nodes
    BY <2>1 DEF Elements
  <2>4. Elements(W[m]) \cup {m} \subseteq BaseNodes /\ m \notin Elements(c)
    BY <2>3, SentinelsApart
  <2> QED
    BY <2>1, <2>2, <2>4, <1>1, <1>2, <1>13, Zenon
<1> QED
  <2>1. Rings(q, [W EXCEPT ![l] = v])
    BY <1>1, <1>3, <1>12, <1>14, RingsReplaced
  <2> QED
    BY <2>1 DEF v, w

(* Sequences may change as long as they are rings that share no node.      *)
LEMMA RingsRebuilt ==
  ASSUME NEW r, NEW W, Rings(r, W), NEW q \in RingShape, NEW V \in Sequences,
         \A l \in Sentinels :
           \/ IsRing(q, l, V[l])
           \/ /\ V[l] = W[l]
              /\ \A n \in Elements(W[l]) \cup {l} :
                   q.next[n] = r.next[n] /\ q.prev[n] = r.prev[n],
         \A l, m \in Sentinels : l # m => Elements(V[l]) \cap Elements(V[m]) = {}
  PROVE  Rings(q, V)
<1>1. ASSUME NEW l \in Sentinels PROVE IsRing(q, l, V[l])
  <2>1. IsRing(r, l, W[l]) /\ W[l] \in Seq(Nodes)
    BY DEF Rings, Sequences
  <2>2. CASE /\ V[l] = W[l]
             /\ \A n \in Elements(W[l]) \cup {l} :
                  q.next[n] = r.next[n] /\ q.prev[n] = r.prev[n]
    <3>1. IsRing(q, l, W[l])
      BY <2>1, <2>2, RingFrame
    <3> QED
      BY <3>1, <2>2
  <2> QED
    BY <2>2
<1> QED
  BY <1>1 DEF Rings

(* A ring is a chain within, and both ends lead to the sentinel.           *)
LEMMA RingIsChain ==
  ASSUME NEW r, NEW l \in Sentinels, NEW w \in Seq(Nodes), IsRing(r, l, w)
  PROVE  /\ IsChain(r, w)
         /\ w # <<>> => /\ r.next[l] = w[1] /\ r.prev[w[1]] = l
                        /\ r.next[w[Len(w)]] = l /\ r.prev[l] = w[Len(w)]
         /\ w = <<>> => r.next[l] = l /\ r.prev[l] = l
<1>a. PICK L \in Nat : L = Len(w)
  OBVIOUS
<1>1. \A i \in 0 .. L : /\ r.next[Place(l, w, i)] = Place(l, w, i + 1)
                        /\ r.prev[Place(l, w, i + 1)] = Place(l, w, i)
  BY <1>a DEF IsRing
<1>2. /\ Place(l, w, 0) = l /\ Place(l, w, L + 1) = l
      /\ \A i \in 1 .. L : Place(l, w, i) = w[i]
  BY <1>a DEF Place
<1>3. IsChain(r, w)
  <2>1. ASSUME NEW i \in 1 .. L - 1 PROVE r.next[w[i]] = w[i + 1] /\ r.prev[w[i + 1]] = w[i]
    <3>1. i \in 0 .. L /\ i \in 1 .. L /\ i + 1 \in 1 .. L
      OBVIOUS
    <3> QED
      BY <3>1, <1>1, <1>2
  <2> QED
    BY <2>1, <1>a DEF IsChain, IsRing
<1>4. ASSUME w # <<>>
      PROVE  /\ r.next[l] = w[1] /\ r.prev[w[1]] = l
             /\ r.next[w[L]] = l /\ r.prev[l] = w[L]
  <2>1. L >= 1
    BY <1>4, <1>a
  <2>2. 0 \in 0 .. L /\ L \in 0 .. L /\ 1 \in 1 .. L /\ L \in 1 .. L /\ 0 + 1 = 1
    BY <2>1
  <2>3. r.next[Place(l, w, 0)] = Place(l, w, 1) /\ r.prev[Place(l, w, 1)] = Place(l, w, 0)
    BY <2>2, <1>1
  <2>4. r.next[Place(l, w, L)] = Place(l, w, L + 1) /\ r.prev[Place(l, w, L + 1)] = Place(l, w, L)
    BY <2>2, <1>1
  <2> QED
    BY <2>2, <2>3, <2>4, <1>2
<1>5. ASSUME w = <<>> PROVE r.next[l] = l /\ r.prev[l] = l
  <2>1. L = 0
    BY <1>5, <1>a
  <2>2. r.next[Place(l, w, 0)] = Place(l, w, 0 + 1) /\ r.prev[Place(l, w, 0 + 1)] = Place(l, w, 0)
    BY <2>1, <1>1
  <2> QED
    BY <2>1, <2>2, <1>2
<1> QED
  BY <1>3, <1>4, <1>5, <1>a

(* A chain whose ends hang on a sentinel is a ring.                        *)
LEMMA RingOfChain ==
  ASSUME NEW q, NEW l \in Sentinels, NEW w \in Seq(Nodes), IsChain(q, w), w # <<>>,
         q.next[l] = w[1], q.prev[w[1]] = l, q.next[w[Len(w)]] = l, q.prev[l] = w[Len(w)]
  PROVE  IsRing(q, l, w)
<1>a. PICK L \in Nat : L = Len(w) /\ L >= 1
  OBVIOUS
<1>1. /\ Place(l, w, 0) = l /\ Place(l, w, L + 1) = l
      /\ \A i \in 1 .. L : Place(l, w, i) = w[i]
  BY <1>a DEF Place
<1>2. ASSUME NEW i \in 0 .. L
      PROVE  /\ q.next[Place(l, w, i)] = Place(l, w, i + 1)
             /\ q.prev[Place(l, w, i + 1)] = Place(l, w, i)
  <2>1. CASE i = 0
    <3>1. i + 1 = 1 /\ 1 \in 1 .. L
      BY <2>1, <1>a
    <3>2. Place(l, w, i) = l /\ Place(l, w, i + 1) = w[1]
      BY <3>1, <2>1, <1>1
    <3> QED
      BY <3>2
  <2>2. CASE i \in 1 .. L - 1
    <3>1. i \in 1 .. L /\ i + 1 \in 1 .. L
      BY <2>2
    <3>2. Place(l, w, i) = w[i] /\ Place(l, w, i + 1) = w[i + 1]
      BY <3>1, <1>1
    <3>3. q.next[w[i]] = w[i + 1] /\ q.prev[w[i + 1]] = w[i]
      BY <2>2, <1>a DEF IsChain
    <3> QED
      BY <3>2, <3>3
  <2>3. CASE i = L
    <3>1. L \in 1 .. L
      BY <1>a
    <3>2. Place(l, w, i) = w[L] /\ Place(l, w, i + 1) = l
      BY <3>1, <2>3, <1>1
    <3> QED
      BY <3>2, <1>a
  <2> QED
    BY <2>1, <2>2, <2>3, <1>a
<1> QED
  BY <1>2, <1>a DEF IsRing, IsChain

(* A sentinel that leads to itself is the ring of no nodes.                *)
LEMMA EmptyRing ==
  ASSUME NEW q, NEW l \in Sentinels, q.next[l] = l, q.prev[l] = l
  PROVE  IsRing(q, l, <<>>) /\ <<>> \in Seq(Nodes) /\ Elements(<<>>) = {}
<1>1. \A i \in Int : Place(l, <<>>, i) = l
  BY DEF Place
<1> QED
  BY <1>1 DEF IsRing, Distinct, Elements

(* A chain between other links stays a chain.                              *)
LEMMA ChainFrame ==
  ASSUME NEW r, NEW q, NEW c \in Seq(Nodes), IsChain(r, c),
         \A i \in 1 .. Len(c) - 1 :
           q.next[c[i]] = r.next[c[i]] /\ q.prev[c[i + 1]] = r.prev[c[i + 1]]
  PROVE  IsChain(q, c)
  BY DEF IsChain

(* reset_sentinel leaves an empty ring.                                    *)
LEMMA ResetRings ==
  ASSUME NEW r, NEW W, Rings(r, W), NEW l \in Sentinels
  PROVE  /\ Rings(reset_sentinel(r, l), [W EXCEPT ![l] = <<>>])
         /\ \A n \in BaseNodes :
              /\ reset_sentinel(r, l).next[n] = IF n = l THEN l ELSE r.next[n]
              /\ reset_sentinel(r, l).prev[n] = IF n = l THEN l ELSE r.prev[n]
<1> DEFINE q == reset_sentinel(r, l)
<1>1. r \in RingShape /\ l \in BaseNodes
  BY SentinelsApart DEF Rings
<1>2. /\ q \in RingShape
      /\ \A n \in BaseNodes : /\ q.next[n] = IF n = l THEN l ELSE r.next[n]
                              /\ q.prev[n] = IF n = l THEN l ELSE r.prev[n]
  BY <1>1 DEF RingShape, reset_sentinel
<1> HIDE DEF q
<1>3. IsRing(q, l, <<>>) /\ <<>> \in Seq(Nodes) /\ Elements(<<>>) = {}
  BY <1>1, <1>2, EmptyRing
<1>4. ASSUME NEW m \in Sentinels \ {l}, NEW n \in Elements(W[m]) \cup {m}
      PROVE  q.next[n] = r.next[n] /\ q.prev[n] = r.prev[n]
  <2>1. (Elements(W[l]) \cup {l}) \cap (Elements(W[m]) \cup {m}) = {} /\ W[m] \in Seq(Nodes)
    BY RingsApart
  <2>2. Elements(W[m]) \subseteq Nodes
    BY <2>1 DEF Elements
  <2> QED
    BY <2>1, <2>2, <1>2, SentinelsApart
<1>5. Rings(q, [W EXCEPT ![l] = <<>>])
  BY <1>2, <1>3, <1>4, RingsReplaced
<1> QED
  BY <1>2, <1>5 DEF q

(* A list of different nodes is not longer than there are nodes.           *)
LEMMA DistinctLength ==
  ASSUME NEW w \in Seq(Nodes), Distinct(w)
  PROVE  /\ Cardinality(Nodes) \in Nat /\ Len(w) <= Cardinality(Nodes)
         /\ IsFiniteSet(Elements(w)) /\ Cardinality(Elements(w)) = Len(w)
<1>0. PICK L \in Nat : L = Len(w)
  OBVIOUS
<1>1. IsFiniteSet(Nodes) /\ Cardinality(Nodes) \in Nat
  BY SentinelsApart, FS_CardinalityType
<1>2. Elements(w) \subseteq Nodes
  BY DEF Elements
<1>3. IsFiniteSet(Elements(w)) /\ Cardinality(Elements(w)) <= Cardinality(Nodes)
  BY <1>1, <1>2, FS_Subset
<1>4. w \in Bijection(1 .. L, Elements(w))
  <2>1. w \in [1 .. L -> Elements(w)]
    BY <1>0 DEF Elements
  <2>2. \A i, j \in 1 .. L : w[i] = w[j] => i = j
    BY <1>0 DEF Distinct
  <2>3. \A n \in Elements(w) : \E i \in 1 .. L : w[i] = n
    BY <1>0 DEF Elements
  <2> QED
    BY <2>1, <2>2, <2>3 DEF Bijection, Injection, Surjection, IsInjective
<1>5. IsFiniteSet(1 .. L) /\ Cardinality(1 .. L) = L
  <2>1. L \in Int /\ 1 \in Int
    OBVIOUS
  <2>2. Cardinality(1 .. L) = IF 1 > L THEN 0 ELSE L - 1 + 1
    BY <2>1, FS_Interval
  <2> QED
    BY <2>1, <2>2, FS_Interval
<1>6. Cardinality(Elements(w)) = L
  BY <1>4, <1>5, FS_Bijection DEF ExistsBijection
<1> QED
  BY <1>0, <1>1, <1>3, <1>6

----------------------------------------------------------------------------
(* Walks                                                                   *)

(* The recursion in Between: f[i][n] are the first i nodes from n on.      *)
Froms(f, N, next, last) ==
  f = [i \in 0 .. N |->
         [n \in BaseNodes |->
            IF i = 0 \/ n = last THEN <<>> ELSE <<n>> \o f[i - 1][next[n]]]]

(* One round of it.                                                        *)
RowIs(f, i, next, last) ==
  f[i] = [n \in BaseNodes |-> IF i = 0 \/ n = last THEN <<>> ELSE <<n>> \o f[i - 1][next[n]]]

(* The rounds determine the rows.                                          *)
LEMMA FromsAre ==
  ASSUME NEW f, NEW N \in Nat, NEW next, NEW last
  PROVE  Froms(f, N, next, last) <=>
           f = [i \in 0 .. N |-> f[i]] /\ \A i \in 0 .. N : RowIs(f, i, next, last)
<1> DEFINE Row(i) == [n \in BaseNodes |->
                        IF i = 0 \/ n = last THEN <<>> ELSE <<n>> \o f[i - 1][next[n]]]
<1>1. Froms(f, N, next, last) <=> f = [i \in 0 .. N |-> Row(i)]
  BY DEF Froms
<1> HIDE DEF Row
<1>2. f = [i \in 0 .. N |-> Row(i)] <=>
        f = [i \in 0 .. N |-> f[i]] /\ \A i \in 0 .. N : f[i] = Row(i)
  <2>1. ASSUME f = [i \in 0 .. N |-> Row(i)]
        PROVE  f = [i \in 0 .. N |-> f[i]] /\ \A i \in 0 .. N : f[i] = Row(i)
    <3>1. ASSUME NEW i \in 0 .. N PROVE f[i] = Row(i)
      <4>1. f[i] = [j \in 0 .. N |-> Row(j)][i]
        BY <2>1
      <4> QED
        BY <4>1, Zenon
    <3>2. DOMAIN f = 0 .. N
      BY <2>1, Zenon
    <3> QED
      BY <2>1, <3>1
  <2>2. ASSUME f = [i \in 0 .. N |-> f[i]], \A i \in 0 .. N : f[i] = Row(i)
        PROVE  f = [i \in 0 .. N |-> Row(i)]
    BY <2>2
  <2> QED
    BY <2>1, <2>2
<1> QED
  BY <1>1, <1>2 DEF Row, RowIs

(* One row more.                                                           *)
LEMMA FromsMore ==
  ASSUME NEW f, NEW N \in Nat, N # 0, NEW next, NEW last, Froms(f, N - 1, next, last)
  PROVE  \E g : Froms(g, N, next, last)
<1> DEFINE Row(h, i) == [n \in BaseNodes |->
                           IF i = 0 \/ n = last THEN <<>> ELSE <<n>> \o h[i - 1][next[n]]]
           g == [i \in 0 .. N |-> IF i = N THEN Row(f, N) ELSE f[i]]
<1>1. \A i \in 0 .. N - 1 : f[i] = Row(f, i)
  <2>1. N - 1 \in Nat
    OBVIOUS
  <2>2. \A i \in 0 .. N - 1 : RowIs(f, i, next, last)
    BY <2>1, FromsAre
  <2> QED
    BY <2>2 DEF RowIs
<1>2. ASSUME NEW i \in 0 .. N PROVE g[i] = Row(g, i)
  <2>1. i # 0 => g[i - 1] = f[i - 1]
    <3>1. i # 0 => i - 1 \in 0 .. N /\ i - 1 # N
      OBVIOUS
    <3> HIDE DEF Row
    <3> QED
      BY <3>1
  <2>2. g[i] = IF i = N THEN Row(f, N) ELSE f[i]
    BY Zenon
  <2> HIDE DEF g
  <2>3. Row(g, i) = Row(f, i)
    BY <2>1
  <2>4. i # N => f[i] = Row(f, i)
    <3>1. i # N => i \in 0 .. N - 1
      OBVIOUS
    <3> HIDE DEF Row
    <3> QED
      BY <3>1, <1>1
  <2> HIDE DEF Row
  <2> QED
    BY <2>2, <2>3, <2>4
<1>3. g = [i \in 0 .. N |-> g[i]]
  <2> HIDE DEF Row
  <2> QED
    OBVIOUS
<1> HIDE DEF g
<1>4. \A i \in 0 .. N : RowIs(g, i, next, last)
  BY <1>2 DEF RowIs
<1>5. Froms(g, N, next, last)
  BY <1>3, <1>4, FromsAre
<1> QED
  BY <1>5

(* So there are any number of rows.                                        *)
LEMMA FromsExist ==
  ASSUME NEW N \in Nat, NEW next, NEW last
  PROVE  \E f : Froms(f, N, next, last)
<1> DEFINE bad == {i \in Nat : ~\E f : Froms(f, i, next, last)}
<1>1. ASSUME bad # {} PROVE FALSE
  <2>0. bad \in SUBSET Nat
    OBVIOUS
  <2>1. PICK i \in bad : \A j \in bad : i <= j
    <3> HIDE DEF bad
    <3> QED
      BY <1>1, <2>0, LeastExists
  <2>2. i # 0
    <3> DEFINE none == [j \in 0 .. 0 |-> [n \in BaseNodes |-> <<>>]]
    <3>1. none = [j \in 0 .. 0 |-> none[j]]
      OBVIOUS
    <3>2. \A j \in 0 .. 0 : RowIs(none, j, next, last)
      BY DEF RowIs
    <3> HIDE DEF none
    <3>3. Froms(none, 0, next, last)
      BY <3>1, <3>2, FromsAre
    <3> QED
      BY <3>3
  <2>3. i - 1 \in Nat /\ ~(i <= i - 1) /\ i \in Nat
    BY <2>0, <2>2
  <2>4. i - 1 \notin bad
    <3> HIDE DEF bad
    <3> QED
      BY <2>1, <2>3
  <2>5. PICK f : Froms(f, i - 1, next, last)
    BY <2>3, <2>4
  <2>6. \E g : Froms(g, i, next, last)
    BY <2>2, <2>3, <2>5, FromsMore
  <2> QED
    BY <2>6
<1> QED
  BY <1>1

(* From first, next leads through c to last.                               *)
Leads(next, c, first, last) ==
  /\ c \in Seq(Nodes) /\ Distinct(c) /\ last \notin Elements(c) /\ last \in BaseNodes
  /\ first = IF c = <<>> THEN last ELSE c[1]
  /\ \A i \in 1 .. Len(c) : next[c[i]] = IF i = Len(c) THEN last ELSE c[i + 1]

(* Then that is what lies between.                                         *)
LEMMA BetweenIs ==
  ASSUME NEW r, NEW c, NEW first, NEW last, Leads(r.next, c, first, last)
  PROVE  Between(r, first, last) = c
<1>a. PICK N \in Nat : N = Cardinality(Nodes) /\ Len(c) <= N
  BY DistinctLength DEF Leads
<1>b. PICK L \in Nat : L = Len(c)
  BY DEF Leads
<1>c. L <= N /\ c \in Seq(Nodes) /\ last \in BaseNodes
  BY <1>a, <1>b DEF Leads
<1> DEFINE f == CHOOSE f : Froms(f, N, r.next, last)
           At(i) == IF i = L + 1 THEN last ELSE c[i]
           Min2(a, b) == IF a <= b THEN a ELSE b
           Good(i) == \A k \in 1 .. L + 1 : f[i][At(k)] = SubSeq(c, k, Min2(k + i - 1, L))
           bad == {i \in 0 .. N : ~Good(i)}
<1>0. N \in Nat /\ L \in Nat /\ L <= N /\ c \in Seq(Nodes) /\ last \in BaseNodes
  BY <1>c
<1>1. Between(r, first, last) = f[N][first]
  BY <1>a DEF Between, Froms
<1>2. Froms(f, N, r.next, last)
  BY FromsExist
<1> HIDE DEF f
<1>3. ASSUME NEW i \in 0 .. N, NEW n \in BaseNodes
      PROVE  f[i][n] = IF i = 0 \/ n = last THEN <<>> ELSE <<n>> \o f[i - 1][r.next[n]]
  <2>1. RowIs(f, i, r.next, last)
    BY <1>2, FromsAre
  <2> QED
    BY <2>1 DEF RowIs
<1>4. ASSUME NEW k \in 1 .. L
      PROVE  /\ At(k) = c[k] /\ c[k] \in Nodes /\ c[k] \in BaseNodes /\ c[k] # last
             /\ r.next[At(k)] = At(k + 1)
  <2>0. c[k] \in Nodes
    BY <1>0, <1>b
  <2>1. c[k] \in Nodes /\ c[k] \in BaseNodes
    BY <2>0, SentinelsApart
  <2>2. c[k] # last
    BY <1>b DEF Leads, Elements
  <2>3. r.next[c[k]] = IF k = L THEN last ELSE c[k + 1]
    BY <1>b DEF Leads
  <2> QED
    BY <1>0, <2>1, <2>2, <2>3
<1>5. At(L + 1) = last
  OBVIOUS
<1>6. \A k \in Int : k > L => SubSeq(c, k, L) = <<>>
  BY <1>0, SubSeqEmpty
<1>7. \A k \in Int : SubSeq(c, k, k - 1) = <<>>
  BY <1>0, SubSeqEmpty
<1>8. Good(0)
  <2> SUFFICES ASSUME NEW k \in 1 .. L + 1
               PROVE  f[0][At(k)] = SubSeq(c, k, Min2(k + 0 - 1, L))
    OBVIOUS
  <2>1. At(k) \in BaseNodes
    BY <1>0, <1>4
  <2>2. f[0][At(k)] = <<>>
    <3> HIDE DEF At
    <3>1. 0 \in 0 .. N
      BY <1>0
    <3> QED
      BY <2>1, <3>1, <1>3
  <2>3. Min2(k + 0 - 1, L) = k - 1
    BY <1>0
  <2> QED
    BY <2>2, <2>3, <1>7
<1>9. ASSUME NEW i \in 0 .. N, i # 0, Good(i - 1) PROVE Good(i)
  <2> SUFFICES ASSUME NEW k \in 1 .. L + 1
               PROVE  f[i][At(k)] = SubSeq(c, k, Min2(k + i - 1, L))
    OBVIOUS
  <2>1. CASE k = L + 1
    <3>1. f[i][At(k)] = <<>>
      BY <2>1, <1>0, <1>3, <1>5
    <3>2. Min2(k + i - 1, L) = L /\ k > L /\ k \in Int
      BY <2>1, <1>9, <1>0
    <3> QED
      BY <3>1, <3>2, <1>6
  <2>2. CASE k \in 1 .. L
    <3>0. PICK x : x = c[k] /\ x \in Nodes /\ x \in BaseNodes /\ x # last /\ x = At(k)
                   /\ r.next[x] = At(k + 1)
      BY <2>2, <1>4
    <3>1. f[i][x] = <<x>> \o f[i - 1][r.next[x]]
      BY <3>0, <1>3, <1>9
    <3>2. PICK e \in Int : e = Min2(k + i - 1, L) /\ k <= e /\ e <= L
      <4>1. i >= 1 /\ i \in Nat /\ k \in Nat /\ k <= L
        BY <2>2, <1>9
      <4> QED
        BY <4>1, <1>0
    <3>3. f[i - 1][At(k + 1)] = SubSeq(c, k + 1, e)
      <4>1. k + 1 \in 1 .. L + 1 /\ Min2((k + 1) + (i - 1) - 1, L) = e
        BY <3>2, <2>2, <1>9, <1>0
      <4>2. f[i - 1][At(k + 1)] = SubSeq(c, k + 1, Min2((k + 1) + (i - 1) - 1, L))
        BY <4>1, <1>9
      <4> QED
        BY <4>1, <4>2
    <3>4. <<x>> \o SubSeq(c, k + 1, e) = SubSeq(c, k, e)
      <4>0. k \in Int /\ e \in Int /\ k + 1 \in Int /\ 1 <= k /\ \A j \in k .. e : c[j] \in Nodes
        <5>1. ASSUME NEW j \in k .. e PROVE c[j] \in Nodes
          <6>1. j \in 1 .. L
            BY <3>2, <2>2, <1>0
          <6> QED
            BY <6>1, <1>0, <1>b
        <5> QED
          BY <5>1, <3>2, <2>2
      <4>1. /\ SubSeq(c, k, e) \in Seq(Nodes) /\ Len(SubSeq(c, k, e)) = e - k + 1
            /\ \A j \in 1 .. e - k + 1 : SubSeq(c, k, e)[j] = c[k + j - 1]
        BY <4>0, <3>2, SubSeqProperties
      <4>2. /\ SubSeq(c, k + 1, e) \in Seq(Nodes) /\ Len(SubSeq(c, k + 1, e)) = e - k
            /\ \A j \in 1 .. e - k : SubSeq(c, k + 1, e)[j] = c[k + j]
        <5>1. \A j \in k + 1 .. e : c[j] \in Nodes
          BY <4>0
        <5>2. /\ SubSeq(c, k + 1, e) \in Seq(Nodes)
              /\ Len(SubSeq(c, k + 1, e)) = IF k + 1 <= e THEN e - (k + 1) + 1 ELSE 0
              /\ \A j \in 1 .. e - (k + 1) + 1 : SubSeq(c, k + 1, e)[j] = c[(k + 1) + j - 1]
          BY <4>0, <5>1, SubSeqProperties
        <5>3. e - (k + 1) + 1 = e - k
          BY <4>0
        <5>4. (IF k + 1 <= e THEN e - (k + 1) + 1 ELSE 0) = e - k
          BY <4>0, <3>2
        <5>5. ASSUME NEW j \in 1 .. e - k PROVE SubSeq(c, k + 1, e)[j] = c[k + j]
          <6>1. (k + 1) + j - 1 = k + j
            BY <4>0
          <6>2. SubSeq(c, k + 1, e)[j] = c[(k + 1) + j - 1]
            BY <5>2, <5>3
          <6> QED
            BY <6>1, <6>2
        <5> QED
          BY <5>2, <5>4, <5>5
      <4>3. PICK s1, s2 \in Seq(Nodes) : s1 = SubSeq(c, k, e) /\ s2 = SubSeq(c, k + 1, e)
        BY <4>1, <4>2
      <4>4. <<x>> \o s2 \in Seq(Nodes) /\ Len(<<x>> \o s2) = e - k + 1
        <5>1. <<x>> \in Seq(Nodes) /\ Len(<<x>>) = 1
          BY <3>0
        <5>2. Len(s2) = e - k
          BY <4>2, <4>3
        <5>3. <<x>> \o s2 \in Seq(Nodes) /\ Len(<<x>> \o s2) = 1 + Len(s2)
          BY <5>1, ConcatProperties
        <5> QED
          BY <5>2, <5>3, <4>0
      <4>5. ASSUME NEW j \in 1 .. e - k + 1 PROVE (<<x>> \o s2)[j] = s1[j]
        <5>1. CASE j = 1
          BY <5>1, <4>1, <4>2, <4>3, <3>0, <4>0
        <5>2. CASE j # 1
          <6>1. j - 1 \in 1 .. e - k /\ k + (j - 1) = k + j - 1
            BY <5>2, <4>0, <3>2
          <6>2. (<<x>> \o s2)[j] = s2[j - 1]
            BY <5>2, <4>2, <4>3, <4>0, <3>2
          <6> QED
            BY <6>1, <6>2, <4>1, <4>2, <4>3
        <5> QED
          BY <5>1, <5>2
      <4>6. Len(s1) = e - k + 1 /\ Len(<<x>> \o s2) = Len(s1)
        BY <4>1, <4>3, <4>4
      <4> QED
        BY <4>3, <4>4, <4>5, <4>6, SeqEqual
    <3> QED
      BY <3>0, <3>1, <3>2, <3>3, <3>4
  <2> QED
    BY <2>1, <2>2, <1>0
<1>10. bad = {}
  <2>1. SUFFICES ASSUME bad # {} PROVE FALSE
    OBVIOUS
  <2>2. bad \in SUBSET Nat
    BY <1>0
  <2>3. PICK i \in bad : \A j \in bad : i <= j
    <3> HIDE DEF bad
    <3> QED
      BY <2>1, <2>2, LeastExists
  <2>4. i \in 0 .. N /\ ~Good(i)
    OBVIOUS
  <2> HIDE DEF Good
  <2>5. i # 0
    BY <2>4, <1>8
  <2>6. i - 1 \in 0 .. N /\ ~(i <= i - 1)
    BY <2>4, <2>5, <1>0
  <2>7. i - 1 \notin bad
    <3> HIDE DEF bad
    <3> QED
      BY <2>3, <2>6
  <2>8. Good(i - 1)
    BY <2>6, <2>7
  <2> QED
    BY <2>4, <2>5, <2>8, <1>9
<1>11. Good(N)
  <2> HIDE DEF Good
  <2>1. N \in 0 .. N
    BY <1>0
  <2> QED
    BY <2>1, <1>10
<1>12. f[N][At(1)] = SubSeq(c, 1, Min2(1 + N - 1, L))
  <2>1. 1 \in 1 .. L + 1
    BY <1>0
  <2> QED
    BY <2>1, <1>11
<1>13. Min2(1 + N - 1, L) = L
  BY <1>0
<1>14. first = At(1)
  BY <1>0, <1>b DEF Leads
<1>15. SubSeq(c, 1, L) = c
  BY <1>0, <1>b, SubSeqFull
<1> QED
  BY <1>1, <1>12, <1>13, <1>14, <1>15

----------------------------------------------------------------------------
(* Where the nodes are                                                     *)

(* Where a node may be: in list l, cached by its pool, or with the         *)
(* allocator.                                                              *)
Listed(l) == <<1, l>>
Cached(l) == <<2, l>>
Stored == <<0, 0>>

(* A node is in one place.                                                 *)
LEMMA HomesDiffer ==
  /\ \A l, m \in Sentinels : /\ (Listed(l) = Listed(m) <=> l = m)
                             /\ (Cached(l) = Cached(m) <=> l = m)
                             /\ Listed(l) # Cached(m)
  /\ \A l \in Sentinels : Listed(l) # Stored /\ Cached(l) # Stored
  BY DEF Listed, Cached, Stored

(* H[n] says where node n is: W are the lists, F the caches of the pools.  *)
Kept(W, F, hp, H) ==
  /\ \A n \in Nodes : \/ H[n] = Stored
                      \/ \E l \in Sentinels : H[n] \in {Listed(l), Cached(l)}
  /\ \A n \in Nodes, l \in Sentinels : /\ n \in Elements(W[l]) <=> H[n] = Listed(l)
                                       /\ n \in Elements(F[l]) <=> H[n] = Cached(l)
  /\ hp \subseteq Nodes
  /\ \A n \in Nodes : n \in hp <=> H[n] = Stored

(* What a pool may be.                                                     *)
Pools == [free_nodes : Seq(Nodes), cached_node_count : Nat, node_pool_allocations : Nat]

(* A pool with the nodes of f in its cache.                                *)
PoolIs(p, f) ==
  /\ p \in Pools /\ f \in Seq(Nodes) /\ Distinct(f)
  /\ p.free_nodes = f /\ p.cached_node_count = Len(f)

(* What an operation works on.                                             *)
States ==
  [ring : RingShape, value : [Nodes -> Values], size : [Sentinels -> Nat],
   pool : [Sentinels -> Pools], heap : SUBSET Nodes]

(* The lists of state s are those of W, its pools have cached F, and no    *)
(* node is lost or in two places.                                          *)
Sound(s, W, F, H) ==
  /\ s \in States
  /\ Rings(s.ring, W)
  /\ \A l \in Sentinels : s.size[l] = Len(W[l])
  /\ F \in Sequences
  /\ \A l \in Sentinels : PoolIs(s.pool[l], F[l])
  /\ Kept(W, F, s.heap, H)

(* A sequence of sequences with one replaced.                              *)
LEMMA Replaced ==
  ASSUME NEW W \in Sequences, NEW l \in Sentinels, NEW w \in Seq(Nodes)
  PROVE  /\ [W EXCEPT ![l] = w] \in Sequences
         /\ \A m \in Sentinels : [W EXCEPT ![l] = w][m] = IF m = l THEN w ELSE W[m]
  BY DEF Sequences

(* The elements of some sequences.                                         *)
LEMMA ElementsOf ==
  /\ \A w \in Seq(Nodes) : Elements(w) \subseteq Nodes
  /\ Elements(<<>>) = {}
  /\ Distinct(<<>>)
  BY DEF Elements, Distinct

(* A sequence of one node.                                                 *)
LEMMA OneNode ==
  ASSUME NEW n \in Nodes
  PROVE  /\ <<n>> \in Seq(Nodes) /\ Len(<<n>>) = 1 /\ <<n>>[1] = n
         /\ Elements(<<n>>) = {n} /\ Distinct(<<n>>)
         /\ \A r : IsChain(r, <<n>>)
  BY DEF Elements, Distinct, IsChain

(* The cache without its first node.                                       *)
LEMMA TailFacts ==
  ASSUME NEW f \in Seq(Nodes), Distinct(f), f # <<>>
  PROVE  /\ Head(f) \in Nodes /\ Head(f) \in Elements(f)
         /\ Tail(f) \in Seq(Nodes) /\ Distinct(Tail(f)) /\ Len(Tail(f)) = Len(f) - 1
         /\ Elements(Tail(f)) = Elements(f) \ {Head(f)}
<1>a. PICK L \in Nat : L = Len(f) /\ L >= 1
  OBVIOUS
<1>1. /\ Head(f) = f[1] /\ Tail(f) \in Seq(Nodes) /\ Len(Tail(f)) = L - 1
      /\ \A i \in 1 .. L - 1 : Tail(f)[i] = f[i + 1]
  BY <1>a
<1>2. f[1] \in Nodes /\ f[1] \in Elements(f)
  BY <1>a DEF Elements
<1>3. \A i, j \in 1 .. L : f[i] = f[j] => i = j
  BY <1>a DEF Distinct
<1>4. Distinct(Tail(f))
  BY <1>1, <1>3 DEF Distinct
<1>5. Elements(Tail(f)) = Elements(f) \ {f[1]}
  <2>1. /\ Elements(f) = {f[i] : i \in 1 .. L}
        /\ Elements(Tail(f)) = {Tail(f)[i] : i \in 1 .. L - 1}
    BY <1>a, <1>1 DEF Elements
  <2>2. ASSUME NEW i \in 1 .. L - 1 PROVE Tail(f)[i] \in Elements(f) \ {f[1]}
    <3>1. i + 1 \in 1 .. L /\ 1 \in 1 .. L /\ i + 1 # 1
      BY <1>a
    <3> QED
      BY <3>1, <2>1, <1>1, <1>3
  <2>3. ASSUME NEW i \in 1 .. L, f[i] # f[1] PROVE f[i] \in Elements(Tail(f))
    <3>1. i - 1 \in 1 .. L - 1 /\ (i - 1) + 1 = i
      BY <2>3
    <3>2. Tail(f)[i - 1] = f[i]
      BY <3>1, <1>1
    <3> QED
      BY <2>1, <3>1, <3>2
  <2> QED
    BY <2>1, <2>2, <2>3, Zenon
<1> QED
  BY <1>a, <1>1, <1>2, <1>4, <1>5

(* One sequence behind another that has none of its nodes.                 *)
LEMMA ConcatFacts ==
  ASSUME NEW v \in Seq(Nodes), NEW w \in Seq(Nodes), Distinct(v), Distinct(w),
         Elements(v) \cap Elements(w) = {}
  PROVE  /\ v \o w \in Seq(Nodes) /\ Distinct(v \o w) /\ Len(v \o w) = Len(v) + Len(w)
         /\ Elements(v \o w) = Elements(v) \cup Elements(w)
<1>a. PICK K, L \in Nat : K = Len(v) /\ L = Len(w)
  OBVIOUS
<1>b. PICK x : x = v \o w
  OBVIOUS
<1>c. x \in Seq(Nodes)
  BY <1>b, ConcatProperties
<1>1. Len(x) = K + L /\ \A i \in 1 .. K + L : x[i] = IF i <= K THEN v[i] ELSE w[i - K]
  BY <1>a, <1>b, ConcatProperties
<1>2. /\ Elements(v) = {v[i] : i \in 1 .. K} /\ Elements(w) = {w[i] : i \in 1 .. L}
      /\ Elements(x) = {x[i] : i \in 1 .. K + L}
  BY <1>a, <1>1 DEF Elements
<1>3. /\ \A i, j \in 1 .. K : v[i] = v[j] => i = j
      /\ \A i, j \in 1 .. L : w[i] = w[j] => i = j
  BY <1>a DEF Distinct
<1>4. ASSUME NEW i \in 1 .. K + L
      PROVE  \/ i \in 1 .. K /\ x[i] = v[i] /\ v[i] \in Elements(v)
             \/ i > K /\ i - K \in 1 .. L /\ x[i] = w[i - K] /\ w[i - K] \in Elements(w)
  BY <1>1, <1>2
<1>5. Distinct(x)
  <2> SUFFICES ASSUME NEW i \in 1 .. K + L, NEW j \in 1 .. K + L, x[i] = x[j] PROVE i = j
    BY <1>1 DEF Distinct
  <2>1. \/ i \in 1 .. K /\ x[i] = v[i] /\ v[i] \in Elements(v)
        \/ i > K /\ i - K \in 1 .. L /\ x[i] = w[i - K] /\ w[i - K] \in Elements(w)
    BY <1>4
  <2>2. \/ j \in 1 .. K /\ x[j] = v[j] /\ v[j] \in Elements(v)
        \/ j > K /\ j - K \in 1 .. L /\ x[j] = w[j - K] /\ w[j - K] \in Elements(w)
    BY <1>4
  <2> QED
    BY <2>1, <2>2, <1>3
<1>6. Elements(x) = Elements(v) \cup Elements(w)
  <2>1. \A i \in 1 .. K : v[i] \in Elements(x)
    BY <1>1, <1>2
  <2>2. ASSUME NEW i \in 1 .. L PROVE w[i] \in Elements(x)
    <3>1. i + K \in 1 .. K + L /\ x[i + K] = w[i]
      BY <1>1
    <3> QED
      BY <3>1, <1>2
  <2> QED
    BY <2>1, <2>2, <1>2, <1>4, ZenonT(40)
<1> QED
  BY <1>a, <1>b, <1>c, <1>1, <1>5, <1>6

(* A sequence backwards.                                                   *)
LEMMA ReverseFacts ==
  ASSUME NEW w \in Seq(Nodes), Distinct(w)
  PROVE  /\ Reverse(w) \in Seq(Nodes) /\ Distinct(Reverse(w)) /\ Len(Reverse(w)) = Len(w)
         /\ Elements(Reverse(w)) = Elements(w)
         /\ \A i \in 1 .. Len(w) : Reverse(w)[i] = w[Len(w) - i + 1]
<1>a. PICK L \in Nat : L = Len(w)
  OBVIOUS
<1>b. PICK v : v = Reverse(w)
  OBVIOUS
<1>1. v = [i \in 1 .. L |-> w[(L - i) + 1]]
  BY <1>a, <1>b DEF Reverse
<1>2. ASSUME NEW i \in 1 .. L PROVE (L - i) + 1 \in 1 .. L /\ w[(L - i) + 1] \in Nodes
  <2>1. (L - i) + 1 \in 1 .. L
    OBVIOUS
  <2> QED
    BY <2>1, <1>a
<1>3. v \in Seq(Nodes) /\ Len(v) = L /\ \A i \in 1 .. L : v[i] = w[(L - i) + 1]
  BY <1>1, <1>2
<1>4. Distinct(v)
  <2> SUFFICES ASSUME NEW i \in 1 .. L, NEW j \in 1 .. L, v[i] = v[j] PROVE i = j
    BY <1>3 DEF Distinct
  <2>1. (L - i) + 1 = (L - j) + 1
    BY <1>2, <1>3, <1>a DEF Distinct
  <2> QED
    BY <2>1
<1>5. Elements(v) = Elements(w)
  <2>1. Elements(w) = {w[i] : i \in 1 .. L} /\ Elements(v) = {v[i] : i \in 1 .. L}
    BY <1>a, <1>3 DEF Elements
  <2>2. ASSUME NEW i \in 1 .. L PROVE w[i] \in Elements(v)
    <3>1. (L - i) + 1 \in 1 .. L /\ (L - ((L - i) + 1)) + 1 = i
      OBVIOUS
    <3> QED
      BY <3>1, <1>3, <2>1
  <2>3. ASSUME NEW i \in 1 .. L PROVE v[i] \in Elements(w)
    BY <1>2, <1>3, <2>1
  <2> QED
    BY <2>1, <2>2, <2>3
<1>6. \A i \in 1 .. L : (L - i) + 1 = L - i + 1
  OBVIOUS
<1> QED
  BY <1>3, <1>4, <1>5, <1>6, <1>a, <1>b

(* Of the sequences W, the one of l gets the nodes of S, and any other     *)
(* loses those that it has.                                                *)
Gains(W, V, l, S) ==
  \A m \in Sentinels : Elements(V[m]) = IF m = l THEN Elements(W[l]) \cup S
                                        ELSE Elements(W[m]) \ S

(* The elements of S are in none of the sequences any more.                *)
Loses(W, V, S) == \A m \in Sentinels : Elements(V[m]) = Elements(W[m]) \ S

(* The nodes of S are now in list l.                                       *)
LEMMA KeptListed ==
  ASSUME NEW W, NEW F, NEW hp, NEW H, Kept(W, F, hp, H),
         NEW V, NEW G, NEW hq, NEW l \in Sentinels, NEW S \in SUBSET Nodes,
         Gains(W, V, l, S), Loses(F, G, S), hq = hp \ S
  PROVE  Kept(V, G, hq, [n \in Nodes |-> IF n \in S THEN Listed(l) ELSE H[n]])
<1> DEFINE K == [n \in Nodes |-> IF n \in S THEN Listed(l) ELSE H[n]]
<1>1. \A n \in Nodes : K[n] = IF n \in S THEN Listed(l) ELSE H[n]
  OBVIOUS
<1> HIDE DEF K
<1>2. \A n \in Nodes : K[n] = Stored \/ \E m \in Sentinels : K[n] \in {Listed(m), Cached(m)}
  BY <1>1 DEF Kept
<1>3. ASSUME NEW n \in Nodes, NEW m \in Sentinels
      PROVE  /\ n \in Elements(V[m]) <=> K[n] = Listed(m)
             /\ n \in Elements(G[m]) <=> K[n] = Cached(m)
  <2>1. (n \in Elements(W[m]) <=> H[n] = Listed(m)) /\ (n \in Elements(F[m]) <=> H[n] = Cached(m))
    BY DEF Kept
  <2>2. CASE n \in S
    <3>1. K[n] = Listed(l)
      BY <1>1, <2>2
    <3>2. n \in Elements(V[m]) <=> m = l
      <4>1. Elements(V[m]) = IF m = l THEN Elements(W[l]) \cup S ELSE Elements(W[m]) \ S
        BY DEF Gains
      <4> QED
        BY <4>1, <2>2
    <3>3. n \notin Elements(G[m])
      BY <2>2 DEF Loses
    <3>4. (Listed(l) = Listed(m) <=> l = m) /\ Listed(l) # Cached(m)
      BY HomesDiffer
    <3> QED
      BY <3>1, <3>2, <3>3, <3>4
  <2>3. CASE n \notin S
    <3>1. K[n] = H[n]
      BY <1>1, <2>3
    <3> QED
      BY <2>1, <2>3, <3>1 DEF Gains, Loses
  <2> QED
    BY <2>2, <2>3
<1>4. hq \subseteq Nodes /\ \A n \in Nodes : n \in hq <=> K[n] = Stored
  BY <1>1, HomesDiffer DEF Kept
<1>5. Kept(V, G, hq, K)
  BY <1>2, <1>3, <1>4 DEF Kept
<1> QED
  BY <1>5 DEF K

(* The nodes of S are now in the pool of l.                                *)
LEMMA KeptCached ==
  ASSUME NEW W, NEW F, NEW hp, NEW H, Kept(W, F, hp, H),
         NEW V, NEW G, NEW hq, NEW l \in Sentinels, NEW S \in SUBSET Nodes,
         Loses(W, V, S), Gains(F, G, l, S), hq = hp \ S
  PROVE  Kept(V, G, hq, [n \in Nodes |-> IF n \in S THEN Cached(l) ELSE H[n]])
<1> DEFINE K == [n \in Nodes |-> IF n \in S THEN Cached(l) ELSE H[n]]
<1>1. \A n \in Nodes : K[n] = IF n \in S THEN Cached(l) ELSE H[n]
  OBVIOUS
<1> HIDE DEF K
<1>2. \A n \in Nodes : K[n] = Stored \/ \E m \in Sentinels : K[n] \in {Listed(m), Cached(m)}
  BY <1>1 DEF Kept
<1>3. ASSUME NEW n \in Nodes, NEW m \in Sentinels
      PROVE  /\ n \in Elements(V[m]) <=> K[n] = Listed(m)
             /\ n \in Elements(G[m]) <=> K[n] = Cached(m)
  <2>1. (n \in Elements(W[m]) <=> H[n] = Listed(m)) /\ (n \in Elements(F[m]) <=> H[n] = Cached(m))
    BY DEF Kept
  <2>2. CASE n \in S
    <3>1. K[n] = Cached(l)
      BY <1>1, <2>2
    <3>2. n \in Elements(G[m]) <=> m = l
      <4>1. Elements(G[m]) = IF m = l THEN Elements(F[l]) \cup S ELSE Elements(F[m]) \ S
        BY DEF Gains
      <4> QED
        BY <4>1, <2>2
    <3>3. n \notin Elements(V[m])
      BY <2>2 DEF Loses
    <3>4. (Cached(l) = Cached(m) <=> l = m) /\ Cached(l) # Listed(m)
      BY HomesDiffer
    <3> QED
      BY <3>1, <3>2, <3>3, <3>4
  <2>3. CASE n \notin S
    <3>1. K[n] = H[n]
      BY <1>1, <2>3
    <3> QED
      BY <2>1, <2>3, <3>1 DEF Gains, Loses
  <2> QED
    BY <2>2, <2>3
<1>4. hq \subseteq Nodes /\ \A n \in Nodes : n \in hq <=> K[n] = Stored
  BY <1>1, HomesDiffer DEF Kept
<1>5. Kept(V, G, hq, K)
  BY <1>2, <1>3, <1>4 DEF Kept
<1> QED
  BY <1>5 DEF K

(* The nodes of S are now the allocator's.                                 *)
LEMMA KeptStored ==
  ASSUME NEW W, NEW F, NEW hp, NEW H, Kept(W, F, hp, H),
         NEW V, NEW G, NEW hq, NEW S \in SUBSET Nodes,
         Loses(W, V, S), Loses(F, G, S), hq = hp \cup S
  PROVE  Kept(V, G, hq, [n \in Nodes |-> IF n \in S THEN Stored ELSE H[n]])
  BY HomesDiffer DEF Kept, Loses

(* What Kept says of two places.                                           *)
LEMMA KeptApart ==
  ASSUME NEW W, NEW F, NEW hp, NEW H, Kept(W, F, hp, H), W \in Sequences, F \in Sequences
  PROVE  /\ \A l, m \in Sentinels : /\ Elements(W[l]) \cap Elements(F[m]) = {}
                                    /\ l # m => /\ Elements(W[l]) \cap Elements(W[m]) = {}
                                                /\ Elements(F[l]) \cap Elements(F[m]) = {}
         /\ \A l \in Sentinels : /\ hp \cap Elements(W[l]) = {} /\ hp \cap Elements(F[l]) = {}
                                 /\ Elements(W[l]) \subseteq Nodes
                                 /\ Elements(F[l]) \subseteq Nodes
<1>1. \A l \in Sentinels : Elements(W[l]) \subseteq Nodes /\ Elements(F[l]) \subseteq Nodes
  BY ElementsOf DEF Sequences
<1> QED
  BY <1>1, HomesDiffer DEF Kept

(* The parts of a sound state.                                             *)
LEMMA SoundParts ==
  ASSUME NEW s, NEW W, NEW F, NEW H, Sound(s, W, F, H)
  PROVE  /\ s.ring \in RingShape /\ s.value \in [Nodes -> Values]
         /\ s.size \in [Sentinels -> Nat] /\ s.pool \in [Sentinels -> Pools]
         /\ s.heap \subseteq Nodes /\ IsFiniteSet(s.heap) /\ Cardinality(s.heap) \in Nat
         /\ W \in Sequences /\ F \in Sequences
         /\ \A l \in Sentinels :
              /\ W[l] \in Seq(Nodes) /\ Distinct(W[l]) /\ Len(W[l]) \in Nat
              /\ s.size[l] = Len(W[l])
              /\ F[l] \in Seq(Nodes) /\ Distinct(F[l]) /\ Len(F[l]) \in Nat
              /\ PoolIs(s.pool[l], F[l])
              /\ Room(s, l) = Len(F[l]) + Cardinality(s.heap)
<1>1. /\ s.ring \in RingShape /\ s.value \in [Nodes -> Values]
      /\ s.size \in [Sentinels -> Nat] /\ s.pool \in [Sentinels -> Pools]
      /\ s.heap \subseteq Nodes
  BY DEF Sound, States
<1>2. IsFiniteSet(s.heap) /\ Cardinality(s.heap) \in Nat
  BY <1>1, SentinelsApart, FS_Subset, FS_CardinalityType
<1>3. W \in Sequences /\ F \in Sequences /\ \A l \in Sentinels : IsRing(s.ring, l, W[l])
  BY DEF Sound, Rings
<1>4. ASSUME NEW l \in Sentinels
      PROVE  /\ W[l] \in Seq(Nodes) /\ Distinct(W[l]) /\ Len(W[l]) \in Nat
             /\ s.size[l] = Len(W[l])
             /\ F[l] \in Seq(Nodes) /\ Distinct(F[l]) /\ Len(F[l]) \in Nat
             /\ PoolIs(s.pool[l], F[l])
             /\ Room(s, l) = Len(F[l]) + Cardinality(s.heap)
  <2>1. W[l] \in Seq(Nodes) /\ F[l] \in Seq(Nodes)
    BY <1>3 DEF Sequences
  <2>2. Distinct(W[l])
    BY <1>3 DEF IsRing
  <2>3. PoolIs(s.pool[l], F[l]) /\ s.size[l] = Len(W[l])
    BY DEF Sound
  <2>4. Distinct(F[l]) /\ s.pool[l].free_nodes = F[l]
    BY <2>3 DEF PoolIs
  <2> QED
    BY <2>1, <2>2, <2>3, <2>4 DEF Room
<1> QED
  BY <1>1, <1>2, <1>3, <1>4

----------------------------------------------------------------------------
(* Pools                                                                   *)

(* create takes the latest cached node ...                                 *)
LEMMA PopPool ==
  ASSUME NEW p, NEW f, PoolIs(p, f), f # <<>>
  PROVE  PoolIs(pop_cached_node(p), Tail(f))
<1>1. PICK a, c, d \in Nat : /\ a = p.node_pool_allocations /\ c = Len(f)
                             /\ d = Len(Tail(f)) /\ d = c - 1
  BY TailFacts DEF PoolIs, Pools
<1>2. p \in Pools /\ f = p.free_nodes /\ p.cached_node_count - 1 = d
  BY <1>1 DEF PoolIs
<1>3. PICK g \in Seq(Nodes) : g = Tail(f) /\ Distinct(g)
  BY TailFacts DEF PoolIs
<1>4. PICK q : q = pop_cached_node(p)
  OBVIOUS
<1>5. q = [p EXCEPT !.free_nodes = g, !.cached_node_count = d]
  BY <1>2, <1>3, <1>4 DEF pop_cached_node
<1>6. q \in Pools /\ q.free_nodes = g /\ q.cached_node_count = d
  BY <1>1, <1>2, <1>3, <1>5 DEF Pools
<1> QED
  BY <1>1, <1>3, <1>4, <1>6 DEF PoolIs

(* ... or a storage of the allocator, which it counts.                     *)
LEMMA CountPool ==
  ASSUME NEW p, NEW f, PoolIs(p, f)
  PROVE  PoolIs([p EXCEPT !.node_pool_allocations = @ + 1], f)
<1>1. PICK b \in Nat : b = p.node_pool_allocations + 1
  BY DEF PoolIs, Pools
<1>2. PICK q : q = [p EXCEPT !.node_pool_allocations = b]
  OBVIOUS
<1>3. q \in Pools /\ q.free_nodes = p.free_nodes /\ q.cached_node_count = p.cached_node_count
  BY <1>1, <1>2 DEF PoolIs, Pools
<1>4. PoolIs(q, f)
  BY <1>3 DEF PoolIs
<1> QED
  BY <1>1, <1>2, <1>4

(* A destroyed node waits in front.                                        *)
LEMMA PushPool ==
  ASSUME NEW p, NEW f, PoolIs(p, f), NEW n \in Nodes, n \notin Elements(f)
  PROVE  /\ PoolIs(push_cached_node(p, n), <<n>> \o f)
         /\ Elements(<<n>> \o f) = Elements(f) \cup {n}
<1>0. f \in Seq(Nodes) /\ Distinct(f)
  BY DEF PoolIs
<1>1. PICK g \in Seq(Nodes) : /\ g = <<n>> \o f /\ Distinct(g) /\ Len(g) = 1 + Len(f)
                              /\ Elements(g) = Elements(f) \cup {n}
  <2>1. Elements(<<n>>) \cap Elements(f) = {}
    BY OneNode
  <2>2. /\ <<n>> \o f \in Seq(Nodes) /\ Distinct(<<n>> \o f)
        /\ Len(<<n>> \o f) = Len(<<n>>) + Len(f)
        /\ Elements(<<n>> \o f) = Elements(<<n>>) \cup Elements(f)
    BY <1>0, <2>1, OneNode, ConcatFacts
  <2>3. Len(<<n>>) = 1 /\ Elements(<<n>>) = {n}
    BY OneNode
  <2> QED
    BY <2>2, <2>3
<1>2. PICK d \in Nat : d = Len(g) /\ d = p.cached_node_count + 1
  BY <1>0, <1>1 DEF PoolIs
<1>3. PICK q : q = [p EXCEPT !.free_nodes = g, !.cached_node_count = d]
  OBVIOUS
<1>4. q = push_cached_node(p, n)
  BY <1>1, <1>2, <1>3 DEF push_cached_node, PoolIs
<1>5. q \in Pools /\ q.free_nodes = g /\ q.cached_node_count = d
  BY <1>2, <1>3 DEF Pools, PoolIs
<1>6. PoolIs(q, g)
  BY <1>1, <1>2, <1>5 DEF PoolIs
<1> QED
  BY <1>1, <1>4, <1>6

(* So do all nodes of a list, the last one in front.                       *)
LEMMA PushPools ==
  ASSUME NEW p, NEW f, PoolIs(p, f), NEW w \in Seq(Nodes), Distinct(w),
         Elements(w) \cap Elements(f) = {}
  PROVE  /\ PoolIs(push_cached_nodes(p, w), Reverse(w) \o f)
         /\ Elements(Reverse(w) \o f) = Elements(f) \cup Elements(w)
<1>0. f \in Seq(Nodes) /\ Distinct(f)
  BY DEF PoolIs
<1>1. PICK g \in Seq(Nodes) : /\ g = Reverse(w) \o f /\ Distinct(g) /\ Len(g) = Len(w) + Len(f)
                              /\ Elements(g) = Elements(f) \cup Elements(w)
  <2>1. PICK v \in Seq(Nodes) : v = Reverse(w) /\ Distinct(v) /\ Len(v) = Len(w)
                                /\ Elements(v) = Elements(w)
    BY ReverseFacts
  <2>2. /\ v \o f \in Seq(Nodes) /\ Distinct(v \o f)
        /\ Len(v \o f) = Len(v) + Len(f) /\ Elements(v \o f) = Elements(v) \cup Elements(f)
    BY <1>0, <2>1, ConcatFacts
  <2> QED
    BY <2>1, <2>2
<1>2. PICK d \in Nat : d = Len(g) /\ d = p.cached_node_count + Len(w)
  BY <1>0, <1>1 DEF PoolIs
<1>3. PICK q : q = [p EXCEPT !.free_nodes = g, !.cached_node_count = d]
  OBVIOUS
<1>4. q = push_cached_nodes(p, w)
  BY <1>1, <1>2, <1>3 DEF push_cached_nodes, PoolIs
<1>5. q \in Pools /\ q.free_nodes = g /\ q.cached_node_count = d
  BY <1>2, <1>3 DEF Pools, PoolIs
<1>6. PoolIs(q, g)
  BY <1>1, <1>2, <1>5 DEF PoolIs
<1> QED
  BY <1>1, <1>4, <1>6

(* shrink_to_fit leaves the cache empty, as it is in a new pool.           *)
LEMMA EmptyPools ==
  /\ PoolIs(NewPool, <<>>)
  /\ \A p \in Pools : PoolIs(Shrunk(p), <<>>)
<1>1. <<>> \in Seq(Nodes) /\ Distinct(<<>>) /\ Len(<<>>) = 0
  BY ElementsOf
<1>2. NewPool \in Pools
  BY DEF NewPool, Pools
<1>3. ASSUME NEW p \in Pools PROVE PoolIs(Shrunk(p), <<>>)
  <2>1. p.node_pool_allocations \in Nat /\ p.free_nodes \in Seq(Nodes)
    BY DEF Pools
  <2>2. PICK a \in Nat : a = IF p.node_pool_allocations >= Len(p.free_nodes)
                             THEN p.node_pool_allocations - Len(p.free_nodes) ELSE 0
    BY <2>1
  <2>3. Shrunk(p) = [free_nodes |-> <<>>, cached_node_count |-> 0, node_pool_allocations |-> a]
    BY <2>2 DEF Shrunk
  <2> QED
    BY <1>1, <2>3 DEF PoolIs, Pools
<1> QED
  BY <1>1, <1>2, <1>3 DEF PoolIs, NewPool

----------------------------------------------------------------------------
(* Inserting                                                               *)

(* The storage that create_node uses.                                      *)
NewNode(s, l) ==
  LET offered == Offered(s.pool[l], s.heap)
  IN  CHOOSE x \in offered : \A y \in offered : x <= y

(* It comes from the cache of the list or from the allocator.              *)
LEMMA TakenNode ==
  ASSUME NEW s, NEW W, NEW F, NEW H, Sound(s, W, F, H), NEW l \in Sentinels, Room(s, l) >= 1
  PROVE  LET n == NewNode(s, l)
             taken == Taken(s.pool[l], s.heap, n)
         IN  \E f :
               /\ n \in Nodes
               /\ \A m \in Sentinels : n \notin Elements(W[m])
               /\ \A m \in Sentinels \ {l} : n \notin Elements(F[m])
               /\ PoolIs(taken.pool, f) /\ Elements(f) = Elements(F[l]) \ {n}
               /\ taken.heap = s.heap \ {n}
               /\ Len(f) + Cardinality(taken.heap) = Room(s, l) - 1
<1> DEFINE p == s.pool[l]
           offered == Offered(p, s.heap)
<1>1. /\ s.heap \subseteq Nodes /\ IsFiniteSet(s.heap) /\ Cardinality(s.heap) \in Nat
      /\ W \in Sequences /\ F \in Sequences
      /\ F[l] \in Seq(Nodes) /\ Distinct(F[l]) /\ Len(F[l]) \in Nat
      /\ PoolIs(p, F[l]) /\ Room(s, l) = Len(F[l]) + Cardinality(s.heap)
  BY SoundParts
<1>2. Kept(W, F, s.heap, H)
  BY DEF Sound
<1>3. p.free_nodes = F[l]
  BY <1>1 DEF PoolIs
<1> HIDE DEF p
<1>4. CASE F[l] # <<>>
  <2>1. PICK n : n = Head(F[l])
    OBVIOUS
  <2>2. /\ n \in Nodes /\ n \in Elements(F[l]) /\ Len(Tail(F[l])) = Len(F[l]) - 1
        /\ Elements(Tail(F[l])) = Elements(F[l]) \ {n}
    BY <1>1, <1>4, <2>1, TailFacts
  <2>3. offered = {n}
    BY <1>3, <1>4, <2>1 DEF Offered
  <2>4. n <= n
    BY <2>2, SentinelsApart
  <2>5. NewNode(s, l) = n
    BY <2>3, <2>4 DEF NewNode, p
  <2>6. /\ Taken(p, s.heap, n).pool = pop_cached_node(p)
        /\ Taken(p, s.heap, n).heap = s.heap
    BY <1>3, <1>4 DEF Taken
  <2>7. PoolIs(pop_cached_node(p), Tail(F[l]))
    BY <1>1, <1>4, PopPool
  <2>8. /\ \A m \in Sentinels : n \notin Elements(W[m])
        /\ \A m \in Sentinels \ {l} : n \notin Elements(F[m])
        /\ n \notin s.heap
    BY <1>1, <1>2, <2>2, KeptApart
  <2>9. s.heap = s.heap \ {n}
    BY <2>8
  <2>10. Len(Tail(F[l])) + Cardinality(s.heap) = Room(s, l) - 1
    BY <1>1, <2>2
  <2> QED
    BY <2>2, <2>5, <2>6, <2>7, <2>8, <2>9, <2>10 DEF p
<1>5. CASE F[l] = <<>>
  <2>1. Cardinality(s.heap) >= 1
    BY <1>1, <1>5
  <2>2. s.heap # {}
    BY <2>1, FS_EmptySet
  <2>3. offered = s.heap
    BY <1>3, <1>5 DEF Offered
  <2>4. PICK n : n = NewNode(s, l)
    OBVIOUS
  <2>5. n \in s.heap
    <3>1. \E x \in s.heap : \A y \in s.heap : x <= y
      <4>1. s.heap \in SUBSET Nat
        BY <1>1, SentinelsApart
      <4> QED
        BY <4>1, <2>2, LeastExists
    <3> QED
      BY <3>1, <2>3, <2>4 DEF NewNode, p
  <2>6. n \in Nodes
    BY <1>1, <2>5
  <2>7. /\ Taken(p, s.heap, n).pool = [p EXCEPT !.node_pool_allocations = @ + 1]
        /\ Taken(p, s.heap, n).heap = s.heap \ {n}
    BY <1>3, <1>5 DEF Taken
  <2>8. PoolIs(Taken(p, s.heap, n).pool, F[l])
    BY <1>1, <2>7, CountPool
  <2>9. /\ \A m \in Sentinels : n \notin Elements(W[m])
        /\ \A m \in Sentinels : n \notin Elements(F[m])
    BY <1>1, <1>2, <2>5, KeptApart
  <2>10. Elements(F[l]) = Elements(F[l]) \ {n}
    BY <2>9
  <2>11. Cardinality(s.heap \ {n}) = Cardinality(s.heap) - 1
    BY <1>1, <2>5, FS_RemoveElement
  <2>12. Len(F[l]) + Cardinality(s.heap \ {n}) = Room(s, l) - 1
    BY <1>1, <2>11
  <2> QED
    BY <2>4, <2>6, <2>7, <2>8, <2>9, <2>10, <2>12 DEF p
<1> QED
  BY <1>4, <1>5

(* n is inserted with value v behind the first k nodes of list l.          *)
Emplaced(s, W, F, l, k, v, t, V, G, n) ==
  /\ n \in Nodes
  /\ \A m \in Sentinels : n \notin Elements(W[m])
  /\ V = [W EXCEPT ![l] = Pasted(W[l], k, <<n>>)]
  /\ \A m \in Sentinels \ {l} : G[m] = F[m]
  /\ t.value = [s.value EXCEPT ![n] = v]
  /\ Room(t, l) = Room(s, l) - 1

(* link_between hangs a node between two others.                           *)
LEMMA LinkedBetween ==
  ASSUME NEW r \in RingShape, NEW a \in BaseNodes, NEW b \in BaseNodes, NEW n \in BaseNodes,
         n # a, n # b
  PROVE  Hangs(link_between(r, a, b, n), r, a, n, n, b)
  BY DEF Hangs, link_between, RingShape

(* emplace with memory at hand.                                            *)
LEMMA EmplaceSound ==
  ASSUME NEW s, NEW W, NEW F, NEW H, Sound(s, W, F, H), NEW l \in Sentinels, Room(s, l) >= 1,
         NEW k \in 0 .. Len(W[l]), NEW v \in Values
  PROVE  LET t == emplace(s, l, Place(l, W[l], k + 1), v)
         IN  \E V, G, K, n : Sound(t, V, G, K) /\ Emplaced(s, W, F, l, k, v, t, V, G, n)
<1> DEFINE pos == Place(l, W[l], k + 1)
           t == emplace(s, l, pos, v)
<1>1. /\ s.ring \in RingShape /\ s.value \in [Nodes -> Values]
      /\ s.size \in [Sentinels -> Nat] /\ s.pool \in [Sentinels -> Pools]
      /\ s.heap \subseteq Nodes
      /\ W \in Sequences /\ F \in Sequences
      /\ W[l] \in Seq(Nodes) /\ Distinct(W[l]) /\ Len(W[l]) \in Nat
      /\ F[l] \in Seq(Nodes)
      /\ \A m \in Sentinels : s.size[m] = Len(W[m]) /\ PoolIs(s.pool[m], F[m])
  BY SoundParts
<1>b. PICK n, p, hp : n = NewNode(s, l) /\ p = Taken(s.pool[l], s.heap, n).pool
                       /\ hp = Taken(s.pool[l], s.heap, n).heap
  <2>1. PICK n : n = NewNode(s, l)
    OBVIOUS
  <2> QED
    BY <2>1
<1>2. PICK f :
        /\ n \in Nodes
        /\ \A m \in Sentinels : n \notin Elements(W[m])
        /\ \A m \in Sentinels \ {l} : n \notin Elements(F[m])
        /\ PoolIs(p, f) /\ Elements(f) = Elements(F[l]) \ {n}
        /\ hp = s.heap \ {n}
        /\ Len(f) + Cardinality(hp) = Room(s, l) - 1
  BY <1>b, TakenNode
<1>3. PICK a : a = Place(l, W[l], k)
  OBVIOUS
<1>4. /\ a \in BaseNodes /\ pos \in BaseNodes
      /\ a \in Elements(W[l]) \cup {l} /\ pos \in Elements(W[l]) \cup {l}
  BY <1>1, <1>3, PlaceType
<1>5. s.ring.prev[pos] = a
  <2>1. IsRing(s.ring, l, W[l])
    BY DEF Sound, Rings
  <2> QED
    BY <2>1, <1>3 DEF IsRing
<1>6. PICK q : q = link_between(s.ring, a, pos, n)
  OBVIOUS
<1> HIDE DEF pos
<1>7. Hangs(q, s.ring, a, n, n, pos)
  <2>1. n \in BaseNodes /\ n # a /\ n # pos
    BY <1>2, <1>4, SentinelsApart
  <2> QED
    BY <1>1, <1>4, <1>6, <2>1, LinkedBetween
<1> DEFINE V == [W EXCEPT ![l] = Pasted(W[l], k, <<n>>)]
           G == [F EXCEPT ![l] = f]
<1>8. /\ <<n>> \in Seq(Nodes) /\ Len(<<n>>) = 1 /\ <<n>>[1] = n
      /\ Elements(<<n>>) = {n} /\ Distinct(<<n>>)
      /\ IsChain(s.ring, <<n>>)
  BY <1>2, OneNode
<1>9. Rings(q, V)
  <2>1. Loose(<<n>>, W)
    BY <1>2, <1>8 DEF Loose
  <2>2. Rings(s.ring, W)
    BY DEF Sound
  <2>3. PICK c : c = <<n>>
    OBVIOUS
  <2>4. /\ c \in Seq(Nodes) /\ IsChain(s.ring, c) /\ Len(c) >= 1 /\ Loose(c, W)
        /\ Hangs(q, s.ring, Place(l, W[l], k), c[1], c[Len(c)], Place(l, W[l], k + 1))
    BY <1>3, <1>7, <1>8, <2>1, <2>3 DEF pos
  <2>5. Rings(q, [W EXCEPT ![l] = Pasted(W[l], k, c)])
    BY <2>2, <2>4, PasteRings
  <2> QED
    BY <2>3, <2>5
<1>10. PICK w \in Seq(Nodes) : /\ w = Pasted(W[l], k, <<n>>)
                               /\ Elements(w) = Elements(W[l]) \cup {n}
                               /\ Len(w) = Len(W[l]) + 1
  <2>1. PICK c : c = <<n>> /\ c \in Seq(Nodes) /\ Distinct(c) /\ Len(c) = 1
                 /\ Elements(c) = {n} /\ Elements(c) \cap Elements(W[l]) = {}
    BY <1>2, <1>8, Zenon
  <2>2. PICK x \in Seq(Nodes) : /\ x = W[l] /\ Distinct(x) /\ k \in 0 .. Len(x)
                               /\ Elements(c) \cap Elements(x) = {}
    BY <1>1, <2>1
  <2>a. /\ c \in Seq(Nodes) /\ Distinct(c) /\ Elements(c) \cap Elements(x) = {}
        /\ x \in Seq(Nodes) /\ Distinct(x) /\ k \in 0 .. Len(x) /\ l \in Sentinels
    BY <2>1, <2>2
  <2>3. LET y == Pasted(x, k, c)
        IN  /\ y \in Seq(Nodes) /\ Len(y) = Len(x) + Len(c) /\ Len(y) \in Nat
            /\ Distinct(y)
            /\ \A j \in 0 .. Len(y) + 1 :
                 Place(l, y, j) = IF j <= k THEN Place(l, x, j)
                                  ELSE IF j <= k + Len(c) THEN c[j - k]
                                  ELSE Place(l, x, j - Len(c))
            /\ Elements(y) = Elements(x) \cup Elements(c)
    BY <2>a, PasteFacts, Zenon
  <2> QED
    BY <2>1, <2>2, <2>3
<1>11. /\ V \in Sequences /\ V[l] = w /\ \A m \in Sentinels \ {l} : V[m] = W[m]
       /\ G \in Sequences /\ G[l] = f /\ \A m \in Sentinels \ {l} : G[m] = F[m]
  BY <1>1, <1>2, <1>10, Replaced DEF PoolIs
<1>c. PICK S \in SUBSET Nodes : S = {n}
  BY <1>2
<1> DEFINE K == [x \in Nodes |-> IF x \in S THEN Listed(l) ELSE H[x]]
<1>12. Kept(V, G, hp, K)
  <2> HIDE DEF V, G
  <2>1. Kept(W, F, s.heap, H)
    BY DEF Sound
  <2>2. Gains(W, V, l, S)
    BY <1>2, <1>c, <1>10, <1>11 DEF Gains
  <2>3. Loses(F, G, S)
    BY <1>2, <1>c, <1>11 DEF Loses
  <2> QED
    BY <1>2, <1>c, <2>1, <2>2, <2>3, KeptListed
<1>13. /\ t.ring = q /\ t.value = [s.value EXCEPT ![n] = v]
       /\ t.size = [s.size EXCEPT ![l] = @ + 1]
       /\ t.pool = [s.pool EXCEPT ![l] = p] /\ t.heap = hp
       /\ t = [ring |-> t.ring, value |-> t.value, size |-> t.size,
               pool |-> t.pool, heap |-> t.heap]
  BY <1>b, <1>5, <1>6 DEF emplace, NewNode
<1> HIDE DEF t, V, G, K
<1>14. t \in States
  <2>1. q \in RingShape /\ p \in Pools
    BY <1>2, <1>7 DEF Hangs, PoolIs
  <2>2. /\ t.value \in [Nodes -> Values] /\ t.size \in [Sentinels -> Nat]
        /\ t.pool \in [Sentinels -> Pools] /\ t.heap \in SUBSET Nodes
    BY <1>1, <1>2, <1>13, <2>1
  <2> QED
    BY <1>13, <2>1, <2>2 DEF States
<1>15. ASSUME NEW m \in Sentinels PROVE t.size[m] = Len(V[m])
  <2>1. CASE m = l
    BY <2>1, <1>1, <1>10, <1>11, <1>13
  <2>2. CASE m # l
    BY <2>2, <1>1, <1>11, <1>13
  <2> QED
    BY <2>1, <2>2
<1>16. \A m \in Sentinels : PoolIs(t.pool[m], G[m])
  BY <1>1, <1>2, <1>11, <1>13
<1>17. Sound(t, V, G, K)
  BY <1>9, <1>11, <1>12, <1>13, <1>14, <1>15, <1>16 DEF Sound
<1>18. Room(t, l) = Room(s, l) - 1
  <2>1. Room(t, l) = Len(G[l]) + Cardinality(t.heap)
    BY <1>17, SoundParts
  <2> QED
    BY <2>1, <1>2, <1>11, <1>13
<1>19. Emplaced(s, W, F, l, k, v, t, V, G, n)
  BY <1>2, <1>11, <1>13, <1>18 DEF Emplaced, V
<1> QED
  BY <1>17, <1>19 DEF t, pos

----------------------------------------------------------------------------
(* Erasing                                                                 *)

(* The pools and sizes of all lists but those of L are the same.           *)
Others(s, t, L) ==
  \A m \in Sentinels \ L : t.size[m] = s.size[m] /\ t.pool[m] = s.pool[m]

(* The links of all nodes in the lists W and of all sentinels agree.       *)
Agree(q, r, W) ==
  \A l \in Sentinels : \A n \in Elements(W[l]) \cup {l} :
    q.next[n] = r.next[n] /\ q.prev[n] = r.prev[n]

(* Then the lists are the same.                                            *)
LEMMA RingsSame ==
  ASSUME NEW r, NEW W, Rings(r, W), NEW q \in RingShape, Agree(q, r, W)
  PROVE  Rings(q, W)
<1>1. ASSUME NEW l \in Sentinels PROVE IsRing(q, l, W[l])
  <2>1. W[l] \in Seq(Nodes) /\ IsRing(r, l, W[l])
    BY DEF Rings, Sequences
  <2>2. \A n \in Elements(W[l]) \cup {l} : q.next[n] = r.next[n] /\ q.prev[n] = r.prev[n]
    BY DEF Agree
  <2> QED
    BY <2>1, <2>2, RingFrame
<1> QED
  BY <1>1 DEF Rings

(* A node of which both links are closed over.                             *)
LEMMA UnlinkFacts ==
  ASSUME NEW r \in RingShape, NEW n \in BaseNodes, NEW a \in BaseNodes, NEW b \in BaseNodes,
         r.prev[n] = a, r.next[n] = b, n # a, n # b
  PROVE  /\ unlink(r, n) \in RingShape
         /\ \A x \in BaseNodes \ {n} : /\ unlink(r, n).next[x] = Bridged(r, a, b).next[x]
                                       /\ unlink(r, n).prev[x] = Bridged(r, a, b).prev[x]
  BY DEF unlink, Bridged, RingShape

(* unlink takes the node in place i out of its ring.                       *)
LEMMA UnlinkRings ==
  ASSUME NEW r, NEW W, Rings(r, W), NEW l \in Sentinels, NEW i \in 1 .. Len(W[l])
  PROVE  LET V == [W EXCEPT ![l] = CutOut(W[l], i, i + 1)]
         IN  /\ Rings(unlink(r, W[l][i]), V)
             /\ Elements(V[l]) = Elements(W[l]) \ {W[l][i]}
             /\ Len(V[l]) = Len(W[l]) - 1
<1>1. /\ W \in Sequences /\ W[l] \in Seq(Nodes) /\ Distinct(W[l]) /\ IsRing(r, l, W[l])
      /\ r \in RingShape
  BY DEF Rings, Sequences, IsRing
<1>2. PICK w \in Seq(Nodes) : w = W[l] /\ Distinct(w) /\ i \in 1 .. Len(w) /\ IsRing(r, l, w)
  BY <1>1
<1>3. PICK n \in Nodes : n = w[i] /\ n \in Elements(w) /\ n \in BaseNodes
  <2>1. w[i] \in Nodes /\ w[i] \in Elements(w)
    BY <1>2 DEF Elements
  <2> QED
    BY <2>1, SentinelsApart
<1>4. PICK a, b \in BaseNodes : /\ a = Place(l, w, i - 1) /\ b = Place(l, w, i + 1)
                                /\ r.prev[n] = a /\ r.next[n] = b /\ n # a /\ n # b
  <2>1. Place(l, w, i) = n /\ i \in 0 .. Len(w) /\ i - 1 \in 0 .. Len(w)
        /\ i \in 1 .. Len(w) + 1 /\ i + 1 \in 1 .. Len(w) + 1 /\ (i - 1) + 1 = i
    BY <1>2, <1>3 DEF Place
  <2>2. r.next[Place(l, w, i)] = Place(l, w, i + 1)
        /\ r.prev[Place(l, w, (i - 1) + 1)] = Place(l, w, i - 1)
    BY <1>2, <2>1 DEF IsRing
  <2>3. Place(l, w, i) # Place(l, w, i - 1) /\ Place(l, w, i) # Place(l, w, i + 1)
    <3>1. i # i - 1 /\ i # i + 1
      OBVIOUS
    <3> QED
      BY <1>2, <2>1, <3>1, PlaceInjective
  <2>4. Place(l, w, i - 1) \in BaseNodes /\ Place(l, w, i + 1) \in BaseNodes
    BY <1>2, PlaceType
  <2> QED
    BY <2>1, <2>2, <2>3, <2>4
<1>5. PICK v : v = CutOut(w, i, i + 1)
  OBVIOUS
<1>6. PICK V : V = [W EXCEPT ![l] = v]
  OBVIOUS
<1>7. Rings(Bridged(r, a, b), V)
  <2>1. i + 1 \in i + 1 .. Len(W[l]) + 1
    BY <1>2
  <2> QED
    BY <2>1, <1>2, <1>4, <1>5, <1>6, CutRings
<1>8. v \in Seq(Nodes) /\ Len(v) = Len(w) - 1 /\ Elements(v) = Elements(w) \ {n}
  <2>1. PICK j \in i + 1 .. Len(w) + 1 : j = i + 1 /\ j - i = 1 /\ i .. j - 1 = {i}
    BY <1>2
  <2>2. /\ v \in Seq(Nodes) /\ Len(v) = Len(w) - (j - i)
        /\ Elements(v) = {w[p] : p \in 1 .. Len(w) \ i .. j - 1}
    BY <1>2, <1>5, <2>1, CutFacts
  <2>3. Elements(v) = {w[p] : p \in 1 .. Len(w) \ {i}}
    BY <2>1, <2>2
  <2>4. \A p \in 1 .. Len(w) : w[p] = n <=> p = i
    BY <1>2, <1>3 DEF Distinct
  <2>5. Elements(w) = {w[p] : p \in 1 .. Len(w)}
    BY DEF Elements
  <2>6. Elements(v) = Elements(w) \ {n}
    BY <2>3, <2>4, <2>5
  <2> QED
    BY <2>1, <2>2, <2>6
<1>9. V \in Sequences /\ V[l] = v /\ \A m \in Sentinels \ {l} : V[m] = W[m]
  BY <1>1, <1>6, <1>8 DEF Sequences
<1>10. PICK q : q = unlink(r, n)
  OBVIOUS
<1>11. /\ q \in RingShape
       /\ \A x \in BaseNodes \ {n} : /\ q.next[x] = Bridged(r, a, b).next[x]
                                     /\ q.prev[x] = Bridged(r, a, b).prev[x]
  BY <1>1, <1>3, <1>4, <1>10, UnlinkFacts
<1>12. \A m \in Sentinels : /\ n \notin Elements(V[m]) \cup {m}
                            /\ Elements(V[m]) \cup {m} \subseteq BaseNodes
  <2>1. ASSUME NEW m \in Sentinels, m # l PROVE n \notin Elements(V[m])
    BY <1>2, <1>3, <1>9, <2>1 DEF Rings
  <2>2. \A m \in Sentinels : Elements(V[m]) \subseteq Nodes
    BY <1>9, ElementsOf DEF Sequences
  <2> QED
    BY <1>8, <1>9, <2>1, <2>2, SentinelsApart
<1>13. Agree(q, Bridged(r, a, b), V)
  BY <1>11, <1>12 DEF Agree
<1>14. Rings(q, V)
  BY <1>7, <1>11, <1>13, RingsSame
<1> QED
  BY <1>2, <1>3, <1>5, <1>6, <1>8, <1>9, <1>10, <1>14

(* A state record with some of its fields replaced.                        *)
LEMMA StateIs ==
  ASSUME NEW s \in States, NEW r \in RingShape, NEW l \in Sentinels, NEW p \in Pools,
         NEW n \in Nat
  PROVE  /\ [s EXCEPT !.ring = r, !.pool[l] = p, !.size[l] = n] \in States
         /\ [s EXCEPT !.pool[l] = p, !.ring = r, !.size[l] = n]
              = [s EXCEPT !.ring = r, !.pool[l] = p, !.size[l] = n]
  BY DEF States

(* The node in place i of list l is erased.                                *)
Erased(s, W, l, i, t, V) ==
  /\ V = [W EXCEPT ![l] = CutOut(W[l], i, i + 1)]
  /\ t.value = s.value
  /\ Others(s, t, {l})

(* erase takes one node out of its ring and puts it into the pool.         *)
LEMMA EraseSound ==
  ASSUME NEW s, NEW W, NEW F, NEW H, Sound(s, W, F, H), NEW l \in Sentinels,
         NEW i \in 1 .. Len(W[l])
  PROVE  LET t == erase(s, l, W[l][i])
         IN  \E V, G, K : Sound(t, V, G, K) /\ Erased(s, W, l, i, t, V)
<1> DEFINE n == W[l][i]
           t == erase(s, l, n)
           V == [W EXCEPT ![l] = CutOut(W[l], i, i + 1)]
           G == [F EXCEPT ![l] = <<n>> \o F[l]]
<1>1. /\ s \in States /\ s.ring \in RingShape
      /\ s.size \in [Sentinels -> Nat] /\ s.pool \in [Sentinels -> Pools]
      /\ W \in Sequences /\ F \in Sequences
      /\ W[l] \in Seq(Nodes) /\ Distinct(W[l]) /\ Len(W[l]) \in Nat
      /\ F[l] \in Seq(Nodes)
      /\ \A m \in Sentinels : s.size[m] = Len(W[m]) /\ PoolIs(s.pool[m], F[m])
  BY SoundParts, Zenon DEF Sound
<1>2. n \in Nodes /\ n \in Elements(W[l])
  BY <1>1 DEF Elements
<1>3. PICK q : q = unlink(s.ring, n)
  OBVIOUS
<1>4. Rings(q, V) /\ Elements(V[l]) = Elements(W[l]) \ {n} /\ Len(V[l]) = Len(W[l]) - 1
  <2>1. PICK r : r = s.ring /\ Rings(r, W)
    BY DEF Sound
  <2> QED
    BY <1>3, <2>1, UnlinkRings
<1>5. q \in RingShape /\ V \in Sequences
  BY <1>4 DEF Rings
<1>6. \A m \in Sentinels \ {l} : V[m] = W[m]
  BY <1>1 DEF Sequences
<1>7. Kept(W, F, s.heap, H)
  BY DEF Sound
<1>8. PICK p \in Pools : p = push_cached_node(s.pool[l], n) /\ PoolIs(p, <<n>> \o F[l])
                         /\ Elements(<<n>> \o F[l]) = Elements(F[l]) \cup {n}
  <2>1. n \notin Elements(F[l])
    BY <1>1, <1>2, <1>7, KeptApart, ZenonT(40)
  <2>2. PICK p0, f : p0 = s.pool[l] /\ f = F[l] /\ PoolIs(p0, f) /\ n \notin Elements(f)
    BY <1>1, <2>1
  <2>3. PICK x : x = n /\ x \in Nodes
    BY <1>2
  <2>4. /\ PoolIs(push_cached_node(p0, x), <<x>> \o f)
        /\ Elements(<<x>> \o f) = Elements(f) \cup {x}
    BY <2>2, <2>3, PushPool
  <2>5. push_cached_node(p0, x) \in Pools
    BY <2>4 DEF PoolIs
  <2> QED
    BY <2>2, <2>3, <2>4, <2>5
<1>9. /\ G \in Sequences /\ G[l] = <<n>> \o F[l] /\ Elements(G[l]) = Elements(F[l]) \cup {n}
      /\ \A m \in Sentinels \ {l} : G[m] = F[m]
  <2>1. <<n>> \o F[l] \in Seq(Nodes)
    BY <1>8 DEF PoolIs
  <2> QED
    BY <1>1, <1>8, <2>1 DEF Sequences
<1> HIDE DEF V, G, n
<1>10. PICK S \in SUBSET Nodes : S = {n}
  BY <1>2
<1>11. PICK K : Kept(V, G, s.heap, K)
  <2>1. Loses(W, V, S)
    <3>1. \A m \in Sentinels \ {l} : n \notin Elements(W[m])
      BY <1>1, <1>2, <1>7, KeptApart
    <3> QED
      BY <3>1, <1>4, <1>6, <1>10 DEF Loses
  <2>2. Gains(F, G, l, S)
    <3>1. \A m \in Sentinels \ {l} : n \notin Elements(F[m])
      BY <1>1, <1>2, <1>7, KeptApart
    <3> QED
      BY <3>1, <1>9, <1>10 DEF Gains
  <2>3. s.heap = s.heap \ S
    BY <1>1, <1>2, <1>7, <1>10, KeptApart
  <2> QED
    BY <1>7, <2>1, <2>2, <2>3, KeptCached
<1>12. PICK z \in Nat : z = s.size[l] - 1 /\ z = Len(V[l])
  BY <1>1, <1>4
<1>13. t = [s EXCEPT !.ring = q, !.pool[l] = p, !.size[l] = z] /\ t \in States
  <2>1. t = [s EXCEPT !.ring = unlink(s.ring, n), !.pool[l] = push_cached_node(s.pool[l], n),
                      !.size[l] = s.size[l] - 1]
    BY <1>1 DEF erase, States
  <2>2. t = [s EXCEPT !.ring = q, !.pool[l] = p, !.size[l] = z]
    BY <2>1, <1>3, <1>8, <1>12
  <2>3. [s EXCEPT !.ring = q, !.pool[l] = p, !.size[l] = z] \in States
    BY <1>1, <1>5, <1>8, <1>12, StateIs, Zenon
  <2> QED
    BY <2>2, <2>3
<1>14. /\ t.ring = q /\ t.value = s.value /\ t.heap = s.heap
       /\ t.pool = [s.pool EXCEPT ![l] = p] /\ t.size = [s.size EXCEPT ![l] = z]
  BY <1>13, <1>1 DEF States
<1> HIDE DEF t
<1>15. \A m \in Sentinels : t.size[m] = Len(V[m])
  BY <1>1, <1>6, <1>12, <1>14
<1>16. \A m \in Sentinels : PoolIs(t.pool[m], G[m])
  BY <1>1, <1>8, <1>9, <1>14
<1>17. Sound(t, V, G, K)
  BY <1>4, <1>9, <1>11, <1>13, <1>14, <1>15, <1>16 DEF Sound
<1>18. Others(s, t, {l})
  BY <1>1, <1>14 DEF Others
<1>19. Erased(s, W, l, i, t, V)
  BY <1>14, <1>18 DEF Erased, V
<1> QED
  BY <1>17, <1>19 DEF t, n

(* What lies between two places of a list.                                 *)
LEMMA BetweenPlaces ==
  ASSUME NEW r, NEW W, Rings(r, W), NEW l \in Sentinels,
         NEW i \in 1 .. Len(W[l]) + 1, NEW j \in i .. Len(W[l]) + 1
  PROVE  Between(r, Place(l, W[l], i), Place(l, W[l], j)) = SubSeq(W[l], i, j - 1)
<1>1. PICK w \in Seq(Nodes) : w = W[l] /\ Distinct(w) /\ IsRing(r, l, w)
  BY DEF Rings, Sequences, IsRing
<1>2. PICK L \in Nat : L = Len(w)
  BY <1>1
<1>3. i \in Nat /\ j \in Nat /\ 1 <= i /\ i <= j /\ j <= L + 1
  BY <1>1, <1>2
<1>4. PICK d \in Nat : d = j - i
  BY <1>3
<1>5. PICK c : c = SubSeq(w, i, j - 1)
  OBVIOUS
<1>6. c \in Seq(Nodes) /\ Len(c) = d /\ \A p \in 1 .. d : c[p] = w[p + (i - 1)]
  <2>1. \A p \in i .. j - 1 : p \in 1 .. L
    BY <1>3
  <2>2. \A p \in i .. j - 1 : w[p] \in Nodes
    BY <1>1, <1>2, <2>1
  <2>3. c \in Seq(Nodes) /\ Len(c) = (j - 1) - i + 1
        /\ \A p \in 1 .. (j - 1) - i + 1 : c[p] = w[i + p - 1]
    <3>1. i <= (j - 1) + 1 /\ i \in Int /\ j - 1 \in Int /\ i \in 1 .. L + 1 /\ j - 1 \in i - 1 .. L
      BY <1>3
    <3> QED
      BY <3>1, <1>5, <2>2, <1>1, <1>2, SubSeqProperties
  <2>4. (j - 1) - i + 1 = d
    BY <1>3, <1>4
  <2>5. \A p \in 1 .. d : i + p - 1 = p + (i - 1)
    BY <1>3
  <2> QED
    BY <2>3, <2>4, <2>5
<1>7. PICK a, b : a = Place(l, w, i) /\ b = Place(l, w, j)
  OBVIOUS
<1>8. Distinct(c)
  <2> SUFFICES ASSUME NEW x \in 1 .. d, NEW y \in 1 .. d, c[x] = c[y] PROVE x = y
    BY <1>6 DEF Distinct
  <2>1. x + (i - 1) \in 1 .. L /\ y + (i - 1) \in 1 .. L
    BY <1>3, <1>4
  <2>2. x + (i - 1) = y + (i - 1)
    BY <2>1, <1>1, <1>2, <1>6, Zenon DEF Distinct
  <2> QED
    BY <2>2, <1>3
<1>9. /\ \A x, y \in 1 .. L + 1 : Place(l, w, x) = Place(l, w, y) => x = y
      /\ \A p \in 1 .. d : c[p] = Place(l, w, p + (i - 1))
  <2>1. \A p \in 1 .. d : p + (i - 1) \in 1 .. L
    BY <1>3, <1>4
  <2> QED
    BY <2>1, <1>1, <1>2, <1>6, PlaceInjective, SMTT(20) DEF Place
<1>10. b \notin Elements(c)
  <2> SUFFICES ASSUME NEW p \in 1 .. d, c[p] = b PROVE FALSE
    BY <1>6 DEF Elements
  <2>1. p + (i - 1) \in 1 .. L + 1 /\ j \in 1 .. L + 1 /\ p + (i - 1) # j
    BY <1>3, <1>4
  <2> QED
    BY <2>1, <1>7, <1>9
<1>11. b \in BaseNodes
  BY <1>1, <1>3, <1>7, PlaceType
<1>12. a = IF c = <<>> THEN b ELSE c[1]
  <2>1. CASE d = 0
    <3>1. i = j /\ c = <<>>
      BY <2>1, <1>3, <1>4, <1>6
    <3> QED
      BY <3>1, <1>7
  <2>2. CASE d # 0
    <3>1. c # <<>> /\ 1 \in 1 .. d /\ 1 + (i - 1) = i
      BY <2>2, <1>3, <1>6
    <3> QED
      BY <3>1, <1>7, <1>9
  <2> QED
    BY <2>1, <2>2
<1>13. ASSUME NEW p \in 1 .. d PROVE r.next[c[p]] = IF p = d THEN b ELSE c[p + 1]
  <2>1. p + (i - 1) \in 0 .. L
    BY <1>3, <1>4
  <2>2. r.next[c[p]] = Place(l, w, (p + (i - 1)) + 1)
    BY <2>1, <1>1, <1>2, <1>9 DEF IsRing
  <2>3. CASE p = d
    <3>1. (p + (i - 1)) + 1 = j
      BY <2>3, <1>3, <1>4
    <3> QED
      BY <3>1, <2>2, <2>3, <1>7
  <2>4. CASE p # d
    <3>1. p + 1 \in 1 .. d /\ (p + 1) + (i - 1) = (p + (i - 1)) + 1
      BY <2>4, <1>3
    <3> QED
      BY <3>1, <2>2, <2>4, <1>9
  <2> QED
    BY <2>3, <2>4
<1>14. Leads(r.next, c, a, b)
  BY <1>6, <1>8, <1>10, <1>11, <1>12, <1>13 DEF Leads
<1> QED
  BY <1>1, <1>5, <1>7, <1>14, BetweenIs

(* A walk visits the nodes of the list.                                    *)
LEMMA WalkIs ==
  ASSUME NEW r, NEW W, Rings(r, W), NEW l \in Sentinels
  PROVE  Walk(r, l) = W[l]
<1>1. PICK w \in Seq(Nodes) : w = W[l] /\ IsRing(r, l, w)
  BY DEF Rings, Sequences
<1>2. PICK L \in Nat : L = Len(w)
  BY <1>1
<1>3. r.next[l] = Place(l, w, 1) /\ Place(l, w, L + 1) = l
  <2>1. Place(l, w, 0) = l /\ 0 \in 0 .. L
    BY <1>2 DEF Place
  <2> QED
    BY <2>1, <1>1, <1>2 DEF IsRing, Place
<1>4. PICK i \in 1 .. L + 1 : i = 1
  OBVIOUS
<1>5. PICK j \in i .. L + 1 : j = L + 1
  BY <1>4
<1>6. Between(r, Place(l, w, i), Place(l, w, j)) = SubSeq(w, i, j - 1)
  BY <1>1, <1>2, BetweenPlaces
<1>7. j - 1 = Len(w) /\ i = 1
  BY <1>2, <1>4, <1>5
<1>8. SubSeq(w, 1, Len(w)) = w
  BY <1>1, SubSeqFull
<1> QED
  BY <1>1, <1>3, <1>4, <1>5, <1>6, <1>7, <1>8 DEF Walk

----------------------------------------------------------------------------
(* Clearing                                                                *)

(* clear destroys all nodes of a list.                                     *)
LEMMA ClearSound ==
  ASSUME NEW s, NEW W, NEW F, NEW H, Sound(s, W, F, H), NEW l \in Sentinels
  PROVE  \E G, K : /\ Sound(clear(s, l), [W EXCEPT ![l] = <<>>], G, K)
                   /\ clear(s, l).value = s.value /\ Others(s, clear(s, l), {l})
<1> DEFINE V == [W EXCEPT ![l] = <<>>]
<1>1. /\ s \in States /\ s.ring \in RingShape
      /\ s.size \in [Sentinels -> Nat] /\ s.pool \in [Sentinels -> Pools]
      /\ W \in Sequences /\ F \in Sequences
      /\ W[l] \in Seq(Nodes) /\ Distinct(W[l]) /\ Len(W[l]) \in Nat
      /\ F[l] \in Seq(Nodes)
      /\ \A m \in Sentinels : s.size[m] = Len(W[m]) /\ PoolIs(s.pool[m], F[m])
  BY SoundParts, Zenon DEF Sound
<1>2. Kept(W, F, s.heap, H) /\ Rings(s.ring, W)
  BY DEF Sound
<1>3. PICK w \in Seq(Nodes) : w = W[l] /\ w = Walk(s.ring, l) /\ Distinct(w)
  BY <1>1, <1>2, WalkIs
<1>4. PICK q : q = reset_sentinel(s.ring, l)
  OBVIOUS
<1>5. Rings(q, V)
  BY <1>2, <1>4, ResetRings
<1>6. q \in RingShape
  BY <1>5 DEF Rings
<1>7. V \in Sequences /\ V[l] = <<>> /\ \A m \in Sentinels \ {l} : V[m] = W[m]
  BY <1>1, ElementsOf DEF Sequences
<1>8. PICK p \in Pools, g \in Seq(Nodes) : /\ p = push_cached_nodes(s.pool[l], w)
                                           /\ PoolIs(p, g)
                                           /\ Elements(g) = Elements(F[l]) \cup Elements(w)
  <2>1. Elements(w) \cap Elements(F[l]) = {}
    BY <1>1, <1>2, <1>3, KeptApart
  <2>2. PICK p0, f : /\ p0 = s.pool[l] /\ f = F[l] /\ PoolIs(p0, f)
                     /\ Elements(w) \cap Elements(f) = {}
    BY <1>1, <2>1
  <2>3. PICK p, g : p = push_cached_nodes(p0, w) /\ g = Reverse(w) \o f
    OBVIOUS
  <2>4. PoolIs(p, g) /\ Elements(g) = Elements(f) \cup Elements(w)
    BY <1>3, <2>2, <2>3, PushPools
  <2>5. p \in Pools /\ g \in Seq(Nodes)
    BY <2>4 DEF PoolIs
  <2> QED
    BY <2>2, <2>3, <2>4, <2>5
<1> DEFINE G == [F EXCEPT ![l] = g]
<1>9. G \in Sequences /\ G[l] = g /\ \A m \in Sentinels \ {l} : G[m] = F[m]
  BY <1>1, <1>8 DEF Sequences
<1> HIDE DEF V, G
<1>10. PICK S \in SUBSET Nodes : S = Elements(w)
  BY ElementsOf
<1>a. /\ \A m \in Sentinels \ {l} : S \cap Elements(W[m]) = {}
      /\ \A m \in Sentinels : S \cap Elements(F[m]) = {}
      /\ s.heap \cap S = {}
  <2>1. W \in Sequences /\ F \in Sequences /\ S = Elements(W[l])
    BY <1>1, <1>3, <1>10
  <2> QED
    BY <2>1, <1>2, KeptApart, SMTT(20)
<1>11. PICK K : Kept(V, G, s.heap, K)
  <2>1. Loses(W, V, S)
    <3>2. Elements(V[l]) = {}
      BY <1>7, ElementsOf
    <3> QED
      BY <1>a, <3>2, <1>3, <1>7, <1>10 DEF Loses
  <2>2. Gains(F, G, l, S)
    BY <1>a, <1>8, <1>9, <1>10 DEF Gains
  <2>3. s.heap = s.heap \ S
    BY <1>a
  <2> QED
    BY <1>2, <2>1, <2>2, <2>3, KeptCached
<1>12. PICK z \in Nat : z = 0 /\ z = Len(V[l])
  BY <1>7
<1>13. PICK t : t = clear(s, l)
  OBVIOUS
<1>14. t = [s EXCEPT !.ring = q, !.pool[l] = p, !.size[l] = z] /\ t \in States
  <2>1. t = [s EXCEPT !.pool[l] = push_cached_nodes(s.pool[l], Walk(s.ring, l)),
                      !.ring = reset_sentinel(s.ring, l), !.size[l] = 0]
    BY <1>1, <1>13 DEF clear, States
  <2>2. t = [s EXCEPT !.pool[l] = p, !.ring = q, !.size[l] = z]
    BY <2>1, <1>3, <1>4, <1>8, <1>12
  <2>3. s \in States /\ q \in RingShape /\ p \in Pools /\ z \in Nat
    BY <1>1, <1>6, <1>8, <1>12
  <2>4. /\ [s EXCEPT !.ring = q, !.pool[l] = p, !.size[l] = z] \in States
        /\ [s EXCEPT !.pool[l] = p, !.ring = q, !.size[l] = z]
              = [s EXCEPT !.ring = q, !.pool[l] = p, !.size[l] = z]
    BY <2>3 DEF States
  <2> QED
    BY <2>2, <2>4
<1>15. /\ t.ring = q /\ t.value = s.value /\ t.heap = s.heap
       /\ t.pool = [s.pool EXCEPT ![l] = p] /\ t.size = [s.size EXCEPT ![l] = z]
  BY <1>14, <1>1 DEF States
<1>16. \A m \in Sentinels : t.size[m] = Len(V[m])
  BY <1>1, <1>7, <1>12, <1>15
<1>17. \A m \in Sentinels : PoolIs(t.pool[m], G[m])
  BY <1>1, <1>8, <1>9, <1>15
<1>18. Sound(t, V, G, K)
  BY <1>5, <1>9, <1>11, <1>14, <1>15, <1>16, <1>17 DEF Sound
<1>19. Others(s, t, {l})
  BY <1>1, <1>15 DEF Others
<1> QED
  BY <1>13, <1>15, <1>18, <1>19 DEF V

(* shrink_to_fit gives the cached nodes back.                              *)
LEMMA ShrinkSound ==
  ASSUME NEW s, NEW W, NEW F, NEW H, Sound(s, W, F, H), NEW l \in Sentinels
  PROVE  LET t == shrink_to_fit(s, l)
         IN  /\ \E K : Sound(t, W, [F EXCEPT ![l] = <<>>], K)
             /\ t.ring = s.ring /\ t.value = s.value /\ t.size = s.size /\ Others(s, t, {l})
<1> DEFINE G == [F EXCEPT ![l] = <<>>]
<1>1. /\ s \in States /\ s.heap \subseteq Nodes
      /\ s.size \in [Sentinels -> Nat] /\ s.pool \in [Sentinels -> Pools]
      /\ W \in Sequences /\ F \in Sequences
      /\ F[l] \in Seq(Nodes)
      /\ \A m \in Sentinels : s.size[m] = Len(W[m]) /\ PoolIs(s.pool[m], F[m])
  BY SoundParts, Zenon DEF Sound
<1>2. Kept(W, F, s.heap, H) /\ Rings(s.ring, W)
  BY DEF Sound
<1>3. PICK p \in Pools : p = Shrunk(s.pool[l]) /\ PoolIs(p, <<>>)
  <2>1. s.pool[l] \in Pools
    BY <1>1
  <2>2. PoolIs(Shrunk(s.pool[l]), <<>>)
    BY <2>1, EmptyPools
  <2> QED
    BY <2>2 DEF PoolIs
<1>4. G \in Sequences /\ G[l] = <<>> /\ \A m \in Sentinels \ {l} : G[m] = F[m]
  BY <1>1, ElementsOf DEF Sequences
<1> HIDE DEF G
<1>5. PICK S \in SUBSET Nodes : S = Elements(F[l]) /\ S = CachedNodes(s.pool[l])
  <2>1. s.pool[l].free_nodes = F[l]
    BY <1>1 DEF PoolIs
  <2> QED
    BY <1>1, <2>1, ElementsOf DEF CachedNodes, Elements
<1>6. PICK hq \in SUBSET Nodes : hq = s.heap \cup S
  BY <1>1
<1>7. PICK K : Kept(W, G, hq, K)
  <2>1. Loses(F, G, S)
    <3>1. \A m \in Sentinels \ {l} : S \cap Elements(F[m]) = {}
      BY <1>1, <1>2, <1>5, KeptApart
    <3>2. Elements(G[l]) = {}
      BY <1>4, ElementsOf
    <3> QED
      BY <3>1, <3>2, <1>4, <1>5 DEF Loses
  <2>2. Loses(W, W, S)
    <3>1. \A m \in Sentinels : S \cap Elements(W[m]) = {}
      BY <1>1, <1>2, <1>5, KeptApart, ZenonT(40)
    <3> QED
      BY <3>1 DEF Loses
  <2> QED
    BY <1>2, <1>6, <2>1, <2>2, KeptStored
<1>8. PICK t : t = shrink_to_fit(s, l)
  OBVIOUS
<1>9. t = [s EXCEPT !.heap = hq, !.pool[l] = p]
  <2>1. t = [s EXCEPT !.heap = s.heap \cup CachedNodes(s.pool[l]), !.pool[l] = Shrunk(s.pool[l])]
    BY <1>1, <1>8 DEF shrink_to_fit, States
  <2> QED
    BY <2>1, <1>3, <1>5, <1>6
<1>10. /\ t.ring = s.ring /\ t.value = s.value /\ t.heap = hq /\ t.size = s.size
       /\ t.pool = [s.pool EXCEPT ![l] = p] /\ t \in States
  BY <1>9, <1>1 DEF States
<1>11. \A m \in Sentinels : PoolIs(t.pool[m], G[m])
  BY <1>1, <1>3, <1>4, <1>10
<1>12. Sound(t, W, G, K)
  BY <1>1, <1>2, <1>4, <1>7, <1>10, <1>11 DEF Sound
<1>13. Others(s, t, {l})
  BY <1>1, <1>10 DEF Others
<1> QED
  BY <1>8, <1>10, <1>12, <1>13 DEF G

(* The destructor, with a new pool afterwards.                             *)
LEMMA DestroyedSound ==
  ASSUME NEW s, NEW W, NEW F, NEW H, Sound(s, W, F, H), NEW l \in Sentinels
  PROVE  LET t == Destroyed(s, l)
         IN  /\ \E G, K : Sound(t, [W EXCEPT ![l] = <<>>], G, K) /\ G[l] = <<>>
             /\ t.value = s.value /\ Others(s, t, {l})
<1>1. PICK G, K : Sound(clear(s, l), [W EXCEPT ![l] = <<>>], G, K)
  BY ClearSound
<1>2. clear(s, l).value = s.value /\ Others(s, clear(s, l), {l})
  BY ClearSound
<1>3. PICK c, V : c = clear(s, l) /\ V = [W EXCEPT ![l] = <<>>] /\ Sound(c, V, G, K)
  BY <1>1
<1>4. PICK u, J : u = shrink_to_fit(c, l) /\ Sound(u, V, [G EXCEPT ![l] = <<>>], J)
  BY <1>3, ShrinkSound
<1>5. u.value = c.value /\ Others(c, u, {l})
  BY <1>3, <1>4, ShrinkSound
<1>6. PICK D : D = [G EXCEPT ![l] = <<>>] /\ Sound(u, V, D, J) /\ D[l] = <<>>
  <2>1. G \in Sequences
    BY <1>3 DEF Sound
  <2>2. [G EXCEPT ![l] = <<>>][l] = <<>>
    BY <2>1 DEF Sequences
  <2> QED
    BY <1>4, <2>2
<1>7. PICK t : t = [u EXCEPT !.pool[l] = NewPool] /\ t = Destroyed(s, l)
  BY <1>3, <1>4 DEF Destroyed
<1>8. /\ t \in States /\ t.ring = u.ring /\ t.value = u.value /\ t.size = u.size
      /\ t.heap = u.heap /\ t.pool = [u.pool EXCEPT ![l] = NewPool]
      /\ u.pool \in [Sentinels -> Pools]
  <2>1. NewPool \in Pools /\ u \in States
    BY <1>6, EmptyPools DEF PoolIs, Sound
  <2> QED
    BY <2>1, <1>7 DEF States
<1>9. ASSUME NEW m \in Sentinels PROVE PoolIs(t.pool[m], D[m])
  <2>1. CASE m = l
    BY <2>1, <1>6, <1>8, EmptyPools
  <2>2. CASE m # l
    BY <2>2, <1>6, <1>8 DEF Sound
  <2> QED
    BY <2>1, <2>2
<1>10. Sound(t, V, D, J)
  BY <1>6, <1>8, <1>9 DEF Sound
<1>11. Others(s, t, {l})
  BY <1>2, <1>3, <1>5, <1>8 DEF Others
<1> QED
  BY <1>2, <1>3, <1>5, <1>6, <1>7, <1>8, <1>10, <1>11

----------------------------------------------------------------------------
(* Exchanging and moving                                                   *)

(* The chain c hangs on the sentinel k, which leads to itself without it.  *)
Hung(r, k, c) ==
  IF c = <<>> THEN reset_sentinel(r, k)
  ELSE [r EXCEPT !.next[k] = c[1], !.prev[k] = c[Len(c)],
                 !.prev[c[1]] = k, !.next[c[Len(c)]] = k]

(* That is a ring, and other base nodes are not concerned.                 *)
LEMMA HungRing ==
  ASSUME NEW r \in RingShape, NEW k \in Sentinels, NEW c \in Seq(Nodes), IsChain(r, c)
  PROVE  /\ Hung(r, k, c) \in RingShape
         /\ IsRing(Hung(r, k, c), k, c)
         /\ \A n \in BaseNodes \ (Elements(c) \cup {k}) :
              /\ Hung(r, k, c).next[n] = r.next[n] /\ Hung(r, k, c).prev[n] = r.prev[n]
<1>0. k \in BaseNodes
  BY SentinelsApart
<1>1. CASE c = <<>>
  <2>1. PICK q : q = reset_sentinel(r, k)
    OBVIOUS
  <2>2. q \in RingShape /\ q.next[k] = k /\ q.prev[k] = k
        /\ \A n \in BaseNodes \ {k} : q.next[n] = r.next[n] /\ q.prev[n] = r.prev[n]
    BY <1>0, <2>1 DEF reset_sentinel, RingShape
  <2>3. IsRing(q, k, <<>>)
    BY <2>2, EmptyRing
  <2> QED
    BY <1>1, <2>1, <2>2, <2>3 DEF Hung
<1>2. CASE c # <<>>
  <2>1. PICK a \in Nodes, b \in Nodes, L \in Nat : /\ a = c[1] /\ b = c[L] /\ L = Len(c) /\ L >= 1
    <3>1. Len(c) \in Nat /\ Len(c) >= 1
      BY <1>2
    <3>2. c[1] \in Nodes /\ c[Len(c)] \in Nodes
      BY <3>1
    <3> QED
      BY <3>1, <3>2
  <2>2. PICK q : q = [r EXCEPT !.next[k] = a, !.prev[k] = b, !.prev[a] = k, !.next[b] = k]
    OBVIOUS
  <2>3. q = Hung(r, k, c)
    BY <1>2, <2>1, <2>2 DEF Hung
  <2>4. a \in BaseNodes /\ b \in BaseNodes /\ a # k /\ b # k
    BY SentinelsApart
  <2>5. /\ q \in RingShape
        /\ \A n \in BaseNodes : /\ q.next[n] = IF n = b THEN k ELSE IF n = k THEN a ELSE r.next[n]
                                /\ q.prev[n] = IF n = a THEN k ELSE IF n = k THEN b ELSE r.prev[n]
    BY <1>0, <2>2, <2>4 DEF RingShape
  <2>6. \A i \in 1 .. L : c[i] \in Nodes /\ c[i] \in BaseNodes /\ c[i] # k /\ c[i] \in Elements(c)
    <3>1. \A i \in 1 .. L : c[i] \in Nodes
      BY <2>1
    <3> QED
      BY <3>1, <2>1, SentinelsApart DEF Elements
  <2>7. ASSUME NEW i \in 1 .. L - 1
        PROVE  q.next[c[i]] = r.next[c[i]] /\ q.prev[c[i + 1]] = r.prev[c[i + 1]]
    <3>1. i \in 1 .. L /\ i + 1 \in 1 .. L /\ i # L /\ i + 1 # 1 /\ 1 \in 1 .. L /\ L \in 1 .. L
      BY <2>1
    <3>2. c[i] # b /\ c[i + 1] # a
      BY <3>1, <2>1 DEF IsChain, Distinct
    <3> QED
      BY <3>1, <3>2, <2>5, <2>6
  <2>8. IsChain(q, c)
    BY <2>1, <2>7, ChainFrame
  <2>9. IsRing(q, k, c)
    BY <1>0, <1>2, <2>1, <2>4, <2>5, <2>8, RingOfChain
  <2>10. a \in Elements(c) /\ b \in Elements(c)
    BY <2>1, <2>6
  <2> QED
    BY <2>3, <2>5, <2>9, <2>10
<1> QED
  BY <1>1, <1>2

(* Two sequences exchanged.                                                *)
Exchanged(W, l, m) == [W EXCEPT ![l] = W[m], ![m] = W[l]]

(* Two lists with their chains exchanged.                                  *)
LEMMA SwapRings ==
  ASSUME NEW r, NEW W, Rings(r, W), NEW l \in Sentinels, NEW m \in Sentinels, l # m
  PROVE  Rings(Hung(Hung(r, l, W[m]), m, W[l]), Exchanged(W, l, m))
<1>1. PICK u \in Seq(Nodes), v \in Seq(Nodes) : u = W[l] /\ v = W[m]
  BY DEF Rings, Sequences
<1>2. r \in RingShape /\ W \in Sequences
  BY DEF Rings
<1>3. (Elements(u) \cup {l}) \cap (Elements(v) \cup {m}) = {}
  BY <1>1, RingsApart
<1>4. IsChain(r, u) /\ IsChain(r, v)
  BY <1>1, RingIsChain DEF Rings
<1>5. Elements(u) \subseteq BaseNodes /\ Elements(v) \subseteq BaseNodes
      /\ l \in BaseNodes /\ m \in BaseNodes
  BY ElementsOf, SentinelsApart
<1>6. PICK p : p = Hung(r, l, v)
  OBVIOUS
<1>7. /\ p \in RingShape /\ IsRing(p, l, v)
      /\ \A n \in BaseNodes \ (Elements(v) \cup {l}) :
              p.next[n] = r.next[n] /\ p.prev[n] = r.prev[n]
  BY <1>2, <1>4, <1>6, HungRing
<1>8. IsChain(p, u)
  <2>1. ASSUME NEW i \in 1 .. Len(u) - 1
        PROVE  p.next[u[i]] = r.next[u[i]] /\ p.prev[u[i + 1]] = r.prev[u[i + 1]]
    <3>1. i \in 1 .. Len(u) /\ i + 1 \in 1 .. Len(u)
      OBVIOUS
    <3>2. u[i] \in Elements(u) /\ u[i + 1] \in Elements(u)
      BY <3>1 DEF Elements
    <3>3. u[i] # l /\ u[i + 1] # l
      <4>1. Elements(u) \subseteq Nodes
        BY ElementsOf
      <4> QED
        BY <4>1, <3>2, SentinelsApart
    <3> QED
      BY <3>2, <3>3, <1>3, <1>5, <1>7
  <2> QED
    BY <2>1, <1>4, ChainFrame
<1>9. PICK q : q = Hung(p, m, u)
  OBVIOUS
<1>10. /\ q \in RingShape /\ IsRing(q, m, u)
       /\ \A n \in BaseNodes \ (Elements(u) \cup {m}) :
              q.next[n] = p.next[n] /\ q.prev[n] = p.prev[n]
  BY <1>7, <1>8, <1>9, HungRing
<1>11. IsRing(q, l, v)
  <2>1. \A n \in Elements(v) \cup {l} : q.next[n] = p.next[n] /\ q.prev[n] = p.prev[n]
    <3>1. ASSUME NEW n \in Elements(v) \cup {l} PROVE n \in BaseNodes \ (Elements(u) \cup {m})
      <4>1. CASE n = l
        <5>1. Elements(u) \subseteq Nodes
          BY ElementsOf
        <5> QED
          BY <4>1, <5>1, <1>5, SentinelsApart
      <4>2. CASE n \in Elements(v)
        <5>1. Elements(v) \subseteq Nodes
          BY ElementsOf
        <5> QED
          BY <4>2, <5>1, <1>3, <1>5, SentinelsApart
      <4> QED
        BY <4>1, <4>2
    <3> QED
      BY <3>1, <1>10
  <2> QED
    BY <2>1, <1>7, RingFrame
<1>12. PICK V : V = Exchanged(W, l, m)
  OBVIOUS
<1>13. V \in Sequences /\ V[l] = v /\ V[m] = u /\ \A k \in Sentinels \ {l, m} : V[k] = W[k]
  BY <1>1, <1>2, <1>12 DEF Sequences, Exchanged
<1>14. ASSUME NEW k \in Sentinels PROVE IsRing(q, k, V[k])
  <2>1. CASE k = l
    BY <2>1, <1>11, <1>13
  <2>2. CASE k = m
    BY <2>2, <1>10, <1>13
  <2>3. CASE k \notin {l, m}
    <3>1. W[k] \in Seq(Nodes) /\ IsRing(r, k, W[k])
      BY <1>2 DEF Sequences, Rings
    <3>2. /\ (Elements(u) \cup {l}) \cap (Elements(W[k]) \cup {k}) = {}
          /\ (Elements(v) \cup {m}) \cap (Elements(W[k]) \cup {k}) = {}
      BY <1>1, <2>3, RingsApart
    <3>3. Elements(W[k]) \subseteq Nodes /\ k \in BaseNodes
      BY <3>1, ElementsOf, SentinelsApart
    <3>4. ASSUME NEW n \in Elements(W[k]) \cup {k}
          PROVE  q.next[n] = r.next[n] /\ q.prev[n] = r.prev[n]
      <4>1. n \in BaseNodes
        BY <3>3, SentinelsApart
      <4>2. n \notin Elements(u) \cup {m} /\ n \notin Elements(v) \cup {l}
        BY <3>2, <3>3
      <4> QED
        BY <4>1, <4>2, <1>7, <1>10
    <3> QED
      BY <3>1, <3>4, <1>13, <2>3, RingFrame
  <2> QED
    BY <2>1, <2>2, <2>3
<1>15. ASSUME NEW k \in Sentinels, NEW o \in Sentinels, k # o
       PROVE  Elements(V[k]) \cap Elements(V[o]) = {}
  <2>1. PICK x \in Sentinels : V[k] = W[x] /\ x = IF k = l THEN m ELSE IF k = m THEN l ELSE k
    BY <1>1, <1>13
  <2>2. PICK y \in Sentinels : V[o] = W[y] /\ y = IF o = l THEN m ELSE IF o = m THEN l ELSE o
    BY <1>1, <1>13
  <2>3. x # y
    BY <1>15, <2>1, <2>2
  <2> QED
    BY <2>1, <2>2, <2>3 DEF Rings
<1>16. Rings(q, V)
  BY <1>10, <1>13, <1>14, <1>15 DEF Rings
<1> QED
  BY <1>1, <1>6, <1>9, <1>12, <1>16

(* Exchanging two sequences twice, and what they have.                     *)
LEMMA ExchangedFacts ==
  ASSUME NEW W \in Sequences, NEW l \in Sentinels, NEW m \in Sentinels, l # m
  PROVE  /\ Exchanged(W, l, m) \in Sequences
         /\ Exchanged(W, l, m)[l] = W[m] /\ Exchanged(W, l, m)[m] = W[l]
         /\ \A k \in Sentinels \ {l, m} : Exchanged(W, l, m)[k] = W[k]
  BY DEF Exchanged, Sequences

(* Where the nodes are after two lists have exchanged theirs.              *)
LEMMA KeptExchanged ==
  ASSUME NEW W \in Sequences, NEW F \in Sequences, NEW hp, NEW H, Kept(W, F, hp, H),
         NEW l \in Sentinels, NEW m \in Sentinels, l # m
  PROVE  \E K : Kept(Exchanged(W, l, m), Exchanged(F, l, m), hp, K)
<1> DEFINE Home(h) == IF h = Listed(l) THEN Listed(m) ELSE IF h = Listed(m) THEN Listed(l)
                      ELSE IF h = Cached(l) THEN Cached(m) ELSE IF h = Cached(m) THEN Cached(l)
                      ELSE h
           K == [n \in Nodes |-> Home(H[n])]
<1>1. PICK V, G : V = Exchanged(W, l, m) /\ G = Exchanged(F, l, m)
  OBVIOUS
<1>2. /\ V[l] = W[m] /\ V[m] = W[l] /\ \A k \in Sentinels \ {l, m} : V[k] = W[k]
      /\ G[l] = F[m] /\ G[m] = F[l] /\ \A k \in Sentinels \ {l, m} : G[k] = F[k]
  <2>1. V[l] = W[m] /\ V[m] = W[l] /\ \A k \in Sentinels \ {l, m} : V[k] = W[k]
    BY <1>1 DEF Exchanged, Sequences
  <2>2. G[l] = F[m] /\ G[m] = F[l] /\ \A k \in Sentinels \ {l, m} : G[k] = F[k]
    BY <1>1 DEF Exchanged, Sequences
  <2> QED
    BY <2>1, <2>2
<1>3. ASSUME NEW h, NEW k \in Sentinels
      PROVE  /\ Home(h) = Listed(k) <=> h = Listed(IF k = l THEN m ELSE IF k = m THEN l ELSE k)
             /\ Home(h) = Cached(k) <=> h = Cached(IF k = l THEN m ELSE IF k = m THEN l ELSE k)
             /\ Home(h) = Stored <=> h = Stored
  BY HomesDiffer
<1>4. ASSUME NEW n \in Nodes
      PROVE  K[n] = Stored \/ \E k \in Sentinels : K[n] \in {Listed(k), Cached(k)}
  <2>1. K[n] = Home(H[n])
    OBVIOUS
  <2>2. CASE H[n] = Stored
    BY <2>1, <2>2, <1>3
  <2>3. CASE H[n] # Stored
    <3>1. PICK k \in Sentinels : H[n] \in {Listed(k), Cached(k)}
      BY <2>3 DEF Kept
    <3>2. PICK o \in Sentinels : o = IF k = l THEN m ELSE IF k = m THEN l ELSE k
      OBVIOUS
    <3>3. k = IF o = l THEN m ELSE IF o = m THEN l ELSE o
      BY <3>2
    <3>4. Home(H[n]) \in {Listed(o), Cached(o)}
      BY <3>1, <3>3, <1>3
    <3> QED
      BY <2>1, <3>4
  <2> QED
    BY <2>2, <2>3
<1>5. ASSUME NEW n \in Nodes, NEW k \in Sentinels
      PROVE  /\ n \in Elements(V[k]) <=> K[n] = Listed(k)
             /\ n \in Elements(G[k]) <=> K[n] = Cached(k)
  <2>1. PICK o \in Sentinels : o = IF k = l THEN m ELSE IF k = m THEN l ELSE k
    OBVIOUS
  <2>2. V[k] = W[o] /\ G[k] = F[o]
    BY <2>1, <1>2
  <2>3. K[n] = Home(H[n])
    OBVIOUS
  <2>4. /\ n \in Elements(W[o]) <=> H[n] = Listed(o)
        /\ n \in Elements(F[o]) <=> H[n] = Cached(o)
    BY DEF Kept
  <2> QED
    BY <2>1, <2>2, <2>3, <2>4, <1>3
<1>6. \A n \in Nodes : K[n] = Stored <=> H[n] = Stored
  BY <1>3
<1> HIDE DEF K
<1>7. Kept(V, G, hp, K)
  BY <1>4, <1>5, <1>6 DEF Kept
<1> QED
  BY <1>1, <1>7

(* What swap changes besides the links.                                    *)
Swapped(s, q, l, m) ==
  [s EXCEPT !.ring = q, !.size[l] = s.size[m], !.size[m] = s.size[l],
            !.pool[l] = s.pool[m], !.pool[m] = s.pool[l]]

(* swap as it hangs the chains.                                            *)
LEMMA SwapIs ==
  ASSUME NEW s, NEW W, NEW F, NEW H, Sound(s, W, F, H),
         NEW l \in Sentinels, NEW m \in Sentinels, l # m
  PROVE  swap(s, l, m) = Swapped(s, Hung(Hung(s.ring, l, W[m]), m, W[l]), l, m)
<1>1. s \in States /\ s.size[l] = Len(W[l]) /\ s.size[m] = Len(W[m])
      /\ W[l] \in Seq(Nodes) /\ W[m] \in Seq(Nodes)
  BY SoundParts DEF Sound
<1>a. PICK r : r = s.ring
  OBVIOUS
<1>2. PICK u \in Seq(Nodes), v \in Seq(Nodes) :
         /\ u = W[l] /\ v = W[m] /\ IsRing(r, l, u) /\ IsRing(r, m, v)
  <2>1. IsRing(s.ring, l, W[l]) /\ IsRing(s.ring, m, W[m])
    BY DEF Sound, Rings
  <2> QED
    BY <1>1, <1>a, <2>1
<1>3. /\ u # <<>> => r.next[l] = u[1] /\ r.prev[l] = u[Len(u)]
      /\ v # <<>> => r.next[m] = v[1] /\ r.prev[m] = v[Len(v)]
  BY <1>2, RingIsChain
<1>4. /\ u = <<>> <=> s.size[l] = 0
      /\ v = <<>> <=> s.size[m] = 0
  BY <1>1, <1>2, EmptySeq
<1>5. PICK p : p = Hung(r, l, v)
  OBVIOUS
<1>6. p = IF s.size[m] = 0 THEN reset_sentinel(r, l)
          ELSE [r EXCEPT !.next[l] = r.next[m], !.prev[l] = r.prev[m],
                         !.prev[r.next[m]] = l, !.next[r.prev[m]] = l]
  <2>1. CASE v = <<>>
    BY <2>1, <1>4, <1>5 DEF Hung
  <2>2. CASE v # <<>>
    <3>1. p = [r EXCEPT !.next[l] = v[1], !.prev[l] = v[Len(v)],
                        !.prev[v[1]] = l, !.next[v[Len(v)]] = l]
      BY <2>2, <1>5 DEF Hung
    <3> QED
      BY <2>2, <3>1, <1>3, <1>4
  <2> QED
    BY <2>1, <2>2
<1>7. Hung(p, m, u) = IF s.size[l] = 0 THEN reset_sentinel(p, m)
          ELSE [p EXCEPT !.next[m] = r.next[l], !.prev[m] = r.prev[l],
                         !.prev[r.next[l]] = m, !.next[r.prev[l]] = m]
  <2>1. CASE u = <<>>
    BY <2>1, <1>4 DEF Hung
  <2>2. CASE u # <<>>
    <3>1. Hung(p, m, u) = [p EXCEPT !.next[m] = u[1], !.prev[m] = u[Len(u)],
                                    !.prev[u[1]] = m, !.next[u[Len(u)]] = m]
      BY <2>2 DEF Hung
    <3> QED
      BY <2>2, <3>1, <1>3, <1>4
  <2> QED
    BY <2>1, <2>2
<1>8. PICK q : q = Hung(p, m, u)
  OBVIOUS
<1>9. swap(s, l, m) = Swapped(s, q, l, m)
  <2>1. swap(s, l, m) = Swapped(s, rehang(rehang(r, l, r.next[m], r.prev[m], s.size[m]),
                                          m, r.next[l], r.prev[l], s.size[l]), l, m)
    BY <1>a DEF swap, Swapped
  <2>2. rehang(r, l, r.next[m], r.prev[m], s.size[m]) = p
    BY <1>6 DEF rehang
  <2>3. rehang(p, m, r.next[l], r.prev[l], s.size[l]) = q
    BY <1>7, <1>8 DEF rehang
  <2> QED
    BY <2>1, <2>2, <2>3
<1> QED
  BY <1>a, <1>2, <1>5, <1>8, <1>9

(* swap exchanges the lists with their pools.                              *)
LEMMA SwapSound ==
  ASSUME NEW s, NEW W, NEW F, NEW H, Sound(s, W, F, H),
         NEW l \in Sentinels, NEW m \in Sentinels, l # m
  PROVE  LET t == swap(s, l, m)
         IN  /\ \E K : Sound(t, Exchanged(W, l, m), Exchanged(F, l, m), K)
             /\ t.value = s.value /\ Others(s, t, {l, m})
<1>1. /\ s \in States /\ s.size \in [Sentinels -> Nat] /\ s.pool \in [Sentinels -> Pools]
      /\ W \in Sequences /\ F \in Sequences
      /\ \A k \in Sentinels : s.size[k] = Len(W[k]) /\ PoolIs(s.pool[k], F[k])
  <2>1. s \in States
    BY DEF Sound
  <2>2. /\ s.size \in [Sentinels -> Nat] /\ s.pool \in [Sentinels -> Pools]
        /\ W \in Sequences /\ F \in Sequences
        /\ \A k \in Sentinels : s.size[k] = Len(W[k]) /\ PoolIs(s.pool[k], F[k])
    BY SoundParts
  <2> QED
    BY <2>1, <2>2
<1>2. PICK q : q = Hung(Hung(s.ring, l, W[m]), m, W[l])
  OBVIOUS
<1>3. PICK V, G, K : /\ V = Exchanged(W, l, m) /\ G = Exchanged(F, l, m)
                     /\ Kept(V, G, s.heap, K)
  BY <1>1, KeptExchanged DEF Sound
<1>4. /\ V[l] = W[m] /\ V[m] = W[l] /\ \A k \in Sentinels \ {l, m} : V[k] = W[k]
      /\ G[l] = F[m] /\ G[m] = F[l] /\ \A k \in Sentinels \ {l, m} : G[k] = F[k]
      /\ G \in Sequences
  <2>1. V[l] = W[m] /\ V[m] = W[l] /\ \A k \in Sentinels \ {l, m} : V[k] = W[k]
    BY <1>1, <1>3 DEF Exchanged, Sequences
  <2>2. G[l] = F[m] /\ G[m] = F[l] /\ \A k \in Sentinels \ {l, m} : G[k] = F[k]
    BY <1>1, <1>3 DEF Exchanged, Sequences
  <2>3. G \in Sequences
    BY <1>1, <1>3, ExchangedFacts
  <2> QED
    BY <2>1, <2>2, <2>3
<1>5. Rings(q, V) /\ q \in RingShape
  <2>1. Rings(q, V)
    BY <1>2, <1>3, SwapRings DEF Sound
  <2> QED
    BY <2>1 DEF Rings
<1>6. PICK t : t = swap(s, l, m)
  OBVIOUS
<1>7. t = Swapped(s, q, l, m)
  BY <1>2, <1>6, SwapIs
<1>8. /\ t.ring = q /\ t.value = s.value /\ t.heap = s.heap
      /\ t.size = [s.size EXCEPT ![l] = s.size[m], ![m] = s.size[l]]
      /\ t.pool = [s.pool EXCEPT ![l] = s.pool[m], ![m] = s.pool[l]]
      /\ t \in States
  BY <1>1, <1>5, <1>7 DEF States, Swapped
<1>9. ASSUME NEW k \in Sentinels PROVE t.size[k] = Len(V[k]) /\ PoolIs(t.pool[k], G[k])
  <2>1. CASE k = l
    BY <2>1, <1>1, <1>4, <1>8
  <2>2. CASE k = m
    BY <2>2, <1>1, <1>4, <1>8
  <2>3. CASE k \notin {l, m}
    BY <2>3, <1>1, <1>4, <1>8
  <2> QED
    BY <2>1, <2>2, <2>3
<1>10. Sound(t, V, G, K)
  BY <1>3, <1>4, <1>5, <1>8, <1>9 DEF Sound
<1>11. Others(s, t, {l, m})
  BY <1>1, <1>8 DEF Others
<1> QED
  BY <1>3, <1>6, <1>8, <1>10, <1>11

(* The pool of m has come to l, which had none left, and m starts anew.    *)
PoolMoved(s, l, m) == [s EXCEPT !.pool[l] = s.pool[m], !.pool[m] = NewPool]

(* What the pool of m cached is now cached for l.                          *)
LEMMA PoolMovedSound ==
  ASSUME NEW s, NEW W, NEW F, NEW H, Sound(s, W, F, H),
         NEW l \in Sentinels, NEW m \in Sentinels, l # m, F[l] = <<>>
  PROVE  LET t == PoolMoved(s, l, m)
         IN  /\ \E K : Sound(t, W, Exchanged(F, l, m), K)
             /\ t.value = s.value /\ Others(s, t, {l, m})
<1>1. /\ s.pool \in [Sentinels -> Pools] /\ W \in Sequences /\ F \in Sequences
      /\ s.heap \subseteq Nodes
      /\ \A k \in Sentinels : s.size[k] = Len(W[k]) /\ PoolIs(s.pool[k], F[k])
  BY SoundParts
<1>2. s \in States /\ Kept(W, F, s.heap, H)
  BY DEF Sound
<1>3. PICK G : G = Exchanged(F, l, m)
  OBVIOUS
<1>4. G \in Sequences /\ G[l] = F[m] /\ G[m] = <<>> /\ \A k \in Sentinels \ {l, m} : G[k] = F[k]
  BY <1>1, <1>3 DEF Exchanged, Sequences
<1>5. PICK S \in SUBSET Nodes : S = Elements(F[m])
  BY <1>1, ElementsOf DEF Sequences
<1>a. /\ \A k \in Sentinels \ {m} : S \cap Elements(F[k]) = {}
      /\ \A k \in Sentinels : S \cap Elements(W[k]) = {}
      /\ s.heap \cap S = {}
  BY <1>1, <1>2, <1>5, KeptApart, ZenonT(40)
<1>6. PICK K : Kept(W, G, s.heap, K)
  <2>1. Gains(F, G, l, S)
    <3>1. ASSUME NEW k \in Sentinels
          PROVE  Elements(G[k]) = IF k = l THEN Elements(F[l]) \cup S ELSE Elements(F[k]) \ S
      <4>1. CASE k = l
        BY <4>1, <1>4, <1>5, ElementsOf
      <4>2. CASE k = m
        BY <4>2, <1>4, <1>5, ElementsOf
      <4>3. CASE k \notin {l, m}
        BY <4>3, <1>4, <1>a
      <4> QED
        BY <4>1, <4>2, <4>3
    <3> QED
      BY <3>1 DEF Gains
  <2>2. Loses(W, W, S)
    BY <1>a DEF Loses
  <2>3. s.heap = s.heap \ S
    BY <1>a
  <2> QED
    BY <1>2, <2>1, <2>2, <2>3, KeptCached
<1>7. PICK t : t = PoolMoved(s, l, m)
  OBVIOUS
<1>8. /\ t.ring = s.ring /\ t.value = s.value /\ t.heap = s.heap /\ t.size = s.size
      /\ t.pool = [s.pool EXCEPT ![l] = s.pool[m], ![m] = NewPool]
      /\ t \in States
  <2>1. NewPool \in Pools
    BY EmptyPools DEF PoolIs
  <2> QED
    BY <2>1, <1>2, <1>7 DEF States, PoolMoved
<1>9. ASSUME NEW k \in Sentinels PROVE PoolIs(t.pool[k], G[k])
  <2>1. CASE k = l
    BY <2>1, <1>1, <1>4, <1>8
  <2>2. CASE k = m
    BY <2>2, <1>1, <1>4, <1>8, EmptyPools
  <2>3. CASE k \notin {l, m}
    BY <2>3, <1>1, <1>4, <1>8
  <2> QED
    BY <2>1, <2>2, <2>3
<1>10. Sound(t, W, G, K)
  BY <1>1, <1>4, <1>6, <1>8, <1>9 DEF Sound
<1>11. Others(s, t, {l, m})
  BY <1>1, <1>8 DEF Others
<1> QED
  BY <1>3, <1>7, <1>8, <1>10, <1>11

(* An empty list takes over the nodes of another.                          *)
LEMMA AdoptSound ==
  ASSUME NEW s, NEW W, NEW F, NEW H, Sound(s, W, F, H),
         NEW l \in Sentinels, NEW m \in Sentinels, l # m, W[l] = <<>>
  PROVE  LET t == adopt_nodes_from(s, l, m)
         IN  /\ \E K : Sound(t, Exchanged(W, l, m), F, K)
             /\ t.value = s.value /\ Others(s, t, {l, m})
<1>1. /\ s.ring \in RingShape /\ s.size \in [Sentinels -> Nat] /\ s.heap \subseteq Nodes
      /\ W \in Sequences /\ F \in Sequences
      /\ \A k \in Sentinels : s.size[k] = Len(W[k]) /\ PoolIs(s.pool[k], F[k])
  BY SoundParts
<1>2. s \in States /\ Kept(W, F, s.heap, H)
  BY DEF Sound
<1>3. PICK r : r = s.ring
  OBVIOUS
<1>4. PICK v \in Seq(Nodes) : v = W[m] /\ IsRing(r, m, v)
  BY <1>3 DEF Sound, Rings, Sequences
<1>5. PICK q : q = Hung(Hung(r, l, v), m, <<>>)
  OBVIOUS
<1>6. PICK V : V = Exchanged(W, l, m)
  OBVIOUS
<1>7. V \in Sequences /\ V[l] = v /\ V[m] = <<>> /\ \A k \in Sentinels \ {l, m} : V[k] = W[k]
  BY <1>1, <1>4, <1>6 DEF Exchanged, Sequences
<1>8. Rings(q, V) /\ q \in RingShape
  <2>1. Rings(Hung(Hung(r, l, W[m]), m, W[l]), V)
    BY <1>3, <1>6, SwapRings DEF Sound
  <2>2. Rings(q, V)
    BY <2>1, <1>4, <1>5
  <2> QED
    BY <2>2 DEF Rings
<1>9. PICK t : t = adopt_nodes_from(s, l, m)
  OBVIOUS
<1>10. v = <<>> <=> s.size[m] = 0
  BY <1>1, <1>4, EmptySeq
<1>11. /\ t.ring = q /\ t.value = s.value /\ t.heap = s.heap /\ t.pool = s.pool
       /\ t.size = [s.size EXCEPT ![l] = s.size[m], ![m] = 0]
       /\ t \in States
  <2>1. CASE v = <<>>
    <3>1. t = [s EXCEPT !.ring = reset_sentinel(r, l), !.size[l] = 0]
      BY <2>1, <1>2, <1>3, <1>9, <1>10 DEF adopt_nodes_from, States
    <3>2. r \in RingShape /\ r.next[m] = m /\ r.prev[m] = m /\ m \in BaseNodes /\ l \in BaseNodes
      <4>1. r.next[m] = m /\ r.prev[m] = m
        BY <2>1, <1>4, RingIsChain, ZenonT(40)
      <4> QED
        BY <4>1, <1>1, <1>3, SentinelsApart
    <3>3. reset_sentinel(r, l) = reset_sentinel(reset_sentinel(r, l), m)
      BY <3>2 DEF reset_sentinel, RingShape
    <3>4. q = reset_sentinel(r, l)
      BY <2>1, <3>3, <1>5 DEF Hung
    <3>5. /\ t.ring = q /\ t.value = s.value /\ t.heap = s.heap /\ t.pool = s.pool
          /\ t.size = [s.size EXCEPT ![l] = 0] /\ t \in States
      BY <3>1, <3>4, <1>2, <1>8 DEF States
    <3>6. [s.size EXCEPT ![l] = 0] = [s.size EXCEPT ![l] = s.size[m], ![m] = 0]
      BY <2>1, <1>1, <1>10
    <3> QED
      BY <3>5, <3>6
  <2>2. CASE v # <<>>
    <3>1. PICK a, b : a = r.next[m] /\ b = r.prev[m]
      OBVIOUS
    <3>2. a = v[1] /\ b = v[Len(v)]
      BY <2>2, <3>1, <1>4, RingIsChain
    <3>3. PICK x : x = [r EXCEPT !.next[l] = a, !.prev[l] = b, !.prev[a] = l, !.next[b] = l]
      OBVIOUS
    <3>4. x = Hung(r, l, v)
      BY <2>2, <3>2, <3>3 DEF Hung
    <3>5. q = reset_sentinel(x, m)
      BY <3>4, <1>5 DEF Hung
    <3>6. t = [s EXCEPT !.ring = reset_sentinel(x, m), !.size[l] = s.size[m], !.size[m] = 0]
      BY <2>2, <3>1, <3>3, <1>3, <1>9, <1>10 DEF adopt_nodes_from
    <3>7. PICK z \in Nat : z = s.size[m]
      BY <1>1
    <3>8. t = [s EXCEPT !.ring = q, !.size[l] = z, !.size[m] = 0]
      BY <3>5, <3>6, <3>7
    <3> QED
      BY <3>7, <3>8, <1>2, <1>8 DEF States
  <2> QED
    BY <2>1, <2>2
<1>12. PICK S \in SUBSET Nodes : S = Elements(v)
  BY ElementsOf
<1>a. /\ \A k \in Sentinels \ {m} : S \cap Elements(W[k]) = {}
      /\ \A k \in Sentinels : S \cap Elements(F[k]) = {}
      /\ s.heap \cap S = {}
  <2>1. S = Elements(W[m])
    BY <1>4, <1>12
  <2> QED
    BY <1>1, <1>2, <2>1, KeptApart, ZenonT(40)
<1>13. PICK K : Kept(V, F, s.heap, K)
  <2>1. Gains(W, V, l, S)
    <3>1. ASSUME NEW k \in Sentinels
          PROVE  Elements(V[k]) = IF k = l THEN Elements(W[l]) \cup S ELSE Elements(W[k]) \ S
      <4>1. CASE k = l
        BY <4>1, <1>7, <1>12, ElementsOf
      <4>2. CASE k = m
        BY <4>2, <1>4, <1>7, <1>12, ElementsOf
      <4>3. CASE k \notin {l, m}
        BY <4>3, <1>7, <1>a
      <4> QED
        BY <4>1, <4>2, <4>3
    <3> QED
      BY <3>1 DEF Gains
  <2>2. Loses(F, F, S)
    BY <1>a DEF Loses
  <2>3. s.heap = s.heap \ S
    BY <1>a
  <2> QED
    BY <1>2, <2>1, <2>2, <2>3, KeptListed
<1>14. ASSUME NEW k \in Sentinels PROVE t.size[k] = Len(V[k])
  <2>1. CASE k = l
    BY <2>1, <1>1, <1>4, <1>7, <1>11
  <2>2. CASE k = m
    BY <2>2, <1>1, <1>7, <1>11
  <2>3. CASE k \notin {l, m}
    BY <2>3, <1>1, <1>7, <1>11
  <2> QED
    BY <2>1, <2>2, <2>3
<1>15. Sound(t, V, F, K)
  BY <1>1, <1>8, <1>11, <1>13, <1>14 DEF Sound
<1>16. Others(s, t, {l, m})
  BY <1>1, <1>11 DEF Others
<1> QED
  BY <1>6, <1>9, <1>11, <1>15, <1>16

(* Move assignment: list l has the nodes and the pool of m, which is left  *)
(* empty with an empty pool.                                               *)
LEMMA MovedSound ==
  ASSUME NEW s, NEW W, NEW F, NEW H, Sound(s, W, F, H),
         NEW l \in Sentinels, NEW m \in Sentinels, l # m
  PROVE  LET t == Moved(s, l, m)
         IN  /\ \E V, G, K : /\ Sound(t, V, G, K)
                             /\ V = [W EXCEPT ![l] = W[m], ![m] = <<>>] /\ G[m] = <<>>
             /\ t.value = s.value /\ Others(s, t, {l, m})
<1>0. W \in Sequences
  BY SoundParts
<1>1. PICK c, V : c = clear(s, l) /\ V = [W EXCEPT ![l] = <<>>]
  OBVIOUS
<1>2. PICK G, K : Sound(c, V, G, K)
  BY <1>1, ClearSound
<1>3. c.value = s.value /\ Others(s, c, {l})
  BY <1>1, ClearSound
<1>4. PICK u, D : u = shrink_to_fit(c, l) /\ D = [G EXCEPT ![l] = <<>>]
  OBVIOUS
<1>5. PICK J : Sound(u, V, D, J)
  BY <1>2, <1>4, ShrinkSound
<1>6. u.value = c.value /\ Others(c, u, {l})
  BY <1>2, <1>4, ShrinkSound
<1>7. D[l] = <<>> /\ V[l] = <<>> /\ D \in Sequences
  <2>1. G \in Sequences /\ D \in Sequences
    BY <1>2, <1>5 DEF Sound
  <2> QED
    BY <2>1, <1>0, <1>1, <1>4 DEF Sequences
<1>8. PICK x : x = PoolMoved(u, l, m)
  OBVIOUS
<1>9. PICK B, I : B = Exchanged(D, l, m) /\ Sound(x, V, B, I)
  BY <1>5, <1>7, <1>8, PoolMovedSound
<1>10. x.value = u.value /\ Others(u, x, {l, m})
  <2>1. Sound(u, V, D, J) /\ D[l] = <<>>
    BY <1>5, <1>7
  <2>2. PoolMoved(u, l, m).value = u.value /\ Others(u, PoolMoved(u, l, m), {l, m})
    BY <2>1, PoolMovedSound
  <2> QED
    BY <2>2, <1>8
<1>11. PICK t : t = adopt_nodes_from(x, l, m)
  OBVIOUS
<1>12. PICK X, Y : X = Exchanged(V, l, m) /\ Sound(t, X, B, Y)
  BY <1>7, <1>9, <1>11, AdoptSound
<1>13. t.value = x.value /\ Others(x, t, {l, m})
  BY <1>7, <1>9, <1>11, AdoptSound
<1>14. t = Moved(s, l, m)
  BY <1>1, <1>4, <1>8, <1>11 DEF Moved, PoolMoved
<1>15. B[m] = <<>>
  BY <1>7, <1>9 DEF Exchanged, Sequences
<1>16. X = [W EXCEPT ![l] = W[m], ![m] = <<>>]
  BY <1>0, <1>1, <1>12 DEF Exchanged, Sequences
<1>17. Others(s, t, {l, m})
  BY <1>3, <1>6, <1>10, <1>13 DEF Others
<1> QED
  BY <1>3, <1>6, <1>10, <1>12, <1>13, <1>14, <1>15, <1>16, <1>17

----------------------------------------------------------------------------
(* Splicing                                                                *)

(* The last four links of a transfer.                                      *)
Rehung(r, a, first, last, b) ==
  [r EXCEPT !.next[a] = first, !.prev[first] = a, !.next[last] = b, !.prev[b] = last]

(* They hang the chain from first to last between a and b.                 *)
LEMMA RehungHangs ==
  ASSUME NEW r \in RingShape, NEW a \in BaseNodes, NEW b \in BaseNodes,
         NEW first \in BaseNodes, NEW last \in BaseNodes, a # last, b # first
  PROVE  Hangs(Rehung(r, a, first, last, b), r, a, first, last, b)
<1>1. PICK q : q = Rehung(r, a, first, last, b)
  OBVIOUS
<1>2. /\ q.next = [r.next EXCEPT ![a] = first, ![last] = b]
      /\ q.prev = [r.prev EXCEPT ![first] = a, ![b] = last]
      /\ q = [next |-> q.next, prev |-> q.prev]
  BY <1>1 DEF Rehung, RingShape
<1>3. r.next \in [BaseNodes -> BaseNodes] /\ r.prev \in [BaseNodes -> BaseNodes]
  BY DEF RingShape
<1>4. q.next \in [BaseNodes -> BaseNodes] /\ q.prev \in [BaseNodes -> BaseNodes]
  BY <1>2, <1>3
<1>5. q \in RingShape
  BY <1>2, <1>4 DEF RingShape
<1>6. \A n \in BaseNodes :
        /\ q.next[n] = IF n = a THEN first ELSE IF n = last THEN b ELSE r.next[n]
        /\ q.prev[n] = IF n = first THEN a ELSE IF n = b THEN last ELSE r.prev[n]
  BY <1>2, <1>3
<1> QED
  BY <1>1, <1>5, <1>6 DEF Hangs

(* The nodes from place i of m up to the one before j go behind the first  *)
(* k that l has without them.                                              *)
Without(W, m, i, j) == [W EXCEPT ![m] = CutOut(W[m], i, j)]
Spliced(W, l, m, i, j, k) ==
  [Without(W, m, i, j) EXCEPT ![l] = Pasted(Without(W, m, i, j)[l], k, SubSeq(W[m], i, j - 1))]

(* The links of transfer_range_before.                                     *)
Relinked(r, position, first, last_exclusive) ==
  LET out == Bridged(r, r.prev[first], last_exclusive)
  IN  Rehung(out, out.prev[position], first, r.prev[last_exclusive], position)

(* The links of a transfer make rings of the lists that it says.           *)
LEMMA TransferRings ==
  ASSUME NEW r, NEW W, Rings(r, W), NEW l \in Sentinels, NEW m \in Sentinels,
         NEW i \in 1 .. Len(W[m]), NEW j \in i + 1 .. Len(W[m]) + 1,
         NEW k \in 0 .. Len(Without(W, m, i, j)[l]), NEW position,
         position = Place(l, Without(W, m, i, j)[l], k + 1)
  PROVE  Rings(Relinked(r, position, Place(m, W[m], i), Place(m, W[m], j)),
               Spliced(W, l, m, i, j, k))
<1>1. PICK w \in Seq(Nodes) : w = W[m] /\ IsRing(r, m, w) /\ Distinct(w)
  BY DEF Rings, Sequences, IsRing
<1>2. PICK L \in Nat : L = Len(w)
  BY <1>1
<1>3. i \in Nat /\ j \in Nat /\ 1 <= i /\ i < j /\ j <= L + 1
  BY <1>1, <1>2
<1>4. PICK c, out, V : /\ c = SubSeq(W[m], i, j - 1)
                       /\ out = Bridged(r, Place(m, W[m], i - 1), Place(m, W[m], j))
                       /\ V = Without(W, m, i, j)
  OBVIOUS
<1>5. /\ Rings(out, V) /\ IsChain(out, c) /\ c \in Seq(Nodes) /\ Len(c) = j - i
      /\ Elements(c) = {W[m][p] : p \in i .. j - 1} /\ Loose(c, V)
  <2>1. V = [W EXCEPT ![m] = CutOut(W[m], i, j)]
    BY <1>4 DEF Without
  <2>2. LET d == SubSeq(W[m], i, j - 1)
             q == Bridged(r, Place(m, W[m], i - 1), Place(m, W[m], j))
             X == [W EXCEPT ![m] = CutOut(W[m], i, j)]
         IN  /\ Rings(q, X)
             /\ IsChain(q, d) /\ d \in Seq(Nodes) /\ Len(d) = j - i
             /\ Elements(d) = {W[m][p] : p \in i .. j - 1}
             /\ Loose(d, X)
    BY CutRings, Zenon
  <2> QED
    BY <2>1, <2>2, <1>4
<1>6. PICK first, last_exclusive, last :
        /\ first = Place(m, w, i) /\ last_exclusive = Place(m, w, j) /\ last = c[Len(c)]
  OBVIOUS
<1>7. c[1] = first /\ c[Len(c)] = last /\ r.prev[first] = Place(m, w, i - 1)
      /\ r.prev[last_exclusive] = last /\ Len(c) >= 1
  <2>1. \A p \in i .. j - 1 : w[p] \in Nodes
    <3>1. \A p \in i .. j - 1 : p \in 1 .. L
      BY <1>3
    <3> QED
      BY <3>1, <1>1, <1>2
  <2>2. PICK e \in Int : e = j - 1 /\ e - i + 1 = j - i /\ i <= e
    BY <1>3
  <2>3. \A p \in 1 .. e - i + 1 : SubSeq(w, i, e)[p] = w[i + p - 1]
    BY <2>1, <2>2, <1>3, SubSeqProperties
  <2>4. Len(c) = j - i /\ Len(c) >= 1 /\ i + 1 - 1 = i /\ i + (j - i) - 1 = j - 1
        /\ 1 \in 1 .. j - i /\ j - i \in 1 .. j - i
    BY <1>3, <1>5
  <2>5. c[1] = w[i] /\ c[Len(c)] = w[j - 1]
    <3>1. c = SubSeq(w, i, e)
      BY <1>1, <1>4, <2>2
    <3>2. c[1] = w[i + 1 - 1] /\ c[Len(c)] = w[i + (j - i) - 1]
      BY <2>2, <2>3, <2>4, <3>1
    <3> QED
      BY <3>2, <2>4
  <2>6. Place(m, w, i) = w[i] /\ Place(m, w, j - 1) = w[j - 1]
    <3>1. i \in 1 .. L /\ j - 1 \in 1 .. L
      BY <1>3
    <3> QED
      BY <3>1, <1>2 DEF Place
  <2>7. r.prev[Place(m, w, i)] = Place(m, w, i - 1) /\ r.prev[Place(m, w, j)] = Place(m, w, j - 1)
    <3>1. i - 1 \in 0 .. L /\ j - 1 \in 0 .. L /\ (i - 1) + 1 = i /\ (j - 1) + 1 = j
      BY <1>3
    <3>2. r.prev[Place(m, w, (i - 1) + 1)] = Place(m, w, i - 1)
          /\ r.prev[Place(m, w, (j - 1) + 1)] = Place(m, w, j - 1)
      BY <3>1, <1>1, <1>2 DEF IsRing
    <3> QED
      BY <3>1, <3>2
  <2> QED
    BY <2>4, <2>5, <2>6, <2>7, <1>6
<1>8. PICK v \in Seq(Nodes) : v = V[l] /\ IsRing(out, l, v) /\ k \in 0 .. Len(v)
                              /\ position = Place(l, v, k + 1)
  <2>1. V[l] \in Seq(Nodes) /\ IsRing(out, l, V[l])
    BY <1>5 DEF Rings, Sequences
  <2> QED
    BY <2>1, <1>4
<1>9. PICK a : a = Place(l, v, k) /\ out.prev[position] = a
  BY <1>8 DEF IsRing
<1>10. /\ a \in Elements(v) \cup {l} /\ position \in Elements(v) \cup {l}
       /\ a \in BaseNodes /\ position \in BaseNodes
  BY <1>8, <1>9, PlaceType
<1>11. first \in Elements(c) /\ last \in Elements(c) /\ Elements(c) \subseteq Nodes
  <2>1. 1 \in 1 .. Len(c) /\ Len(c) \in 1 .. Len(c)
    BY <1>5, <1>7, <1>3
  <2> QED
    BY <2>1, <1>5, <1>7, ElementsOf DEF Elements
<1>12. Elements(c) \cap Elements(v) = {}
  BY <1>5, <1>8 DEF Loose
<1>13. a # last /\ position # first /\ first \in BaseNodes /\ last \in BaseNodes
  BY <1>10, <1>11, <1>12, SentinelsApart
<1>14. PICK q : q = Rehung(out, a, first, last, position)
  OBVIOUS
<1>15. Hangs(q, out, a, first, last, position)
  BY <1>5, <1>10, <1>13, <1>14, RehungHangs DEF Rings
<1>16. Rings(q, [V EXCEPT ![l] = Pasted(V[l], k, c)])
  <2>1. Hangs(q, out, Place(l, V[l], k), c[1], c[Len(c)], Place(l, V[l], k + 1))
    BY <1>7, <1>8, <1>9, <1>15
  <2>2. k \in 0 .. Len(V[l])
    BY <1>8
  <2> QED
    BY <2>1, <2>2, <1>5, <1>7, PasteRings
<1>17. q = Relinked(r, position, first, last_exclusive)
  BY <1>1, <1>4, <1>6, <1>7, <1>9, <1>14 DEF Relinked
<1> QED
  BY <1>1, <1>4, <1>6, <1>16, <1>17 DEF Spliced

(* The nodes from place i up to the one before j.                          *)
Part(w, i, j) == {w[p] : p \in i .. j - 1}

(* What the lists have after a transfer, X, when the nodes of S came to l. *)
SplicedTo(W, l, m, n, X, S) ==
  /\ \A o \in Sentinels \ {l, m} : X[o] = W[o]
  /\ S \subseteq Elements(W[m])
  /\ l = m => Len(X[l]) = Len(W[l]) /\ Elements(X[l]) = Elements(W[l])
  /\ l # m => /\ Len(X[l]) = Len(W[l]) + n /\ Len(X[m]) = Len(W[m]) - n
              /\ Elements(X[l]) = Elements(W[l]) \cup S
              /\ Elements(X[m]) = Elements(W[m]) \ S

(* A transfer moves the nodes of the range, and no others.                 *)
LEMMA SplicedFacts ==
  ASSUME NEW r, NEW W, Rings(r, W), NEW l \in Sentinels, NEW m \in Sentinels,
         NEW i \in 1 .. Len(W[m]), NEW j \in i + 1 .. Len(W[m]) + 1,
         NEW k \in 0 .. Len(Without(W, m, i, j)[l])
  PROVE  SplicedTo(W, l, m, j - i, Spliced(W, l, m, i, j, k), Part(W[m], i, j))
<1>1. W \in Sequences
  BY DEF Rings
<1>a. PICK S : S = Part(W[m], i, j) /\ S = {W[m][p] : p \in i .. j - 1}
  BY DEF Part
<1>2. PICK w \in Seq(Nodes) : w = W[m] /\ Distinct(w)
  BY DEF Rings, Sequences, IsRing
<1>3. PICK L \in Nat : L = Len(w)
  BY <1>2
<1>4. i \in Nat /\ j \in Nat /\ 1 <= i /\ i < j /\ j <= L + 1
  BY <1>2, <1>3
<1>5. PICK d \in Nat : d = j - i /\ d <= L
  BY <1>4
<1>6. PICK c, v, V : /\ c = SubSeq(W[m], i, j - 1) /\ v = CutOut(W[m], i, j)
                     /\ V = Without(W, m, i, j)
  OBVIOUS
<1>7. c \in Seq(Nodes) /\ Len(c) = d /\ Elements(c) = S /\ Loose(c, V) /\ Distinct(c)
  <2>1. V = [W EXCEPT ![m] = CutOut(W[m], i, j)]
    BY <1>6 DEF Without
  <2>2. LET b == SubSeq(W[m], i, j - 1)
             q == Bridged(r, Place(m, W[m], i - 1), Place(m, W[m], j))
             X == [W EXCEPT ![m] = CutOut(W[m], i, j)]
         IN  /\ Rings(q, X)
             /\ IsChain(q, b) /\ b \in Seq(Nodes) /\ Len(b) = j - i
             /\ Elements(b) = {W[m][p] : p \in i .. j - 1}
             /\ Loose(b, X)
    BY CutRings, Zenon
  <2> QED
    BY <2>1, <2>2, <1>a, <1>5, <1>6 DEF IsChain
<1>8. v \in Seq(Nodes) /\ Len(v) = L - d /\ Distinct(v)
      /\ Elements(v) = {w[p] : p \in 1 .. Len(w) \ i .. j - 1}
  <2>1. PICK a \in 1 .. Len(w) : a = i
    BY <1>2
  <2>2. PICK b \in a + 1 .. Len(w) + 1 : b = j
    BY <1>2, <2>1
  <2>3. v = CutOut(w, a, b)
    BY <1>2, <1>6, <2>1, <2>2
  <2>4. /\ v \in Seq(Nodes) /\ Len(v) = Len(w) - (b - a) /\ Distinct(v)
        /\ Elements(v) = {w[p] : p \in 1 .. Len(w) \ a .. b - 1}
    <3>1. Distinct(w)
      BY <1>2
    <3>2. LET x == CutOut(w, a, b)
          IN  /\ x \in Seq(Nodes) /\ Len(x) = Len(w) - (b - a) /\ Len(x) \in Nat
              /\ Distinct(x)
              /\ \A p \in 0 .. Len(x) + 1 :
                   Place(m, x, p) = Place(m, w, IF p < a THEN p ELSE p + (b - a))
              /\ Elements(x) = {w[p] : p \in 1 .. Len(w) \ a .. b - 1}
      BY <3>1, CutFacts, Zenon
    <3> QED
      BY <3>2, <2>3
  <2> QED
    BY <2>1, <2>2, <2>4, <1>3, <1>5
<1>9. S \subseteq Elements(w) /\ Elements(v) = Elements(w) \ S
  <2>1. Elements(w) = {w[p] : p \in 1 .. L} /\ Elements(v) = {w[p] : p \in 1 .. L \ i .. j - 1}
        /\ S = {w[p] : p \in i .. j - 1}
    BY <1>a, <1>2, <1>3, <1>8 DEF Elements
  <2>2. \A p \in i .. j - 1 : p \in 1 .. L
    BY <1>4
  <2>3. \A p \in i .. j - 1 : \A q \in 1 .. L \ i .. j - 1 : w[p] # w[q]
    BY <2>2, <1>2, <1>3 DEF Distinct
  <2> QED
    BY <2>1, <2>2, <2>3
<1>10. V[m] = v /\ V \in Sequences /\ \A o \in Sentinels \ {m} : V[o] = W[o]
  BY <1>1, <1>6, <1>8 DEF Without, Sequences
<1>11. PICK x \in Seq(Nodes) : x = V[l] /\ Distinct(x) /\ k \in 0 .. Len(x)
  <2>1. CASE l = m
    BY <2>1, <1>6, <1>8, <1>10
  <2>2. CASE l # m
    BY <2>2, <1>6, <1>10 DEF Rings, Sequences, IsRing
  <2> QED
    BY <2>1, <2>2
<1>12. PICK y \in Seq(Nodes) : /\ y = Pasted(x, k, c) /\ Len(y) = Len(x) + d
                               /\ Elements(y) = Elements(x) \cup S
  <2>1. Elements(c) \cap Elements(x) = {}
    BY <1>7, <1>11 DEF Loose
  <2>2. /\ Pasted(x, k, c) \in Seq(Nodes) /\ Len(Pasted(x, k, c)) = Len(x) + Len(c)
        /\ Elements(Pasted(x, k, c)) = Elements(x) \cup Elements(c)
    BY <2>1, <1>7, <1>11, PasteFacts, SMTT(20)
  <2> QED
    BY <2>2, <1>7
<1>13. PICK X : X = Spliced(W, l, m, i, j, k)
  OBVIOUS
<1>14. X = [V EXCEPT ![l] = y]
  BY <1>6, <1>11, <1>12, <1>13 DEF Spliced
<1>15. X[l] = y /\ \A o \in Sentinels \ {l} : X[o] = V[o]
  BY <1>10, <1>14 DEF Sequences
<1>16. CASE l = m
  <2>1. Len(y) = L /\ Elements(y) = Elements(w)
    <3>1. x = v
      BY <1>16, <1>10, <1>11
    <3>2. Len(y) = L
      BY <3>1, <1>3, <1>5, <1>8, <1>12
    <3> QED
      BY <3>1, <3>2, <1>9, <1>12
  <2> QED
    BY <1>a, <2>1, <1>2, <1>3, <1>9, <1>10, <1>13, <1>15, <1>16 DEF SplicedTo
<1>17. CASE l # m
  <2>1. x = W[l] /\ X[m] = v
    BY <1>10, <1>11, <1>15, <1>17
  <2>2. Len(y) = Len(W[l]) + (j - i) /\ Elements(y) = Elements(W[l]) \cup S
    BY <2>1, <1>5, <1>12
  <2>3. Len(X[m]) = Len(W[m]) - (j - i) /\ Elements(X[m]) = Elements(W[m]) \ S
    BY <2>1, <1>2, <1>3, <1>5, <1>8, <1>9
  <2>4. S \subseteq Elements(W[m]) /\ \A o \in Sentinels \ {l, m} : X[o] = W[o]
    BY <1>2, <1>9, <1>10, <1>15
  <2> QED
    BY <1>a, <2>2, <2>3, <2>4, <1>13, <1>15, <1>17 DEF SplicedTo
<1> QED
  BY <1>16, <1>17

(* What it changes besides the links.                                      *)
Transferred(s, q, l, m, n) ==
  [s EXCEPT !.ring = q,
            !.size = IF l = m THEN s.size ELSE [s.size EXCEPT ![l] = @ + n, ![m] = @ - n]]

(* transfer_range_before moves nodes from list m to list l.                *)
LEMMA TransferSound ==
  ASSUME NEW s, NEW W, NEW F, NEW H, Sound(s, W, F, H),
         NEW l \in Sentinels, NEW m \in Sentinels,
         NEW i \in 1 .. Len(W[m]), NEW j \in i + 1 .. Len(W[m]) + 1,
         NEW k \in 0 .. Len(Without(W, m, i, j)[l])
  PROVE  LET t == transfer_range_before(s, l, m, Place(l, Without(W, m, i, j)[l], k + 1),
                                        Place(m, W[m], i), Place(m, W[m], j), j - i)
         IN  /\ \E K : Sound(t, Spliced(W, l, m, i, j, k), F, K)
             /\ t.value = s.value /\ Others(s, t, {l, m})
<1>0. PICK position, n : position = Place(l, Without(W, m, i, j)[l], k + 1) /\ n = j - i
  OBVIOUS
<1>1. /\ s.size \in [Sentinels -> Nat] /\ s.heap \subseteq Nodes
      /\ W \in Sequences /\ F \in Sequences
      /\ \A o \in Sentinels : s.size[o] = Len(W[o]) /\ PoolIs(s.pool[o], F[o]) /\ Len(W[o]) \in Nat
  BY SoundParts
<1>2. s \in States /\ Kept(W, F, s.heap, H) /\ Rings(s.ring, W)
  BY DEF Sound
<1>3. PICK first, last_exclusive : first = Place(m, W[m], i) /\ last_exclusive = Place(m, W[m], j)
  OBVIOUS
<1>4. PICK q : q = Relinked(s.ring, position, first, last_exclusive)
  OBVIOUS
<1>5. PICK X : X = Spliced(W, l, m, i, j, k)
  OBVIOUS
<1>6. Rings(q, X) /\ q \in RingShape /\ X \in Sequences
  <2>1. Rings(Relinked(s.ring, position, Place(m, W[m], i), Place(m, W[m], j)),
              Spliced(W, l, m, i, j, k))
    BY <1>0, <1>2, TransferRings
  <2>2. Rings(q, X)
    BY <2>1, <1>3, <1>4, <1>5
  <2> QED
    BY <2>2 DEF Rings
<1>7. PICK S : S = Part(W[m], i, j)
  OBVIOUS
<1>8. /\ \A o \in Sentinels \ {l, m} : X[o] = W[o]
      /\ S \subseteq Elements(W[m])
      /\ l = m => Len(X[l]) = Len(W[l]) /\ Elements(X[l]) = Elements(W[l])
      /\ l # m => /\ Len(X[l]) = Len(W[l]) + n /\ Len(X[m]) = Len(W[m]) - n
                  /\ Elements(X[l]) = Elements(W[l]) \cup S
                  /\ Elements(X[m]) = Elements(W[m]) \ S
  <2>1. SplicedTo(W, l, m, j - i, Spliced(W, l, m, i, j, k), Part(W[m], i, j))
    BY <1>2, SplicedFacts
  <2>2. SplicedTo(W, l, m, n, X, S)
    BY <2>1, <1>0, <1>5, <1>7
  <2> QED
    BY <2>2 DEF SplicedTo
<1>9. S \in SUBSET Nodes
  BY <1>1, <1>8, ElementsOf DEF Sequences
<1>10. PICK K : Kept(X, F, s.heap, K)
  <2>1. CASE l = m
    <3>1. \A o \in Sentinels : Elements(X[o]) = Elements(W[o])
      BY <2>1, <1>8
    <3>2. Kept(X, F, s.heap, H)
      BY <3>1, <1>2 DEF Kept
    <3> QED
      BY <3>2
  <2>2. CASE l # m
    <3>a. /\ \A o \in Sentinels \ {m} : S \cap Elements(W[o]) = {}
          /\ \A o \in Sentinels : S \cap Elements(F[o]) = {}
          /\ s.heap \cap S = {}
      <4>1. /\ \A o \in Sentinels \ {m} : Elements(W[m]) \cap Elements(W[o]) = {}
            /\ \A o \in Sentinels : Elements(W[m]) \cap Elements(F[o]) = {}
            /\ s.heap \cap Elements(W[m]) = {}
        BY <1>1, <1>2, KeptApart, ZenonT(40)
      <4> QED
        BY <4>1, <1>8
    <3>1. Gains(W, X, l, S)
      <4>1. ASSUME NEW o \in Sentinels
            PROVE  Elements(X[o]) = IF o = l THEN Elements(W[l]) \cup S ELSE Elements(W[o]) \ S
        <5>1. CASE o = l
          BY <5>1, <2>2, <1>8
        <5>2. CASE o = m
          BY <5>2, <2>2, <1>8
        <5>3. CASE o \notin {l, m}
          BY <5>3, <3>a, <1>8
        <5> QED
          BY <5>1, <5>2, <5>3
      <4> QED
        BY <4>1 DEF Gains
    <3>2. Loses(F, F, S)
      BY <3>a DEF Loses
    <3>3. s.heap = s.heap \ S
      BY <3>a
    <3> QED
      BY <1>2, <1>9, <3>1, <3>2, <3>3, KeptListed
  <2> QED
    BY <2>1, <2>2
<1>11. PICK t : t = transfer_range_before(s, l, m, position, first, last_exclusive, n)
  OBVIOUS
<1>12. PICK z : z = IF l = m THEN s.size ELSE [s.size EXCEPT ![l] = @ + n, ![m] = @ - n]
  OBVIOUS
<1>13. t.ring = q /\ t.value = s.value /\ t.heap = s.heap /\ t.pool = s.pool /\ t.size = z
       /\ t = [ring |-> t.ring, value |-> t.value, size |-> t.size, pool |-> t.pool,
               heap |-> t.heap]
  <2>1. t = Transferred(s, Relinked(s.ring, position, first, last_exclusive), l, m, n)
    BY <1>11, Zenon DEF transfer_range_before, Relinked, Rehung, Bridged, Transferred
  <2>2. t = Transferred(s, q, l, m, n)
    BY <2>1, <1>4
  <2>3. t = [s EXCEPT !.ring = q, !.size = z]
    BY <2>2, <1>12 DEF Transferred
  <2> QED
    BY <2>3, <1>2 DEF States
<1>14. \A o \in Sentinels : z[o] = Len(X[o])
  <2>1. CASE l = m
    BY <2>1, <1>1, <1>8, <1>12
  <2>2. CASE l # m
    <3>1. \A o \in Sentinels : z[o] = IF o = l THEN s.size[l] + n
                                      ELSE IF o = m THEN s.size[m] - n ELSE s.size[o]
      BY <2>2, <1>1, <1>12
    <3> QED
      BY <3>1, <2>2, <1>0, <1>1, <1>8
  <2> QED
    BY <2>1, <2>2
<1>15. z \in [Sentinels -> Nat]
  <2>1. z = [o \in Sentinels |-> z[o]]
    BY <1>1, <1>12
  <2>2. \A o \in Sentinels : Len(X[o]) \in Nat
    BY <1>6 DEF Sequences
  <2> QED
    BY <2>1, <2>2, <1>14
<1>16. t.ring = q /\ t.value = s.value /\ t.heap = s.heap /\ t.pool = s.pool /\ t.size = z
       /\ t \in States
  BY <1>2, <1>6, <1>13, <1>15 DEF States
<1>17. Sound(t, X, F, K)
  BY <1>1, <1>6, <1>10, <1>14, <1>16 DEF Sound
<1>18. Others(s, t, {l, m})
  <2>1. \A o \in Sentinels \ {l, m} : z[o] = s.size[o]
    BY <1>1, <1>8, <1>14
  <2> QED
    BY <2>1, <1>16 DEF Others
<1> QED
  BY <1>0, <1>3, <1>5, <1>11, <1>16, <1>17, <1>18

----------------------------------------------------------------------------
(* Turning round                                                           *)

(* The links of reverse.                                                   *)
TurnedRing(r, P) ==
  [next |-> [n \in BaseNodes |-> IF n \in P THEN r.prev[n] ELSE r.next[n]],
   prev |-> [n \in BaseNodes |-> IF n \in P THEN r.next[n] ELSE r.prev[n]]]

(* They make the ring of l run the other way.                              *)
LEMMA ReverseRings ==
  ASSUME NEW r, NEW W, Rings(r, W), NEW l \in Sentinels
  PROVE  Rings(TurnedRing(r, Elements(W[l]) \cup {l}), [W EXCEPT ![l] = Reverse(W[l])])
<1>1. PICK w \in Seq(Nodes) : w = W[l] /\ IsRing(r, l, w) /\ Distinct(w)
  BY DEF Rings, Sequences, IsRing
<1>2. PICK L \in Nat : L = Len(w)
  BY <1>1
<1>3. PICK v \in Seq(Nodes) : /\ v = Reverse(w) /\ Distinct(v) /\ Len(v) = L
                              /\ Elements(v) = Elements(w)
                              /\ \A i \in 1 .. L : v[i] = w[L - i + 1]
  BY <1>1, <1>2, ReverseFacts
<1>4. PICK P : P = Elements(w) \cup {l}
  OBVIOUS
<1>5. PICK q : q = TurnedRing(r, P)
  OBVIOUS
<1>6. /\ q \in RingShape
      /\ \A n \in BaseNodes : /\ q.next[n] = IF n \in P THEN r.prev[n] ELSE r.next[n]
                              /\ q.prev[n] = IF n \in P THEN r.next[n] ELSE r.prev[n]
  <2>1. r.next \in [BaseNodes -> BaseNodes] /\ r.prev \in [BaseNodes -> BaseNodes]
    BY DEF Rings, RingShape
  <2> QED
    BY <2>1, <1>5 DEF TurnedRing, RingShape
<1>7. ASSUME NEW i \in 0 .. L + 1 PROVE Place(l, v, i) = Place(l, w, L + 1 - i)
  <2>1. CASE i \in 1 .. L
    <3>1. L - i + 1 = L + 1 - i /\ L + 1 - i \in 1 .. L
      BY <2>1
    <3> QED
      BY <2>1, <3>1, <1>2, <1>3 DEF Place
  <2>2. CASE i \notin 1 .. L
    <3>1. L + 1 - i \notin 1 .. L
      BY <2>2
    <3> QED
      BY <2>2, <3>1, <1>2, <1>3 DEF Place
  <2> QED
    BY <2>1, <2>2
<1>8. ASSUME NEW i \in 0 .. L + 1 PROVE Place(l, w, i) \in P /\ Place(l, w, i) \in BaseNodes
  BY <1>1, <1>2, <1>4, PlaceType
<1>9. IsRing(q, l, v)
  <2> SUFFICES ASSUME NEW i \in 0 .. L
               PROVE  /\ q.next[Place(l, v, i)] = Place(l, v, i + 1)
                      /\ q.prev[Place(l, v, i + 1)] = Place(l, v, i)
    BY <1>3 DEF IsRing
  <2>1. PICK j \in 0 .. L : j = L - i
    OBVIOUS
  <2>2. i \in 0 .. L + 1 /\ i + 1 \in 0 .. L + 1 /\ j \in 0 .. L + 1 /\ j + 1 \in 0 .. L + 1
        /\ L + 1 - i = j + 1 /\ L + 1 - (i + 1) = j
    BY <2>1
  <2>3. Place(l, v, i) = Place(l, w, j + 1) /\ Place(l, v, i + 1) = Place(l, w, j)
    BY <2>2, <1>7
  <2>4. r.next[Place(l, w, j)] = Place(l, w, j + 1) /\ r.prev[Place(l, w, j + 1)] = Place(l, w, j)
    BY <1>1, <1>2 DEF IsRing
  <2>5. /\ Place(l, w, j) \in P /\ Place(l, w, j) \in BaseNodes
        /\ Place(l, w, j + 1) \in P /\ Place(l, w, j + 1) \in BaseNodes
    BY <2>2, <1>8
  <2> QED
    BY <2>3, <2>4, <2>5, <1>6
<1>10. ASSUME NEW m \in Sentinels \ {l}
       PROVE  /\ Elements(v) \cap Elements(W[m]) = {}
              /\ \A n \in Elements(W[m]) \cup {m} : q.next[n] = r.next[n] /\ q.prev[n] = r.prev[n]
  <2>1. (Elements(w) \cup {l}) \cap (Elements(W[m]) \cup {m}) = {} /\ W[m] \in Seq(Nodes)
    BY <1>1, RingsApart
  <2>2. Elements(W[m]) \subseteq Nodes
    BY <2>1, ElementsOf
  <2> QED
    BY <2>1, <2>2, <1>3, <1>4, <1>6, SentinelsApart, Zenon
<1>11. Rings(q, [W EXCEPT ![l] = v])
  BY <1>6, <1>9, <1>10, RingsReplaced
<1> QED
  BY <1>1, <1>3, <1>4, <1>5, <1>11

----------------------------------------------------------------------------
(* Loops                                                                   *)

(* f is what N rounds of g make of a.                                      *)
Iterates(f, N, D, a, g) ==
  /\ f \in [0 .. N -> D] /\ f[0] = a
  /\ \A i \in 1 .. N : f[i] = g[i][f[i - 1]]

(* One round more.                                                         *)
LEMMA IterateMore ==
  ASSUME NEW N \in Nat, N # 0, NEW D, NEW a \in D, NEW g, \A x \in D : g[N][x] \in D,
         NEW f, Iterates(f, N - 1, D, a, g)
  PROVE  \E h : Iterates(h, N, D, a, g)
<1> DEFINE h == [i \in 0 .. N |-> IF i = N THEN g[N][f[N - 1]] ELSE f[i]]
<1>1. PICK M \in Nat : M = N - 1
  OBVIOUS
<1>2. f \in [0 .. M -> D] /\ f[0] = a /\ \A i \in 1 .. M : f[i] = g[i][f[i - 1]]
  BY <1>1 DEF Iterates
<1>3. M \in 0 .. M /\ f[M] \in D /\ g[N][f[M]] \in D
  BY <1>2
<1>4. \A i \in 0 .. N : h[i] = IF i = N THEN g[N][f[M]] ELSE f[i]
  BY <1>1
<1>5. ASSUME NEW i \in 0 .. N PROVE h[i] \in D
  <2>1. i # N => i \in 0 .. M
    BY <1>1
  <2> QED
    BY <2>1, <1>2, <1>3, <1>4
<1>6. h \in [0 .. N -> D]
  BY <1>5
<1>7. h[0] = a
  <2>1. 0 \in 0 .. N /\ 0 # N
    OBVIOUS
  <2> QED
    BY <2>1, <1>2, <1>4
<1> HIDE DEF h
<1>8. ASSUME NEW i \in 1 .. N PROVE h[i] = g[i][h[i - 1]]
  <2>1. i \in 0 .. N /\ i - 1 \in 0 .. N /\ i - 1 # N /\ i - 1 \in 0 .. M
    BY <1>1
  <2>2. h[i - 1] = f[i - 1]
    BY <2>1, <1>4
  <2>3. CASE i = N
    BY <2>1, <2>2, <2>3, <1>1, <1>4
  <2>4. CASE i # N
    <3>1. i \in 1 .. M
      BY <2>4, <1>1
    <3> QED
      BY <2>1, <2>2, <2>4, <3>1, <1>2, <1>4
  <2> QED
    BY <2>3, <2>4
<1>9. Iterates(h, N, D, a, g)
  BY <1>6, <1>7, <1>8 DEF Iterates
<1> QED
  BY <1>9

(* Any number of rounds.                                                   *)
LEMMA IteratesExist ==
  ASSUME NEW N \in Nat, NEW D, NEW a \in D, NEW g, \A i \in 1 .. N : \A x \in D : g[i][x] \in D
  PROVE  \E f : Iterates(f, N, D, a, g)
<1> DEFINE Bad == {M \in 0 .. N : ~\E f : Iterates(f, M, D, a, g)}
<1>1. Bad \in SUBSET Nat
  OBVIOUS
<1>2. ASSUME Bad # {} PROVE FALSE
  <2>1. PICK M \in Bad : \A K \in Bad : M <= K
    BY <1>1, <1>2, LeastExists
  <2>2. M \in 0 .. N /\ ~\E f : Iterates(f, M, D, a, g)
    BY <2>1
  <2>3. CASE M = 0
    <3>1. PICK f : f = [i \in 0 .. 0 |-> a]
      OBVIOUS
    <3>2. f \in [0 .. 0 -> D] /\ f[0] = a /\ 1 .. 0 = {}
      BY <3>1
    <3>3. Iterates(f, 0, D, a, g)
      BY <3>2 DEF Iterates
    <3> QED
      BY <2>2, <2>3, <3>3
  <2>4. CASE M # 0
    <3>1. M - 1 \in 0 .. N /\ ~(M <= M - 1) /\ M \in Nat /\ M \in 1 .. N
      BY <2>2, <2>4
    <3>2. M - 1 \notin Bad
      BY <2>1, <3>1
    <3>3. PICK f : Iterates(f, M - 1, D, a, g)
      BY <3>1, <3>2
    <3>4. \A x \in D : g[M][x] \in D
      BY <3>1
    <3>5. \E h : Iterates(h, M, D, a, g)
      BY <2>4, <3>1, <3>3, <3>4, IterateMore
    <3> QED
      BY <2>2, <3>5
  <2> QED
    BY <2>3, <2>4
<1>3. N \notin Bad
  BY <1>2
<1> QED
  BY <1>3

----------------------------------------------------------------------------
(* Relinking                                                               *)

(* The loop of relink_nodes_in_order.                                      *)
LinkedBy(f, nodes, ends, N) ==
  f = [i \in 0 .. N |-> IF i = 0 THEN ends
                        ELSE [f[i - 1] EXCEPT !.next[nodes[i]] = nodes[i + 1],
                                              !.prev[nodes[i + 1]] = nodes[i]]]

(* One round of it.                                                        *)
LEMMA LinkedSteps ==
  ASSUME NEW f, NEW nodes, NEW ends, NEW N \in Nat, LinkedBy(f, nodes, ends, N)
  PROVE  f[0] = ends /\ \A i \in 1 .. N : f[i] = Bridged(f[i - 1], nodes[i], nodes[i + 1])
<1>1. ASSUME NEW i \in 0 .. N
      PROVE  f[i] = IF i = 0 THEN ends
                    ELSE [f[i - 1] EXCEPT !.next[nodes[i]] = nodes[i + 1],
                                          !.prev[nodes[i + 1]] = nodes[i]]
  <2>1. f = [j \in 0 .. N |-> IF j = 0 THEN ends
                              ELSE [f[j - 1] EXCEPT !.next[nodes[j]] = nodes[j + 1],
                                                    !.prev[nodes[j + 1]] = nodes[j]]]
    BY Zenon DEF LinkedBy
  <2>2. f[i] = [j \in 0 .. N |-> IF j = 0 THEN ends
                              ELSE [f[j - 1] EXCEPT !.next[nodes[j]] = nodes[j + 1],
                                                    !.prev[nodes[j + 1]] = nodes[j]]][i]
    BY <2>1, Zenon
  <2> QED
    BY <2>2, Zenon
<1>2. f[0] = ends
  <2>1. 0 \in 0 .. N
    OBVIOUS
  <2> QED
    BY <1>1, <2>1, Zenon
<1>3. ASSUME NEW i \in 1 .. N PROVE f[i] = Bridged(f[i - 1], nodes[i], nodes[i + 1])
  <2>1. i \in 0 .. N /\ i # 0
    OBVIOUS
  <2> QED
    BY <1>1, <2>1, Zenon DEF Bridged
<1> QED
  BY <1>2, <1>3

(* All rounds of it.                                                       *)
LEMMA LinkedExists ==
  ASSUME NEW nodes \in Seq(Nodes), NEW ends \in RingShape, NEW N \in Nat, N + 1 = Len(nodes)
  PROVE  \E f : LinkedBy(f, nodes, ends, N)
<1>1. PICK g : g = [i \in 1 .. N |-> [x \in RingShape |-> Bridged(x, nodes[i], nodes[i + 1])]]
  OBVIOUS
<1>2. ASSUME NEW i \in 1 .. N, NEW x \in RingShape
      PROVE  g[i][x] = Bridged(x, nodes[i], nodes[i + 1]) /\ g[i][x] \in RingShape
  <2>1. i \in 1 .. Len(nodes) /\ i + 1 \in 1 .. Len(nodes)
    OBVIOUS
  <2>2. nodes[i] \in Nodes /\ nodes[i + 1] \in Nodes
    BY <2>1
  <2>3. nodes[i] \in BaseNodes /\ nodes[i + 1] \in BaseNodes
    BY <2>2, SentinelsApart
  <2>4. Bridged(x, nodes[i], nodes[i + 1]) \in RingShape
    BY <2>3, BridgedFacts
  <2> QED
    BY <1>1, <2>4
<1>3. PICK f : Iterates(f, N, RingShape, ends, g)
  BY <1>2, IteratesExist
<1>4. f \in [0 .. N -> RingShape] /\ f[0] = ends /\ \A i \in 1 .. N : f[i] = g[i][f[i - 1]]
  BY <1>3 DEF Iterates
<1>5. ASSUME NEW i \in 0 .. N
      PROVE  f[i] = IF i = 0 THEN ends
                    ELSE [f[i - 1] EXCEPT !.next[nodes[i]] = nodes[i + 1],
                                          !.prev[nodes[i + 1]] = nodes[i]]
  <2>1. CASE i = 0
    BY <2>1, <1>4
  <2>2. CASE i # 0
    <3>1. i \in 1 .. N /\ i - 1 \in 0 .. N
      BY <2>2
    <3>2. f[i] = Bridged(f[i - 1], nodes[i], nodes[i + 1])
      BY <3>1, <1>2, <1>4
    <3> QED
      BY <2>2, <3>2 DEF Bridged
  <2> QED
    BY <2>1, <2>2
<1>6. f = [i \in 0 .. N |-> IF i = 0 THEN ends
                        ELSE [f[i - 1] EXCEPT !.next[nodes[i]] = nodes[i + 1],
                                              !.prev[nodes[i + 1]] = nodes[i]]]
  <2>1. f = [i \in 0 .. N |-> f[i]]
    BY <1>4
  <2> QED
    BY <2>1, <1>5, Zenon
<1> QED
  BY <1>6, Zenon DEF LinkedBy

(* The first i links have been set, and the others are those of ends.      *)
LinkedTo(q, nodes, ends, i) ==
  /\ q \in RingShape
  /\ \A j \in 1 .. i : q.next[nodes[j]] = nodes[j + 1] /\ q.prev[nodes[j + 1]] = nodes[j]
  /\ \A n \in BaseNodes : /\ (\A j \in 1 .. i : n # nodes[j]) => q.next[n] = ends.next[n]
                          /\ (\A j \in 1 .. i : n # nodes[j + 1]) => q.prev[n] = ends.prev[n]

(* Another link is set.                                                    *)
LEMMA LinkedMore ==
  ASSUME NEW q, NEW nodes \in Seq(Nodes), Distinct(nodes), NEW ends, NEW i \in Nat, i >= 1,
         i + 1 <= Len(nodes), LinkedTo(q, nodes, ends, i - 1)
  PROVE  LinkedTo(Bridged(q, nodes[i], nodes[i + 1]), nodes, ends, i)
<1>1. PICK L \in Nat : L = Len(nodes)
  OBVIOUS
<1>2. \A j \in 1 .. L : nodes[j] \in Nodes /\ nodes[j] \in BaseNodes
  <2>1. \A j \in 1 .. L : nodes[j] \in Nodes
    BY <1>1
  <2> QED
    BY <2>1, SentinelsApart
<1>3. \A j, k \in 1 .. L : nodes[j] = nodes[k] => j = k
  BY <1>1 DEF Distinct
<1>4. i \in 1 .. L /\ i + 1 \in 1 .. L
  BY <1>1
<1>5. PICK a, b : a = nodes[i] /\ b = nodes[i + 1] /\ a \in BaseNodes /\ b \in BaseNodes
  BY <1>2, <1>4
<1>6. PICK p : p = Bridged(q, a, b)
  OBVIOUS
<1>7. /\ p \in RingShape
      /\ \A n \in BaseNodes : /\ p.next[n] = IF n = a THEN b ELSE q.next[n]
                              /\ p.prev[n] = IF n = b THEN a ELSE q.prev[n]
  <2>1. q \in RingShape
    BY DEF LinkedTo
  <2> QED
    <3>1. PICK x \in RingShape, y \in BaseNodes, z \in BaseNodes : x = q /\ y = a /\ z = b
      BY <2>1, <1>5
    <3>2. /\ Bridged(x, y, z) \in RingShape
          /\ \A n \in BaseNodes : /\ Bridged(x, y, z).next[n] = IF n = y THEN z ELSE x.next[n]
                                  /\ Bridged(x, y, z).prev[n] = IF n = z THEN y ELSE x.prev[n]
      BY BridgedFacts
    <3> QED
      BY <3>1, <3>2, <1>6
<1>8. ASSUME NEW j \in 1 .. i
      PROVE  p.next[nodes[j]] = nodes[j + 1] /\ p.prev[nodes[j + 1]] = nodes[j]
  <2>1. j \in 1 .. L /\ j + 1 \in 1 .. L
    BY <1>1
  <2>2. CASE j = i
    BY <2>2, <1>5, <1>7
  <2>3. CASE j # i
    <3>1. j \in 1 .. i - 1 /\ j # i /\ j + 1 # i + 1
      BY <2>3
    <3>2. nodes[j] # a /\ nodes[j + 1] # b
      BY <2>1, <3>1, <1>3, <1>4, <1>5
    <3>3. q.next[nodes[j]] = nodes[j + 1] /\ q.prev[nodes[j + 1]] = nodes[j]
      BY <3>1 DEF LinkedTo
    <3> QED
      BY <2>1, <3>2, <3>3, <1>2, <1>7
  <2> QED
    BY <2>2, <2>3
<1>9. ASSUME NEW n \in BaseNodes
      PROVE  /\ (\A j \in 1 .. i : n # nodes[j]) => p.next[n] = ends.next[n]
             /\ (\A j \in 1 .. i : n # nodes[j + 1]) => p.prev[n] = ends.prev[n]
  <2>1. i \in 1 .. i /\ \A j \in 1 .. i - 1 : j \in 1 .. i
    OBVIOUS
  <2>2. /\ (\A j \in 1 .. i - 1 : n # nodes[j]) => q.next[n] = ends.next[n]
        /\ (\A j \in 1 .. i - 1 : n # nodes[j + 1]) => q.prev[n] = ends.prev[n]
    BY DEF LinkedTo
  <2> QED
    BY <2>1, <2>2, <1>5, <1>7
<1>10. LinkedTo(p, nodes, ends, i)
  BY <1>7, <1>8, <1>9 DEF LinkedTo
<1> QED
  BY <1>5, <1>6, <1>10

(* After the whole loop all links are set.                                 *)
LEMMA LinkedAll ==
  ASSUME NEW f, NEW nodes \in Seq(Nodes), Distinct(nodes), NEW ends \in RingShape, NEW N \in Nat,
         N + 1 = Len(nodes), LinkedBy(f, nodes, ends, N)
  PROVE  LinkedTo(f[N], nodes, ends, N)
<1> DEFINE Bad == {i \in 0 .. N : ~LinkedTo(f[i], nodes, ends, i)}
<1>1. Bad \in SUBSET Nat
  OBVIOUS
<1>2. ASSUME Bad # {} PROVE FALSE
  <2>1. PICK i \in Bad : \A j \in Bad : i <= j
    BY <1>1, <1>2, LeastExists
  <2>2. i \in 0 .. N /\ ~LinkedTo(f[i], nodes, ends, i)
    BY <2>1
  <2>3. CASE i = 0
    <3>1. f[0] = ends /\ 1 .. 0 = {}
      BY LinkedSteps
    <3>2. LinkedTo(ends, nodes, ends, 0)
      BY <3>1 DEF LinkedTo
    <3> QED
      BY <2>2, <2>3, <3>1, <3>2
  <2>4. CASE i # 0
    <3>1. i - 1 \in 0 .. N /\ ~(i <= i - 1) /\ i \in 1 .. N /\ i \in Nat /\ i >= 1
          /\ i + 1 <= Len(nodes)
      BY <2>2, <2>4
    <3>2. LinkedTo(f[i - 1], nodes, ends, i - 1)
      BY <2>1, <3>1
    <3>3. f[i] = Bridged(f[i - 1], nodes[i], nodes[i + 1])
      BY <3>1, LinkedSteps, SMTT(20)
    <3>4. LinkedTo(Bridged(f[i - 1], nodes[i], nodes[i + 1]), nodes, ends, i)
      BY <3>1, <3>2, LinkedMore
    <3> QED
      BY <2>2, <3>3, <3>4
  <2> QED
    BY <2>3, <2>4
<1>3. N \notin Bad
  BY <1>2
<1> QED
  BY <1>3

(* relink_nodes_in_order makes a ring of the nodes.                        *)
LEMMA RelinkRing ==
  ASSUME NEW r \in RingShape, NEW l \in Sentinels, NEW nodes \in Seq(Nodes), Distinct(nodes)
  PROVE  LET q == relink_nodes_in_order(r, l, nodes)
         IN  /\ q \in RingShape /\ IsRing(q, l, nodes)
             /\ \A n \in BaseNodes \ (Elements(nodes) \cup {l}) :
                  q.next[n] = r.next[n] /\ q.prev[n] = r.prev[n]
<1>1. PICK q : q = relink_nodes_in_order(r, l, nodes)
  OBVIOUS
<1>2. CASE nodes = <<>>
  <2>1. q = Hung(r, l, nodes)
    BY <1>1, <1>2 DEF relink_nodes_in_order, Hung
  <2>2. IsChain(r, nodes)
    <3>1. 1 .. Len(nodes) - 1 = {}
      BY <1>2
    <3> QED
      BY <3>1 DEF IsChain
  <2> QED
    BY <1>1, <2>1, <2>2, HungRing
<1>3. CASE nodes # <<>>
  <2>1. PICK N \in Nat : N + 1 = Len(nodes)
    BY <1>3
  <2>2. PICK L \in Nat : L = N + 1 /\ L = Len(nodes) /\ Len(nodes) - 1 = N
    BY <2>1
  <2>3. \A j \in 1 .. L : nodes[j] \in Nodes /\ nodes[j] \in BaseNodes /\ nodes[j] # l
                          /\ nodes[j] \in Elements(nodes)
    <3>1. \A j \in 1 .. L : nodes[j] \in Nodes
      BY <2>2
    <3> QED
      BY <3>1, <2>2, SentinelsApart DEF Elements
  <2>4. 1 \in 1 .. L /\ L \in 1 .. L
    BY <2>2
  <2>5. PICK a, b : a = nodes[1] /\ b = nodes[L] /\ a \in BaseNodes /\ b \in BaseNodes
                    /\ a # l /\ b # l /\ Head(nodes) = a /\ Last(nodes) = b
    BY <2>2, <2>3, <2>4, <1>3 DEF Last
  <2>6. PICK ends : ends = [r EXCEPT !.next[l] = a, !.prev[l] = b, !.prev[a] = l, !.next[b] = l]
    OBVIOUS
  <2>7. /\ ends \in RingShape
        /\ \A n \in BaseNodes :
             /\ ends.next[n] = IF n = b THEN l ELSE IF n = l THEN a ELSE r.next[n]
             /\ ends.prev[n] = IF n = a THEN l ELSE IF n = l THEN b ELSE r.prev[n]
    BY <2>5, <2>6, SentinelsApart DEF RingShape
  <2>8. q = (CHOOSE f : LinkedBy(f, nodes, ends, N))[N]
    <3> DEFINE K == Len(nodes) - 1
               e == [r EXCEPT !.next[l] = Head(nodes), !.prev[l] = Last(nodes),
                              !.prev[Head(nodes)] = l, !.next[Last(nodes)] = l]
    <3>1. q = (CHOOSE f : LinkedBy(f, nodes, e, K))[K]
      BY <1>1, <1>3, Zenon DEF relink_nodes_in_order, LinkedBy
    <3>2. e = ends /\ K = N
      BY <2>2, <2>5, <2>6
    <3> HIDE DEF e, K
    <3> QED
      BY <3>1, <3>2
  <2>9. LinkedTo(q, nodes, ends, N)
    <3>1. PICK f : f = CHOOSE g : LinkedBy(g, nodes, ends, N)
      OBVIOUS
    <3>2. LinkedBy(f, nodes, ends, N)
      BY <3>1, <2>1, <2>7, LinkedExists
    <3> QED
      BY <3>1, <3>2, <2>1, <2>7, <2>8, LinkedAll
  <2>10. /\ q \in RingShape
         /\ \A j \in 1 .. N : q.next[nodes[j]] = nodes[j + 1] /\ q.prev[nodes[j + 1]] = nodes[j]
         /\ \A n \in BaseNodes :
              /\ (\A j \in 1 .. N : n # nodes[j]) => q.next[n] = ends.next[n]
              /\ (\A j \in 1 .. N : n # nodes[j + 1]) => q.prev[n] = ends.prev[n]
    BY <2>9 DEF LinkedTo
  <2>11. IsChain(q, nodes)
    BY <2>2, <2>10 DEF IsChain
  <2>12. \A j, k \in 1 .. L : nodes[j] = nodes[k] => j = k
    BY <2>2 DEF Distinct
  <2>13. q.next[b] = l
    <3>1. \A j \in 1 .. N : j \in 1 .. L /\ j # L
      BY <2>2
    <3>2. \A j \in 1 .. N : b # nodes[j]
      BY <3>1, <2>4, <2>5, <2>12
    <3> QED
      BY <3>2, <2>5, <2>7, <2>10
  <2>14. q.prev[a] = l
    <3>1. \A j \in 1 .. N : j + 1 \in 1 .. L /\ j + 1 # 1
      BY <2>2
    <3>2. \A j \in 1 .. N : a # nodes[j + 1]
      BY <3>1, <2>4, <2>5, <2>12
    <3> QED
      BY <3>2, <2>5, <2>7, <2>10
  <2>15. ASSUME NEW n \in BaseNodes, n \notin Elements(nodes)
         PROVE  q.next[n] = ends.next[n] /\ q.prev[n] = ends.prev[n]
    <3>1. \A j \in 1 .. N : j \in 1 .. L /\ j + 1 \in 1 .. L
      BY <2>2
    <3>2. \A j \in 1 .. N : n # nodes[j] /\ n # nodes[j + 1]
      BY <3>1, <2>3, <2>15
    <3> QED
      BY <3>2, <2>10
  <2>16. q.next[l] = a /\ q.prev[l] = b
    <3>1. l \in BaseNodes /\ l \notin Elements(nodes)
      BY ElementsOf, SentinelsApart
    <3> QED
      BY <3>1, <2>5, <2>7, <2>15
  <2>17. IsRing(q, l, nodes)
    BY <1>3, <2>2, <2>5, <2>11, <2>13, <2>14, <2>16, RingOfChain
  <2>18. ASSUME NEW n \in BaseNodes \ (Elements(nodes) \cup {l})
         PROVE  q.next[n] = r.next[n] /\ q.prev[n] = r.prev[n]
    <3>1. n # a /\ n # b /\ n # l
      BY <2>3, <2>4, <2>5
    <3> QED
      BY <3>1, <2>7, <2>15
  <2> QED
    BY <1>1, <2>10, <2>17, <2>18
<1> QED
  BY <1>2, <1>3

----------------------------------------------------------------------------
(* Sorting                                                                 *)

(* Place j of w comes before place k.                                      *)
Ranked(w, j) == Rank[value[w[j]]]
NotBehind(w, i, j) == Ranked(w, i) < Ranked(w, j) \/ (Ranked(w, i) = Ranked(w, j) /\ i <= j)

(* The places that do not go behind place j, and how many they are.        *)
UpTo(w, j) == {i \in 1 .. Len(w) : NotBehind(w, i, j)}
PlaceOf(w) == [j \in 1 .. Len(w) |-> Cardinality(UpTo(w, j))]

(* Two places change their order only by rank; so no two go to one place.  *)
LEMMA PlacesDiffer ==
  ASSUME value \in [Nodes -> Values], NEW w \in Seq(Nodes)
  PROVE  /\ PlaceOf(w) \in Bijection(1 .. Len(w), 1 .. Len(w))
         /\ \A j, k \in 1 .. Len(w) : NotBehind(w, j, k) <=> PlaceOf(w)[j] <= PlaceOf(w)[k]
<1>1. PICK L \in Nat : L = Len(w)
  OBVIOUS
<1>2. ASSUME NEW j \in 1 .. L PROVE Ranked(w, j) \in Nat
  <2>1. w[j] \in Nodes
    BY <1>1
  <2>2. value[w[j]] \in Values
    BY <2>1
  <2> QED
    BY <2>2, ListAssumption DEF Ranked
<1>3. IsFiniteSet(1 .. L) /\ Cardinality(1 .. L) = L
  <2>1. L \in Int /\ 1 \in Int
    OBVIOUS
  <2>2. Cardinality(1 .. L) = IF 1 > L THEN 0 ELSE L - 1 + 1
    BY <2>1, FS_Interval
  <2> QED
    BY <2>1, <2>2, FS_Interval
<1>4. PICK p : p = PlaceOf(w)
  OBVIOUS
<1>5. ASSUME NEW j \in 1 .. L
      PROVE  /\ p[j] = Cardinality(UpTo(w, j)) /\ p[j] \in 1 .. L
             /\ IsFiniteSet(UpTo(w, j)) /\ j \in UpTo(w, j)
  <2>1. p[j] = Cardinality(UpTo(w, j))
    BY <1>1, <1>4 DEF PlaceOf
  <2>2. UpTo(w, j) \in SUBSET (1 .. L)
    BY <1>1 DEF UpTo
  <2>3. IsFiniteSet(UpTo(w, j)) /\ Cardinality(UpTo(w, j)) <= L
    BY <2>2, <1>3, FS_Subset
  <2>4. j \in UpTo(w, j)
    BY <1>1, <1>2 DEF UpTo, NotBehind
  <2>5. Cardinality(UpTo(w, j)) \in Nat /\ Cardinality(UpTo(w, j)) # 0
    BY <2>3, <2>4, FS_CardinalityType, FS_EmptySet
  <2> QED
    BY <2>1, <2>3, <2>4, <2>5
<1>6. ASSUME NEW j \in 1 .. L, NEW k \in 1 .. L, ~NotBehind(w, k, j) PROVE p[j] < p[k]
  <2>1. ASSUME NEW i \in UpTo(w, j) PROVE i \in UpTo(w, k)
    <3>1. i \in 1 .. L /\ NotBehind(w, i, j)
      BY <1>1 DEF UpTo
    <3>2. Ranked(w, i) \in Nat /\ Ranked(w, j) \in Nat /\ Ranked(w, k) \in Nat
      BY <1>2, <3>1
    <3>3. NotBehind(w, i, k)
      BY <3>1, <3>2, <1>6 DEF NotBehind
    <3> QED
      BY <3>1, <3>3, <1>1 DEF UpTo
  <2>2. k \notin UpTo(w, j) /\ k \in UpTo(w, k)
    BY <1>5, <1>6 DEF UpTo
  <2>3. UpTo(w, j) \in SUBSET UpTo(w, k) /\ UpTo(w, j) # UpTo(w, k)
    BY <2>1, <2>2
  <2>4. /\ Cardinality(UpTo(w, j)) <= Cardinality(UpTo(w, k))
        /\ Cardinality(UpTo(w, k)) = Cardinality(UpTo(w, j)) => UpTo(w, k) = UpTo(w, j)
    BY <2>3, <1>5, FS_Subset
  <2> QED
    BY <2>3, <2>4, <1>5
<1>7. ASSUME NEW j \in 1 .. L, NEW k \in 1 .. L, j # k
      PROVE  ~NotBehind(w, j, k) \/ ~NotBehind(w, k, j)
  <2>1. Ranked(w, j) \in Nat /\ Ranked(w, k) \in Nat
    BY <1>2
  <2> QED
    BY <2>1, <1>7 DEF NotBehind
<1>8. \A j, k \in 1 .. L : p[j] = p[k] => j = k
  <2> SUFFICES ASSUME NEW j \in 1 .. L, NEW k \in 1 .. L, p[j] = p[k], j # k PROVE FALSE
    OBVIOUS
  <2>1. p[j] \in Nat /\ p[k] \in Nat
    BY <1>5
  <2>2. p[j] < p[k] \/ p[k] < p[j]
    BY <1>6, <1>7
  <2> QED
    BY <2>1, <2>2
<1>9. p = [j \in 1 .. L |-> p[j]]
  BY <1>1, <1>4 DEF PlaceOf
<1>10. p \in [1 .. L -> 1 .. L]
  BY <1>5, <1>9
<1>11. p \in Injection(1 .. L, 1 .. L)
  BY <1>8, <1>10 DEF Injection, IsInjective
<1>12. p \in Surjection(1 .. L, 1 .. L)
  BY <1>3, <1>11, FS_Injection
<1>13. ASSUME NEW j \in 1 .. L, NEW k \in 1 .. L PROVE NotBehind(w, j, k) <=> p[j] <= p[k]
  <2>1. p[j] \in Nat /\ p[k] \in Nat
    BY <1>5
  <2>2. ~NotBehind(w, j, k) => p[k] < p[j]
    BY <1>6
  <2>3. CASE j = k
    <3>1. NotBehind(w, j, k)
      BY <1>2, <2>3 DEF NotBehind
    <3> QED
      BY <2>1, <2>3, <3>1
  <2>4. CASE j # k
    <3>1. NotBehind(w, j, k) => p[j] < p[k]
      BY <1>6, <1>7, <2>4
    <3> QED
      BY <2>1, <2>2, <3>1
  <2> QED
    BY <2>3, <2>4
<1> QED
  BY <1>1, <1>4, <1>11, <1>12, <1>13 DEF Bijection

(* The sorted vector has the nodes in the order of their places.           *)
LEMMA SortedFacts ==
  ASSUME value \in [Nodes -> Values], NEW w \in Seq(Nodes), Distinct(w)
  PROVE  LET t == stable_sort(w)
         IN  /\ t \in Seq(Nodes) /\ Len(t) = Len(w) /\ Distinct(t) /\ Elements(t) = Elements(w)
             /\ \A j \in 1 .. Len(w) : /\ PlaceOf(w)[j] \in 1 .. Len(w)
                                       /\ t[PlaceOf(w)[j]] = w[j]
<1>1. PICK L \in Nat : L = Len(w)
  OBVIOUS
<1>2. PICK p : p = PlaceOf(w)
  OBVIOUS
<1>3. /\ p \in [1 .. L -> 1 .. L]
      /\ \A j, k \in 1 .. L : p[j] = p[k] => j = k
      /\ \A q \in 1 .. L : \E j \in 1 .. L : p[j] = q
  BY <1>1, <1>2, PlacesDiffer DEF Bijection, Injection, Surjection, IsInjective
<1>4. PICK t : t = stable_sort(w)
  OBVIOUS
<1>5. /\ t = [q \in 1 .. L |-> t[q]]
      /\ \A q \in 1 .. L : t[q] = w[CHOOSE j \in 1 .. L : p[j] = q]
  <2>1. t = [q \in 1 .. Len(w) |-> w[CHOOSE j \in 1 .. Len(w) : Cardinality(UpTo(w, j)) = q]]
    BY <1>4, Zenon DEF stable_sort, UpTo, NotBehind, Ranked
  <2>2. \A j \in 1 .. L : p[j] = Cardinality(UpTo(w, j))
    BY <1>1, <1>2 DEF PlaceOf
  <2>3. ASSUME NEW q
        PROVE  (CHOOSE j \in 1 .. L : Cardinality(UpTo(w, j)) = q)
                 = (CHOOSE j \in 1 .. L : p[j] = q)
    BY <2>2
  <2>4. t = [q \in 1 .. L |-> w[CHOOSE j \in 1 .. L : Cardinality(UpTo(w, j)) = q]]
    BY <2>1, <1>1
  <2>5. t = [q \in 1 .. L |-> t[q]]
    <3> DEFINE e(q) == w[CHOOSE j \in 1 .. L : Cardinality(UpTo(w, j)) = q]
    <3>1. t = [q \in 1 .. L |-> e(q)]
      BY <2>4, Zenon DEF e
    <3> HIDE DEF e
    <3> QED
      BY <3>1
  <2>6. ASSUME NEW q \in 1 .. L PROVE t[q] = w[CHOOSE j \in 1 .. L : p[j] = q]
    <3>1. t[q] = w[CHOOSE j \in 1 .. L : Cardinality(UpTo(w, j)) = q]
      BY <2>4, Zenon
    <3> QED
      BY <3>1, <2>3, Zenon
  <2> QED
    BY <2>5, <2>6
<1>6. ASSUME NEW q \in 1 .. L PROVE \E j \in 1 .. L : p[j] = q /\ t[q] = w[j] /\ t[q] \in Nodes
  <2>1. PICK j : j = CHOOSE i \in 1 .. L : p[i] = q
    OBVIOUS
  <2>2. j \in 1 .. L /\ p[j] = q
    BY <2>1, <1>3
  <2>3. t[q] = w[j]
    BY <2>1, <1>5
  <2> QED
    BY <2>2, <2>3, <1>1
<1>7. t \in Seq(Nodes) /\ Len(t) = L
  BY <1>5, <1>6, SMTT(20)
<1>8. ASSUME NEW j \in 1 .. L PROVE p[j] \in 1 .. L /\ t[p[j]] = w[j]
  <2>1. p[j] \in 1 .. L
    BY <1>3
  <2>2. PICK k \in 1 .. L : p[k] = p[j] /\ t[p[j]] = w[k]
    BY <2>1, <1>6
  <2> QED
    BY <2>1, <2>2, <1>3
<1>9. Distinct(t)
  <2> SUFFICES ASSUME NEW x \in 1 .. L, NEW y \in 1 .. L, t[x] = t[y] PROVE x = y
    BY <1>7 DEF Distinct
  <2>1. PICK j \in 1 .. L : p[j] = x /\ t[x] = w[j]
    BY <1>6
  <2>2. PICK k \in 1 .. L : p[k] = y /\ t[y] = w[k]
    BY <1>6
  <2>3. j = k
    BY <2>1, <2>2, <1>1 DEF Distinct
  <2> QED
    BY <2>1, <2>2, <2>3
<1>10. Elements(t) = Elements(w)
  <2>1. ASSUME NEW q \in 1 .. L PROVE t[q] \in {w[j] : j \in 1 .. L}
    BY <1>6
  <2>2. ASSUME NEW j \in 1 .. L PROVE w[j] \in {t[q] : q \in 1 .. L}
    BY <1>8
  <2>3. Elements(t) = {t[q] : q \in 1 .. L} /\ Elements(w) = {w[j] : j \in 1 .. L}
    BY <1>1, <1>7 DEF Elements
  <2> QED
    BY <2>1, <2>2, <2>3
<1> QED
  BY <1>1, <1>2, <1>4, <1>7, <1>8, <1>9, <1>10

----------------------------------------------------------------------------
(* The order of one list changes, and nothing else.                        *)
Relinks(s, t, q) ==
  /\ t \in States /\ t.ring = q
  /\ t.value = s.value /\ t.size = s.size /\ t.pool = s.pool /\ t.heap = s.heap

(* Then the state is sound if the list is a ring of the same nodes.        *)
LEMMA Reordered ==
  ASSUME NEW s, NEW W, NEW F, NEW H, Sound(s, W, F, H), NEW l \in Sentinels,
         NEW v \in Seq(Nodes), Elements(v) = Elements(W[l]), Len(v) = Len(W[l]),
         NEW q, NEW V, V = [W EXCEPT ![l] = v], Rings(q, V),
         NEW t, Relinks(s, t, q)
  PROVE  Sound(t, V, F, H)
<1>1. /\ s \in States /\ W \in Sequences /\ F \in Sequences
      /\ \A m \in Sentinels : s.size[m] = Len(W[m]) /\ PoolIs(s.pool[m], F[m])
  BY SoundParts DEF Sound
<1>2. V[l] = v /\ \A m \in Sentinels \ {l} : V[m] = W[m]
  BY <1>1 DEF Sequences
<1>3. \A m \in Sentinels : Len(V[m]) = Len(W[m]) /\ Elements(V[m]) = Elements(W[m])
  BY <1>2
<1>4. Kept(V, F, s.heap, H)
  <2>1. Kept(W, F, s.heap, H)
    BY DEF Sound
  <2> QED
    BY <2>1, <1>3 DEF Kept
<1>5. t \in States /\ t.ring = q /\ t.size = s.size /\ t.pool = s.pool /\ t.heap = s.heap
  BY DEF Relinks
<1> QED
  BY <1>1, <1>3, <1>4, <1>5 DEF Sound

(* The links of a list are those of the same nodes in another order.       *)
LEMMA RelinkRings ==
  ASSUME NEW r, NEW W, Rings(r, W), NEW l \in Sentinels,
         NEW v \in Seq(Nodes), Distinct(v), Elements(v) = Elements(W[l])
  PROVE  Rings(relink_nodes_in_order(r, l, v), [W EXCEPT ![l] = v])
<1>1. r \in RingShape
  BY DEF Rings
<1>2. PICK q : q = relink_nodes_in_order(r, l, v)
  OBVIOUS
<1>3. /\ q \in RingShape /\ IsRing(q, l, v)
      /\ \A n \in BaseNodes \ (Elements(v) \cup {l}) :
           q.next[n] = r.next[n] /\ q.prev[n] = r.prev[n]
  BY <1>1, <1>2, RelinkRing
<1>4. \A m \in Sentinels \ {l} : Elements(v) \cap Elements(W[m]) = {}
  BY DEF Rings
<1>5. ASSUME NEW m \in Sentinels \ {l}, NEW n \in Elements(W[m]) \cup {m}
      PROVE  q.next[n] = r.next[n] /\ q.prev[n] = r.prev[n]
  <2>1. (Elements(W[l]) \cup {l}) \cap (Elements(W[m]) \cup {m}) = {} /\ W[m] \in Seq(Nodes)
    BY RingsApart
  <2>2. n \in BaseNodes
    BY <2>1, ElementsOf, SentinelsApart
  <2> QED
    BY <2>1, <2>2, <1>3
<1>6. Rings(q, [W EXCEPT ![l] = v])
  BY <1>3, <1>4, <1>5, RingsReplaced
<1> QED
  BY <1>2, <1>6

(* sort.                                                                   *)
LEMMA SortSound ==
  ASSUME NEW s, NEW W, NEW F, NEW H, Sound(s, W, F, H), s.value = value, NEW l \in Sentinels,
         NEW t, Relinks(s, t, relink_nodes_in_order(s.ring, l, stable_sort(Walk(s.ring, l))))
  PROVE  Sound(t, [W EXCEPT ![l] = stable_sort(W[l])], F, H)
<1>1. Rings(s.ring, W) /\ s.value \in [Nodes -> Values]
  BY SoundParts DEF Sound
<1>2. PICK w \in Seq(Nodes) : w = W[l] /\ w = Walk(s.ring, l) /\ Distinct(w)
  BY <1>1, WalkIs, SoundParts
<1>3. PICK v : v = stable_sort(w)
  OBVIOUS
<1>4. v \in Seq(Nodes) /\ Len(v) = Len(w) /\ Distinct(v) /\ Elements(v) = Elements(w)
  BY <1>1, <1>2, <1>3, SortedFacts
<1>5. PICK V : V = [W EXCEPT ![l] = v]
  OBVIOUS
<1>6. PICK q : q = relink_nodes_in_order(s.ring, l, v) /\ Relinks(s, t, q)
  BY <1>2, <1>3
<1>7. Rings(q, V)
  BY <1>1, <1>2, <1>4, <1>5, <1>6, RelinkRings
<1>8. Sound(t, V, F, H)
  BY <1>2, <1>4, <1>5, <1>6, <1>7, Reordered
<1> QED
  BY <1>2, <1>3, <1>5, <1>8

(* reverse.                                                                *)
LEMMA ReverseSound ==
  ASSUME NEW s, NEW W, NEW F, NEW H, Sound(s, W, F, H), NEW l \in Sentinels,
         NEW t, Relinks(s, t, TurnedRing(s.ring, Elements(W[l]) \cup {l}))
  PROVE  Sound(t, [W EXCEPT ![l] = Reverse(W[l])], F, H)
<1>1. Rings(s.ring, W)
  BY DEF Sound
<1>2. PICK w \in Seq(Nodes) : w = W[l] /\ Distinct(w)
  BY SoundParts
<1>3. PICK v : v = Reverse(w)
  OBVIOUS
<1>4. v \in Seq(Nodes) /\ Len(v) = Len(w) /\ Elements(v) = Elements(w)
  BY <1>2, <1>3, ReverseFacts
<1>5. PICK V : V = [W EXCEPT ![l] = v]
  OBVIOUS
<1>6. PICK q : q = TurnedRing(s.ring, Elements(W[l]) \cup {l}) /\ Relinks(s, t, q)
  OBVIOUS
<1>7. Rings(q, V)
  BY <1>1, <1>2, <1>3, <1>5, <1>6, ReverseRings
<1>8. Sound(t, V, F, H)
  BY <1>2, <1>4, <1>5, <1>6, <1>7, Reordered
<1> QED
  BY <1>2, <1>3, <1>5, <1>8

----------------------------------------------------------------------------
(* Merging                                                                 *)

(* What merge makes of the lists.                                          *)
MergedLists(W, l, m) == [W EXCEPT ![l] = stable_sort(W[l] \o W[m]), ![m] = <<>>]

(* What it changes.                                                        *)
Merges(s, t, l, m, q) ==
  /\ t \in States /\ t.ring = q
  /\ t.value = s.value /\ t.pool = s.pool /\ t.heap = s.heap
  /\ t.size = [s.size EXCEPT ![l] = @ + s.size[m], ![m] = 0]

(* The sentinel of a list whose nodes are now in another ring.             *)
LEMMA ResetFacts ==
  ASSUME NEW r \in RingShape, NEW m \in Sentinels
  PROVE  /\ reset_sentinel(r, m) \in RingShape
         /\ \A n \in BaseNodes :
              /\ reset_sentinel(r, m).next[n] = IF n = m THEN m ELSE r.next[n]
              /\ reset_sentinel(r, m).prev[n] = IF n = m THEN m ELSE r.prev[n]
<1>1. m \in BaseNodes
  BY SentinelsApart
<1> QED
  BY <1>1 DEF RingShape, reset_sentinel

(* All nodes of list m go into the ring of l.                              *)
LEMMA MergeRings ==
  ASSUME NEW r, NEW W, Rings(r, W), NEW l \in Sentinels, NEW m \in Sentinels, l # m,
         NEW v \in Seq(Nodes), Distinct(v), Elements(v) = Elements(W[l]) \cup Elements(W[m]),
         NEW V \in Sequences, V[l] = v, V[m] = <<>>,
         \A k \in Sentinels \ {l, m} : V[k] = W[k]
  PROVE  Rings(reset_sentinel(relink_nodes_in_order(r, l, v), m), V)
<1>1. r \in RingShape /\ W \in Sequences
  BY DEF Rings
<1>2. PICK p : p = relink_nodes_in_order(r, l, v)
  OBVIOUS
<1>3. /\ p \in RingShape /\ IsRing(p, l, v)
      /\ \A n \in BaseNodes \ (Elements(v) \cup {l}) :
           p.next[n] = r.next[n] /\ p.prev[n] = r.prev[n]
  BY <1>1, <1>2, RelinkRing
<1>4. PICK q : q = reset_sentinel(p, m)
  OBVIOUS
<1>5. /\ q \in RingShape
      /\ \A n \in BaseNodes : /\ q.next[n] = IF n = m THEN m ELSE p.next[n]
                              /\ q.prev[n] = IF n = m THEN m ELSE p.prev[n]
  BY <1>3, <1>4, ResetFacts
<1>6. \A k \in Sentinels : /\ W[k] \in Seq(Nodes) /\ Elements(W[k]) \subseteq Nodes
                           /\ k \in BaseNodes /\ k \notin Nodes
  BY <1>1, ElementsOf, SentinelsApart DEF Sequences
<1>7. Elements(v) \subseteq Nodes /\ Nodes \subseteq BaseNodes
  BY ElementsOf, SentinelsApart
<1>8. IsRing(q, l, v)
  <2>1. \A n \in Elements(v) \cup {l} : q.next[n] = p.next[n] /\ q.prev[n] = p.prev[n]
    BY <1>5, <1>6, <1>7
  <2> QED
    BY <2>1, <1>3, RingFrame
<1>9. IsRing(q, m, <<>>) /\ Elements(<<>>) = {}
  <2>1. q.next[m] = m /\ q.prev[m] = m
    BY <1>5, <1>6
  <2> QED
    BY <2>1, EmptyRing
<1>10. \A k, o \in Sentinels : k # o => Elements(W[k]) \cap Elements(W[o]) = {}
  BY DEF Rings
<1>11. ASSUME NEW k \in Sentinels \ {l, m} PROVE IsRing(q, k, W[k])
  <2>1. ASSUME NEW n \in Elements(W[k]) \cup {k}
        PROVE  n \in BaseNodes \ (Elements(v) \cup {l}) /\ n # m
    <3>1. Elements(W[k]) \cap Elements(W[l]) = {} /\ Elements(W[k]) \cap Elements(W[m]) = {}
      BY <1>10
    <3> QED
      BY <3>1, <1>6, <1>7
  <2>2. \A n \in Elements(W[k]) \cup {k} : q.next[n] = r.next[n] /\ q.prev[n] = r.prev[n]
    BY <2>1, <1>3, <1>5
  <2>3. IsRing(r, k, W[k])
    BY DEF Rings
  <2> QED
    BY <2>2, <2>3, <1>6, RingFrame
<1>12. \A k \in Sentinels : IsRing(q, k, V[k])
  BY <1>8, <1>9, <1>11
<1>13. \A k, o \in Sentinels : k # o => Elements(V[k]) \cap Elements(V[o]) = {}
  <2>1. \A k \in Sentinels : Elements(V[k]) = IF k = l THEN Elements(W[l]) \cup Elements(W[m])
                                              ELSE IF k = m THEN {} ELSE Elements(W[k])
    BY <1>9
  <2> QED
    BY <2>1, <1>10
<1>14. Rings(q, V)
  BY <1>5, <1>12, <1>13 DEF Rings
<1> QED
  BY <1>2, <1>4, <1>14

(* merge.                                                                  *)
LEMMA MergeSound ==
  ASSUME NEW s, NEW W, NEW F, NEW H, Sound(s, W, F, H), s.value = value,
         NEW l \in Sentinels, NEW m \in Sentinels, l # m,
         NEW nodes, nodes = stable_sort(Walk(s.ring, l) \o Walk(s.ring, m)),
         NEW t, Merges(s, t, l, m, reset_sentinel(relink_nodes_in_order(s.ring, l, nodes), m))
  PROVE  \E K : Sound(t, MergedLists(W, l, m), F, K)
<1>0. Rings(s.ring, W) /\ Kept(W, F, s.heap, H)
  BY DEF Sound
<1>1. /\ Rings(s.ring, W) /\ s.value \in [Nodes -> Values] /\ W \in Sequences /\ F \in Sequences
      /\ s.size \in [Sentinels -> Nat]
      /\ \A k \in Sentinels : s.size[k] = Len(W[k]) /\ PoolIs(s.pool[k], F[k])
      /\ Kept(W, F, s.heap, H)
  BY <1>0, SoundParts
<1>2. PICK w, x \in Seq(Nodes) : /\ w = W[l] /\ w = Walk(s.ring, l) /\ Distinct(w)
                                 /\ x = W[m] /\ x = Walk(s.ring, m) /\ Distinct(x)
  <2>1. W[l] \in Seq(Nodes) /\ W[m] \in Seq(Nodes) /\ Distinct(W[l]) /\ Distinct(W[m])
    BY SoundParts
  <2> QED
    BY <1>1, <2>1, WalkIs
<1>3. Elements(w) \cap Elements(x) = {}
  BY <1>1, <1>2 DEF Rings
<1>4. PICK y : y = w \o x
  OBVIOUS
<1>5. /\ y \in Seq(Nodes) /\ Distinct(y) /\ Len(y) = Len(w) + Len(x)
      /\ Elements(y) = Elements(w) \cup Elements(x)
  BY <1>2, <1>3, <1>4, ConcatFacts
<1>6. PICK v : v = stable_sort(y) /\ v = nodes
  BY <1>2, <1>4
<1>7. /\ v \in Seq(Nodes) /\ Distinct(v) /\ Len(v) = Len(w) + Len(x)
      /\ Elements(v) = Elements(w) \cup Elements(x)
  BY <1>1, <1>5, <1>6, SortedFacts
<1>8. PICK V : V = MergedLists(W, l, m)
  OBVIOUS
<1>9. /\ V \in Sequences /\ V[l] = v /\ V[m] = <<>>
      /\ \A k \in Sentinels \ {l, m} : V[k] = W[k]
  <2>1. V = [W EXCEPT ![l] = v, ![m] = <<>>]
    BY <1>2, <1>4, <1>6, <1>8 DEF MergedLists
  <2>2. v \in Seq(Nodes) /\ <<>> \in Seq(Nodes)
    BY <1>7
  <2> QED
    BY <2>1, <2>2, <1>1 DEF Sequences
<1>10. PICK q : /\ q = reset_sentinel(relink_nodes_in_order(s.ring, l, v), m)
                /\ Merges(s, t, l, m, q)
  BY <1>6
<1>11. Rings(q, V)
  <2>1. PICK r : r = s.ring /\ Rings(r, W) /\ q = reset_sentinel(relink_nodes_in_order(r, l, v), m)
    BY <1>1, <1>10
  <2>2. /\ v \in Seq(Nodes) /\ Distinct(v) /\ Elements(v) = Elements(W[l]) \cup Elements(W[m])
        /\ V \in Sequences /\ V[l] = v /\ V[m] = <<>>
        /\ \A k \in Sentinels \ {l, m} : V[k] = W[k]
    BY <1>2, <1>7, <1>9
  <2>3. Rings(reset_sentinel(relink_nodes_in_order(r, l, v), m), V)
    BY <2>1, <2>2, MergeRings
  <2> QED
    BY <2>1, <2>3
<1>12. PICK S \in SUBSET Nodes : S = Elements(W[m])
  BY <1>2, ElementsOf
<1>13. PICK K : Kept(V, F, s.heap, K)
  <2>1. /\ \A k \in Sentinels : Elements(F[k]) \cap S = {}
        /\ \A k \in Sentinels \ {m} : Elements(W[k]) \cap S = {}
        /\ s.heap \cap S = {}
    BY <1>1, <1>12, KeptApart, ZenonT(40)
  <2>2. Elements(V[m]) = {}
    BY <1>9, EmptyRing DEF Elements
  <2>3. Gains(W, V, l, S)
    BY <2>1, <2>2, <1>2, <1>7, <1>9, <1>12 DEF Gains
  <2>4. Loses(F, F, S) /\ s.heap = s.heap \ S
    BY <2>1 DEF Loses
  <2> QED
    BY <2>3, <2>4, <1>1, KeptListed
<1>14. /\ t \in States /\ t.ring = q /\ t.pool = s.pool /\ t.heap = s.heap
       /\ t.size = [s.size EXCEPT ![l] = @ + s.size[m], ![m] = 0]
  BY <1>10 DEF Merges
<1>15. ASSUME NEW k \in Sentinels PROVE t.size[k] = Len(V[k])
  <2>1. CASE k = l
    <3>1. t.size[l] = s.size[l] + s.size[m]
      BY <1>1, <1>14
    <3> QED
      BY <3>1, <2>1, <1>1, <1>2, <1>7, <1>9
  <2>2. CASE k = m
    BY <2>2, <1>1, <1>9, <1>14
  <2>3. CASE k # l /\ k # m
    BY <2>3, <1>1, <1>9, <1>14
  <2> QED
    BY <2>1, <2>2, <2>3
<1>16. Sound(t, V, F, K)
  BY <1>1, <1>9, <1>11, <1>13, <1>14, <1>15 DEF Sound
<1> QED
  BY <1>8, <1>16

----------------------------------------------------------------------------
(* Loops over the elements of a list                                       *)

(* What holds before the first round and is kept by every round.           *)
LEMMA RoundsKeep ==
  ASSUME NEW N \in Nat, NEW D, NEW f, f[0] \in D[0],
         \A i \in 1 .. N : f[i - 1] \in D[i - 1] => f[i] \in D[i]
  PROVE  \A i \in 0 .. N : f[i] \in D[i]
<1> DEFINE Bad == {i \in 0 .. N : f[i] \notin D[i]}
<1>1. Bad \in SUBSET Nat
  OBVIOUS
<1>2. ASSUME Bad # {} PROVE FALSE
  <2>1. PICK i \in Bad : \A j \in Bad : i <= j
    BY <1>1, <1>2, LeastExists
  <2>2. i \in 0 .. N /\ f[i] \notin D[i]
    BY <2>1
  <2>3. i # 0
    BY <2>2
  <2>4. i \in 1 .. N /\ i - 1 \in 0 .. N /\ ~(i <= i - 1)
    BY <2>2, <2>3
  <2>5. f[i - 1] \in D[i - 1]
    BY <2>1, <2>4
  <2> QED
    BY <2>2, <2>4, <2>5
<1> QED
  BY <1>2

(* f is what N rounds of g make of a, and D[i] holds after i of them.      *)
RoundsOf(f, N, D, a, g) ==
  /\ f = [i \in 0 .. N |-> f[i]] /\ f[0] = a
  /\ \A i \in 0 .. N : f[i] \in D[i]
  /\ \A i \in 1 .. N : f[i] = g[i][f[i - 1]]

(* Rounds that keep what holds can be made.                                *)
LEMMA RoundsExist ==
  ASSUME NEW N \in Nat, NEW D, NEW a, a \in D[0], NEW g,
         \A i \in 1 .. N : \A x \in D[i - 1] : g[i][x] \in D[i]
  PROVE  \E f : RoundsOf(f, N, D, a, g)
<1> DEFINE All == UNION {D[i] : i \in 0 .. N}
           h == [i \in 1 .. N |-> [x \in All |-> IF g[i][x] \in All THEN g[i][x] ELSE a]]
<1>1. a \in All
  <2>1. 0 \in 0 .. N
    OBVIOUS
  <2> QED
    BY <2>1
<1>2. \A i \in 0 .. N : \A x \in D[i] : x \in All
  OBVIOUS
<1>3. \A i \in 1 .. N : \A x \in All : h[i][x] = IF g[i][x] \in All THEN g[i][x] ELSE a
  OBVIOUS
<1> HIDE DEF All, h
<1>4. \A i \in 1 .. N : \A x \in All : h[i][x] \in All
  BY <1>1, <1>3
<1>5. PICK f : Iterates(f, N, All, a, h)
  BY <1>1, <1>4, IteratesExist
<1>6. f \in [0 .. N -> All] /\ f[0] = a /\ \A i \in 1 .. N : f[i] = h[i][f[i - 1]]
  BY <1>5 DEF Iterates
<1>7. ASSUME NEW i \in 1 .. N, f[i - 1] \in D[i - 1]
      PROVE  f[i] = g[i][f[i - 1]] /\ f[i] \in D[i]
  <2>1. i - 1 \in 0 .. N /\ i \in 0 .. N
    OBVIOUS
  <2>2. g[i][f[i - 1]] \in D[i]
    BY <1>7
  <2>3. g[i][f[i - 1]] \in All /\ f[i - 1] \in All
    BY <2>1, <2>2, <1>2, <1>7
  <2>4. f[i] = h[i][f[i - 1]]
    BY <1>6
  <2> QED
    BY <2>2, <2>3, <2>4, <1>3
<1>8. \A i \in 0 .. N : f[i] \in D[i]
  BY <1>6, <1>7, RoundsKeep
<1>9. \A i \in 1 .. N : f[i] = g[i][f[i - 1]]
  <2>1. \A i \in 1 .. N : i - 1 \in 0 .. N
    OBVIOUS
  <2> QED
    BY <2>1, <1>7, <1>8
<1>10. f = [i \in 0 .. N |-> f[i]]
  BY <1>6
<1>11. RoundsOf(f, N, D, a, g)
  BY <1>6, <1>8, <1>9, <1>10 DEF RoundsOf
<1> QED
  BY <1>11

----------------------------------------------------------------------------
(* Erasing some of the elements                                            *)

(* v is w with the places of P only: e says where each of them was.        *)
Thinned(w, v, P, e) ==
  /\ P \in SUBSET (1 .. Len(w))
  /\ e \in [1 .. Len(v) -> P]
  /\ \A a, b \in 1 .. Len(v) : a < b => e[a] < e[b]
  /\ \A p \in P : \E a \in 1 .. Len(v) : e[a] = p
  /\ \A a \in 1 .. Len(v) : v[a] = w[e[a]]

(* At first all places are there.                                          *)
LEMMA ThinnedNot ==
  ASSUME NEW w \in Seq(Nodes)
  PROVE  Thinned(w, w, 1 .. Len(w), [a \in 1 .. Len(w) |-> a])
<1>1. PICK L \in Nat : L = Len(w)
  OBVIOUS
<1>2. PICK e : e = [a \in 1 .. L |-> a]
  OBVIOUS
<1>3. e \in [1 .. L -> 1 .. L] /\ \A a \in 1 .. L : e[a] = a
  BY <1>2
<1>4. Thinned(w, w, 1 .. L, e)
  BY <1>1, <1>3 DEF Thinned
<1> QED
  BY <1>1, <1>2, <1>4

(* One more goes.                                                          *)
LEMMA ThinnedMore ==
  ASSUME NEW w \in Seq(Nodes), NEW v \in Seq(Nodes), NEW P, NEW e, Thinned(w, v, P, e),
         NEW q \in 1 .. Len(v)
  PROVE  \E d : Thinned(w, CutOut(v, q, q + 1), P \ {e[q]}, d)
<1>1. PICK L, M \in Nat : L = Len(v) /\ M = L - 1 /\ q \in 1 .. L
  OBVIOUS
<1>2. /\ P \in SUBSET (1 .. Len(w)) /\ e \in [1 .. L -> P]
      /\ \A a, b \in 1 .. L : a < b => e[a] < e[b]
      /\ \A p \in P : \E a \in 1 .. L : e[a] = p
      /\ \A a \in 1 .. L : v[a] = w[e[a]]
  BY <1>1 DEF Thinned
<1>3. PICK u : u = CutOut(v, q, q + 1)
  OBVIOUS
<1>4. Len(u) = M /\ \A a \in 1 .. M : u[a] = IF a < q THEN v[a] ELSE v[a + 1]
  <2>1. q + 1 - q = 1 /\ Len(v) - 1 = M
    BY <1>1
  <2>2. u = [a \in 1 .. M |-> IF a < q THEN v[a] ELSE v[a + 1]]
    BY <2>1, <1>3 DEF CutOut
  <2> QED
    BY <2>2
<1>5. PICK d : d = [a \in 1 .. M |-> IF a < q THEN e[a] ELSE e[a + 1]]
  OBVIOUS
<1>6. ASSUME NEW a \in 1 .. M
      PROVE  \E b \in 1 .. L : /\ b # q /\ b = (IF a < q THEN a ELSE a + 1)
                               /\ d[a] = e[b] /\ u[a] = v[b]
  <2>1. PICK b \in 1 .. L : b # q /\ b = IF a < q THEN a ELSE a + 1
    BY <1>1
  <2> QED
    BY <2>1, <1>4, <1>5
<1>7. \A a, b \in 1 .. L : e[a] = e[b] => a = b
  <2> SUFFICES ASSUME NEW a \in 1 .. L, NEW b \in 1 .. L, e[a] = e[b], a # b PROVE FALSE
    OBVIOUS
  <2>1. e[a] \in Int /\ e[b] \in Int
    <3>1. e[a] \in P /\ e[b] \in P
      BY <1>2
    <3>2. P \in SUBSET Int
      BY <1>2
    <3> QED
      BY <3>1, <3>2
  <2>2. a < b \/ b < a
    OBVIOUS
  <2>3. e[a] < e[b] \/ e[b] < e[a]
    BY <2>2, <1>2
  <2> QED
    BY <2>1, <2>3
<1>8. ASSUME NEW a \in 1 .. M PROVE d[a] \in P \ {e[q]} /\ u[a] = w[d[a]]
  <2>1. PICK b \in 1 .. L : b # q /\ d[a] = e[b] /\ u[a] = v[b]
    BY <1>6
  <2> QED
    BY <2>1, <1>1, <1>2, <1>7, SMTT(20)
<1>9. d \in [1 .. M -> P \ {e[q]}]
  <2>1. d = [a \in 1 .. M |-> d[a]]
    BY <1>5
  <2> QED
    BY <2>1, <1>8
<1>10. ASSUME NEW a \in 1 .. M, NEW b \in 1 .. M, a < b PROVE d[a] < d[b]
  <2>1. PICK x \in 1 .. L : x = (IF a < q THEN a ELSE a + 1) /\ d[a] = e[x]
    BY <1>6
  <2>2. PICK y \in 1 .. L : y = (IF b < q THEN b ELSE b + 1) /\ d[b] = e[y]
    BY <1>6
  <2>3. x < y
    BY <1>1, <1>10, <2>1, <2>2
  <2> QED
    BY <2>1, <2>2, <2>3, <1>2
<1>11. ASSUME NEW p \in P \ {e[q]} PROVE \E a \in 1 .. M : d[a] = p
  <2>1. PICK b \in 1 .. L : e[b] = p
    BY <1>2
  <2>2. b # q
    BY <2>1
  <2>3. PICK a \in 1 .. M : b = IF a < q THEN a ELSE a + 1
    <3>1. CASE b < q
      BY <3>1, <1>1
    <3>2. CASE b > q
      <4>1. b - 1 \in 1 .. M /\ ~(b - 1 < q) /\ b = (b - 1) + 1
        BY <3>2, <1>1
      <4> QED
        BY <4>1
    <3> QED
      BY <2>2, <3>1, <3>2, <1>1
  <2> QED
    BY <2>1, <2>3, <1>6
<1>12. P \ {e[q]} \in SUBSET (1 .. Len(w))
  BY <1>2
<1>13. Thinned(w, u, P \ {e[q]}, d)
  BY <1>4, <1>8, <1>9, <1>10, <1>11, <1>12 DEF Thinned
<1> QED
  BY <1>3, <1>13

(* t is s with only the elements in the places of P left in list l, whose  *)
(* values have not changed.                                                *)
Thinner(s, W, l, P, t, V, e) ==
  /\ Thinned(W[l], V[l], P, e)
  /\ \A m \in Sentinels \ {l} : V[m] = W[m]
  /\ t.value = s.value
  /\ Others(s, t, {l})

(* The states in which this is so.                                         *)
Thinnings(s, W, l, P) ==
  {t \in States : \E V, G, K, e : Sound(t, V, G, K) /\ Thinner(s, W, l, P, t, V, e)}

(* No element has been erased.                                             *)
LEMMA ThinningNot ==
  ASSUME NEW s, NEW W, NEW F, NEW H, Sound(s, W, F, H), NEW l \in Sentinels
  PROVE  s \in Thinnings(s, W, l, 1 .. Len(W[l]))
<1>1. W[l] \in Seq(Nodes) /\ s \in States
  BY SoundParts DEF Sound
<1>2. PICK e : Thinned(W[l], W[l], 1 .. Len(W[l]), e)
  BY <1>1, ThinnedNot
<1>3. Thinner(s, W, l, 1 .. Len(W[l]), s, W, e)
  BY <1>2 DEF Thinner, Others
<1> QED
  BY <1>1, <1>3 DEF Thinnings

(* One more is erased: it is still there.                                  *)
LEMMA ThinningMore ==
  ASSUME NEW s, NEW W, NEW F, NEW H, Sound(s, W, F, H), NEW l \in Sentinels,
         NEW P, NEW t \in Thinnings(s, W, l, P), NEW p \in P
  PROVE  erase(t, l, W[l][p]) \in Thinnings(s, W, l, P \ {p})
<1>1. PICK V, G, K, e : Sound(t, V, G, K) /\ Thinner(s, W, l, P, t, V, e)
  BY DEF Thinnings
<1>2. PICK w \in Seq(Nodes) : w = W[l]
  BY SoundParts
<1>3. PICK v \in Seq(Nodes) : v = V[l]
  BY <1>1, SoundParts
<1>4. V \in Sequences
  BY <1>1, SoundParts
<1>5. Thinned(w, v, P, e)
  BY <1>1, <1>2, <1>3 DEF Thinner
<1>6. PICK q \in 1 .. Len(v) : e[q] = p /\ v[q] = w[p]
  BY <1>5 DEF Thinned
<1>7. PICK u : u = erase(t, l, V[l][q])
  OBVIOUS
<1>8. PICK X, Y, Z : Sound(u, X, Y, Z) /\ Erased(t, V, l, q, u, X)
  BY <1>1, <1>3, <1>7, EraseSound
<1>9. /\ X = [V EXCEPT ![l] = CutOut(v, q, q + 1)]
      /\ u.value = t.value /\ Others(t, u, {l})
  BY <1>3, <1>8 DEF Erased
<1>10. X[l] = CutOut(v, q, q + 1) /\ \A m \in Sentinels \ {l} : X[m] = V[m]
  BY <1>4, <1>9 DEF Sequences
<1>11. PICK d : Thinned(w, CutOut(v, q, q + 1), P \ {p}, d)
  BY <1>5, <1>6, ThinnedMore
<1>12. Thinner(s, W, l, P \ {p}, u, X, d)
  BY <1>1, <1>2, <1>9, <1>10, <1>11 DEF Thinner, Others
<1>13. u \in States
  BY <1>8 DEF Sound
<1>14. u \in Thinnings(s, W, l, P \ {p})
  BY <1>8, <1>12, <1>13 DEF Thinnings
<1> QED
  BY <1>2, <1>3, <1>6, <1>7, <1>14

(* A list of nodes is erased, each at its turn.                            *)
ErasedBy(f, s, l, nodes, N) ==
  f = [i \in 0 .. N |-> IF i = 0 THEN s ELSE erase(f[i - 1], l, nodes[i])]

(* The different places of w that the nodes have.                          *)
PlacesAre(w, nodes, a) ==
  /\ nodes \in Seq(Nodes) /\ a \in [1 .. Len(nodes) -> 1 .. Len(w)]
  /\ \A i, j \in 1 .. Len(nodes) : a[i] = a[j] => i = j
  /\ \A i \in 1 .. Len(nodes) : nodes[i] = w[a[i]]

(* The places that they leave.                                             *)
PlacesLeft(w, nodes, a) == (1 .. Len(w)) \ {a[i] : i \in 1 .. Len(nodes)}

(* EraseAll leaves the other places.                                       *)
LEMMA EraseAllSound ==
  ASSUME NEW s, NEW W, NEW F, NEW H, Sound(s, W, F, H), NEW l \in Sentinels,
         NEW nodes, NEW a, PlacesAre(W[l], nodes, a)
  PROVE  EraseAll(s, l, nodes) \in Thinnings(s, W, l, PlacesLeft(W[l], nodes, a))
<1>0. /\ nodes \in Seq(Nodes) /\ a \in [1 .. Len(nodes) -> 1 .. Len(W[l])]
      /\ \A i, j \in 1 .. Len(nodes) : a[i] = a[j] => i = j
      /\ \A i \in 1 .. Len(nodes) : nodes[i] = W[l][a[i]]
  BY DEF PlacesAre
<1>1. PICK N \in Nat : N = Len(nodes)
  BY <1>0
<1>2. PICK L \in Nat : L = Len(W[l])
  BY SoundParts
<1>3. PICK P : P = [i \in 0 .. N |-> (1 .. L) \ {a[j] : j \in 1 .. i}]
  OBVIOUS
<1>4. PICK D : D = [i \in 0 .. N |-> Thinnings(s, W, l, P[i])]
  OBVIOUS
<1>5. s \in D[0]
  <2>1. 0 \in 0 .. N /\ 1 .. 0 = {}
    OBVIOUS
  <2>2. P[0] = 1 .. L
    BY <1>3, <2>1
  <2> QED
    BY <2>1, <2>2, <1>2, <1>4, ThinningNot
<1>6. ASSUME NEW i \in 1 .. N, NEW x \in D[i - 1] PROVE erase(x, l, nodes[i]) \in D[i]
  <2>1. i \in 0 .. N /\ i - 1 \in 0 .. N /\ i \in Nat
    OBVIOUS
  <2>2. x \in Thinnings(s, W, l, P[i - 1])
    BY <2>1, <1>4
  <2>3. P[i - 1] = (1 .. L) \ {a[j] : j \in 1 .. i - 1} /\ P[i] = (1 .. L) \ {a[j] : j \in 1 .. i}
    BY <2>1, <1>3
  <2>4. a[i] \in 1 .. L /\ nodes[i] = W[l][a[i]]
    BY <1>0, <1>1, <1>2
  <2>5. a[i] \notin {a[j] : j \in 1 .. i - 1}
    <3>1. \A j \in 1 .. i - 1 : j \in 1 .. N /\ j # i
      BY <2>1
    <3> QED
      BY <3>1, <1>0, <1>1
  <2>6. {a[j] : j \in 1 .. i} = {a[j] : j \in 1 .. i - 1} \cup {a[i]}
    <3>1. 1 .. i = (1 .. i - 1) \cup {i}
      BY <2>1
    <3> QED
      BY <3>1
  <2>7. a[i] \in P[i - 1] /\ P[i] = P[i - 1] \ {a[i]}
    BY <2>3, <2>4, <2>5, <2>6
  <2>8. erase(x, l, W[l][a[i]]) \in Thinnings(s, W, l, P[i - 1] \ {a[i]})
    BY <2>2, <2>7, ThinningMore
  <2> QED
    BY <2>1, <2>4, <2>7, <2>8, <1>4
<1>7. \E f : ErasedBy(f, s, l, nodes, N)
  <2>1. PICK All : All = UNION {D[i] : i \in 0 .. N}
    OBVIOUS
  <2>2. PICK g : g = [i \in 1 .. N |-> [x \in All |-> erase(x, l, nodes[i])]]
    OBVIOUS
  <2>3. ASSUME NEW i \in 1 .. N, NEW x \in D[i - 1]
        PROVE  g[i][x] = erase(x, l, nodes[i]) /\ g[i][x] \in D[i]
    <3>1. i - 1 \in 0 .. N
      OBVIOUS
    <3>2. x \in All
      BY <3>1, <2>1
    <3> QED
      BY <3>2, <2>2, <1>6
  <2>4. PICK f : RoundsOf(f, N, D, s, g)
    BY <1>5, <2>3, RoundsExist
  <2>5. /\ f = [i \in 0 .. N |-> f[i]] /\ f[0] = s
        /\ \A i \in 0 .. N : f[i] \in D[i]
        /\ \A i \in 1 .. N : f[i] = g[i][f[i - 1]]
    BY <2>4 DEF RoundsOf
  <2>6. ASSUME NEW i \in 0 .. N
        PROVE  f[i] = IF i = 0 THEN s ELSE erase(f[i - 1], l, nodes[i])
    <3>1. CASE i = 0
      BY <3>1, <2>5
    <3>2. CASE i # 0
      <4>1. i \in 1 .. N /\ i - 1 \in 0 .. N
        BY <3>2
      <4> QED
        BY <3>2, <4>1, <2>3, <2>5
    <3> QED
      BY <3>1, <3>2
  <2>7. f = [i \in 0 .. N |-> IF i = 0 THEN s ELSE erase(f[i - 1], l, nodes[i])]
    BY <2>5, <2>6, Zenon
  <2> QED
    BY <2>7 DEF ErasedBy
<1>8. EraseAll(s, l, nodes) = (CHOOSE f : ErasedBy(f, s, l, nodes, N))[N]
  BY <1>1, Zenon DEF EraseAll, ErasedBy
<1>9. PICK f : f = (CHOOSE g : ErasedBy(g, s, l, nodes, N)) /\ ErasedBy(f, s, l, nodes, N)
  BY <1>7
<1>10. ASSUME NEW i \in 0 .. N
       PROVE  f[i] = IF i = 0 THEN s ELSE erase(f[i - 1], l, nodes[i])
  <2>1. f = [j \in 0 .. N |-> IF j = 0 THEN s ELSE erase(f[j - 1], l, nodes[j])]
    BY <1>9 DEF ErasedBy
  <2>2. f[i] = [j \in 0 .. N |-> IF j = 0 THEN s ELSE erase(f[j - 1], l, nodes[j])][i]
    BY <2>1
  <2> QED
    BY <2>2, Zenon
<1>11. f[0] \in D[0]
  BY <1>5, <1>10
<1>12. ASSUME NEW i \in 1 .. N, f[i - 1] \in D[i - 1] PROVE f[i] \in D[i]
  <2>1. i \in 0 .. N /\ i # 0
    OBVIOUS
  <2> QED
    BY <2>1, <1>6, <1>10, <1>12
<1>13. f[N] \in D[N]
  <2>1. \A i \in 0 .. N : f[i] \in D[i]
    BY <1>11, <1>12, RoundsKeep
  <2> QED
    BY <2>1
<1>14. N \in 0 .. N
  OBVIOUS
<1> QED
  BY <1>1, <1>2, <1>3, <1>4, <1>8, <1>9, <1>13, <1>14 DEF PlacesLeft

(* The elements are visited, and those with a value of matching erased.    *)
RemovedBy(f, s, l, nodes, matching, N) ==
  f = [j \in 0 .. N |->
         IF j = 0 THEN s
         ELSE IF value[nodes[j]] \in matching THEN erase(f[j - 1], l, nodes[j]) ELSE f[j - 1]]

(* The places that are left when the first i were visited.                 *)
LeftBy(w, matching, i) == {p \in 1 .. Len(w) : p > i \/ value[w[p]] \notin matching}

(* remove_if up to its end, or to where the predicate throws.              *)
LEMMA RemoveSound ==
  ASSUME NEW s, NEW W, NEW F, NEW H, Sound(s, W, F, H), NEW l \in Sentinels,
         NEW matching, NEW N \in 0 .. Len(W[l])
  PROVE  (CHOOSE f : RemovedBy(f, s, l, W[l], matching, N))[N]
           \in Thinnings(s, W, l, LeftBy(W[l], matching, N))
<1>1. N \in Nat
  OBVIOUS
<1>2. PICK w, L : w = W[l] /\ L = Len(w) /\ L \in Nat /\ N \in 0 .. L
  BY SoundParts
<1>3. PICK P : P = [i \in 0 .. N |-> LeftBy(w, matching, i)]
  OBVIOUS
<1>4. PICK D : D = [i \in 0 .. N |-> Thinnings(s, W, l, P[i])]
  OBVIOUS
<1>5. s \in D[0]
  <2>1. 0 \in 0 .. N
    BY <1>1
  <2>2. P[0] = LeftBy(w, matching, 0)
    BY <1>3, <2>1
  <2>3. LeftBy(w, matching, 0) = 1 .. L
    BY <1>2 DEF LeftBy
  <2> QED
    BY <2>1, <2>2, <2>3, <1>2, <1>4, ThinningNot
<1>6. ASSUME NEW i \in 1 .. N, NEW x \in D[i - 1]
      PROVE  (IF value[w[i]] \in matching THEN erase(x, l, w[i]) ELSE x) \in D[i]
  <2>1. i \in 0 .. N /\ i - 1 \in 0 .. N /\ i \in 1 .. L
    BY <1>2
  <2>2. x \in Thinnings(s, W, l, P[i - 1])
    BY <2>1, <1>4
  <2>3. P[i - 1] = LeftBy(w, matching, i - 1) /\ P[i] = LeftBy(w, matching, i)
    BY <2>1, <1>3
  <2>4. \A p \in 1 .. L : p > i - 1 <=> p = i \/ p > i
    BY <2>1
  <2>5. CASE value[w[i]] \in matching
    <3>1. i \in P[i - 1]
      BY <2>1, <2>3, <2>4, <1>2 DEF LeftBy
    <3>2. P[i] = P[i - 1] \ {i}
      <4>1. \A p \in 1 .. L : p \in P[i] <=> p > i \/ value[w[p]] \notin matching
        BY <2>3, <1>2 DEF LeftBy
      <4>2. \A p \in 1 .. L : p \in P[i - 1] <=> p > i - 1 \/ value[w[p]] \notin matching
        BY <2>3, <1>2 DEF LeftBy
      <4>3. P[i] \subseteq 1 .. L /\ P[i - 1] \subseteq 1 .. L
        BY <2>3, <1>2 DEF LeftBy
      <4>4. ~(i > i)
        BY <2>1
      <4> QED
        BY <4>1, <4>2, <4>3, <4>4, <2>4, <2>5
    <3>3. erase(x, l, w[i]) \in Thinnings(s, W, l, P[i - 1] \ {i})
      BY <2>2, <3>1, <1>2, ThinningMore
    <3> QED
      BY <2>1, <2>5, <3>2, <3>3, <1>4
  <2>6. CASE value[w[i]] \notin matching
    <3>1. P[i] = P[i - 1]
      BY <2>3, <2>4, <2>6, <1>2 DEF LeftBy
    <3> QED
      BY <2>1, <2>2, <2>6, <3>1, <1>4
  <2> QED
    BY <2>5, <2>6
<1>7. \E f : RemovedBy(f, s, l, w, matching, N)
  <2>1. PICK All : All = UNION {D[i] : i \in 0 .. N}
    OBVIOUS
  <2>2. PICK g : g = [i \in 1 .. N |-> [x \in All |->
                       IF value[w[i]] \in matching THEN erase(x, l, w[i]) ELSE x]]
    OBVIOUS
  <2>3. ASSUME NEW i \in 1 .. N, NEW x \in D[i - 1]
        PROVE  /\ g[i][x] = IF value[w[i]] \in matching THEN erase(x, l, w[i]) ELSE x
               /\ g[i][x] \in D[i]
    <3>1. i - 1 \in 0 .. N
      BY <1>1
    <3>2. x \in All
      BY <3>1, <2>1
    <3> QED
      BY <3>2, <2>2, <1>6
  <2>4. PICK f : RoundsOf(f, N, D, s, g)
    BY <1>1, <1>5, <2>3, RoundsExist
  <2>5. /\ f = [i \in 0 .. N |-> f[i]] /\ f[0] = s
        /\ \A i \in 0 .. N : f[i] \in D[i]
        /\ \A i \in 1 .. N : f[i] = g[i][f[i - 1]]
    BY <2>4 DEF RoundsOf
  <2>6. ASSUME NEW j \in 0 .. N
        PROVE  f[j] = IF j = 0 THEN s
                      ELSE IF value[w[j]] \in matching THEN erase(f[j - 1], l, w[j])
                      ELSE f[j - 1]
    <3>1. CASE j = 0
      BY <3>1, <2>5
    <3>2. CASE j # 0
      <4>1. j \in 1 .. N /\ j - 1 \in 0 .. N
        BY <3>2, <1>1
      <4> QED
        BY <3>2, <4>1, <2>3, <2>5
    <3> QED
      BY <3>1, <3>2
  <2>7. f = [j \in 0 .. N |->
               IF j = 0 THEN s
               ELSE IF value[w[j]] \in matching THEN erase(f[j - 1], l, w[j]) ELSE f[j - 1]]
    BY <2>5, <2>6, Zenon
  <2> QED
    BY <2>7 DEF RemovedBy
<1>8. PICK f : f = (CHOOSE g : RemovedBy(g, s, l, w, matching, N))
               /\ RemovedBy(f, s, l, w, matching, N)
  BY <1>7
<1>9. ASSUME NEW i \in 0 .. N
      PROVE  f[i] = IF i = 0 THEN s
                    ELSE IF value[w[i]] \in matching THEN erase(f[i - 1], l, w[i])
                    ELSE f[i - 1]
  <2>1. f = [j \in 0 .. N |->
               IF j = 0 THEN s
               ELSE IF value[w[j]] \in matching THEN erase(f[j - 1], l, w[j]) ELSE f[j - 1]]
    BY <1>8 DEF RemovedBy
  <2>2. f[i] = [j \in 0 .. N |->
                 IF j = 0 THEN s
                 ELSE IF value[w[j]] \in matching THEN erase(f[j - 1], l, w[j])
                 ELSE f[j - 1]][i]
    BY <2>1
  <2> QED
    BY <2>2, Zenon
<1>10. f[0] \in D[0]
  BY <1>1, <1>5, <1>9
<1>11. ASSUME NEW i \in 1 .. N, f[i - 1] \in D[i - 1] PROVE f[i] \in D[i]
  <2>1. i \in 0 .. N /\ i # 0
    BY <1>1
  <2>2. f[i] = IF value[w[i]] \in matching THEN erase(f[i - 1], l, w[i]) ELSE f[i - 1]
    BY <2>1, <1>9
  <2> QED
    BY <2>2, <1>6, <1>11
<1>12. f[N] \in D[N] /\ N \in 0 .. N
  <2>1. \A i \in 0 .. N : f[i] \in D[i]
    BY <1>1, <1>10, <1>11, RoundsKeep
  <2> QED
    BY <2>1, <1>1
<1>13. f[N] \in Thinnings(s, W, l, LeftBy(w, matching, N))
  BY <1>3, <1>4, <1>12
<1> QED
  BY <1>2, <1>8, <1>13

(* A round of unique: current is the last element that stayed.             *)
Visited(a, l, n) ==
  IF value[a.current] = value[n] THEN [a EXCEPT !.state = erase(@, l, n)]
  ELSE [a EXCEPT !.current = n]

(* The rounds of unique, one after the other.                              *)
UniqueBy(f, s, l, nodes, N) ==
  f = [j \in 0 .. N |-> IF j = 0 THEN [state |-> s, current |-> nodes[1]]
                        ELSE Visited(f[j - 1], l, nodes[j + 1])]

(* The places of the first of their runs among the first i, and the others.*)
FirstOfRuns(w, i) == {p \in 1 .. Len(w) : p = 1 \/ p > i \/ value[w[p]] # value[w[p - 1]]}

(* The states in which unique has come to element i.                       *)
Uniques(s, W, l, i) ==
  {x \in [state : Thinnings(s, W, l, FirstOfRuns(W[l], i)), current : Nodes] :
     value[x.current] = value[W[l][i]]}

(* One round of it.                                                        *)
LEMMA UniqueRound ==
  ASSUME NEW s, NEW W, NEW F, NEW H, Sound(s, W, F, H), NEW l \in Sentinels,
         NEW i \in 1 .. Len(W[l]) - 1, NEW x \in Uniques(s, W, l, i)
  PROVE  Visited(x, l, W[l][i + 1]) \in Uniques(s, W, l, i + 1)
<1>1. PICK w \in Seq(Nodes) : w = W[l]
  BY SoundParts
<1>2. PICK L \in Nat : L = Len(w) /\ i \in 1 .. L /\ i + 1 \in 1 .. L
  BY <1>1
<1>3. PICK n \in Nodes : n = w[i + 1]
  BY <1>1, <1>2
<1>4. PICK P, Q : P = FirstOfRuns(w, i) /\ Q = FirstOfRuns(w, i + 1)
  OBVIOUS
<1>5. /\ x \in [state : Thinnings(s, W, l, P), current : Nodes]
      /\ value[x.current] = value[w[i]]
  BY <1>1, <1>4 DEF Uniques
<1>6. \A p \in 1 .. L : /\ p > i <=> p = i + 1 \/ p > i + 1
                        /\ p - 1 = i <=> p = i + 1
  BY <1>2
<1>7. /\ \A p : p \in P <=> p \in 1 .. L /\ (p = 1 \/ p > i \/ value[w[p]] # value[w[p - 1]])
      /\ \A p : p \in Q <=> p \in 1 .. L /\ (p = 1 \/ p > i + 1 \/ value[w[p]] # value[w[p - 1]])
  BY <1>2, <1>4 DEF FirstOfRuns
<1>8. i + 1 > i /\ ~(i + 1 > i + 1) /\ i + 1 # 1 /\ (i + 1) - 1 = i
  BY <1>2
<1>9. CASE value[x.current] = value[n]
  <2>1. i + 1 \in P
    BY <1>2, <1>7, <1>8
  <2>2. Q = P \ {i + 1}
    <3>1. i + 1 \notin Q
      BY <1>3, <1>5, <1>7, <1>8, <1>9
    <3>2. \A p \in 1 .. L : p # i + 1 => (p \in P <=> p \in Q)
      BY <1>6, <1>7
    <3>3. \A p \in P \cup Q : p \in 1 .. L
      BY <1>7
    <3> QED
      BY <3>1, <3>2, <3>3
  <2>3. PICK t : t = x.state /\ t \in Thinnings(s, W, l, P)
    BY <1>5
  <2>4. erase(t, l, W[l][i + 1]) \in Thinnings(s, W, l, P \ {i + 1})
    BY <2>1, <2>3, ThinningMore
  <2>5. erase(t, l, n) \in Thinnings(s, W, l, Q)
    BY <2>2, <2>4, <1>1, <1>3
  <2>6. PICK u : u = erase(t, l, n) /\ u \in Thinnings(s, W, l, Q)
    BY <2>5
  <2>7. PICK y : y = Visited(x, l, n)
    OBVIOUS
  <2>8. y = [x EXCEPT !.state = u]
    BY <2>3, <2>6, <2>7, <1>9 DEF Visited
  <2>9. y \in [state : Thinnings(s, W, l, Q), current : Nodes] /\ y.current = x.current
    BY <2>6, <2>8, <1>5
  <2> QED
    BY <2>7, <2>9, <1>1, <1>3, <1>4, <1>9 DEF Uniques
<1>10. CASE value[x.current] # value[n]
  <2>1. Q = P
    <3>1. i + 1 \in Q /\ i + 1 \in P
      BY <1>2, <1>3, <1>5, <1>7, <1>8, <1>10
    <3>2. \A p \in 1 .. L : p # i + 1 => (p \in P <=> p \in Q)
      BY <1>6, <1>7
    <3>3. \A p : (p \in P => p \in 1 .. L) /\ (p \in Q => p \in 1 .. L)
      BY <1>7
    <3>4. \A p : p \in P <=> p \in Q
      BY <3>1, <3>2, <3>3
    <3> QED
      BY <3>4, Zenon
  <2>2. PICK y : y = Visited(x, l, n)
    OBVIOUS
  <2>3. y = [x EXCEPT !.current = n]
    BY <2>2, <1>10 DEF Visited
  <2>4. y \in [state : Thinnings(s, W, l, Q), current : Nodes] /\ y.current = n
    BY <2>1, <2>3, <1>5
  <2> QED
    BY <2>2, <2>4, <1>1, <1>3, <1>4 DEF Uniques
<1> QED
  BY <1>9, <1>10

(* unique up to its end, or to where the comparison throws.                *)
LEMMA UniqueSound ==
  ASSUME NEW s, NEW W, NEW F, NEW H, Sound(s, W, F, H), NEW l \in Sentinels,
         NEW N \in 0 .. Len(W[l]) - 1
  PROVE  (CHOOSE f : UniqueBy(f, s, l, W[l], N))[N].state
           \in Thinnings(s, W, l, FirstOfRuns(W[l], N + 1))
<1>1. N \in Nat
  OBVIOUS
<1>2. PICK w \in Seq(Nodes) : w = W[l]
  BY SoundParts
<1>a. PICK L \in Nat : L = Len(w) /\ N \in 0 .. L - 1
  BY <1>2
<1>3. PICK D : D = [i \in 0 .. N |-> Uniques(s, W, l, i + 1)]
  OBVIOUS
<1>4. PICK a : a = [state |-> s, current |-> w[1]]
  OBVIOUS
<1>5. a \in D[0]
  <2>1. 0 \in 0 .. N /\ 0 + 1 = 1 /\ 1 \in 1 .. L
    BY <1>1, <1>a
  <2>2. FirstOfRuns(w, 1) = 1 .. L
    <3>1. \A p \in 1 .. L : p = 1 \/ p > 1
      BY <1>a
    <3> QED
      BY <3>1, <1>a DEF FirstOfRuns
  <2>3. s \in Thinnings(s, W, l, FirstOfRuns(w, 1))
    BY <2>2, <1>2, <1>a, ThinningNot
  <2>4. w[1] \in Nodes
    BY <2>1, <1>a
  <2>5. /\ a \in [state : Thinnings(s, W, l, FirstOfRuns(w, 1)), current : Nodes]
        /\ a.current = w[1]
    BY <2>3, <2>4, <1>4
  <2> QED
    BY <2>1, <2>5, <1>2, <1>3 DEF Uniques
<1>6. ASSUME NEW i \in 1 .. N, NEW x \in D[i - 1] PROVE Visited(x, l, w[i + 1]) \in D[i]
  <2>1. i \in 0 .. N /\ i - 1 \in 0 .. N /\ i \in 1 .. L - 1 /\ (i - 1) + 1 = i
    BY <1>a
  <2>2. x \in Uniques(s, W, l, i)
    BY <2>1, <1>3
  <2>3. Visited(x, l, W[l][i + 1]) \in Uniques(s, W, l, i + 1)
    BY <2>1, <2>2, <1>2, <1>a, UniqueRound
  <2> QED
    BY <2>1, <2>3, <1>2, <1>3
<1>7. \E f : UniqueBy(f, s, l, w, N)
  <2>1. PICK All : All = UNION {D[i] : i \in 0 .. N}
    OBVIOUS
  <2>2. PICK g : g = [i \in 1 .. N |-> [x \in All |-> Visited(x, l, w[i + 1])]]
    OBVIOUS
  <2>3. ASSUME NEW i \in 1 .. N, NEW x \in D[i - 1]
        PROVE  g[i][x] = Visited(x, l, w[i + 1]) /\ g[i][x] \in D[i]
    <3>1. i - 1 \in 0 .. N
      BY <1>1
    <3>2. x \in All
      BY <3>1, <2>1
    <3> QED
      BY <3>2, <2>2, <1>6
  <2>4. PICK f : RoundsOf(f, N, D, a, g)
    BY <1>1, <1>5, <2>3, RoundsExist
  <2>5. /\ f = [i \in 0 .. N |-> f[i]] /\ f[0] = a
        /\ \A i \in 0 .. N : f[i] \in D[i]
        /\ \A i \in 1 .. N : f[i] = g[i][f[i - 1]]
    BY <2>4 DEF RoundsOf
  <2>6. ASSUME NEW j \in 0 .. N
        PROVE  f[j] = IF j = 0 THEN [state |-> s, current |-> w[1]]
                      ELSE Visited(f[j - 1], l, w[j + 1])
    <3>1. CASE j = 0
      BY <3>1, <2>5, <1>4
    <3>2. CASE j # 0
      <4>1. j \in 1 .. N /\ j - 1 \in 0 .. N
        BY <3>2, <1>1
      <4> QED
        BY <3>2, <4>1, <2>3, <2>5
    <3> QED
      BY <3>1, <3>2
  <2>7. f = [j \in 0 .. N |-> IF j = 0 THEN [state |-> s, current |-> w[1]]
                              ELSE Visited(f[j - 1], l, w[j + 1])]
    BY <2>5, <2>6, Zenon
  <2> QED
    BY <2>7 DEF UniqueBy
<1>8. PICK f : f = (CHOOSE g : UniqueBy(g, s, l, w, N)) /\ UniqueBy(f, s, l, w, N)
  BY <1>7
<1>9. ASSUME NEW i \in 0 .. N
      PROVE  f[i] = IF i = 0 THEN [state |-> s, current |-> w[1]]
                    ELSE Visited(f[i - 1], l, w[i + 1])
  <2>1. f = [j \in 0 .. N |-> IF j = 0 THEN [state |-> s, current |-> w[1]]
                              ELSE Visited(f[j - 1], l, w[j + 1])]
    BY <1>8 DEF UniqueBy
  <2>2. f[i] = [j \in 0 .. N |-> IF j = 0 THEN [state |-> s, current |-> w[1]]
                                 ELSE Visited(f[j - 1], l, w[j + 1])][i]
    BY <2>1
  <2> QED
    BY <2>2, Zenon
<1>10. f[0] \in D[0]
  <2>1. f[0] = a
    BY <1>1, <1>4, <1>9
  <2> QED
    BY <2>1, <1>5
<1>11. ASSUME NEW i \in 1 .. N, f[i - 1] \in D[i - 1] PROVE f[i] \in D[i]
  <2>1. i \in 0 .. N /\ i # 0
    BY <1>1
  <2>2. f[i] = Visited(f[i - 1], l, w[i + 1])
    BY <2>1, <1>9
  <2> QED
    BY <2>2, <1>6, <1>11
<1>12. f[N] \in D[N] /\ N \in 0 .. N
  <2>1. \A i \in 0 .. N : f[i] \in D[i]
    BY <1>1, <1>10, <1>11, RoundsKeep
  <2> QED
    BY <2>1, <1>1
<1>13. f[N] \in Uniques(s, W, l, N + 1)
  BY <1>3, <1>12
<1>14. f[N].state \in Thinnings(s, W, l, FirstOfRuns(w, N + 1))
  BY <1>2, <1>13 DEF Uniques
<1> QED
  BY <1>2, <1>8, <1>14

----------------------------------------------------------------------------
(* Inserting a range                                                       *)

(* Nothing has been pasted yet.                                            *)
LEMMA PastedNot ==
  ASSUME NEW w \in Seq(Nodes), NEW k \in 0 .. Len(w)
  PROVE  Pasted(w, k, <<>>) = w
<1>1. PICK L \in Nat : L = Len(w) /\ k \in 0 .. L
  OBVIOUS
<1>2. PICK v : v = Pasted(w, k, <<>>)
  OBVIOUS
<1>3. Len(<<>>) = 0 /\ Len(w) + Len(<<>>) = L /\ k + Len(<<>>) = k
  BY <1>1
<1>4. v = [p \in 1 .. L |-> IF p <= k THEN w[p] ELSE IF p <= k THEN <<>>[p - k] ELSE w[p - 0]]
  BY <1>2, <1>3 DEF Pasted
<1>5. \A p \in 1 .. L : v[p] = w[p]
  <2>1. \A p \in 1 .. L : p - 0 = p
    OBVIOUS
  <2> QED
    BY <2>1, <1>4
<1>6. v = [p \in 1 .. L |-> v[p]] /\ w = [p \in 1 .. L |-> w[p]]
  BY <1>1, <1>4
<1> QED
  BY <1>2, <1>5, <1>6

(* One more node behind those that have been pasted.                       *)
LEMMA PastedMore ==
  ASSUME NEW w \in Seq(Nodes), NEW k \in 0 .. Len(w), NEW c \in Seq(Nodes), NEW n \in Nodes
  PROVE  Pasted(Pasted(w, k, c), k + Len(c), <<n>>) = Pasted(w, k, Append(c, n))
<1>1. PICK L \in Nat : L = Len(w) /\ k \in 0 .. L
  OBVIOUS
<1>2. PICK C \in Nat : C = Len(c)
  OBVIOUS
<1>3. PICK d : d = Append(c, n)
  OBVIOUS
<1>4. d \in Seq(Nodes) /\ Len(d) = C + 1 /\ d[C + 1] = n /\ \A p \in 1 .. C : d[p] = c[p]
  BY <1>2, <1>3
<1>5. PICK v : v = Pasted(w, k, c)
  OBVIOUS
<1>6. v = [p \in 1 .. L + C |->
             IF p <= k THEN w[p] ELSE IF p <= k + C THEN c[p - k] ELSE w[p - C]]
  BY <1>1, <1>2, <1>5 DEF Pasted
<1>7. Len(v) = L + C
  BY <1>6, <1>1, <1>2
<1>8. PICK o : o = <<n>>
  OBVIOUS
<1>9. Len(o) = 1 /\ o[1] = n
  BY <1>8
<1>10. PICK x : x = Pasted(v, k + C, o)
  OBVIOUS
<1>11. x = [p \in 1 .. L + C + 1 |->
              IF p <= k + C THEN v[p] ELSE IF p <= k + C + 1 THEN o[p - (k + C)] ELSE v[p - 1]]
  BY <1>7, <1>9, <1>10 DEF Pasted
<1>12. PICK y : y = Pasted(w, k, d)
  OBVIOUS
<1>13. y = [p \in 1 .. L + (C + 1) |->
              IF p <= k THEN w[p]
              ELSE IF p <= k + (C + 1) THEN d[p - k] ELSE w[p - (C + 1)]]
  BY <1>1, <1>4, <1>12 DEF Pasted
<1>14. ASSUME NEW p \in 1 .. L + C + 1 PROVE x[p] = y[p]
  <2>1. x[p] = IF p <= k + C THEN v[p] ELSE IF p <= k + C + 1 THEN o[p - (k + C)] ELSE v[p - 1]
    BY <1>11
  <2>2. L + C + 1 = L + (C + 1)
    BY <1>1, <1>2
  <2>3. y[p] = IF p <= k THEN w[p]
               ELSE IF p <= k + (C + 1) THEN d[p - k] ELSE w[p - (C + 1)]
    BY <1>13, <2>2
  <2>4. CASE p <= k
    <3>1. p \in 1 .. L + C /\ p <= k + C
      BY <2>4, <1>1, <1>2
    <3> QED
      BY <2>1, <2>3, <2>4, <3>1, <1>6
  <2>5. CASE k < p /\ p <= k + C
    <3>1. p \in 1 .. L + C /\ p - k \in 1 .. C /\ ~(p <= k) /\ p <= k + (C + 1)
      BY <2>5, <1>1, <1>2
    <3>2. v[p] = c[p - k]
      BY <3>1, <2>5, <1>6
    <3> QED
      BY <2>1, <2>3, <2>5, <3>1, <3>2, <1>4
  <2>6. CASE p = k + C + 1
    <3>1. ~(p <= k) /\ ~(p <= k + C) /\ p <= k + (C + 1) /\ p <= k + C + 1
          /\ p - (k + C) = 1 /\ p - k = C + 1
      BY <2>6, <1>1, <1>2
    <3>2. x[p] = o[1] /\ y[p] = d[C + 1]
      BY <2>1, <2>3, <3>1
    <3> QED
      BY <3>2, <1>4, <1>9
  <2>7. CASE p > k + C + 1
    <3>1. /\ ~(p <= k) /\ ~(p <= k + C) /\ ~(p <= k + (C + 1)) /\ ~(p <= k + C + 1)
          /\ p - 1 \in 1 .. L + C /\ ~(p - 1 <= k) /\ ~(p - 1 <= k + C)
          /\ (p - 1) - C = p - (C + 1)
      BY <2>7, <1>1, <1>2
    <3>2. x[p] = v[p - 1] /\ y[p] = w[p - (C + 1)]
      BY <2>1, <2>3, <3>1
    <3>3. v[p - 1] = w[(p - 1) - C]
      BY <3>1, <1>6
    <3> QED
      BY <3>1, <3>2, <3>3
  <2> QED
    BY <2>4, <2>5, <2>6, <2>7, <1>1, <1>2
<1>15. x = [p \in 1 .. L + C + 1 |-> x[p]] /\ y = [p \in 1 .. L + C + 1 |-> y[p]]
  <2>1. L + C + 1 = L + (C + 1)
    BY <1>1, <1>2
  <2>2. x = [p \in 1 .. L + C + 1 |-> x[p]]
    BY <1>11
  <2>3. y = [p \in 1 .. L + (C + 1) |-> y[p]]
    BY <1>13
  <2> QED
    BY <2>1, <2>2, <2>3
<1>16. x = y
  BY <1>14, <1>15
<1> QED
  BY <1>2, <1>3, <1>5, <1>8, <1>10, <1>12, <1>16

(* t is s with the first values of vals inserted behind the first k nodes  *)
(* of list l, in the new nodes of c.                                       *)
Inserted(s, W, F, l, k, vals, t, V, G, c) ==
  /\ c \in Seq(Nodes) /\ Distinct(c) /\ Loose(c, W)
  /\ V = [W EXCEPT ![l] = Pasted(W[l], k, c)]
  /\ \A m \in Sentinels \ {l} : G[m] = F[m]
  /\ \A j \in 1 .. Len(c) : t.value[c[j]] = vals[j]
  /\ \A n \in Nodes \ Elements(c) : t.value[n] = s.value[n]
  /\ Room(t, l) = Room(s, l) - Len(c)

(* The states in which this is so of the first i.                          *)
Insertions(s, W, F, l, k, vals, i) ==
  {t \in States : \E V, G, K, c : /\ Sound(t, V, G, K)
                                  /\ Inserted(s, W, F, l, k, vals, t, V, G, c) /\ Len(c) = i}

(* Nothing has been inserted at first.                                     *)
LEMMA InsertNot ==
  ASSUME NEW s, NEW W, NEW F, NEW H, Sound(s, W, F, H), NEW l \in Sentinels,
         NEW k \in 0 .. Len(W[l]), NEW vals
  PROVE  s \in Insertions(s, W, F, l, k, vals, 0)
<1>1. W \in Sequences /\ W[l] \in Seq(Nodes) /\ s \in States /\ Room(s, l) \in Int
  <2>1. W \in Sequences /\ W[l] \in Seq(Nodes) /\ Len(F[l]) \in Nat
        /\ Cardinality(s.heap) \in Nat /\ Room(s, l) = Len(F[l]) + Cardinality(s.heap)
    BY SoundParts
  <2>2. s \in States
    BY DEF Sound
  <2> QED
    BY <2>1, <2>2
<1>2. PICK c : c = <<>>
  OBVIOUS
<1>3. c \in Seq(Nodes) /\ Len(c) = 0 /\ Elements(c) = {} /\ Distinct(c) /\ 1 .. Len(c) = {}
  BY <1>2 DEF Elements, Distinct
<1>4. Loose(c, W)
  BY <1>3 DEF Loose
<1>5. W = [W EXCEPT ![l] = Pasted(W[l], k, c)]
  <2>1. Pasted(W[l], k, c) = W[l]
    BY <1>1, <1>2, PastedNot
  <2> QED
    BY <2>1, <1>1 DEF Sequences
<1>6. Inserted(s, W, F, l, k, vals, s, W, F, c)
  BY <1>1, <1>3, <1>4, <1>5 DEF Inserted
<1> QED
  BY <1>1, <1>3, <1>6 DEF Insertions

(* One more value, while there is memory.                                  *)
LEMMA InsertRound ==
  ASSUME NEW s, NEW W, NEW F, NEW H, Sound(s, W, F, H), NEW l \in Sentinels,
         NEW k \in 0 .. Len(W[l]), NEW vals, NEW i \in Nat, i + 1 <= Room(s, l),
         vals[i + 1] \in Values, NEW t \in Insertions(s, W, F, l, k, vals, i)
  PROVE  emplace(t, l, Place(l, W[l], k + 1), vals[i + 1])
           \in Insertions(s, W, F, l, k, vals, i + 1)
<1>1. /\ W \in Sequences /\ W[l] \in Seq(Nodes) /\ Distinct(W[l])
      /\ Room(s, l) \in Nat /\ s.value \in [Nodes -> Values]
  BY SoundParts
<1>2. PICK V, G, K, c : /\ Sound(t, V, G, K)
                        /\ Inserted(s, W, F, l, k, vals, t, V, G, c) /\ Len(c) = i
  BY DEF Insertions
<1>3. /\ c \in Seq(Nodes) /\ Distinct(c) /\ Loose(c, W)
      /\ V = [W EXCEPT ![l] = Pasted(W[l], k, c)]
      /\ \A m \in Sentinels \ {l} : G[m] = F[m]
      /\ \A j \in 1 .. i : t.value[c[j]] = vals[j]
      /\ \A n \in Nodes \ Elements(c) : t.value[n] = s.value[n]
      /\ Room(t, l) = Room(s, l) - i
  BY <1>2 DEF Inserted
<1>4. V \in Sequences /\ V[l] \in Seq(Nodes) /\ t.value \in [Nodes -> Values]
  BY <1>2, SoundParts
<1>5. V[l] = Pasted(W[l], k, c) /\ \A m \in Sentinels \ {l} : V[m] = W[m]
  BY <1>1, <1>3 DEF Sequences
<1>6. PICK w \in Seq(Nodes) : w = W[l] /\ Distinct(w) /\ k \in 0 .. Len(w)
                              /\ Elements(c) \cap Elements(w) = {}
  BY <1>1, <1>3 DEF Loose
<1>7. PICK v : v = Pasted(w, k, c) /\ v = V[l]
  BY <1>5, <1>6
<1>8. PICK L \in Nat : L = Len(w) /\ k \in 0 .. L
  BY <1>6
<1>9. /\ v \in Seq(Nodes) /\ Len(v) = L + i
      /\ \A p \in 0 .. Len(v) + 1 :
           Place(l, v, p) = IF p <= k THEN Place(l, w, p)
                            ELSE IF p <= k + Len(c) THEN c[p - k]
                            ELSE Place(l, w, p - Len(c))
      /\ Elements(v) = Elements(w) \cup Elements(c)
  <2>1. c \in Seq(Nodes) /\ Distinct(c)
    BY <1>3
  <2>2. /\ Pasted(w, k, c) \in Seq(Nodes) /\ Len(Pasted(w, k, c)) = Len(w) + Len(c)
        /\ \A p \in 0 .. Len(Pasted(w, k, c)) + 1 :
             Place(l, Pasted(w, k, c), p) = IF p <= k THEN Place(l, w, p)
                                            ELSE IF p <= k + Len(c) THEN c[p - k]
                                            ELSE Place(l, w, p - Len(c))
        /\ Elements(Pasted(w, k, c)) = Elements(w) \cup Elements(c)
    BY <1>6, <2>1, PasteFacts
  <2> QED
    BY <2>2, <1>2, <1>7, <1>8
<1>10. Place(l, v, (k + i) + 1) = Place(l, w, k + 1)
  <2>1. (k + i) + 1 \in 0 .. Len(v) + 1 /\ ~((k + i) + 1 <= k) /\ ~((k + i) + 1 <= k + i)
        /\ ((k + i) + 1) - i = k + 1
    BY <1>8, <1>9
  <2> QED
    BY <2>1, <1>2, <1>9
<1>11. PICK j \in 0 .. Len(V[l]) : j = k + i
  BY <1>7, <1>8, <1>9
<1>12. Room(t, l) >= 1
  BY <1>1, <1>3
<1>13. PICK x \in Values : x = vals[i + 1]
  OBVIOUS
<1>14. PICK u : u = emplace(t, l, Place(l, V[l], j + 1), x)
  OBVIOUS
<1>15. PICK X, Y, Z, n : Sound(u, X, Y, Z) /\ Emplaced(t, V, G, l, j, x, u, X, Y, n)
  BY <1>2, <1>12, <1>14, EmplaceSound
<1>16. /\ n \in Nodes /\ \A m \in Sentinels : n \notin Elements(V[m])
       /\ X = [V EXCEPT ![l] = Pasted(V[l], j, <<n>>)]
       /\ \A m \in Sentinels \ {l} : Y[m] = G[m]
       /\ u.value = [t.value EXCEPT ![n] = x]
       /\ Room(u, l) = Room(t, l) - 1
  BY <1>15 DEF Emplaced
<1>17. PICK d : d = Append(c, n)
  OBVIOUS
<1>18. /\ d \in Seq(Nodes) /\ Len(d) = i + 1 /\ d[i + 1] = n /\ \A p \in 1 .. i : d[p] = c[p]
  BY <1>2, <1>3, <1>16, <1>17
<1>19. n \notin Elements(c) /\ \A p \in 1 .. i : c[p] # n /\ c[p] \in Elements(c)
  <2>1. n \notin Elements(c)
    BY <1>7, <1>9, <1>16
  <2> QED
    BY <2>1, <1>2 DEF Elements
<1>20. \A p \in 1 .. i + 1 : p \in 1 .. i \/ p = i + 1
  OBVIOUS
<1>21. Distinct(d)
  <2> SUFFICES ASSUME NEW p \in 1 .. i + 1, NEW q \in 1 .. i + 1, d[p] = d[q] PROVE p = q
    BY <1>18 DEF Distinct
  <2>1. \A a, b \in 1 .. i : c[a] = c[b] => a = b
    BY <1>2, <1>3 DEF Distinct
  <2>2. (p \in 1 .. i \/ p = i + 1) /\ (q \in 1 .. i \/ q = i + 1)
    BY <1>20
  <2> QED
    BY <2>1, <2>2, <1>18, <1>19
<1>22. Elements(d) = Elements(c) \cup {n}
  <2>1. Elements(d) = {d[p] : p \in 1 .. i + 1} /\ Elements(c) = {c[p] : p \in 1 .. i}
    BY <1>2, <1>18 DEF Elements
  <2>2. \A p \in 1 .. i : p \in 1 .. i + 1
    OBVIOUS
  <2>3. i + 1 \in 1 .. i + 1
    OBVIOUS
  <2>4. ASSUME NEW y PROVE y \in Elements(d) <=> y \in Elements(c) \/ y = n
    <3>1. ASSUME y \in Elements(d) PROVE y \in Elements(c) \/ y = n
      <4>1. PICK p \in 1 .. i + 1 : y = d[p]
        BY <2>1, <3>1
      <4> QED
        BY <4>1, <2>1, <1>18, <1>20
    <3>2. ASSUME y \in Elements(c) PROVE y \in Elements(d)
      <4>1. PICK p \in 1 .. i : y = c[p]
        BY <2>1, <3>2
      <4> QED
        BY <4>1, <2>1, <2>2, <1>18
    <3>3. n \in Elements(d)
      BY <2>1, <2>3, <1>18
    <3> QED
      BY <3>1, <3>2, <3>3
  <2> QED
    BY <2>4
<1>23. Loose(d, W)
  <2>1. ASSUME NEW m \in Sentinels PROVE n \notin Elements(W[m])
    <3>1. CASE m = l
      BY <3>1, <1>6, <1>7, <1>9, <1>16
    <3>2. CASE m # l
      BY <3>2, <1>5, <1>16
    <3> QED
      BY <3>1, <3>2
  <2> QED
    BY <2>1, <1>3, <1>22 DEF Loose
<1>24. X = [W EXCEPT ![l] = Pasted(W[l], k, d)]
  <2>1. Pasted(v, k + Len(c), <<n>>) = Pasted(w, k, d)
    <3>1. n \in Nodes /\ c \in Seq(Nodes)
      BY <1>3, <1>16
    <3>2. Pasted(Pasted(w, k, c), k + Len(c), <<n>>) = Pasted(w, k, Append(c, n))
      BY <3>1, <1>6, PastedMore
    <3> QED
      BY <3>2, <1>7, <1>17
  <2>2. X = [V EXCEPT ![l] = Pasted(w, k, d)]
    BY <2>1, <1>2, <1>7, <1>11, <1>16
  <2>3. X = [W EXCEPT ![l] = Pasted(w, k, d)]
    BY <2>2, <1>1, <1>3 DEF Sequences
  <2> QED
    BY <2>3, <1>6
<1>25. \A p \in 1 .. i + 1 : u.value[d[p]] = vals[p]
  <2>1. ASSUME NEW p \in 1 .. i + 1 PROVE u.value[d[p]] = vals[p]
    <3>1. CASE p \in 1 .. i
      <4>1. c[p] \in Nodes /\ c[p] # n /\ d[p] = c[p]
        BY <3>1, <1>2, <1>3, <1>18, <1>19
      <4> QED
        BY <3>1, <4>1, <1>3, <1>4, <1>16
    <3>2. CASE p = i + 1
      BY <3>2, <1>4, <1>13, <1>16, <1>18
    <3> QED
      BY <3>1, <3>2, <1>20
  <2> QED
    BY <2>1
<1>26. \A y \in Nodes \ Elements(d) : u.value[y] = s.value[y]
  BY <1>3, <1>4, <1>16, <1>22
<1>27. Room(u, l) = Room(s, l) - (i + 1)
  BY <1>1, <1>3, <1>16
<1>28. Inserted(s, W, F, l, k, vals, u, X, Y, d)
  BY <1>3, <1>16, <1>18, <1>21, <1>23, <1>24, <1>25, <1>26, <1>27 DEF Inserted
<1>29. u \in States
  BY <1>15 DEF Sound
<1>30. u \in Insertions(s, W, F, l, k, vals, i + 1)
  BY <1>15, <1>18, <1>28, <1>29 DEF Insertions
<1> QED
  BY <1>6, <1>7, <1>10, <1>11, <1>13, <1>14, <1>30

(* The loop of insert.                                                     *)
InsertedBy(f, s, l, pos, vals, N) ==
  f = [j \in 0 .. N |-> IF j = 0 THEN s ELSE emplace(f[j - 1], l, pos, vals[j])]

(* The first N values of a range, for which there is memory.               *)
LEMMA InsertSound ==
  ASSUME NEW s, NEW W, NEW F, NEW H, Sound(s, W, F, H), NEW l \in Sentinels,
         NEW k \in 0 .. Len(W[l]), NEW vals, NEW N \in Nat, N <= Room(s, l),
         \A i \in 1 .. N : vals[i] \in Values
  PROVE  InsertSome(s, l, Place(l, W[l], k + 1), vals, N) \in Insertions(s, W, F, l, k, vals, N)
<1>1. PICK pos : pos = Place(l, W[l], k + 1)
  OBVIOUS
<1>2. Room(s, l) \in Int
  <2>1. /\ Len(F[l]) \in Nat /\ Cardinality(s.heap) \in Nat
        /\ Room(s, l) = Len(F[l]) + Cardinality(s.heap)
    BY SoundParts
  <2> QED
    BY <2>1
<1>3. PICK D : D = [i \in 0 .. N |-> Insertions(s, W, F, l, k, vals, i)]
  OBVIOUS
<1>4. s \in D[0]
  <2>1. 0 \in 0 .. N
    OBVIOUS
  <2>2. s \in Insertions(s, W, F, l, k, vals, 0)
    BY InsertNot
  <2> QED
    BY <2>1, <2>2, <1>3
<1>5. ASSUME NEW i \in 1 .. N, NEW x \in D[i - 1] PROVE emplace(x, l, pos, vals[i]) \in D[i]
  <2>1. PICK j \in Nat : j = i - 1 /\ j + 1 = i /\ j + 1 <= Room(s, l)
    BY <1>2
  <2>2. i \in 0 .. N /\ i - 1 \in 0 .. N
    OBVIOUS
  <2>3. x \in Insertions(s, W, F, l, k, vals, j)
    BY <2>1, <2>2, <1>3
  <2>4. vals[j + 1] \in Values
    BY <2>1
  <2>5. emplace(x, l, Place(l, W[l], k + 1), vals[j + 1])
          \in Insertions(s, W, F, l, k, vals, j + 1)
    BY <2>1, <2>3, <2>4, InsertRound
  <2> QED
    BY <2>1, <2>2, <2>5, <1>1, <1>3
<1>6. \E f : InsertedBy(f, s, l, pos, vals, N)
  <2>1. PICK All : All = UNION {D[i] : i \in 0 .. N}
    OBVIOUS
  <2>2. PICK g : g = [i \in 1 .. N |-> [x \in All |-> emplace(x, l, pos, vals[i])]]
    OBVIOUS
  <2>3. ASSUME NEW i \in 1 .. N, NEW x \in D[i - 1]
        PROVE  g[i][x] = emplace(x, l, pos, vals[i]) /\ g[i][x] \in D[i]
    <3>1. i - 1 \in 0 .. N
      OBVIOUS
    <3>2. x \in All
      BY <3>1, <2>1
    <3> QED
      BY <3>2, <2>2, <1>5
  <2>4. PICK f : RoundsOf(f, N, D, s, g)
    BY <1>4, <2>3, RoundsExist
  <2>5. /\ f = [i \in 0 .. N |-> f[i]] /\ f[0] = s
        /\ \A i \in 0 .. N : f[i] \in D[i]
        /\ \A i \in 1 .. N : f[i] = g[i][f[i - 1]]
    BY <2>4 DEF RoundsOf
  <2>6. ASSUME NEW j \in 0 .. N
        PROVE  f[j] = IF j = 0 THEN s ELSE emplace(f[j - 1], l, pos, vals[j])
    <3>1. CASE j = 0
      BY <3>1, <2>5
    <3>2. CASE j # 0
      <4>1. j \in 1 .. N /\ j - 1 \in 0 .. N
        BY <3>2
      <4> QED
        BY <3>2, <4>1, <2>3, <2>5
    <3> QED
      BY <3>1, <3>2
  <2>7. f = [j \in 0 .. N |-> IF j = 0 THEN s ELSE emplace(f[j - 1], l, pos, vals[j])]
    BY <2>5, <2>6, Zenon
  <2> QED
    BY <2>7 DEF InsertedBy
<1>7. InsertSome(s, l, pos, vals, N) = (CHOOSE f : InsertedBy(f, s, l, pos, vals, N))[N]
  BY Zenon DEF InsertSome, InsertedBy
<1>8. PICK f : f = (CHOOSE g : InsertedBy(g, s, l, pos, vals, N))
               /\ InsertedBy(f, s, l, pos, vals, N)
  BY <1>6
<1>9. ASSUME NEW i \in 0 .. N
      PROVE  f[i] = IF i = 0 THEN s ELSE emplace(f[i - 1], l, pos, vals[i])
  <2>1. f = [j \in 0 .. N |-> IF j = 0 THEN s ELSE emplace(f[j - 1], l, pos, vals[j])]
    BY <1>8 DEF InsertedBy
  <2>2. f[i] = [j \in 0 .. N |-> IF j = 0 THEN s ELSE emplace(f[j - 1], l, pos, vals[j])][i]
    BY <2>1
  <2> QED
    BY <2>2, Zenon
<1>10. f[0] \in D[0]
  BY <1>4, <1>9
<1>11. ASSUME NEW i \in 1 .. N, f[i - 1] \in D[i - 1] PROVE f[i] \in D[i]
  <2>1. i \in 0 .. N /\ i # 0
    OBVIOUS
  <2>2. f[i] = emplace(f[i - 1], l, pos, vals[i])
    BY <2>1, <1>9
  <2> QED
    BY <2>2, <1>5, <1>11
<1>12. f[N] \in D[N] /\ N \in 0 .. N
  <2>1. \A i \in 0 .. N : f[i] \in D[i]
    BY <1>10, <1>11, RoundsKeep
  <2> QED
    BY <2>1
<1>13. f[N] \in Insertions(s, W, F, l, k, vals, N)
  BY <1>3, <1>12
<1> QED
  BY <1>1, <1>7, <1>8, <1>13

----------------------------------------------------------------------------
(* The inductive invariant                                                 *)

(* The temporary list has no nodes, and none are cached for it.            *)
TempFree(W, F) == W[Temp] = <<>> /\ F[Temp] = <<>>

(* There are sequences of nodes that the lists and the pools hold.         *)
Holds(s) == \E W, F, H : Sound(s, W, F, H) /\ TempFree(W, F)
IInv == Holds(Now)

(* What a step leads to.                                                   *)
Reaches(V, G, K) == Sound(Now', V, G, K) /\ TempFree(V, G)

(* The temporary list is none of the lists that stay.                      *)
LEMMA ListsApart ==
  /\ Temp \in Sentinels /\ \A l \in Lists : l \in Sentinels /\ l # Temp
  BY ListAssumption DEF Sentinels

(* A state that is reached is the next one.                                *)
LEMMA BecomesIs ==
  ASSUME NEW t \in States, Becomes(t)
  PROVE  Now' = t /\ value' = t.value
<1>1. Now' = [ring |-> ring', value |-> value', size |-> size_', pool |-> pool', heap |-> heap']
  BY DEF Now
<1>2. Now' = [ring |-> t.ring, value |-> t.value, size |-> t.size, pool |-> t.pool,
              heap |-> t.heap]
  BY <1>1 DEF Becomes
<1>3. t = [ring |-> t.ring, value |-> t.value, size |-> t.size, pool |-> t.pool,
           heap |-> t.heap]
  BY DEF States
<1> QED
  BY <1>2, <1>3 DEF Becomes

(* When a state is sound and becomes the next one, it is reached.          *)
LEMMA ReachesIs ==
  ASSUME NEW t, NEW V, NEW G, NEW K, Sound(t, V, G, K), TempFree(V, G), Becomes(t)
  PROVE  Reaches(V, G, K) /\ value' = t.value
<1>1. t \in States
  BY DEF Sound
<1>2. Now' = t /\ value' = t.value
  BY <1>1, BecomesIs
<1> QED
  BY <1>2 DEF Reaches

(* What does not concern a list leaves its nodes and its cache alone.      *)
LEMMA OthersSame ==
  ASSUME NEW s, NEW W, NEW F, NEW H, Sound(s, W, F, H),
         NEW t, NEW V, NEW G, NEW K, Sound(t, V, G, K),
         NEW L, Others(s, t, L), NEW m \in Sentinels, m \notin L
  PROVE  Len(V[m]) = Len(W[m]) /\ G[m] = F[m]
<1>1. s.size[m] = Len(W[m]) /\ PoolIs(s.pool[m], F[m])
  BY DEF Sound
<1>2. t.size[m] = Len(V[m]) /\ PoolIs(t.pool[m], G[m])
  BY DEF Sound
<1>3. t.size[m] = s.size[m] /\ t.pool[m] = s.pool[m]
  BY DEF Others
<1> QED
  BY <1>1, <1>2, <1>3 DEF PoolIs

(* The temporary list stays free when an operation leaves it alone.        *)
LEMMA TempStays ==
  ASSUME NEW s, NEW W, NEW F, NEW H, Sound(s, W, F, H), TempFree(W, F),
         NEW t, NEW V, NEW G, NEW K, Sound(t, V, G, K),
         NEW L, Others(s, t, L), Temp \notin L
  PROVE  TempFree(V, G)
<1>1. Len(V[Temp]) = Len(W[Temp]) /\ G[Temp] = F[Temp]
  BY ListsApart, OthersSame
<1>2. V[Temp] \in Seq(Nodes)
  BY ListsApart, SoundParts
<1>3. Len(W[Temp]) = 0
  BY DEF TempFree
<1>4. V[Temp] = <<>>
  BY <1>1, <1>2, <1>3, EmptySeq
<1> QED
  BY <1>1, <1>4 DEF TempFree

(* An iterator is a place of its list.                                     *)
LEMMA PositionIs ==
  ASSUME NEW W, Rings(ring, W), NEW l \in Sentinels
  PROVE  /\ Walk(ring, l) = W[l]
         /\ Positions(l) = Elements(W[l]) \cup {l}
         /\ \A pos \in Positions(l) : \E p \in 1 .. Len(W[l]) + 1 : pos = Place(l, W[l], p)
<1>1. PICK w \in Seq(Nodes) : w = W[l] /\ w = Walk(ring, l)
  <2>1. W[l] \in Seq(Nodes) /\ Walk(ring, l) = W[l]
    BY WalkIs DEF Rings, Sequences
  <2> QED
    BY <2>1
<1>2. Positions(l) = Elements(w) \cup {l}
  BY <1>1 DEF Positions, ToSet, Elements
<1>3. ASSUME NEW pos \in Positions(l) PROVE \E p \in 1 .. Len(w) + 1 : pos = Place(l, w, p)
  <2>0. PICK L \in Nat : L = Len(w)
    BY <1>1
  <2>1. CASE pos \in Elements(w)
    <3>1. PICK p \in 1 .. L : pos = w[p]
      BY <2>0, <2>1 DEF Elements
    <3>2. p \in 1 .. L + 1 /\ pos = Place(l, w, p)
      BY <3>1, <2>0 DEF Place
    <3> QED
      BY <3>2, <2>0
  <2>2. CASE pos = l
    <3>1. L + 1 \in 1 .. L + 1 /\ L + 1 \notin 1 .. L
      BY <2>0
    <3>2. pos = Place(l, w, L + 1)
      BY <3>1, <2>0, <2>2 DEF Place
    <3> QED
      BY <3>1, <3>2, <2>0
  <2> QED
    BY <1>2, <2>1, <2>2
<1> QED
  BY <1>1, <1>2, <1>3

(* The nodes of c go into list l, behind its first k, with values of vals. *)
Inserts(W, V, l, k, c, vals) ==
  /\ k \in 0 .. Len(W[l])
  /\ c \in Seq(Nodes) /\ Distinct(c) /\ Loose(c, W) /\ Len(c) <= Len(vals)
  /\ V[l] = Pasted(W[l], k, c) /\ \A m \in Sentinels \ {l} : V[m] = W[m]
  /\ \A j \in 1 .. Len(c) : value'[c[j]] = vals[j]
  /\ \A n \in Nodes \ Elements(c) : value'[n] = value[n]

(* An insertion reaches what it says, however far it comes.                *)
LEMMA InsertReaches ==
  ASSUME NEW s, NEW W, NEW F, NEW H, Sound(s, W, F, H), TempFree(W, F), s.value = value,
         NEW l \in Lists, NEW k \in 0 .. Len(W[l]), NEW vals \in Seq(Values),
         NEW i \in Reached(s, l, Len(vals)),
         NEW pos, pos = Place(l, W[l], k + 1), Becomes(InsertSome(s, l, pos, vals, i))
  PROVE  \E V, G, K, c : Reaches(V, G, K) /\ Inserts(W, V, l, k, c, vals)
<1>1. PICK N \in Nat : N = i /\ N <= Room(s, l) /\ N <= Len(vals)
  BY DEF Reached
<1>2. PICK t : t = InsertSome(s, l, pos, vals, N) /\ Becomes(t)
  BY <1>1
<1>3. l \in Sentinels /\ Temp \in Sentinels /\ l # Temp
  BY ListsApart
<1>4. t \in Insertions(s, W, F, l, k, vals, N)
  <2>1. \A j \in 1 .. N : vals[j] \in Values
    BY <1>1
  <2> QED
    BY <2>1, <1>1, <1>2, <1>3, InsertSound
<1>5. PICK V, G, K, c : Sound(t, V, G, K) /\ Inserted(s, W, F, l, k, vals, t, V, G, c) /\ Len(c) = N
  BY <1>4 DEF Insertions
<1>6. /\ c \in Seq(Nodes) /\ Distinct(c) /\ Loose(c, W)
      /\ V = [W EXCEPT ![l] = Pasted(W[l], k, c)]
      /\ \A m \in Sentinels \ {l} : G[m] = F[m]
      /\ \A j \in 1 .. Len(c) : t.value[c[j]] = vals[j]
      /\ \A n \in Nodes \ Elements(c) : t.value[n] = s.value[n]
  BY <1>5 DEF Inserted
<1>7. W \in Sequences
  BY SoundParts
<1>8. V[l] = Pasted(W[l], k, c) /\ \A m \in Sentinels \ {l} : V[m] = W[m]
  BY <1>3, <1>6, <1>7 DEF Sequences
<1>9. TempFree(V, G)
  BY <1>3, <1>6, <1>8 DEF TempFree
<1>10. Reaches(V, G, K) /\ value' = t.value
  BY <1>2, <1>5, <1>9, ReachesIs
<1>11. Inserts(W, V, l, k, c, vals)
  BY <1>1, <1>5, <1>6, <1>8, <1>10 DEF Inserts
<1> QED
  BY <1>10, <1>11

----------------------------------------------------------------------------
(* The steps                                                               *)

(* Only list l changes, to v.                                              *)
Sets(W, V, l, v) == V[l] = v /\ \A m \in Sentinels \ {l} : V[m] = W[m]

(* Only list l changes, and keeps the places of P.                         *)
Thins(W, V, l, P) ==
  /\ \E e : Thinned(W[l], V[l], P, e)
  /\ \A m \in Sentinels \ {l} : V[m] = W[m]
  /\ value' = value

(* insert.                                                                 *)
LEMMA InsertStep ==
  ASSUME NEW W, NEW F, NEW H, Sound(Now, W, F, H), TempFree(W, F),
         NEW l \in Lists, NEW vals \in Seq(Values), NEW pos \in Positions(l),
         insert(l, pos, vals)
  PROVE  \E V, G, K, k, c : Reaches(V, G, K) /\ Inserts(W, V, l, k, c, vals)
<1>1. l \in Sentinels /\ Rings(ring, W) /\ Now.value = value
  BY ListsApart DEF Sound, Now
<1>2. PICK p \in 1 .. Len(W[l]) + 1 : pos = Place(l, W[l], p)
  BY <1>1, PositionIs
<1>3. Len(W[l]) \in Nat
  BY <1>1, SoundParts
<1>4. PICK k \in 0 .. Len(W[l]) : k + 1 = p
  <2>1. p - 1 \in 0 .. Len(W[l]) /\ (p - 1) + 1 = p
    BY <1>3
  <2> QED
    BY <2>1
<1>5. PICK i \in Reached(Now, l, Len(vals)) : Becomes(InsertSome(Now, l, pos, vals, i))
  BY DEF insert
<1>6. \E V, G, K, c : Reaches(V, G, K) /\ Inserts(W, V, l, k, c, vals)
  BY <1>1, <1>2, <1>4, <1>5, InsertReaches
<1> QED
  BY <1>6

(* clear.                                                                  *)
LEMMA ClearReaches ==
  ASSUME NEW W, NEW F, NEW H, Sound(Now, W, F, H), TempFree(W, F), NEW l \in Lists
  PROVE  \E s, V, G, K : /\ s = clear(Now, l) /\ Sound(s, V, G, K) /\ TempFree(V, G)
                         /\ s.value = value /\ V = [W EXCEPT ![l] = <<>>]
<1>1. l \in Sentinels /\ Now.value = value /\ Temp \notin {l}
  BY ListsApart DEF Now
<1>2. PICK s, V : s = clear(Now, l) /\ V = [W EXCEPT ![l] = <<>>]
  OBVIOUS
<1>3. PICK G, K : Sound(s, V, G, K)
  BY <1>1, <1>2, ClearSound
<1>4. s.value = value /\ Others(Now, s, {l})
  BY <1>1, <1>2, ClearSound
<1>5. TempFree(V, G)
  BY <1>1, <1>3, <1>4, TempStays
<1> QED
  BY <1>2, <1>3, <1>4, <1>5

(* clear.                                                                  *)
LEMMA ClearStep ==
  ASSUME NEW W, NEW F, NEW H, Sound(Now, W, F, H), TempFree(W, F), NEW l \in Lists, Clear(l)
  PROVE  \E V, G, K : Reaches(V, G, K) /\ Sets(W, V, l, <<>>) /\ value' = value
<1>1. PICK s, V, G, K : /\ s = clear(Now, l) /\ Sound(s, V, G, K) /\ TempFree(V, G)
                        /\ s.value = value /\ V = [W EXCEPT ![l] = <<>>]
  BY ClearReaches
<1>2. Reaches(V, G, K) /\ value' = value
  BY <1>1, ReachesIs DEF Clear
<1>3. W \in Sequences /\ l \in Sentinels
  BY SoundParts, ListsApart
<1>4. Sets(W, V, l, <<>>)
  BY <1>1, <1>3 DEF Sets, Sequences
<1> QED
  BY <1>2, <1>4

(* assign clears the list and inserts.                                     *)
LEMMA AssignStep ==
  ASSUME NEW W, NEW F, NEW H, Sound(Now, W, F, H), TempFree(W, F),
         NEW l \in Lists, NEW vals \in Seq(Values), assign(l, vals)
  PROVE  \E U, V, G, K, c : /\ Reaches(V, G, K) /\ Sets(W, U, l, <<>>)
                            /\ Inserts(U, V, l, 0, c, vals)
<1>1. PICK s, U, G, K : /\ s = clear(Now, l) /\ Sound(s, U, G, K) /\ TempFree(U, G)
                        /\ s.value = value /\ U = [W EXCEPT ![l] = <<>>]
  BY ClearReaches
<1>2. W \in Sequences /\ l \in Sentinels /\ Temp \in Sentinels
  BY SoundParts, ListsApart
<1>3. Sets(W, U, l, <<>>) /\ U[l] = <<>>
  BY <1>1, <1>2 DEF Sets, Sequences
<1>4. s.ring.next[l] = Place(l, U[l], 0 + 1) /\ 0 \in 0 .. Len(U[l])
  <2>1. IsRing(s.ring, l, U[l])
    BY <1>1, <1>2 DEF Sound, Rings
  <2>2. 0 \in 0 .. Len(U[l])
    BY <1>3
  <2>3. s.ring.next[Place(l, U[l], 0)] = Place(l, U[l], 0 + 1) /\ Place(l, U[l], 0) = l
    BY <2>1, <2>2 DEF IsRing, Place
  <2> QED
    BY <2>2, <2>3
<1>5. PICK i \in Reached(s, l, Len(vals)) :
        Becomes(InsertSome(s, l, s.ring.next[l], vals, i))
  BY <1>1 DEF assign
<1>6. PICK pos, k : pos = s.ring.next[l] /\ k = 0 /\ pos = Place(l, U[l], k + 1)
                    /\ k \in 0 .. Len(U[l])
  BY <1>4
<1>7. \E V, X, Y, c : Reaches(V, X, Y) /\ Inserts(U, V, l, k, c, vals)
  BY <1>1, <1>5, <1>6, InsertReaches
<1> QED
  BY <1>3, <1>6, <1>7

(* shrink_to_fit.                                                          *)
LEMMA ShrinkStep ==
  ASSUME NEW W, NEW F, NEW H, Sound(Now, W, F, H), TempFree(W, F), NEW l \in Lists,
         ShrinkToFit(l)
  PROVE  \E G, K : Reaches(W, G, K) /\ value' = value
<1>1. l \in Sentinels /\ Now.value = value /\ Temp \notin {l}
  BY ListsApart DEF Now
<1>2. PICK s, G : s = shrink_to_fit(Now, l) /\ G = [F EXCEPT ![l] = <<>>]
  OBVIOUS
<1>3. (\E K : Sound(s, W, G, K)) /\ s.value = value /\ Others(Now, s, {l})
  BY <1>1, <1>2, ShrinkSound
<1>4. PICK K : Sound(s, W, G, K)
  BY <1>3
<1>5. TempFree(W, G)
  BY <1>1, <1>3, <1>4, TempStays
<1>6. Becomes(s)
  BY <1>2 DEF ShrinkToFit
<1> QED
  BY <1>3, <1>4, <1>5, <1>6, ReachesIs

(* What leaves some places of a list.                                      *)
LEMMA ThinReaches ==
  ASSUME NEW W, NEW F, NEW H, Sound(Now, W, F, H), TempFree(W, F), NEW l \in Lists,
         NEW P, NEW t \in Thinnings(Now, W, l, P), Becomes(t)
  PROVE  \E V, G, K : Reaches(V, G, K) /\ Thins(W, V, l, P)
<1>1. PICK V, G, K, e : Sound(t, V, G, K) /\ Thinner(Now, W, l, P, t, V, e)
  BY DEF Thinnings
<1>2. /\ Thinned(W[l], V[l], P, e) /\ \A m \in Sentinels \ {l} : V[m] = W[m]
      /\ t.value = Now.value /\ Others(Now, t, {l})
  BY <1>1 DEF Thinner
<1>3. Temp \notin {l} /\ Now.value = value
  BY ListsApart DEF Now
<1>4. TempFree(V, G)
  BY <1>1, <1>2, <1>3, TempStays
<1>5. Reaches(V, G, K) /\ value' = t.value
  BY <1>1, <1>4, ReachesIs
<1>6. Thins(W, V, l, P)
  BY <1>2, <1>3, <1>5 DEF Thins
<1> QED
  BY <1>5, <1>6

(* erase of the places from i up to the one before j.                      *)
LEMMA EraseStep ==
  ASSUME NEW W, NEW F, NEW H, Sound(Now, W, F, H), TempFree(W, F), NEW l \in Lists,
         NEW i \in 1 .. Len(W[l]) + 1, NEW j \in i .. Len(W[l]) + 1,
         Erase(l, Place(l, W[l], i), Place(l, W[l], j))
  PROVE  \E V, G, K : Reaches(V, G, K) /\ Thins(W, V, l, (1 .. Len(W[l])) \ (i .. j - 1))
<1>1. l \in Sentinels /\ Rings(ring, W)
  BY ListsApart DEF Sound, Now
<1>2. PICK w \in Seq(Nodes) : w = W[l]
  BY <1>1, SoundParts
<1>3. PICK L \in Nat : L = Len(w) /\ i \in 1 .. L + 1 /\ j \in i .. L + 1
  BY <1>2
<1>4. PICK nodes : nodes = Between(ring, Place(l, W[l], i), Place(l, W[l], j))
  OBVIOUS
<1>5. nodes = SubSeq(w, i, j - 1)
  BY <1>1, <1>2, <1>4, BetweenPlaces
<1>6. PICK d \in Nat : d = j - i
  BY <1>3
<1>7. nodes \in Seq(Nodes) /\ Len(nodes) = d /\ \A p \in 1 .. d : nodes[p] = w[p + (i - 1)]
  <2>1. \A p \in i .. j - 1 : p \in 1 .. L
    BY <1>3
  <2>2. \A p \in i .. j - 1 : w[p] \in Nodes
    BY <1>2, <1>3, <2>1
  <2>3. nodes \in Seq(Nodes) /\ Len(nodes) = (j - 1) - i + 1
        /\ \A p \in 1 .. (j - 1) - i + 1 : nodes[p] = w[i + p - 1]
    <3>1. i <= (j - 1) + 1 /\ i \in Int /\ j - 1 \in Int
      BY <1>3
    <3>2. \A p \in i .. j - 1 : w[p] \in Nodes
      BY <2>2
    <3> QED
      BY <3>1, <3>2, <1>5, SubSeqProperties
  <2>4. (j - 1) - i + 1 = d
    BY <1>3, <1>6
  <2>5. \A p \in 1 .. d : i + p - 1 = p + (i - 1)
    BY <1>3
  <2> QED
    BY <2>3, <2>4, <2>5
<1>8. PICK a : a = [p \in 1 .. d |-> p + (i - 1)]
  OBVIOUS
<1>9. /\ a \in [1 .. d -> 1 .. L] /\ \A p \in 1 .. d : a[p] = p + (i - 1)
      /\ \A p, q \in 1 .. d : a[p] = a[q] => p = q
  <2>1. \A p \in 1 .. d : p + (i - 1) \in 1 .. L
    BY <1>3, <1>6
  <2>2. \A p, q \in 1 .. d : p + (i - 1) = q + (i - 1) => p = q
    BY <1>3
  <2> QED
    BY <1>8, <2>1, <2>2
<1>10. {a[p] : p \in 1 .. d} = i .. j - 1
  <2>1. ASSUME NEW q \in i .. j - 1 PROVE \E p \in 1 .. d : a[p] = q
    <3>1. q - (i - 1) \in 1 .. d /\ (q - (i - 1)) + (i - 1) = q
      BY <1>3, <1>6
    <3> QED
      BY <3>1, <1>9
  <2>2. ASSUME NEW p \in 1 .. d PROVE a[p] \in i .. j - 1
    <3>1. p + (i - 1) \in i .. j - 1
      BY <1>3, <1>6
    <3> QED
      BY <3>1, <1>9
  <2> QED
    BY <2>1, <2>2
<1>11. PICK t : t = EraseAll(Now, l, nodes) /\ Becomes(t)
  BY <1>4 DEF Erase
<1>12. t \in Thinnings(Now, W, l, (1 .. L) \ {a[p] : p \in 1 .. d})
  <2>1. PlacesAre(W[l], nodes, a)
    BY <1>2, <1>3, <1>7, <1>9, Zenon DEF PlacesAre
  <2>2. EraseAll(Now, l, nodes) \in Thinnings(Now, W, l, PlacesLeft(W[l], nodes, a))
    BY <1>1, <2>1, EraseAllSound
  <2> QED
    BY <2>2, <1>2, <1>3, <1>7, <1>11 DEF PlacesLeft
<1>13. PICK P : P = (1 .. Len(W[l])) \ (i .. j - 1)
  OBVIOUS
<1>14. t \in Thinnings(Now, W, l, P)
  BY <1>2, <1>3, <1>10, <1>12, <1>13
<1>15. \E V, G, K : Reaches(V, G, K) /\ Thins(W, V, l, P)
  BY <1>11, <1>14, ThinReaches
<1> QED
  BY <1>13, <1>15

(* resize, to a smaller size or to a larger one.                           *)
LEMMA ShorterStep ==
  ASSUME NEW W, NEW F, NEW H, Sound(Now, W, F, H), TempFree(W, F), NEW l \in Lists,
         NEW count \in Nat, NEW v \in Values, size_[l] >= count, resize(l, count, v)
  PROVE  \E V, G, K :
           /\ Reaches(V, G, K)
           /\ Thins(W, V, l, (1 .. Len(W[l])) \ (count + 1 .. Len(W[l])))
<1>1. l \in Sentinels /\ Rings(ring, W) /\ size_[l] = Len(W[l])
  BY ListsApart DEF Sound, Now
<1>2. PICK w \in Seq(Nodes) : w = W[l] /\ w = Walk(ring, l)
  <2>1. W[l] \in Seq(Nodes) /\ Walk(ring, l) = W[l]
    BY <1>1, SoundParts, WalkIs
  <2> QED
    BY <2>1
<1>3. PICK L \in Nat : L = Len(w) /\ L = size_[l] /\ count <= L
  BY <1>1, <1>2
<1>4. PICK s : s = SubSeq(w, count + 1, L)
  OBVIOUS
<1>5. PICK d \in Nat : d = L - count
  BY <1>3
<1>6. s \in Seq(Nodes) /\ Len(s) = d /\ \A p \in 1 .. d : s[p] = w[p + count]
  <2>1. \A p \in count + 1 .. L : w[p] \in Nodes
    <3>1. \A p \in 1 .. L : w[p] \in Nodes
      <4>1. L = Len(w)
        BY <1>3
      <4>2. w \in Seq(Nodes)
        BY <1>2
      <4> HIDE <1>1
      <4> QED
        BY <4>1, <4>2
    <3>2. \A p \in count + 1 .. L : p \in 1 .. L
      BY <1>3
    <3> QED
      BY <3>1, <3>2
  <2>2. /\ s \in Seq(Nodes)
        /\ Len(s) = IF count + 1 <= L THEN L - (count + 1) + 1 ELSE 0
        /\ \A p \in 1 .. L - (count + 1) + 1 : s[p] = w[(count + 1) + p - 1]
    <3>1. count + 1 \in Int /\ L \in Int
      OBVIOUS
    <3> QED
      BY <2>1, <3>1, <1>4, SubSeqProperties
  <2>3. L - (count + 1) + 1 = d /\ (IF count + 1 <= L THEN L - (count + 1) + 1 ELSE 0) = d
        /\ \A p \in 1 .. d : (count + 1) + p - 1 = p + count
    BY <1>3, <1>5
  <2> QED
    BY <2>2, <2>3
<1>7. PICK nodes : nodes = Reverse(s)
  OBVIOUS
<1>8. nodes = [p \in 1 .. d |-> s[d - p + 1]]
  BY <1>6, <1>7 DEF Reverse
<1>9. PICK a : a = [p \in 1 .. d |-> L + 1 - p]
  OBVIOUS
<1>10. /\ a \in [1 .. d -> 1 .. L] /\ \A p \in 1 .. d : a[p] = L + 1 - p
       /\ \A p, q \in 1 .. d : a[p] = a[q] => p = q
  <2>1. \A p \in 1 .. d : L + 1 - p \in 1 .. L
    BY <1>3, <1>5
  <2>2. \A p, q \in 1 .. d : L + 1 - p = L + 1 - q => p = q
    BY <1>3
  <2> QED
    BY <1>9, <2>1, <2>2
<1>11. \A p \in 1 .. d : nodes[p] = w[a[p]] /\ nodes[p] \in Nodes
  <2>1. ASSUME NEW p \in 1 .. d PROVE nodes[p] = w[a[p]] /\ nodes[p] \in Nodes
    <3>1. d - p + 1 \in 1 .. d /\ (d - p + 1) + count = L + 1 - p
      BY <1>3, <1>5, SMTT(20)
    <3>2. nodes[p] = s[d - p + 1]
      BY <1>8
    <3>3. s[d - p + 1] = w[(d - p + 1) + count] /\ s[d - p + 1] \in Nodes
      BY <3>1, <1>6
    <3>4. a[p] = L + 1 - p
      BY <1>10
    <3> QED
      BY <3>1, <3>2, <3>3, <3>4
  <2> QED
    BY <2>1
<1>12. nodes \in Seq(Nodes) /\ Len(nodes) = d
  <2>1. nodes = [p \in 1 .. d |-> nodes[p]]
    BY <1>8
  <2> QED
    BY <2>1, <1>11
<1>13. {a[p] : p \in 1 .. d} = count + 1 .. L
  <2>1. ASSUME NEW q \in count + 1 .. L PROVE \E p \in 1 .. d : a[p] = q
    <3>1. L + 1 - q \in 1 .. d /\ L + 1 - (L + 1 - q) = q
      BY <1>3, <1>5
    <3> QED
      BY <3>1, <1>10
  <2>2. ASSUME NEW p \in 1 .. d PROVE a[p] \in count + 1 .. L
    <3>1. L + 1 - p \in count + 1 .. L
      BY <1>3, <1>5
    <3> QED
      BY <3>1, <1>10
  <2> QED
    BY <2>1, <2>2
<1>14. PICK t : t = EraseAll(Now, l, nodes) /\ Becomes(t)
  BY <1>2, <1>3, <1>4, <1>7 DEF resize
<1>15. PlacesAre(W[l], nodes, a)
  BY <1>2, <1>3, <1>10, <1>11, <1>12 DEF PlacesAre
<1>16. PICK P : P = (1 .. Len(W[l])) \ (count + 1 .. Len(W[l]))
  OBVIOUS
<1>17. t \in Thinnings(Now, W, l, P)
  <2>1. EraseAll(Now, l, nodes) \in Thinnings(Now, W, l, PlacesLeft(W[l], nodes, a))
    BY <1>1, <1>15, EraseAllSound
  <2>2. PlacesLeft(W[l], nodes, a) = P
    BY <1>2, <1>3, <1>12, <1>13, <1>16 DEF PlacesLeft
  <2> QED
    BY <2>1, <2>2, <1>14
<1>18. \E V, G, K : Reaches(V, G, K) /\ Thins(W, V, l, P)
  BY <1>14, <1>17, ThinReaches
<1> QED
  BY <1>16, <1>18

(* resize to a larger size.                                                *)
LEMMA LongerStep ==
  ASSUME NEW W, NEW F, NEW H, Sound(Now, W, F, H), TempFree(W, F), NEW l \in Lists,
         NEW count \in Nat, NEW v \in Values, size_[l] < count, resize(l, count, v)
  PROVE  \E V, G, K, k, c, n :
           n \in Nat /\ Reaches(V, G, K) /\ Inserts(W, V, l, k, c, [j \in 1 .. n |-> v])
<1>1. l \in Sentinels /\ size_[l] = Len(W[l]) /\ Now.value = value
  BY ListsApart DEF Sound, Now
<1>2. PICK L \in Nat : L = Len(W[l]) /\ L = size_[l]
  BY <1>1, SoundParts
<1>3. PICK n \in Nat : n = count - size_[l]
  BY <1>2
<1>4. PICK vals : vals = [j \in 1 .. n |-> v]
  OBVIOUS
<1>5. vals \in Seq(Values) /\ Len(vals) = n
  BY <1>4
<1>6. PICK k \in 0 .. Len(W[l]) : k = L
  BY <1>2
<1>7. l = Place(l, W[l], k + 1)
  <2>1. k + 1 \notin 1 .. Len(W[l])
    BY <1>2, <1>6
  <2> QED
    BY <2>1 DEF Place
<1>8. PICK i \in Reached(Now, l, Len(vals)) : Becomes(InsertSome(Now, l, l, vals, i))
  <2>1. \E i \in Reached(Now, l, count - size_[l]) :
          Becomes(InsertSome(Now, l, l, [j \in 1 .. count - size_[l] |-> v], i))
    <3>1. ~(size_[l] >= count)
      BY <1>2
    <3> QED
      BY <3>1 DEF resize
  <2> QED
    BY <2>1, <1>3, <1>4, <1>5
<1>9. \E V, G, K, c : Reaches(V, G, K) /\ Inserts(W, V, l, k, c, vals)
  BY <1>1, <1>5, <1>7, <1>8, InsertReaches
<1> QED
  BY <1>4, <1>9

(* remove_if.                                                              *)
LEMMA RemoveStep ==
  ASSUME NEW W, NEW F, NEW H, Sound(Now, W, F, H), TempFree(W, F), NEW l \in Lists,
         NEW matching, remove_if(l, matching)
  PROVE  \E V, G, K : \E i \in 0 .. Len(W[l]) :
           Reaches(V, G, K) /\ Thins(W, V, l, LeftBy(W[l], matching, i))
<1>1. l \in Sentinels /\ Rings(ring, W) /\ size_[l] = Len(W[l])
  BY ListsApart DEF Sound, Now
<1>2. Walk(ring, l) = W[l]
  BY <1>1, WalkIs
<1>3. PICK i \in 0 .. size_[l] :
        Becomes((CHOOSE f : RemovedBy(f, Now, l, Walk(ring, l), matching, i))[i])
  BY Zenon DEF remove_if, RemovedBy
<1>4. PICK t : t = (CHOOSE f : RemovedBy(f, Now, l, W[l], matching, i))[i] /\ Becomes(t)
  BY <1>2, <1>3
<1>5. t \in Thinnings(Now, W, l, LeftBy(W[l], matching, i))
  BY <1>1, <1>4, RemoveSound
<1>6. \E V, G, K : Reaches(V, G, K) /\ Thins(W, V, l, LeftBy(W[l], matching, i))
  BY <1>4, <1>5, ThinReaches
<1> QED
  BY <1>1, <1>6

(* unique.                                                                 *)
LEMMA UniqueStep ==
  ASSUME NEW W, NEW F, NEW H, Sound(Now, W, F, H), TempFree(W, F), NEW l \in Lists,
         unique(l)
  PROVE  \E V, G, K : \E i \in 1 .. Len(W[l]) :
           Reaches(V, G, K) /\ Thins(W, V, l, FirstOfRuns(W[l], i))
<1>1. l \in Sentinels /\ Rings(ring, W) /\ size_[l] = Len(W[l])
  BY ListsApart DEF Sound, Now
<1>2. Walk(ring, l) = W[l] /\ Len(W[l]) \in Nat
  BY <1>1, WalkIs, SoundParts
<1>3. PICK i \in 0 .. size_[l] - 1 :
        Becomes((CHOOSE f : UniqueBy(f, Now, l, Walk(ring, l), i))[i].state)
  BY Zenon DEF unique, UniqueBy, Visited
<1>4. PICK t : t = (CHOOSE f : UniqueBy(f, Now, l, W[l], i))[i].state /\ Becomes(t)
  BY <1>2, <1>3
<1>5. t \in Thinnings(Now, W, l, FirstOfRuns(W[l], i + 1))
  BY <1>1, <1>4, UniqueSound
<1>6. \E V, G, K : Reaches(V, G, K) /\ Thins(W, V, l, FirstOfRuns(W[l], i + 1))
  BY <1>4, <1>5, ThinReaches
<1>7. i + 1 \in 1 .. Len(W[l])
  BY <1>1, <1>2
<1> QED
  BY <1>6, <1>7

(* When only links change.                                                 *)
LEMMA RelinksNow ==
  ASSUME NEW W, NEW F, NEW H, Sound(Now, W, F, H), NEW q \in RingShape, ring' = q,
         UNCHANGED <<value, size_, pool, heap>>
  PROVE  Relinks(Now, Now', q)
<1>1. Now \in States
  BY DEF Sound
<1>2. /\ value \in [Nodes -> Values] /\ size_ \in [Sentinels -> Nat]
      /\ pool \in [Sentinels -> Pools] /\ heap \in SUBSET Nodes
  BY <1>1 DEF Now, States
<1>3. Now' = [ring |-> q, value |-> value, size |-> size_, pool |-> pool, heap |-> heap]
  BY DEF Now
<1>4. Now' \in States
  BY <1>2, <1>3 DEF States
<1> QED
  BY <1>3, <1>4 DEF Relinks, Now

(* A state with one list in another order is reached.                      *)
LEMMA ReorderReaches ==
  ASSUME NEW W, NEW F, NEW H, Sound(Now, W, F, H), TempFree(W, F), NEW l \in Lists,
         NEW v, Sound(Now', [W EXCEPT ![l] = v], F, H)
  PROVE  \E V : Reaches(V, F, H) /\ Sets(W, V, l, v)
<1>1. PICK V : V = [W EXCEPT ![l] = v]
  OBVIOUS
<1>2. W \in Sequences
  BY SoundParts
<1>3. Sets(W, V, l, v)
  BY <1>1, <1>2, ListsApart DEF Sets, Sequences
<1>4. TempFree(V, F)
  BY <1>3, ListsApart DEF TempFree, Sets
<1> QED
  BY <1>1, <1>3, <1>4 DEF Reaches

(* reverse.                                                                *)
LEMMA ReverseStep ==
  ASSUME NEW W, NEW F, NEW H, Sound(Now, W, F, H), TempFree(W, F), NEW l \in Lists,
         reverse(l)
  PROVE  \E V, G, K : Reaches(V, G, K) /\ Sets(W, V, l, Reverse(W[l])) /\ value' = value
<1>1. l \in Sentinels /\ Rings(ring, W) /\ Now.ring = ring
  BY ListsApart DEF Sound, Now
<1>2. PICK P : P = Elements(W[l]) \cup {l} /\ P = Positions(l)
  BY <1>1, PositionIs
<1>3. ring' = TurnedRing(ring, P) /\ UNCHANGED <<value, size_, pool, heap>>
  BY <1>2 DEF reverse, TurnedRing
<1>4. PICK q : q = TurnedRing(ring, P) /\ q \in RingShape
  <2>1. Rings(TurnedRing(ring, Elements(W[l]) \cup {l}), [W EXCEPT ![l] = Reverse(W[l])])
    BY <1>1, ReverseRings
  <2> QED
    BY <2>1, <1>2 DEF Rings
<1>5. Relinks(Now, Now', q)
  BY <1>3, <1>4, RelinksNow
<1>6. Relinks(Now, Now', TurnedRing(Now.ring, Elements(W[l]) \cup {l}))
  BY <1>1, <1>2, <1>4, <1>5
<1>7. Sound(Now', [W EXCEPT ![l] = Reverse(W[l])], F, H)
  BY <1>1, <1>6, ReverseSound
<1>8. PICK v : v = Reverse(W[l]) /\ Sound(Now', [W EXCEPT ![l] = v], F, H)
  BY <1>7
<1> QED
  BY <1>3, <1>8, ReorderReaches

(* sort.                                                                   *)
LEMMA SortStep ==
  ASSUME NEW W, NEW F, NEW H, Sound(Now, W, F, H), TempFree(W, F), NEW l \in Lists,
         sort(l)
  PROVE  \E V, G, K : Reaches(V, G, K) /\ Sets(W, V, l, stable_sort(W[l])) /\ value' = value
<1>1. l \in Sentinels /\ Rings(ring, W) /\ Now.ring = ring /\ Now.value = value
  BY ListsApart DEF Sound, Now
<1>2. ring \in RingShape /\ value \in [Nodes -> Values]
  BY <1>1, SoundParts DEF Rings
<1>3. PICK w \in Seq(Nodes) : w = Walk(ring, l) /\ Distinct(w)
  <2>1. W[l] \in Seq(Nodes) /\ Distinct(W[l]) /\ Walk(ring, l) = W[l]
    BY <1>1, WalkIs, SoundParts
  <2> QED
    BY <2>1
<1>4. PICK q : q = relink_nodes_in_order(ring, l, stable_sort(w))
  OBVIOUS
<1>5. q \in RingShape
  <2>1. PICK x : x = stable_sort(w) /\ x \in Seq(Nodes) /\ Distinct(x)
    BY <1>2, <1>3, SortedFacts
  <2> QED
    BY <2>1, <1>1, <1>2, <1>4, RelinkRing
<1>6. ring' = q /\ UNCHANGED <<value, size_, pool, heap>>
  BY <1>3, <1>4 DEF sort
<1>7. Relinks(Now, Now', q)
  BY <1>5, <1>6, RelinksNow
<1>8. Relinks(Now, Now', relink_nodes_in_order(Now.ring, l, stable_sort(Walk(Now.ring, l))))
  BY <1>1, <1>3, <1>4, <1>7
<1>9. Sound(Now', [W EXCEPT ![l] = stable_sort(W[l])], F, H)
  BY <1>1, <1>8, SortSound
<1>10. PICK v : v = stable_sort(W[l]) /\ Sound(Now', [W EXCEPT ![l] = v], F, H)
  BY <1>9
<1> QED
  BY <1>6, <1>10, ReorderReaches

(* merge.                                                                  *)
LEMMA MergeStep ==
  ASSUME NEW W, NEW F, NEW H, Sound(Now, W, F, H), TempFree(W, F),
         NEW l \in Lists, NEW m \in Lists, merge(l, m)
  PROVE  /\ \E V, G, K : Reaches(V, G, K) /\ V = MergedLists(W, l, m)
         /\ l # m /\ value' = value
<1>1. /\ l \in Sentinels /\ m \in Sentinels /\ Rings(ring, W)
      /\ Now.ring = ring /\ Now.value = value
  BY ListsApart DEF Sound, Now
<1>2. /\ l # m /\ size_' = [size_ EXCEPT ![l] = @ + size_[m], ![m] = 0]
      /\ UNCHANGED <<value, pool, heap>>
  BY DEF merge
<1>3. PICK nodes : nodes = stable_sort(Walk(ring, l) \o Walk(ring, m))
  OBVIOUS
<1>4. PICK q : /\ q = reset_sentinel(relink_nodes_in_order(ring, l, nodes), m)
               /\ ring' = q
  BY <1>3 DEF merge
<1>5. ring \in RingShape /\ value \in [Nodes -> Values]
  BY <1>1, SoundParts DEF Rings
<1>6. q \in RingShape
  <2>1. PICK w, x \in Seq(Nodes) : /\ w = Walk(ring, l) /\ Distinct(w)
                                   /\ x = Walk(ring, m) /\ Distinct(x)
                                   /\ Elements(w) \cap Elements(x) = {}
    <3>1. /\ W[l] \in Seq(Nodes) /\ Distinct(W[l]) /\ Walk(ring, l) = W[l]
          /\ W[m] \in Seq(Nodes) /\ Distinct(W[m]) /\ Walk(ring, m) = W[m]
      BY <1>1, WalkIs, SoundParts
    <3>2. Elements(W[l]) \cap Elements(W[m]) = {}
      BY <1>1, <1>2 DEF Rings
    <3> QED
      BY <3>1, <3>2
  <2>2. PICK y : y = w \o x /\ y \in Seq(Nodes) /\ Distinct(y)
    BY <2>1, ConcatFacts
  <2>3. nodes \in Seq(Nodes) /\ Distinct(nodes)
    BY <2>1, <2>2, <1>3, <1>5, SortedFacts
  <2>4. relink_nodes_in_order(ring, l, nodes) \in RingShape
    BY <2>3, <1>1, <1>5, RelinkRing
  <2> QED
    BY <2>4, <1>1, <1>4, ResetFacts
<1>7. Merges(Now, Now', l, m, q)
  <2>1. Now \in States
    BY DEF Sound
  <2>2. /\ value \in [Nodes -> Values] /\ size_ \in [Sentinels -> Nat]
        /\ pool \in [Sentinels -> Pools] /\ heap \in SUBSET Nodes
    BY <2>1 DEF Now, States
  <2>3. PICK z \in [Sentinels -> Nat] :
          z = size_' /\ z = [size_ EXCEPT ![l] = @ + size_[m], ![m] = 0]
    <3>1. size_[l] + size_[m] \in Nat
      BY <2>2, <1>1
    <3>2. [size_ EXCEPT ![l] = size_[l] + size_[m], ![m] = 0] \in [Sentinels -> Nat]
      BY <2>2, <3>1
    <3> QED
      BY <3>2, <1>2
  <2>4. Now' = [ring |-> q, value |-> value, size |-> z, pool |-> pool, heap |-> heap]
    BY <2>3, <1>2, <1>4 DEF Now
  <2>5. Now' \in States
    BY <2>2, <2>3, <2>4, <1>6 DEF States
  <2> QED
    BY <2>3, <2>4, <2>5 DEF Merges, Now
<1>8. PICK t :
        /\ t = Now'
        /\ Merges(Now, t, l, m, reset_sentinel(relink_nodes_in_order(Now.ring, l, nodes), m))
  BY <1>1, <1>4, <1>7
<1>9. \E K : Sound(t, MergedLists(W, l, m), F, K)
  <2>1. nodes = stable_sort(Walk(Now.ring, l) \o Walk(Now.ring, m))
    BY <1>1, <1>3
  <2> QED
    BY <2>1, <1>1, <1>2, <1>8, MergeSound
<1>10. PICK V, K : V = MergedLists(W, l, m) /\ Sound(t, V, F, K)
  BY <1>9
<1>11. TempFree(V, F)
  <2>1. W \in Sequences
    BY SoundParts
  <2>2. V[Temp] = W[Temp]
    BY <2>1, <1>10, ListsApart DEF MergedLists, Sequences
  <2> QED
    BY <2>2 DEF TempFree
<1> QED
  BY <1>2, <1>8, <1>10, <1>11 DEF Reaches

(* swap.                                                                   *)
LEMMA SwapStep ==
  ASSUME NEW W, NEW F, NEW H, Sound(Now, W, F, H), TempFree(W, F),
         NEW l \in Lists, NEW m \in Lists, Swap(l, m)
  PROVE  /\ \E V, G, K : Reaches(V, G, K) /\ V = Exchanged(W, l, m)
         /\ l # m /\ value' = value
<1>1. /\ l \in Sentinels /\ m \in Sentinels /\ Temp \notin {l, m}
      /\ Now.value = value
  BY ListsApart DEF Now
<1>2. l # m
  BY DEF Swap
<1>3. PICK t : t = swap(Now, l, m) /\ Becomes(t)
  BY DEF Swap
<1>4. /\ \E K : Sound(t, Exchanged(W, l, m), Exchanged(F, l, m), K)
      /\ t.value = Now.value /\ Others(Now, t, {l, m})
  BY <1>1, <1>2, <1>3, SwapSound
<1>5. PICK V, G, K : V = Exchanged(W, l, m) /\ G = Exchanged(F, l, m) /\ Sound(t, V, G, K)
  BY <1>4
<1>6. TempFree(V, G)
  BY <1>1, <1>4, <1>5, TempStays
<1> QED
  BY <1>1, <1>2, <1>3, <1>4, <1>5, <1>6, ReachesIs

(* Move assignment.                                                        *)
LEMMA MoveStep ==
  ASSUME NEW W, NEW F, NEW H, Sound(Now, W, F, H), TempFree(W, F),
         NEW l \in Lists, NEW m \in Lists, MoveAssign(l, m)
  PROVE  /\ \E V, G, K : Reaches(V, G, K) /\ V = [W EXCEPT ![l] = W[m], ![m] = <<>>]
         /\ l # m /\ value' = value
<1>1. /\ l \in Sentinels /\ m \in Sentinels /\ Temp \notin {l, m}
      /\ Now.value = value
  BY ListsApart DEF Now
<1>2. l # m
  BY DEF MoveAssign
<1>3. PICK t : t = Moved(Now, l, m) /\ Becomes(t)
  BY DEF MoveAssign
<1>4. /\ \E V, G, K : /\ Sound(t, V, G, K)
                      /\ V = [W EXCEPT ![l] = W[m], ![m] = <<>>] /\ G[m] = <<>>
      /\ t.value = Now.value /\ Others(Now, t, {l, m})
  BY <1>1, <1>2, <1>3, MovedSound
<1>5. PICK V, G, K : Sound(t, V, G, K) /\ V = [W EXCEPT ![l] = W[m], ![m] = <<>>]
  BY <1>4
<1>6. TempFree(V, G)
  BY <1>1, <1>4, <1>5, TempStays
<1> QED
  BY <1>1, <1>2, <1>3, <1>4, <1>5, <1>6, ReachesIs

(* The temporary list has the nodes of c, new and with values of vals.     *)
Fills(t, W, V, c, vals) ==
  /\ c \in Seq(Nodes) /\ Distinct(c) /\ Loose(c, W)
  /\ V[Temp] = c /\ \A m \in Lists : V[m] = W[m]
  /\ \A j \in 1 .. Len(c) : t.value[c[j]] = vals[j]
  /\ \A n \in Nodes \ Elements(c) : t.value[n] = value[n]

(* The temporary list is filled with the first values of vals.             *)
LEMMA TempFilled ==
  ASSUME NEW W, NEW F, NEW H, Sound(Now, W, F, H), TempFree(W, F),
         NEW vals \in Seq(Values), NEW i \in Nat, i <= Len(vals), i <= Room(Now, Temp)
  PROVE  \E t, V, G, K, c :
           /\ t = InsertSome(Now, Temp, Temp, vals, i) /\ Sound(t, V, G, K)
           /\ Fills(t, W, V, c, vals) /\ Len(c) = i
<1>1. Temp \in Sentinels /\ \A m \in Lists : m \in Sentinels \ {Temp}
  BY ListsApart
<1>2. PICK k : k = 0 /\ k \in 0 .. Len(W[Temp]) /\ Temp = Place(Temp, W[Temp], k + 1)
  <2>1. W[Temp] = <<>> /\ Len(W[Temp]) = 0
    BY DEF TempFree
  <2>2. 1 \notin 1 .. Len(W[Temp]) /\ 0 + 1 = 1
    BY <2>1
  <2>3. Temp = Place(Temp, W[Temp], 0 + 1)
    BY <2>2 DEF Place
  <2> QED
    BY <2>1, <2>3
<1>3. \A j \in 1 .. i : vals[j] \in Values
  OBVIOUS
<1>4. PICK t : t = InsertSome(Now, Temp, Temp, vals, i)
  OBVIOUS
<1>5. t \in Insertions(Now, W, F, Temp, k, vals, i)
  BY <1>1, <1>2, <1>3, <1>4, InsertSound
<1>6. PICK V, G, K, c : /\ Sound(t, V, G, K) /\ Len(c) = i
                        /\ Inserted(Now, W, F, Temp, k, vals, t, V, G, c)
  BY <1>5 DEF Insertions
<1>7. /\ c \in Seq(Nodes) /\ Distinct(c) /\ Loose(c, W)
      /\ V = [W EXCEPT ![Temp] = Pasted(W[Temp], k, c)]
      /\ \A j \in 1 .. i : t.value[c[j]] = vals[j]
      /\ \A n \in Nodes \ Elements(c) : t.value[n] = value[n]
  BY <1>6 DEF Inserted, Now
<1>8. Pasted(W[Temp], k, c) = c
  <2>1. W[Temp] = <<>> /\ Len(W[Temp]) = 0 /\ k = 0
    BY <1>2 DEF TempFree
  <2>2. PICK u : u = Pasted(W[Temp], k, c)
    OBVIOUS
  <2>3. PICK C \in Nat : C = Len(c)
    BY <1>7
  <2>4. u = [p \in 1 .. 0 + C |->
               IF p <= 0 THEN W[Temp][p] ELSE IF p <= 0 + C THEN c[p - 0] ELSE W[Temp][p - C]]
    BY <2>1, <2>2, <2>3 DEF Pasted
  <2>5. ASSUME NEW p \in 1 .. C PROVE u[p] = c[p]
    <3>1. p \in 1 .. 0 + C /\ ~(p <= 0) /\ p <= 0 + C /\ p - 0 = p
      OBVIOUS
    <3> QED
      BY <3>1, <2>4
  <2>6. u = [p \in 1 .. C |-> u[p]] /\ c = [p \in 1 .. C |-> c[p]]
    <3>1. 0 + C = C
      OBVIOUS
    <3>2. u = [p \in 1 .. 0 + C |-> u[p]]
      BY <2>4
    <3> QED
      BY <3>1, <3>2, <2>3, <1>7
  <2> QED
    BY <2>2, <2>5, <2>6
<1>9. W \in Sequences
  BY SoundParts
<1>10. V[Temp] = c /\ \A m \in Lists : V[m] = W[m]
  BY <1>1, <1>7, <1>8, <1>9 DEF Sequences
<1>11. Fills(t, W, V, c, vals)
  BY <1>6, <1>7, <1>10 DEF Fills
<1> QED
  BY <1>4, <1>6, <1>11

(* The nodes of c are new, and have the values of vals.                    *)
Creates(W, c, vals) ==
  /\ c \in Seq(Nodes) /\ Distinct(c) /\ Loose(c, W) /\ Len(c) = Len(vals)
  /\ \A j \in 1 .. Len(c) : value'[c[j]] = vals[j]
  /\ \A n \in Nodes \ Elements(c) : value'[n] = value[n]

(* The end of the temporary list.                                          *)
LEMMA TempGone ==
  ASSUME NEW t, NEW W, NEW F, NEW H, Sound(t, W, F, H), Becomes(Destroyed(t, Temp))
  PROVE  /\ \E V, G, K : Reaches(V, G, K) /\ \A m \in Lists : V[m] = W[m]
         /\ value' = t.value
<1>1. Temp \in Sentinels /\ \A m \in Lists : m \in Sentinels \ {Temp}
  BY ListsApart
<1>2. PICK u, V : u = Destroyed(t, Temp) /\ V = [W EXCEPT ![Temp] = <<>>]
  OBVIOUS
<1>3. /\ \E G, K : Sound(u, V, G, K) /\ G[Temp] = <<>>
      /\ u.value = t.value
  BY <1>1, <1>2, DestroyedSound, ZenonT(40)
<1>4. PICK G, K : Sound(u, V, G, K) /\ G[Temp] = <<>>
  BY <1>3
<1>5. W \in Sequences
  BY SoundParts
<1>6. V[Temp] = <<>> /\ \A m \in Lists : V[m] = W[m]
  BY <1>1, <1>2, <1>5 DEF Sequences
<1>7. TempFree(V, G)
  BY <1>4, <1>6 DEF TempFree
<1>8. Reaches(V, G, K) /\ value' = u.value
  BY <1>2, <1>4, <1>7, ReachesIs
<1> QED
  BY <1>3, <1>6, <1>8

(* Only the list l changes, among those that the application has.          *)
Gets(W, V, l, c) == V[l] = c /\ \A m \in Lists \ {l} : V[m] = W[m]

(* l = SharedMemoryList(vals).                                             *)
LEMMA ConstructStep ==
  ASSUME NEW W, NEW F, NEW H, Sound(Now, W, F, H), TempFree(W, F),
         NEW l \in Lists, NEW vals \in Seq(Values), ConstructAssign(l, vals)
  PROVE  \E V, G, K, c : Reaches(V, G, K) /\ Creates(W, c, vals) /\ Gets(W, V, l, c)
<1>1. /\ Temp \in Sentinels /\ \A m \in Lists : m \in Sentinels \ {Temp}
  BY ListsApart
<1>2. PICK i \in Nat : i = Len(vals) /\ i <= Len(vals) /\ i <= Room(Now, Temp)
  BY DEF ConstructAssign
<1>3. PICK t, V, G, K, c :
           /\ t = InsertSome(Now, Temp, Temp, vals, i) /\ Sound(t, V, G, K)
           /\ Fills(t, W, V, c, vals) /\ Len(c) = i
  BY <1>2, TempFilled
<1>4. PICK u : u = Moved(t, l, Temp)
  OBVIOUS
<1>5. /\ \E X, Y, Z : Sound(u, X, Y, Z) /\ X = [V EXCEPT ![l] = V[Temp], ![Temp] = <<>>]
                      /\ Y[Temp] = <<>>
      /\ u.value = t.value
  <2>1. l \in Sentinels /\ Temp \in Sentinels /\ l # Temp
    BY <1>1
  <2>2. Sound(t, V, G, K)
    BY <1>3
  <2>3. PICK m : m = Temp /\ m \in Sentinels /\ l # m
    BY <2>1
  <2>4. u = Moved(t, l, m)
    BY <2>3, <1>4
  <2>a. /\ \E X, Y, Z : /\ Sound(Moved(t, l, m), X, Y, Z)
                        /\ X = [V EXCEPT ![l] = V[m], ![m] = <<>>] /\ Y[m] = <<>>
        /\ Moved(t, l, m).value = t.value /\ Others(t, Moved(t, l, m), {l, m})
    <3>1. m \in Sentinels /\ l # m /\ l \in Sentinels
      BY <2>1, <2>3
    <3> QED
      BY <2>2, <3>1, MovedSound, Zenon
  <2>5. /\ \E X, Y, Z : Sound(u, X, Y, Z) /\ X = [V EXCEPT ![l] = V[m], ![m] = <<>>]
                       /\ Y[m] = <<>>
        /\ u.value = t.value
    BY <2>4, <2>a
  <2> QED
    BY <2>3, <2>5
<1>6. PICK X, Y, Z : Sound(u, X, Y, Z) /\ X = [V EXCEPT ![l] = V[Temp], ![Temp] = <<>>]
  BY <1>5
<1>7. V \in Sequences
  BY <1>3, SoundParts
<1>8. X[l] = c /\ \A m \in Lists \ {l} : X[m] = W[m]
  <2>1. V[Temp] = c /\ \A m \in Lists : V[m] = W[m]
    BY <1>3 DEF Fills
  <2> QED
    BY <2>1, <1>1, <1>6, <1>7 DEF Sequences
<1>9. Becomes(Destroyed(u, Temp))
  BY <1>2, <1>3, <1>4 DEF ConstructAssign
<1>10. /\ \E A, B, C : Reaches(A, B, C) /\ \A m \in Lists : A[m] = X[m]
       /\ value' = u.value
  BY <1>6, <1>9, TempGone, Zenon
<1>11. PICK A, B, C : Reaches(A, B, C) /\ \A m \in Lists : A[m] = X[m]
  BY <1>10
<1>12. Gets(W, A, l, c)
  BY <1>8, <1>11 DEF Gets
<1>13. Creates(W, c, vals)
  BY <1>2, <1>3, <1>5, <1>10 DEF Creates, Fills
<1> QED
  BY <1>11, <1>12, <1>13

(* The values of the nodes of w.                                           *)
Copied(w) == [i \in 1 .. Len(w) |-> value[w[i]]]

(* Copy assignment.                                                        *)
LEMMA CopyStep ==
  ASSUME NEW W, NEW F, NEW H, Sound(Now, W, F, H), TempFree(W, F),
         NEW l \in Lists, NEW m \in Lists, CopyAssign(l, m)
  PROVE  \E V, G, K, c : Reaches(V, G, K) /\ Creates(W, c, Copied(W[m])) /\ Gets(W, V, l, c)
<1>1. /\ Temp \in Sentinels /\ \A o \in Lists : o \in Sentinels \ {Temp}
  BY ListsApart
<1>a. Rings(ring, W) /\ size_[m] = Len(W[m]) /\ value \in [Nodes -> Values] /\ W[m] \in Seq(Nodes)
  <2>1. m \in Sentinels
    BY <1>1
  <2>2. Now.ring = ring /\ Now.size = size_ /\ Now.value = value
    BY DEF Now
  <2>3. Now.value \in [Nodes -> Values] /\ W[m] \in Seq(Nodes) /\ Now.size[m] = Len(W[m])
    BY <2>1, SoundParts
  <2>4. Rings(Now.ring, W)
    BY DEF Sound
  <2> QED
    BY <2>2, <2>3, <2>4
<1>b. PICK vals : vals = Copied(W[m])
  OBVIOUS
<1>c. vals \in Seq(Values) /\ Len(vals) = Len(W[m])
  BY <1>a, <1>b DEF Copied
<1>d. /\ Len(vals) <= Room(Now, Temp)
      /\ Becomes(Destroyed(swap(InsertSome(Now, Temp, Temp, vals, Len(vals)), l, Temp), Temp))
  <2>1. Walk(ring, m) = W[m]
    BY <1>1, <1>a, WalkIs
  <2>2. vals = [i \in 1 .. size_[m] |-> value[Walk(ring, m)[i]]]
    BY <2>1, <1>a, <1>b DEF Copied
  <2> QED
    BY <2>2 DEF CopyAssign
<1>2. PICK i \in Nat : i = Len(vals) /\ i <= Len(vals) /\ i <= Room(Now, Temp)
  BY <1>c, <1>d
<1>3. PICK t, V, G, K, c :
           /\ t = InsertSome(Now, Temp, Temp, vals, i) /\ Sound(t, V, G, K)
           /\ Fills(t, W, V, c, vals) /\ Len(c) = i
  BY <1>2, <1>c, TempFilled
<1>4. PICK u : u = swap(t, l, Temp)
  OBVIOUS
<1>5. /\ \E Z : Sound(u, Exchanged(V, l, Temp), Exchanged(G, l, Temp), Z)
      /\ u.value = t.value
  <2>1. l \in Sentinels /\ l # Temp
    BY <1>1
  <2> QED
    BY <2>1, <1>1, <1>3, <1>4, SwapSound, ZenonT(40)
<1>6. PICK X, Y, Z : Sound(u, X, Y, Z) /\ X = Exchanged(V, l, Temp)
  BY <1>5
<1>7. V \in Sequences
  BY <1>3, SoundParts
<1>8. X[l] = c /\ \A o \in Lists \ {l} : X[o] = W[o]
  <2>1. V[Temp] = c /\ \A o \in Lists : V[o] = W[o]
    BY <1>3 DEF Fills
  <2>2. l \in Sentinels /\ Temp \in Sentinels /\ l # Temp
    BY <1>1
  <2>3. X[l] = V[Temp] /\ \A k \in Sentinels \ {l, Temp} : X[k] = V[k]
    <3>1. X = Exchanged(V, l, Temp)
      BY <1>6
    <3> QED
      BY <2>2, <3>1, <1>7, ExchangedFacts
  <2> QED
    BY <2>1, <2>3, <1>1
<1>9. Becomes(Destroyed(u, Temp))
  BY <1>2, <1>3, <1>4, <1>d
<1>10. /\ \E A, B, C : Reaches(A, B, C) /\ \A o \in Lists : A[o] = X[o]
       /\ value' = u.value
  BY <1>6, <1>9, TempGone
<1>11. PICK A, B, C : Reaches(A, B, C) /\ \A o \in Lists : A[o] = X[o]
  BY <1>10
<1>12. Gets(W, A, l, c)
  BY <1>8, <1>11 DEF Gets
<1>13. Creates(W, c, vals)
  BY <1>2, <1>3, <1>5, <1>10 DEF Creates, Fills
<1> QED
  BY <1>11, <1>12, <1>13, <1>b

(* A constructor that throws leaves nothing.                               *)
LEMMA ThrowsStep ==
  ASSUME NEW W, NEW F, NEW H, Sound(Now, W, F, H), TempFree(W, F),
         NEW vals \in Seq(Values), ConstructorThrows(vals)
  PROVE  \E V, G, K : /\ Reaches(V, G, K)
                      /\ \A m \in Lists : V[m] = W[m]
                      /\ \A m \in Lists : \A n \in Elements(W[m]) : value'[n] = value[n]
<1>1. PICK i \in Reached(Now, Temp, Len(vals) - 1) :
        Becomes(Destroyed(InsertSome(Now, Temp, Temp, vals, i), Temp))
  BY DEF ConstructorThrows
<1>2. i \in Nat /\ i <= Len(vals) /\ i <= Room(Now, Temp)
  <2>1. i \in 0 .. Len(vals) - 1 /\ i <= Room(Now, Temp)
    BY <1>1 DEF Reached
  <2> QED
    BY <2>1
<1>3. PICK t, V, G, K, c :
           /\ t = InsertSome(Now, Temp, Temp, vals, i) /\ Sound(t, V, G, K)
           /\ Fills(t, W, V, c, vals) /\ Len(c) = i
  BY <1>2, TempFilled
<1>4. Becomes(Destroyed(t, Temp))
  BY <1>1, <1>3
<1>5. /\ \E A, B, C : Reaches(A, B, C) /\ \A m \in Lists : A[m] = V[m]
      /\ value' = t.value
  BY <1>3, <1>4, TempGone
<1>6. PICK A, B, C : Reaches(A, B, C) /\ \A m \in Lists : A[m] = V[m]
  BY <1>5
<1>7. \A m \in Lists : A[m] = W[m]
  BY <1>3, <1>6 DEF Fills
<1>8. ASSUME NEW m \in Lists, NEW n \in Elements(W[m]) PROVE value'[n] = value[n]
  <2>1. m \in Sentinels
    BY ListsApart
  <2>2. W[m] \in Seq(Nodes)
    BY <2>1, SoundParts
  <2>3. n \in Nodes
    BY <2>2, ElementsOf
  <2>4. n \notin Elements(c)
    BY <2>1, <1>3 DEF Fills, Loose
  <2> QED
    BY <2>3, <2>4, <1>3, <1>5 DEF Fills
<1> QED
  BY <1>6, <1>7, <1>8

(* Some nodes of m go to some place of l, and to none within themselves.   *)
Splices(W, V, l, m) ==
  \E i \in 1 .. Len(W[m]) : \E j \in i + 1 .. Len(W[m]) + 1 :
    \E k \in 0 .. Len(Without(W, m, i, j)[l]) : V = Spliced(W, l, m, i, j, k)

(* A transfer: position is place p of list l, and not in what is moved.    *)
LEMMA TransferStep ==
  ASSUME NEW W, NEW F, NEW H, Sound(Now, W, F, H), TempFree(W, F),
         NEW l \in Lists, NEW m \in Lists,
         NEW i \in 1 .. Len(W[m]), NEW j \in i + 1 .. Len(W[m]) + 1,
         NEW p \in 1 .. Len(W[l]) + 1, l = m => p < i \/ j <= p,
         Becomes(transfer_range_before(Now, l, m, Place(l, W[l], p), Place(m, W[m], i),
                                       Place(m, W[m], j), j - i))
  PROVE  /\ \E V, G, K : Reaches(V, G, K) /\ Splices(W, V, l, m)
         /\ value' = value
<1>0. PICK position : position = Place(l, W[l], p)
  OBVIOUS
<1>1. l \in Sentinels /\ m \in Sentinels /\ Temp \notin {l, m} /\ Now.value = value
  BY ListsApart DEF Now
<1>2. W \in Sequences /\ W[l] \in Seq(Nodes) /\ W[m] \in Seq(Nodes) /\ Distinct(W[m])
  BY <1>1, SoundParts
<1>3. PICK x : x = Without(W, m, i, j)[l]
  OBVIOUS
<1>4. PICK k \in 0 .. Len(x) : position = Place(l, x, k + 1)
  <2>1. CASE l = m
    <3>1. PICK w \in Seq(Nodes) : w = W[l] /\ Distinct(w)
      BY <1>2, <2>1
    <3>2. x = CutOut(w, i, j)
      <4>1. W \in [Sentinels -> Seq(Nodes)]
        BY <1>2 DEF Sequences
      <4>2. \A c : [W EXCEPT ![l] = c][l] = c
        BY <1>1, <4>1
      <4> QED
        BY <1>3, <2>1, <3>1, <4>2 DEF Without
    <3>3. PICK L \in Nat : L = Len(w)
      BY <3>1
    <3>4. i \in 1 .. L /\ j \in i + 1 .. L + 1 /\ p \in 1 .. L + 1 /\ (p < i \/ j <= p)
      BY <2>1, <3>1, <3>3
    <3>5. /\ Len(x) = L - (j - i)
          /\ \A q \in 0 .. Len(x) + 1 :
               Place(l, x, q) = Place(l, w, IF q < i THEN q ELSE q + (j - i))
      <4>1. i \in 1 .. Len(w) /\ j \in i + 1 .. Len(w) + 1
        BY <3>3, <3>4
      <4>a. w \in Seq(Nodes) /\ Distinct(w) /\ l \in Sentinels
        BY <1>1, <3>1
      <4>2. LET v == CutOut(w, i, j)
            IN  /\ v \in Seq(Nodes) /\ Len(v) = Len(w) - (j - i) /\ Len(v) \in Nat
                /\ Distinct(v)
                /\ \A q \in 0 .. Len(v) + 1 :
                     Place(l, v, q) = Place(l, w, IF q < i THEN q ELSE q + (j - i))
                /\ Elements(v) = {w[q] : q \in 1 .. Len(w) \ i .. j - 1}
        BY <4>a, <4>1, CutFacts, Zenon
      <4> QED
        BY <3>2, <3>3, <4>2
    <3>6. position = Place(l, w, p)
      BY <1>0, <3>1
    <3>7. CASE p < i
      <4>1. p - 1 \in 0 .. Len(x) /\ (p - 1) + 1 = p /\ p \in 0 .. Len(x) + 1
        BY <3>3, <3>4, <3>5, <3>7
      <4>2. Place(l, x, p) = Place(l, w, p)
        BY <3>5, <3>7, <4>1
      <4> QED
        BY <3>6, <4>1, <4>2
    <3>8. CASE j <= p
      <4>a. Len(x) = L - (j - i)
        BY <3>5
      <4>b. p - (j - i) \in Int
        BY <3>4
      <4>1. PICK q \in Int : /\ q = p - (j - i) /\ q - 1 \in 0 .. Len(x) /\ (q - 1) + 1 = q
                             /\ q \in 0 .. Len(x) + 1 /\ ~(q < i) /\ q + (j - i) = p
        BY <3>3, <3>4, <4>a, <4>b, <3>8
      <4>2. Place(l, x, q) = Place(l, w, p)
        BY <3>5, <4>1
      <4> QED
        BY <3>6, <4>1, <4>2
    <3> QED
      BY <3>4, <3>7, <3>8
  <2>2. CASE l # m
    <3>1. x = W[l]
      BY <1>1, <1>2, <1>3, <2>2 DEF Without, Sequences
    <3>2. PICK L \in Nat : L = Len(x) /\ p \in 1 .. L + 1
      BY <1>2, <3>1
    <3>3. p - 1 \in 0 .. Len(x) /\ (p - 1) + 1 = p
      BY <3>2
    <3> QED
      BY <1>0, <3>1, <3>3
  <2> QED
    BY <2>1, <2>2
<1>5. PICK t : /\ t = transfer_range_before(Now, l, m, position, Place(m, W[m], i),
                                             Place(m, W[m], j), j - i)
               /\ Becomes(t)
  BY <1>0
<1>6. /\ \E K : Sound(t, Spliced(W, l, m, i, j, k), F, K)
      /\ t.value = Now.value /\ Others(Now, t, {l, m})
  <2>1. k \in 0 .. Len(Without(W, m, i, j)[l])
        /\ position = Place(l, Without(W, m, i, j)[l], k + 1)
    BY <1>3, <1>4
  <2>2. t = transfer_range_before(Now, l, m, Place(l, Without(W, m, i, j)[l], k + 1),
                                  Place(m, W[m], i), Place(m, W[m], j), j - i)
    BY <1>5, <2>1
  <2>3. LET u == transfer_range_before(Now, l, m, Place(l, Without(W, m, i, j)[l], k + 1),
                                       Place(m, W[m], i), Place(m, W[m], j), j - i)
        IN  /\ \E K : Sound(u, Spliced(W, l, m, i, j, k), F, K)
            /\ u.value = Now.value /\ Others(Now, u, {l, m})
    BY <1>1, <2>1, TransferSound, Zenon
  <2> QED
    BY <2>2, <2>3
<1>7. PICK V, K : V = Spliced(W, l, m, i, j, k) /\ Sound(t, V, F, K)
  BY <1>6
<1>8. TempFree(V, F)
  BY <1>1, <1>6, <1>7, TempStays
<1>9. Reaches(V, F, K) /\ value' = value
  BY <1>1, <1>5, <1>6, <1>7, <1>8, ReachesIs
<1>10. Splices(W, V, l, m)
  BY <1>3, <1>7 DEF Splices
<1> QED
  BY <1>9, <1>10

(* The links between the places of a list.                                 *)
LEMMA NextPlace ==
  ASSUME NEW W, NEW F, NEW H, Sound(Now, W, F, H), NEW m \in Sentinels
  PROVE  \A p \in 0 .. Len(W[m]) : ring.next[Place(m, W[m], p)] = Place(m, W[m], p + 1)
  BY DEF Sound, Now, Rings, IsRing

(* splice of a whole list.                                                 *)
LEMMA SpliceAllStep ==
  ASSUME NEW W, NEW F, NEW H, Sound(Now, W, F, H), TempFree(W, F),
         NEW l \in Lists, NEW m \in Lists, NEW pos \in Positions(l), SpliceAll(l, m, pos)
  PROVE  /\ \E V, G, K : Reaches(V, G, K) /\ Splices(W, V, l, m)
         /\ value' = value
<1>1. l \in Sentinels /\ m \in Sentinels /\ Rings(ring, W)
  BY ListsApart DEF Sound, Now
<1>2. l # m /\ size_[m] # 0
      /\ Becomes(transfer_range_before(Now, l, m, pos, ring.next[m], m, size_[m]))
  BY DEF SpliceAll
<1>3. PICK L \in Nat : L = Len(W[m]) /\ L = size_[m]
  BY <1>1, SoundParts DEF Now
<1>4. PICK i \in 1 .. Len(W[m]) : i = 1
  BY <1>2, <1>3
<1>5. PICK j \in i + 1 .. Len(W[m]) + 1 : j = Len(W[m]) + 1
  BY <1>3, <1>4
<1>6. PICK p \in 1 .. Len(W[l]) + 1 : pos = Place(l, W[l], p)
  BY <1>1, PositionIs
<1>7. m = Place(m, W[m], 0) /\ m = Place(m, W[m], j)
  <2>1. j = L + 1
    BY <1>3, <1>5
  <2>2. j \notin 1 .. L /\ 0 \notin 1 .. L
    BY <2>1
  <2> QED
    BY <2>2, <1>3 DEF Place
<1>8. ring.next[m] = Place(m, W[m], i)
  <2>1. 0 \in 0 .. Len(W[m]) /\ 0 + 1 = 1
    BY <1>3
  <2>2. ring.next[Place(m, W[m], 0)] = Place(m, W[m], 0 + 1)
    BY <1>1, <2>1, NextPlace
  <2> QED
    BY <1>4, <1>7, <2>1, <2>2
<1>9. size_[m] = j - i
  <2>1. i = 1 /\ j = L + 1 /\ L = size_[m]
    BY <1>3, <1>4, <1>5
  <2>2. j - i = L
    BY <2>1
  <2> QED
    BY <2>1, <2>2
<1>10. Becomes(transfer_range_before(Now, l, m, Place(l, W[l], p), Place(m, W[m], i),
                                     Place(m, W[m], j), j - i))
  BY <1>2, <1>6, <1>7, <1>8, <1>9
<1>11. l = m => p < i \/ j <= p
  BY <1>2
<1> QED
  BY <1>10, <1>11, TransferStep

(* splice of one element.                                                  *)
LEMMA SpliceOneStep ==
  ASSUME NEW W, NEW F, NEW H, Sound(Now, W, F, H), TempFree(W, F),
         NEW l \in Lists, NEW m \in Lists, NEW pos \in Positions(l), NEW n \in Positions(m),
         SpliceOne(l, m, pos, n)
  PROVE  /\ \E V, G, K : Reaches(V, G, K) /\ Splices(W, V, l, m)
         /\ value' = value
<1>1. l \in Sentinels /\ m \in Sentinels /\ Rings(ring, W)
  BY ListsApart DEF Sound, Now
<1>2. /\ n # m /\ ~(l = m /\ pos \in {n, ring.next[n]})
      /\ Becomes(transfer_range_before(Now, l, m, pos, n, ring.next[n], 1))
  BY DEF SpliceOne
<1>3. PICK L \in Nat : L = Len(W[m])
  BY <1>1, SoundParts
<1>4. PICK p \in 1 .. Len(W[l]) + 1 : pos = Place(l, W[l], p)
  BY <1>1, PositionIs
<1>5. PICK q \in 1 .. Len(W[m]) + 1 : n = Place(m, W[m], q)
  BY <1>1, PositionIs
<1>6. q \in 1 .. Len(W[m])
  BY <1>2, <1>5 DEF Place
<1>7. PICK i \in 1 .. Len(W[m]) : i = q
  BY <1>6
<1>8. i \in 1 .. L /\ i \in 0 .. L
  BY <1>3
<1>9. PICK j \in i + 1 .. Len(W[m]) + 1 : j = i + 1
  BY <1>3, <1>8
<1>10. n = Place(m, W[m], i) /\ ring.next[n] = Place(m, W[m], j) /\ 1 = j - i
  <2>1. ring.next[Place(m, W[m], i)] = Place(m, W[m], i + 1)
    BY <1>1, <1>3, <1>8, NextPlace
  <2>2. 1 = j - i
    BY <1>8, <1>9
  <2> QED
    BY <2>1, <2>2, <1>5, <1>7, <1>9
<1>11. Becomes(transfer_range_before(Now, l, m, Place(l, W[l], p), Place(m, W[m], i),
                                     Place(m, W[m], j), j - i))
  BY <1>2, <1>4, <1>10
<1>12. ASSUME l = m PROVE p < i \/ j <= p
  <2>1. pos # n /\ pos # ring.next[n]
    BY <1>2, <1>12
  <2>2. p # i /\ p # j
    BY <2>1, <1>4, <1>10, <1>12
  <2>3. p \in 1 .. L + 1
    BY <1>3, <1>12
  <2> QED
    BY <2>2, <2>3, <1>8, <1>9
<1> QED
  BY <1>11, <1>12, TransferStep

(* splice of a range.                                                      *)
LEMMA SpliceRangeStep ==
  ASSUME NEW W, NEW F, NEW H, Sound(Now, W, F, H), TempFree(W, F),
         NEW l \in Lists, NEW m \in Lists, NEW pos \in Positions(l),
         NEW a \in 1 .. Len(W[m]) + 1, NEW b \in 1 .. Len(W[m]) + 1, a <= b,
         SpliceRange(l, m, pos, Place(m, W[m], a), Place(m, W[m], b))
  PROVE  /\ \E V, G, K : Reaches(V, G, K) /\ Splices(W, V, l, m)
         /\ value' = value
<1>1. l \in Sentinels /\ m \in Sentinels /\ Rings(ring, W)
  BY ListsApart DEF Sound, Now
<1>2. PICK first, last : first = Place(m, W[m], a) /\ last = Place(m, W[m], b)
  OBVIOUS
<1>3. /\ first # last
      /\ l = m => pos \notin {first, last} /\ ~is_node_in_range(ring, pos, first, last)
      /\ Becomes(transfer_range_before(Now, l, m, pos, first, last,
                                       count_range(ring, first, last)))
  BY <1>2, Zenon DEF SpliceRange
<1>4. PICK w \in Seq(Nodes) : w = W[m]
  BY <1>1, SoundParts
<1>5. PICK L \in Nat : L = Len(w)
  BY <1>4
<1>6. a \in Nat /\ b \in Nat /\ 1 <= a /\ a < b /\ b <= L + 1
  <2>1. a # b
    BY <1>2, <1>3
  <2> QED
    BY <2>1, <1>4, <1>5
<1>7. PICK i \in 1 .. Len(W[m]) : i = a
  BY <1>4, <1>5, <1>6
<1>8. PICK j \in i + 1 .. Len(W[m]) + 1 : j = b
  BY <1>4, <1>5, <1>6, <1>7
<1>9. PICK p \in 1 .. Len(W[l]) + 1 : pos = Place(l, W[l], p)
  BY <1>1, PositionIs
<1>10. PICK nodes : nodes = Between(ring, first, last)
  OBVIOUS
<1>11. nodes = SubSeq(w, i, j - 1)
  <2>1. a \in 1 .. Len(W[m]) + 1 /\ b \in a .. Len(W[m]) + 1
    BY <1>4, <1>5, <1>6
  <2>2. Between(ring, Place(m, W[m], a), Place(m, W[m], b)) = SubSeq(W[m], a, b - 1)
    BY <1>1, <2>1, BetweenPlaces
  <2> QED
    BY <2>2, <1>2, <1>4, <1>7, <1>8, <1>10
<1>12. /\ nodes \in Seq(Nodes) /\ Len(nodes) = j - i
       /\ \A x \in i .. j - 1 : w[x] \in ToSet(nodes)
  <2>1. i \in Int /\ j - 1 \in Int /\ i <= (j - 1) + 1
    BY <1>6, <1>7, <1>8
  <2>2. \A x \in i .. j - 1 : x \in 1 .. L
    BY <1>6, <1>7, <1>8
  <2>3. \A x \in i .. j - 1 : w[x] \in Nodes
    BY <1>4, <1>5, <2>2
  <2>4. nodes \in Seq(Nodes) /\ Len(nodes) = (j - 1) - i + 1
        /\ \A x \in 1 .. (j - 1) - i + 1 : nodes[x] = w[i + x - 1]
    BY <2>1, <2>3, <1>11, SubSeqProperties
  <2>5. (j - 1) - i + 1 = j - i
    BY <2>1
  <2>6. ASSUME NEW x \in i .. j - 1 PROVE w[x] \in ToSet(nodes)
    <3>1. x - i + 1 \in 1 .. (j - 1) - i + 1 /\ i + (x - i + 1) - 1 = x
      BY <2>1
    <3>2. w[x] = nodes[x - i + 1] /\ x - i + 1 \in 1 .. Len(nodes)
      BY <3>1, <2>4
    <3> QED
      BY <3>2 DEF ToSet
  <2> QED
    BY <2>4, <2>5, <2>6
<1>13. Becomes(transfer_range_before(Now, l, m, Place(l, W[l], p), Place(m, W[m], i),
                                     Place(m, W[m], j), j - i))
  <2>1. count_range(ring, first, last) = j - i
    BY <1>10, <1>12 DEF count_range
  <2>2. first = Place(m, W[m], i) /\ last = Place(m, W[m], j)
    BY <1>2, <1>7, <1>8
  <2> QED
    BY <2>1, <2>2, <1>3, <1>9
<1>14. ASSUME l = m PROVE p < i \/ j <= p
  <2>1. pos \notin ToSet(nodes)
    BY <1>3, <1>10, <1>14 DEF is_node_in_range
  <2>2. ASSUME p \in i .. j - 1 PROVE FALSE
    <3>1. p \in 1 .. L
      BY <2>2, <1>6, <1>7, <1>8
    <3>2. pos = w[p]
      BY <3>1, <1>4, <1>5, <1>9, <1>14 DEF Place
    <3> QED
      BY <3>2, <2>1, <2>2, <1>12
  <2>3. p \in Int
    BY <1>4, <1>5, <1>14
  <2> QED
    BY <2>2, <2>3, <1>6, <1>7, <1>8
<1> QED
  BY <1>13, <1>14, TransferStep

----------------------------------------------------------------------------
(* Every step keeps the invariant                                          *)

(* At first all lists are empty and all nodes are the allocator's.         *)
LEMMA InitSound ==
  ASSUME Init
  PROVE  \E W, F, H : Sound(Now, W, F, H) /\ TempFree(W, F)
                      /\ \A l \in Lists : W[l] = <<>>
<1>1. PICK W : W = [l \in Sentinels |-> <<>>]
  OBVIOUS
<1>2. PICK H : H = [n \in Nodes |-> Stored]
  OBVIOUS
<1>3. W \in Sequences /\ \A l \in Sentinels : W[l] = <<>>
  BY <1>1, ElementsOf DEF Sequences
<1>4. /\ ring = [next |-> [n \in BaseNodes |-> n], prev |-> [n \in BaseNodes |-> n]]
      /\ value = [n \in Nodes |-> CHOOSE v \in Values : TRUE]
      /\ size_ = [l \in Sentinels |-> 0]
      /\ pool = [l \in Sentinels |-> NewPool] /\ heap = Nodes
  BY DEF Init
<1>5. value \in [Nodes -> Values]
  <2>1. (CHOOSE v \in Values : TRUE) \in Values
    BY ListAssumption
  <2> QED
    BY <2>1, <1>4
<1>6. /\ ring \in RingShape
      /\ \A n \in BaseNodes : ring.next[n] = n /\ ring.prev[n] = n
  BY <1>4 DEF RingShape
<1>7. Rings(ring, W)
  <2>1. ASSUME NEW l \in Sentinels PROVE IsRing(ring, l, W[l])
    <3>1. ring.next[l] = l /\ ring.prev[l] = l
      BY <1>6, SentinelsApart
    <3> QED
      BY <3>1, <1>3, EmptyRing
  <2> QED
    BY <2>1, <1>3, <1>6, ElementsOf DEF Rings
<1>8. \A l \in Sentinels : PoolIs(pool[l], W[l]) /\ size_[l] = Len(W[l])
  BY <1>3, <1>4, EmptyPools
<1>9. Now \in States
  <2>1. NewPool \in Pools
    BY EmptyPools DEF PoolIs
  <2>2. size_ \in [Sentinels -> Nat] /\ pool \in [Sentinels -> Pools] /\ heap \in SUBSET Nodes
    BY <1>4, <2>1
  <2> QED
    BY <2>2, <1>5, <1>6 DEF Now, States
<1>10. Kept(W, W, heap, H)
  BY <1>2, <1>3, <1>4, ElementsOf, HomesDiffer DEF Kept
<1>11. Sound(Now, W, W, H)
  <2>1. /\ Now.ring = ring /\ Now.size = size_ /\ Now.pool = pool /\ Now.heap = heap
    BY DEF Now
  <2> QED
    BY <2>1, <1>3, <1>7, <1>8, <1>9, <1>10 DEF Sound
<1>12. TempFree(W, W)
  BY <1>3, ListsApart DEF TempFree
<1>13. \A l \in Lists : W[l] = <<>>
  BY <1>3, ListsApart
<1> QED
  BY <1>11, <1>12, <1>13

(* Inputs are sequences of values.                                         *)
LEMMA InputIs ==
  \A vals \in Inputs : vals \in Seq(Values)
  BY ListAssumption

(* The places of a list and its end, one after the other.                  *)
LEMMA AppendPlace ==
  ASSUME NEW l \in Sentinels, NEW w \in Seq(Nodes), NEW i \in 1 .. Len(w) + 1
  PROVE  Append(w, l)[i] = Place(l, w, i)
<1>1. w \in Seq(BaseNodes) /\ l \in BaseNodes
  BY SentinelsApart, SeqMonotonic
<1>2. /\ \A p \in 1 .. Len(w) : Append(w, l)[p] = w[p]
      /\ Append(w, l)[Len(w) + 1] = l
  BY <1>1, AppendProperties
<1>3. CASE i \in 1 .. Len(w)
  BY <1>2, <1>3 DEF Place
<1>4. CASE i \notin 1 .. Len(w)
  <2>1. Len(w) \in Nat
    OBVIOUS
  <2>2. i = Len(w) + 1
    BY <2>1, <1>4
  <2> QED
    BY <2>2, <1>2, <1>4 DEF Place
<1> QED
  BY <1>3, <1>4

(* The iterators that erase and splice take are places of the list.        *)
LEMMA NodesArePlaces ==
  ASSUME NEW W, NEW F, NEW H, Sound(Now, W, F, H), NEW l \in Lists,
         NEW i \in 1 .. size_[l] + 1
  PROVE  /\ Append(Walk(ring, l), l)[i] = Place(l, W[l], i)
         /\ i \in 1 .. Len(W[l]) + 1 /\ size_[l] = Len(W[l]) /\ Len(W[l]) \in Nat
<1>1. l \in Sentinels /\ Rings(ring, W)
  BY ListsApart DEF Sound, Now
<1>2. Len(W[l]) \in Nat /\ W[l] \in Seq(Nodes) /\ size_[l] = Len(W[l])
  BY <1>1, SoundParts DEF Now
<1>3. PICK w \in Seq(Nodes) : w = W[l] /\ w = Walk(ring, l)
  BY <1>1, <1>2, WalkIs
<1>4. PICK L \in Nat : L = Len(w) /\ L = size_[l] /\ i \in 1 .. L + 1
  BY <1>2, <1>3
<1>5. Append(w, l)[i] = Place(l, w, i)
  <2>1. i \in 1 .. Len(w) + 1
    BY <1>4
  <2> QED
    BY <2>1, <1>1, AppendPlace
<1> QED
  BY <1>2, <1>3, <1>4, <1>5

(* What is reached from the lists of W.                                    *)
Goes == \E V, G, K : Reaches(V, G, K)

(* A step of one list.                                                     *)
LEMMA OneListHolds ==
  ASSUME NEW W, NEW F, NEW H, Sound(Now, W, F, H), TempFree(W, F), NEW l \in Lists
  PROVE  /\ \A vals \in Inputs :
              /\ \A pos \in Positions(l) : insert(l, pos, vals) => Goes
              /\ assign(l, vals) => Goes
              /\ ConstructAssign(l, vals) => Goes
              /\ ConstructorThrows(vals) => Goes
         /\ \A i, j \in 1 .. size_[l] + 1 :
              i < j /\ Erase(l, Append(Walk(ring, l), l)[i], Append(Walk(ring, l), l)[j]) => Goes
         /\ Clear(l) => Goes
         /\ ShrinkToFit(l) => Goes
         /\ \A count \in 0 .. MaxSize, v \in Values : resize(l, count, v) => Goes
         /\ \A matching \in SUBSET Values : remove_if(l, matching) => Goes
         /\ unique(l) => Goes
         /\ reverse(l) => Goes
         /\ sort(l) => Goes
<1>1. ASSUME NEW vals \in Inputs, NEW pos \in Positions(l), insert(l, pos, vals) PROVE Goes
  BY <1>1, InputIs, InsertStep DEF Goes
<1>2. ASSUME NEW vals \in Inputs, assign(l, vals) PROVE Goes
  BY <1>2, InputIs, AssignStep DEF Goes
<1>3. ASSUME NEW vals \in Inputs, ConstructAssign(l, vals) PROVE Goes
  BY <1>3, InputIs, ConstructStep DEF Goes
<1>4. ASSUME NEW vals \in Inputs, ConstructorThrows(vals) PROVE Goes
  BY <1>4, InputIs, ThrowsStep DEF Goes
<1>5. ASSUME NEW i \in 1 .. size_[l] + 1, NEW j \in 1 .. size_[l] + 1, i < j,
             Erase(l, Append(Walk(ring, l), l)[i], Append(Walk(ring, l), l)[j])
      PROVE  Goes
  <2>1. /\ i \in 1 .. Len(W[l]) + 1 /\ j \in 1 .. Len(W[l]) + 1 /\ Len(W[l]) \in Nat
        /\ Append(Walk(ring, l), l)[i] = Place(l, W[l], i)
        /\ Append(Walk(ring, l), l)[j] = Place(l, W[l], j)
    BY NodesArePlaces
  <2>2. j \in i .. Len(W[l]) + 1
    BY <1>5, <2>1
  <2>3. Erase(l, Place(l, W[l], i), Place(l, W[l], j))
    BY <1>5, <2>1
  <2> QED
    BY <2>1, <2>2, <2>3, EraseStep DEF Goes
<1>6. ASSUME Clear(l) PROVE Goes
  BY <1>6, ClearStep DEF Goes
<1>7. ASSUME ShrinkToFit(l) PROVE Goes
  BY <1>7, ShrinkStep DEF Goes
<1>8. ASSUME NEW count \in 0 .. MaxSize, NEW v \in Values, resize(l, count, v) PROVE Goes
  <2>1. count \in Nat /\ size_[l] \in Nat
    BY ListAssumption, ListsApart, SoundParts DEF Now
  <2>2. CASE size_[l] >= count
    BY <1>8, <2>1, <2>2, ShorterStep DEF Goes
  <2>3. CASE size_[l] < count
    BY <1>8, <2>1, <2>3, LongerStep DEF Goes
  <2> QED
    BY <2>1, <2>2, <2>3
<1>9. ASSUME NEW matching \in SUBSET Values, remove_if(l, matching) PROVE Goes
  BY <1>9, RemoveStep DEF Goes
<1>10. ASSUME unique(l) PROVE Goes
  BY <1>10, UniqueStep DEF Goes
<1>11. ASSUME reverse(l) PROVE Goes
  BY <1>11, ReverseStep DEF Goes
<1>12. ASSUME sort(l) PROVE Goes
  BY <1>12, SortStep DEF Goes
<1> QED
  BY <1>1, <1>2, <1>3, <1>4, <1>5, <1>6, <1>7, <1>8, <1>9, <1>10, <1>11, <1>12

(* A step of two lists.                                                    *)
LEMMA TwoListsHold ==
  ASSUME NEW W, NEW F, NEW H, Sound(Now, W, F, H), TempFree(W, F),
         NEW l \in Lists, NEW m \in Lists
  PROVE  /\ merge(l, m) => Goes
         /\ Swap(l, m) => Goes
         /\ MoveAssign(l, m) => Goes
         /\ CopyAssign(l, m) => Goes
         /\ \A pos \in Positions(l) :
              /\ SpliceAll(l, m, pos) => Goes
              /\ \A n \in Positions(m) : SpliceOne(l, m, pos, n) => Goes
              /\ \A i, j \in 1 .. size_[m] + 1 :
                   /\ i <= j
                   /\ SpliceRange(l, m, pos, Append(Walk(ring, m), m)[i],
                                  Append(Walk(ring, m), m)[j])
                   => Goes
<1>1. ASSUME merge(l, m) PROVE Goes
  BY <1>1, MergeStep DEF Goes
<1>2. ASSUME Swap(l, m) PROVE Goes
  BY <1>2, SwapStep DEF Goes
<1>3. ASSUME MoveAssign(l, m) PROVE Goes
  BY <1>3, MoveStep DEF Goes
<1>4. ASSUME CopyAssign(l, m) PROVE Goes
  BY <1>4, CopyStep DEF Goes
<1>5. ASSUME NEW pos \in Positions(l), SpliceAll(l, m, pos) PROVE Goes
  BY <1>5, SpliceAllStep DEF Goes
<1>6. ASSUME NEW pos \in Positions(l), NEW n \in Positions(m), SpliceOne(l, m, pos, n)
      PROVE  Goes
  BY <1>6, SpliceOneStep DEF Goes
<1>7. ASSUME NEW pos \in Positions(l), NEW i \in 1 .. size_[m] + 1, NEW j \in 1 .. size_[m] + 1,
             i <= j, SpliceRange(l, m, pos, Append(Walk(ring, m), m)[i],
                                 Append(Walk(ring, m), m)[j])
      PROVE  Goes
  <2>1. /\ i \in 1 .. Len(W[m]) + 1 /\ j \in 1 .. Len(W[m]) + 1
        /\ Append(Walk(ring, m), m)[i] = Place(m, W[m], i)
        /\ Append(Walk(ring, m), m)[j] = Place(m, W[m], j)
    BY NodesArePlaces
  <2>2. SpliceRange(l, m, pos, Place(m, W[m], i), Place(m, W[m], j))
    BY <1>7, <2>1
  <2> QED
    BY <1>7, <2>1, <2>2, SpliceRangeStep DEF Goes
<1> QED
  BY <1>1, <1>2, <1>3, <1>4, <1>5, <1>6, <1>7

(* Nodes stay in the lists and pools that hold them.                       *)
LEMMA NextSound ==
  ASSUME NEW W, NEW F, NEW H, Sound(Now, W, F, H), TempFree(W, F), [Next]_vars
  PROVE  Goes
<1>1. CASE UNCHANGED vars
  <2>1. Now' = Now
    BY <1>1 DEF vars, Now
  <2> QED
    BY <2>1 DEF Goes, Reaches
<1>2. CASE Next
  BY <1>2, OneListHolds, TwoListsHold, ZenonT(60) DEF Next
<1> QED
  BY <1>1, <1>2

----------------------------------------------------------------------------
(* What the invariant says of the lists                                    *)

(* The ring of a list leads back the way it came.                          *)
LEMMA TwoWay ==
  ASSUME NEW W, NEW F, NEW H, Sound(Now, W, F, H), NEW l \in Sentinels
  PROVE  /\ \A n \in Positions(l) : ring.prev[ring.next[n]] = n
         /\ size_[l] = Cardinality(Linked(l))
         /\ Linked(l) = Elements(W[l])
         /\ CachedNodes(pool[l]) = Elements(F[l])
         /\ pool[l].cached_node_count = Cardinality(CachedNodes(pool[l]))
<1>1. Rings(ring, W) /\ size_[l] = Len(W[l]) /\ PoolIs(pool[l], F[l])
  BY DEF Sound, Now
<1>2. PICK w \in Seq(Nodes) : w = W[l] /\ IsRing(ring, l, w) /\ Walk(ring, l) = w
  BY <1>1, PositionIs DEF Rings, Sequences
<1>3. PICK L \in Nat : L = Len(w)
  BY <1>2
<1>4. ASSUME NEW n \in Positions(l) PROVE ring.prev[ring.next[n]] = n
  <2>1. PICK p \in 1 .. L + 1 : n = Place(l, w, p)
    BY <1>1, <1>2, <1>3, PositionIs
  <2>2. PICK q \in 0 .. L : n = Place(l, w, q)
    <3>1. CASE p = L + 1
      <4>1. p \notin 1 .. L /\ 0 \in 0 .. L /\ 0 \notin 1 .. L
        BY <3>1
      <4>2. Place(l, w, p) = Place(l, w, 0)
        BY <4>1, <1>3 DEF Place
      <4> QED
        BY <2>1, <4>1, <4>2
    <3>2. CASE p # L + 1
      <4>1. p \in 0 .. L
        BY <3>2
      <4> QED
        BY <2>1, <4>1
    <3> QED
      BY <3>1, <3>2
  <2>3. /\ ring.next[Place(l, w, q)] = Place(l, w, q + 1)
        /\ ring.prev[Place(l, w, q + 1)] = Place(l, w, q)
    BY <1>2, <1>3 DEF IsRing
  <2> QED
    BY <2>2, <2>3
<1>5. Linked(l) = Elements(w)
  BY <1>2 DEF Linked, ToSet, Elements
<1>6. size_[l] = Cardinality(Linked(l))
  <2>1. Distinct(w) /\ size_[l] = Len(w)
    BY <1>1, <1>2 DEF IsRing
  <2> QED
    BY <1>5, <2>1, DistinctLength
<1>7. PICK f \in Seq(Nodes) : /\ f = F[l] /\ Distinct(f) /\ pool[l].free_nodes = f
                              /\ pool[l].cached_node_count = Len(f)
  BY <1>1 DEF PoolIs
<1>8. CachedNodes(pool[l]) = Elements(f)
  BY <1>7 DEF CachedNodes, Elements
<1>9. pool[l].cached_node_count = Cardinality(CachedNodes(pool[l]))
  BY <1>7, <1>8, DistinctLength
<1> QED
  BY <1>2, <1>4, <1>5, <1>6, <1>7, <1>8, <1>9

(* The invariant says what the run checks.                                 *)
LEMMA InvariantSays ==
  ASSUME IInv
  PROVE  ListInv
<1>1. PICK W, F, H : Sound(Now, W, F, H) /\ TempFree(W, F)
  BY DEF IInv, Holds
<1>2. TypeOK
  <2>1. /\ ring \in RingShape /\ value \in [Nodes -> Values]
        /\ size_ \in [Sentinels -> Nat] /\ heap \subseteq Nodes
    BY <1>1, SoundParts DEF Now
  <2> QED
    BY <2>1 DEF TypeOK, RingShape
<1>3. RingsTwoWay
  BY <1>1, TwoWay DEF RingsTwoWay
<1>4. NothingLost
  <2>1. PICK held : held = [l \in Sentinels |-> Linked(l) \cup CachedNodes(pool[l])]
    OBVIOUS
  <2>2. \A l \in Sentinels : held[l] = Elements(W[l]) \cup Elements(F[l])
    BY <1>1, <2>1, TwoWay
  <2>3. Kept(W, F, heap, H) /\ W \in Sequences /\ F \in Sequences
    BY <1>1, SoundParts DEF Sound, Now
  <2>4. /\ \A l, m \in Sentinels : /\ Elements(W[l]) \cap Elements(F[m]) = {}
                                   /\ l # m => /\ Elements(W[l]) \cap Elements(W[m]) = {}
                                               /\ Elements(F[l]) \cap Elements(F[m]) = {}
        /\ \A l \in Sentinels : /\ heap \cap Elements(W[l]) = {} /\ heap \cap Elements(F[l]) = {}
                                /\ Elements(W[l]) \subseteq Nodes
                                /\ Elements(F[l]) \subseteq Nodes
    BY <2>3, KeptApart
  <2>5. heap \cup UNION {held[l] : l \in Sentinels} = Nodes
    <3>1. ASSUME NEW n \in Nodes, n \notin heap PROVE \E l \in Sentinels : n \in held[l]
      BY <3>1, <2>2, <2>3 DEF Kept
    <3>2. heap \subseteq Nodes
      BY <2>3 DEF Kept
    <3>3. \A l \in Sentinels : held[l] \subseteq Nodes
      BY <2>2, <2>4
    <3> QED
      BY <3>1, <3>2, <3>3
  <2>6. \A l, m \in Sentinels : l # m => held[l] \cap held[m] = {}
    <3> SUFFICES ASSUME NEW l \in Sentinels, NEW m \in Sentinels, l # m
                 PROVE  held[l] \cap held[m] = {}
      OBVIOUS
    <3>1. /\ Elements(W[l]) \cap Elements(W[m]) = {} /\ Elements(F[l]) \cap Elements(F[m]) = {}
          /\ Elements(W[l]) \cap Elements(F[m]) = {} /\ Elements(W[m]) \cap Elements(F[l]) = {}
      BY <2>4
    <3>2. /\ held[l] = Elements(W[l]) \cup Elements(F[l])
          /\ held[m] = Elements(W[m]) \cup Elements(F[m])
      BY <2>2
    <3> QED
      BY <3>1, <3>2
  <2>7. \A l \in Sentinels :
          /\ heap \cap held[l] = {}
          /\ Linked(l) \cap CachedNodes(pool[l]) = {}
          /\ pool[l].cached_node_count = Cardinality(CachedNodes(pool[l]))
    <3> SUFFICES ASSUME NEW l \in Sentinels
                 PROVE  /\ heap \cap held[l] = {}
                        /\ Linked(l) \cap CachedNodes(pool[l]) = {}
                        /\ pool[l].cached_node_count = Cardinality(CachedNodes(pool[l]))
      OBVIOUS
    <3>1. /\ Linked(l) = Elements(W[l]) /\ CachedNodes(pool[l]) = Elements(F[l])
          /\ pool[l].cached_node_count = Cardinality(CachedNodes(pool[l]))
      BY <1>1, TwoWay
    <3>2. /\ Elements(W[l]) \cap Elements(F[l]) = {}
          /\ heap \cap Elements(W[l]) = {} /\ heap \cap Elements(F[l]) = {}
      BY <2>4
    <3>3. held[l] = Elements(W[l]) \cup Elements(F[l])
      BY <2>2
    <3> QED
      BY <3>1, <3>2, <3>3
  <2>8. held[Temp] = {}
    BY <1>1, <2>2, ListsApart, ElementsOf DEF TempFree
  <2>9. heap \cup UNION {held[l] : l \in Sentinels} = Nodes
        /\ (\A l, m \in Sentinels : l # m => held[l] \cap held[m] = {})
        /\ held[Temp] = {}
    BY <2>5, <2>6, <2>8
  <2> QED
    BY <2>1, <2>7, <2>9 DEF NothingLost
<1> QED
  BY <1>2, <1>3, <1>4 DEF ListInv

(* In every state there are sequences of nodes that the lists and the      *)
(* pools hold, and that share no node.                                     *)
THEOREM Invariant == Spec => []IInv
<1>1. Init => IInv
  BY InitSound DEF IInv, Holds
<1>2. IInv /\ [Next]_vars => IInv'
  <2> SUFFICES ASSUME IInv, [Next]_vars PROVE IInv'
    OBVIOUS
  <2>1. PICK W, F, H : Sound(Now, W, F, H) /\ TempFree(W, F)
    BY DEF IInv, Holds
  <2>2. PICK V, G, K : Sound(Now', V, G, K) /\ TempFree(V, G)
    BY <2>1, NextSound DEF Goes, Reaches
  <2> QED
    BY <2>2 DEF IInv, Holds
<1> QED
  BY <1>1, <1>2, PTL DEF Spec

(* Rings lead back the way they came, sizes are right, and no node is lost *)
(* or in two places, after any operation and any exception.                *)
THEOREM ListCorrect == Spec => []ListInv
<1>1. IInv => ListInv
  BY InvariantSays
<1> QED
  BY <1>1, Invariant, PTL

----------------------------------------------------------------------------
(* Sequences in the words of AbstractLists                                 *)

(* The operators of the library are the same in both modules.              *)
LEMMA SameOperators ==
  /\ \A s : AsSequences!ToSet(s) = ToSet(s) /\ AsSequences!Reverse(s) = Reverse(s)
  /\ \A S : AsSequences!Cardinality(S) = Cardinality(S)
  BY DEF AsSequences!ToSet, ToSet, AsSequences!Reverse, Reverse,
         AsSequences!Cardinality, Cardinality

(* A part of a sequence.                                                   *)
LEMMA SubSeqFacts ==
  ASSUME NEW S, NEW s \in Seq(S), NEW i \in 1 .. Len(s) + 1, NEW j \in i - 1 .. Len(s)
  PROVE  /\ SubSeq(s, i, j) \in Seq(S) /\ Len(SubSeq(s, i, j)) = j - i + 1
         /\ \A p \in 1 .. j - i + 1 : SubSeq(s, i, j)[p] = s[p + (i - 1)]
<1>1. PICK L \in Nat : L = Len(s)
  OBVIOUS
<1>2. i \in Int /\ j \in Int /\ 1 <= i /\ i <= j + 1 /\ j <= L
  BY <1>1
<1>3. \A p \in i .. j : s[p] \in S
  <2>1. \A p \in i .. j : p \in 1 .. L
    BY <1>2
  <2> QED
    BY <2>1, <1>1
<1>4. PICK t : t = SubSeq(s, i, j)
  OBVIOUS
<1>5. /\ t \in Seq(S) /\ Len(t) = IF i <= j THEN j - i + 1 ELSE 0
      /\ \A p \in 1 .. j - i + 1 : t[p] = s[i + p - 1]
  BY <1>2, <1>3, <1>4, SubSeqProperties
<1>6. \A p \in 1 .. j - i + 1 : i + p - 1 = p + (i - 1)
  BY <1>2
<1>7. Len(t) = j - i + 1
  BY <1>2, <1>5
<1> QED
  BY <1>4, <1>5, <1>6, <1>7

(* A sequence with another behind its first k, and where that is.          *)
LEMMA PasteIs ==
  ASSUME NEW S, NEW s \in Seq(S), NEW t \in Seq(S), NEW k \in 0 .. Len(s)
  PROVE  /\ AsSequences!Paste(s, k, t) = Pasted(s, k, t)
         /\ Pasted(s, k, t) \in Seq(S) /\ Len(Pasted(s, k, t)) = Len(s) + Len(t)
         /\ SubSeq(Pasted(s, k, t), k + 1, k + Len(t)) = t
<1>1. PICK L, M \in Nat : L = Len(s) /\ M = Len(t)
  OBVIOUS
<1>2. k \in Nat /\ k <= L
  BY <1>1
<1>3. PICK a, b : a = SubSeq(s, 1, k) /\ b = SubSeq(s, k + 1, L)
  OBVIOUS
<1>4. a \in Seq(S) /\ Len(a) = k /\ \A p \in 1 .. k : a[p] = s[p]
  <2>1. 1 \in 1 .. Len(s) + 1 /\ k \in 1 - 1 .. Len(s)
    BY <1>1, <1>2
  <2>2. /\ SubSeq(s, 1, k) \in Seq(S) /\ Len(SubSeq(s, 1, k)) = k - 1 + 1
        /\ \A p \in 1 .. k - 1 + 1 : SubSeq(s, 1, k)[p] = s[p + (1 - 1)]
    BY <2>1, SubSeqFacts
  <2> QED
    BY <2>2, <1>2, <1>3
<1>5. b \in Seq(S) /\ Len(b) = L - k /\ \A p \in 1 .. L - k : b[p] = s[p + k]
  <2>1. k + 1 \in 1 .. Len(s) + 1 /\ L \in (k + 1) - 1 .. Len(s)
    BY <1>1, <1>2
  <2>2. /\ SubSeq(s, k + 1, L) \in Seq(S) /\ Len(SubSeq(s, k + 1, L)) = L - (k + 1) + 1
        /\ \A p \in 1 .. L - (k + 1) + 1 : SubSeq(s, k + 1, L)[p] = s[p + ((k + 1) - 1)]
    BY <2>1, SubSeqFacts
  <2>3. L - (k + 1) + 1 = L - k /\ (k + 1) - 1 = k
    BY <1>2
  <2> QED
    BY <2>2, <2>3, <1>3
<1>6. PICK c : c = a \o t
  OBVIOUS
<1>7. /\ c \in Seq(S) /\ Len(c) = k + M
      /\ \A p \in 1 .. k + M : c[p] = IF p <= k THEN a[p] ELSE t[p - k]
  BY <1>1, <1>4, <1>6, ConcatProperties
<1>8. PICK d : d = c \o b
  OBVIOUS
<1>9. /\ d \in Seq(S) /\ Len(d) = L + M
      /\ \A p \in 1 .. L + M : d[p] = IF p <= k + M THEN c[p] ELSE b[p - (k + M)]
  <2>1. PICK x, y \in Nat : x = k + M /\ y = L - k
    BY <1>2
  <2>2. c \in Seq(S) /\ b \in Seq(S) /\ Len(c) = x /\ Len(b) = y
    BY <2>1, <1>5, <1>7
  <2>3. d \in Seq(S) /\ Len(d) = x + y
        /\ \A p \in 1 .. x + y : d[p] = IF p <= x THEN c[p] ELSE b[p - x]
    BY <2>2, <1>8, ConcatProperties
  <2>4. x + y = L + M
    BY <2>1, <1>2
  <2> QED
    BY <2>1, <2>3, <2>4
<1>10. \A p \in 1 .. L + M :
         d[p] = IF p <= k THEN s[p] ELSE IF p <= k + M THEN t[p - k] ELSE s[p - M]
  <2> SUFFICES ASSUME NEW p \in 1 .. L + M
               PROVE  d[p] = IF p <= k THEN s[p] ELSE IF p <= k + M THEN t[p - k] ELSE s[p - M]
    OBVIOUS
  <2>1. CASE p <= k
    BY <2>1, <1>2, <1>4, <1>7, <1>9
  <2>2. CASE k < p /\ p <= k + M
    BY <2>2, <1>2, <1>7, <1>9
  <2>3. CASE k + M < p
    <3>1. p - (k + M) \in 1 .. L - k /\ (p - (k + M)) + k = p - M /\ ~(p <= k) /\ ~(p <= k + M)
      BY <2>3, <1>2
    <3>2. d[p] = b[p - (k + M)]
      BY <3>1, <1>9
    <3>3. b[p - (k + M)] = s[p - M]
      BY <3>1, <1>5
    <3> QED
      BY <3>1, <3>2, <3>3
  <2> QED
    BY <2>1, <2>2, <2>3, <1>2
<1>11. d = Pasted(s, k, t)
  <2>1. d = [p \in 1 .. L + M |-> d[p]]
    BY <1>9
  <2> QED
    BY <2>1, <1>1, <1>10 DEF Pasted
<1>12. AsSequences!Paste(s, k, t) = d
  BY <1>1, <1>3, <1>6, <1>8 DEF AsSequences!Paste
<1>13. SubSeq(d, k + 1, k + M) = t
  <2>1. PICK e : e = SubSeq(d, k + 1, k + M)
    OBVIOUS
  <2>2. k + 1 \in 1 .. Len(d) + 1 /\ k + M \in (k + 1) - 1 .. Len(d)
    BY <1>2, <1>9
  <2>3. /\ e \in Seq(S) /\ Len(e) = (k + M) - (k + 1) + 1
        /\ \A p \in 1 .. (k + M) - (k + 1) + 1 : e[p] = d[p + ((k + 1) - 1)]
    BY <2>1, <2>2, <1>9, SubSeqFacts
  <2>4. (k + M) - (k + 1) + 1 = M /\ (k + 1) - 1 = k
    BY <1>2
  <2>5. ASSUME NEW p \in 1 .. M PROVE e[p] = t[p]
    <3>1. p + k \in 1 .. L + M /\ ~(p + k <= k) /\ p + k <= k + M /\ (p + k) - k = p
      BY <1>2
    <3>2. d[p + k] = t[p]
      BY <3>1, <1>10
    <3> QED
      BY <3>2, <2>3, <2>4
  <2>6. Len(e) = Len(t) /\ \A p \in 1 .. Len(e) : e[p] = t[p]
    BY <2>3, <2>4, <2>5, <1>1
  <2> QED
    BY <2>1, <2>3, <2>6, SeqEqual
<1> QED
  BY <1>1, <1>9, <1>11, <1>12, <1>13

(* A sequence without a part.                                              *)
LEMMA CutIs ==
  ASSUME NEW S, NEW s \in Seq(S), NEW i \in 1 .. Len(s), NEW j \in i + 1 .. Len(s) + 1
  PROVE  /\ AsSequences!Cut(s, i - 1, j - 1) = CutOut(s, i, j)
         /\ CutOut(s, i, j) \in Seq(S) /\ Len(CutOut(s, i, j)) = Len(s) - (j - i)
<1>1. PICK L \in Nat : L = Len(s)
  OBVIOUS
<1>2. i \in Nat /\ j \in Nat /\ 1 <= i /\ i < j /\ j <= L + 1
  BY <1>1
<1>3. PICK a, b : a = SubSeq(s, 1, i - 1) /\ b = SubSeq(s, (j - 1) + 1, L)
  OBVIOUS
<1>4. a \in Seq(S) /\ Len(a) = i - 1 /\ \A p \in 1 .. i - 1 : a[p] = s[p]
  <2>1. 1 \in 1 .. Len(s) + 1 /\ i - 1 \in 1 - 1 .. Len(s)
    BY <1>1, <1>2
  <2>2. /\ a \in Seq(S) /\ Len(a) = (i - 1) - 1 + 1
        /\ \A p \in 1 .. (i - 1) - 1 + 1 : a[p] = s[p + (1 - 1)]
    BY <2>1, <1>3, SubSeqFacts
  <2> QED
    BY <2>2, <1>2
<1>5. b \in Seq(S) /\ Len(b) = (L - j) + 1 /\ \A p \in 1 .. (L - j) + 1 : b[p] = s[p + (j - 1)]
  <2>1. j \in 1 .. Len(s) + 1 /\ L \in j - 1 .. Len(s) /\ (j - 1) + 1 = j
    BY <1>1, <1>2
  <2>2. b = SubSeq(s, j, L)
    BY <2>1, <1>3
  <2>3. /\ b \in Seq(S) /\ Len(b) = L - j + 1
        /\ \A p \in 1 .. L - j + 1 : b[p] = s[p + (j - 1)]
    BY <2>1, <2>2, SubSeqFacts
  <2> QED
    BY <2>3
<1>6. PICK d : d = a \o b
  OBVIOUS
<1>7. /\ d \in Seq(S) /\ Len(d) = L - (j - i)
      /\ \A p \in 1 .. L - (j - i) : d[p] = IF p <= i - 1 THEN a[p] ELSE b[p - (i - 1)]
  <2>1. PICK x, y \in Nat : x = i - 1 /\ y = (L - j) + 1
    BY <1>2
  <2>2. a \in Seq(S) /\ b \in Seq(S) /\ Len(a) = x /\ Len(b) = y
    BY <2>1, <1>4, <1>5
  <2>3. d \in Seq(S) /\ Len(d) = x + y
        /\ \A p \in 1 .. x + y : d[p] = IF p <= x THEN a[p] ELSE b[p - x]
    BY <2>2, <1>6, ConcatProperties
  <2>4. x + y = L - (j - i)
    BY <2>1, <1>2
  <2> QED
    BY <2>1, <2>3, <2>4
<1>8. ASSUME NEW p \in 1 .. L - (j - i)
      PROVE  d[p] = IF p < i THEN s[p] ELSE s[p + (j - i)]
  <2>1. CASE p < i
    BY <2>1, <1>2, <1>4, <1>7
  <2>2. CASE ~(p < i)
    <3>1. p - (i - 1) \in 1 .. (L - j) + 1 /\ (p - (i - 1)) + (j - 1) = p + (j - i)
          /\ ~(p <= i - 1)
      BY <2>2, <1>2
    <3>2. d[p] = b[p - (i - 1)]
      BY <3>1, <1>7
    <3>3. b[p - (i - 1)] = s[p + (j - i)]
      BY <3>1, <1>5
    <3> QED
      BY <3>2, <3>3, <2>2
  <2> QED
    BY <2>1, <2>2
<1>9. d = CutOut(s, i, j)
  <2>1. d = [p \in 1 .. L - (j - i) |-> d[p]]
    BY <1>7
  <2> QED
    BY <2>1, <1>1, <1>8 DEF CutOut
<1>10. AsSequences!Cut(s, i - 1, j - 1) = d
  BY <1>1, <1>3, <1>6 DEF AsSequences!Cut
<1> QED
  BY <1>1, <1>7, <1>9, <1>10

----------------------------------------------------------------------------
(* Contents                                                                *)

(* An element: a node and its value.                                       *)
Pairs == Nodes \X Values

(* The elements in the nodes of w.                                         *)
ContentOf(w, val) == [i \in 1 .. Len(w) |-> <<w[i], val[w[i]]>>]

(* C are the lists as sequences of elements.                               *)
Shows(C, W, val) == C = [l \in Lists |-> ContentOf(W[l], val)]

(* The content of a list.                                                  *)
LEMMA ContentFacts ==
  ASSUME NEW w \in Seq(Nodes), NEW val \in [Nodes -> Values]
  PROVE  /\ ContentOf(w, val) \in Seq(Pairs) /\ Len(ContentOf(w, val)) = Len(w)
         /\ \A i \in 1 .. Len(w) : /\ ContentOf(w, val)[i] = <<w[i], val[w[i]]>>
                                   /\ ContentOf(w, val)[i][1] = w[i]
                                   /\ ContentOf(w, val)[i][2] = val[w[i]]
         /\ AsSequences!NodesOf(ContentOf(w, val)) = Elements(w)
         /\ AsSequences!ValuesOf(ContentOf(w, val)) = [i \in 1 .. Len(w) |-> val[w[i]]]
<1>1. PICK L \in Nat : L = Len(w)
  OBVIOUS
<1>2. PICK s : s = ContentOf(w, val)
  OBVIOUS
<1>3. ASSUME NEW i \in 1 .. L PROVE <<w[i], val[w[i]]>> \in Pairs
  <2>1. w[i] \in Nodes
    BY <1>1
  <2> QED
    BY <2>1 DEF Pairs
<1>4. /\ s \in Seq(Pairs) /\ Len(s) = L
      /\ \A i \in 1 .. L : s[i] = <<w[i], val[w[i]]>>
  BY <1>1, <1>2, <1>3 DEF ContentOf
<1>5. \A i \in 1 .. L : s[i][1] = w[i] /\ s[i][2] = val[w[i]]
  BY <1>4
<1>6. AsSequences!NodesOf(s) = Elements(w)
  <2>1. AsSequences!NodesOf(s) = {s[i][1] : i \in 1 .. L}
    BY <1>4 DEF AsSequences!NodesOf
  <2>2. Elements(w) = {w[i] : i \in 1 .. L}
    BY <1>1 DEF Elements
  <2> QED
    BY <2>1, <2>2, <1>5
<1>7. AsSequences!ValuesOf(s) = [i \in 1 .. L |-> val[w[i]]]
  <2>1. AsSequences!ValuesOf(s) = [i \in 1 .. L |-> s[i][2]]
    BY <1>4 DEF AsSequences!ValuesOf
  <2> QED
    BY <2>1, <1>5
<1> QED
  BY <1>1, <1>2, <1>4, <1>5, <1>6, <1>7

(* It is the same as long as the nodes have the same values.               *)
LEMMA ContentSame ==
  ASSUME NEW w \in Seq(Nodes), NEW val, NEW new, \A n \in Elements(w) : new[n] = val[n]
  PROVE  ContentOf(w, new) = ContentOf(w, val)
<1>1. \A i \in 1 .. Len(w) : new[w[i]] = val[w[i]]
  BY DEF Elements
<1> QED
  BY <1>1 DEF ContentOf

(* The content of sequences that were put together or taken apart.         *)
LEMMA ContentPasted ==
  ASSUME NEW w \in Seq(Nodes), NEW c \in Seq(Nodes), NEW k \in 0 .. Len(w),
         NEW val \in [Nodes -> Values]
  PROVE  ContentOf(Pasted(w, k, c), val) = Pasted(ContentOf(w, val), k, ContentOf(c, val))
<1>1. PICK L, M \in Nat : L = Len(w) /\ M = Len(c)
  OBVIOUS
<1>2. k \in Nat /\ k <= L
  BY <1>1
<1>3. PICK v, s, t : v = Pasted(w, k, c) /\ s = ContentOf(w, val) /\ t = ContentOf(c, val)
  OBVIOUS
<1>4. /\ Len(v) = L + M
      /\ \A p \in 1 .. L + M :
           v[p] = IF p <= k THEN w[p] ELSE IF p <= k + M THEN c[p - k] ELSE w[p - M]
  <2>1. v = [p \in 1 .. L + M |->
               IF p <= k THEN w[p] ELSE IF p <= k + M THEN c[p - k] ELSE w[p - M]]
    BY <1>1, <1>3 DEF Pasted
  <2> QED
    BY <2>1, <1>1
<1>5. /\ Len(s) = L /\ \A p \in 1 .. L : s[p] = <<w[p], val[w[p]]>>
      /\ Len(t) = M /\ \A p \in 1 .. M : t[p] = <<c[p], val[c[p]]>>
  BY <1>1, <1>3, ContentFacts
<1>6. \A p \in 1 .. L + M :
        <<v[p], val[v[p]]>>
          = IF p <= k THEN s[p] ELSE IF p <= k + M THEN t[p - k] ELSE s[p - M]
  <2> SUFFICES ASSUME NEW p \in 1 .. L + M
               PROVE  <<v[p], val[v[p]]>>
                        = IF p <= k THEN s[p] ELSE IF p <= k + M THEN t[p - k] ELSE s[p - M]
    OBVIOUS
  <2>1. CASE p <= k
    <3>1. p \in 1 .. L
      BY <2>1, <1>2
    <3> QED
      BY <3>1, <2>1, <1>4, <1>5
  <2>2. CASE k < p /\ p <= k + M
    <3>1. p - k \in 1 .. M /\ ~(p <= k)
      BY <2>2, <1>2
    <3> QED
      BY <3>1, <2>2, <1>4, <1>5
  <2>3. CASE k + M < p
    <3>1. p - M \in 1 .. L /\ ~(p <= k) /\ ~(p <= k + M)
      BY <2>3, <1>2
    <3> QED
      BY <3>1, <1>4, <1>5
  <2> QED
    BY <2>1, <2>2, <2>3, <1>2
<1>7. ContentOf(v, val) = [p \in 1 .. L + M |-> <<v[p], val[v[p]]>>]
  BY <1>4 DEF ContentOf
<1>8. Pasted(s, k, t)
        = [p \in 1 .. L + M |->
             IF p <= k THEN s[p] ELSE IF p <= k + M THEN t[p - k] ELSE s[p - M]]
  BY <1>5 DEF Pasted
<1> QED
  BY <1>3, <1>6, <1>7, <1>8

(* Cutting out a part.                                                     *)
LEMMA ContentCut ==
  ASSUME NEW w \in Seq(Nodes), NEW i \in 1 .. Len(w), NEW j \in i + 1 .. Len(w) + 1,
         NEW val \in [Nodes -> Values]
  PROVE  /\ ContentOf(CutOut(w, i, j), val) = CutOut(ContentOf(w, val), i, j)
         /\ ContentOf(SubSeq(w, i, j - 1), val) = SubSeq(ContentOf(w, val), i, j - 1)
<1>1. PICK L \in Nat : L = Len(w)
  OBVIOUS
<1>2. i \in Nat /\ j \in Nat /\ 1 <= i /\ i < j /\ j <= L + 1
  BY <1>1
<1>3. PICK s : s = ContentOf(w, val)
  OBVIOUS
<1>4. s \in Seq(Pairs) /\ Len(s) = L /\ \A p \in 1 .. L : s[p] = <<w[p], val[w[p]]>>
  BY <1>1, <1>3, ContentFacts
<1>5. ContentOf(CutOut(w, i, j), val) = CutOut(s, i, j)
  <2>1. PICK v : v = CutOut(w, i, j)
    OBVIOUS
  <2>2. PICK d \in Nat : d = L - (j - i)
    BY <1>2
  <2>3. v = [p \in 1 .. d |-> IF p < i THEN w[p] ELSE w[p + (j - i)]]
    BY <2>1, <2>2, <1>1 DEF CutOut
  <2>4. Len(v) = d /\ \A p \in 1 .. d : v[p] = IF p < i THEN w[p] ELSE w[p + (j - i)]
    BY <2>3
  <2>5. ASSUME NEW p \in 1 .. d
        PROVE  <<v[p], val[v[p]]>> = IF p < i THEN s[p] ELSE s[p + (j - i)]
    <3>1. CASE p < i
      <4>1. p \in 1 .. L
        BY <3>1, <1>2
      <4> QED
        BY <4>1, <3>1, <2>4, <1>4
    <3>2. CASE ~(p < i)
      <4>1. p + (j - i) \in 1 .. L
        BY <3>2, <2>2, <1>2
      <4> QED
        BY <4>1, <3>2, <2>4, <1>4
    <3> QED
      BY <3>1, <3>2
  <2>6. ContentOf(v, val) = [p \in 1 .. d |-> <<v[p], val[v[p]]>>]
    BY <2>4 DEF ContentOf
  <2>7. CutOut(s, i, j) = [p \in 1 .. d |-> IF p < i THEN s[p] ELSE s[p + (j - i)]]
    BY <2>2, <1>4 DEF CutOut
  <2> QED
    BY <2>1, <2>5, <2>6, <2>7
<1>6. ContentOf(SubSeq(w, i, j - 1), val) = SubSeq(s, i, j - 1)
  <2>1. PICK v, t : v = SubSeq(w, i, j - 1) /\ t = SubSeq(s, i, j - 1)
    OBVIOUS
  <2>2. PICK d \in Nat : d = j - i
    BY <1>2
  <2>3. /\ i \in 1 .. Len(w) + 1 /\ j - 1 \in i - 1 .. Len(w)
        /\ i \in 1 .. Len(s) + 1 /\ j - 1 \in i - 1 .. Len(s) /\ (j - 1) - i + 1 = d
    BY <2>2, <1>1, <1>2, <1>4
  <2>4. v \in Seq(Nodes) /\ Len(v) = d /\ \A p \in 1 .. d : v[p] = w[p + (i - 1)]
    BY <2>1, <2>3, SubSeqFacts
  <2>5. t \in Seq(Pairs) /\ Len(t) = d /\ \A p \in 1 .. d : t[p] = s[p + (i - 1)]
    BY <2>1, <2>3, <1>4, SubSeqFacts
  <2>6. ASSUME NEW p \in 1 .. d PROVE t[p] = <<v[p], val[v[p]]>>
    <3>1. p + (i - 1) \in 1 .. L
      BY <2>2, <1>2
    <3> QED
      BY <3>1, <2>4, <2>5, <1>4
  <2>7. t = [p \in 1 .. d |-> <<v[p], val[v[p]]>>]
    <3>1. t = [p \in 1 .. d |-> t[p]]
      BY <2>5
    <3> QED
      BY <3>1, <2>6
  <2>8. ContentOf(v, val) = [p \in 1 .. d |-> <<v[p], val[v[p]]>>]
    BY <2>4 DEF ContentOf
  <2> QED
    BY <2>1, <2>7, <2>8
<1> QED
  BY <1>3, <1>5, <1>6

(* Turning it round, and putting one behind the other.                     *)
LEMMA ContentReverse ==
  ASSUME NEW w \in Seq(Nodes), Distinct(w), NEW val \in [Nodes -> Values]
  PROVE  ContentOf(Reverse(w), val) = Reverse(ContentOf(w, val))
<1>1. PICK L \in Nat : L = Len(w)
  OBVIOUS
<1>2. PICK v, s : v = Reverse(w) /\ s = ContentOf(w, val)
  OBVIOUS
<1>3. Len(v) = L /\ \A i \in 1 .. L : v[i] = w[L - i + 1]
  BY <1>1, <1>2, ReverseFacts
<1>4. Len(s) = L /\ \A p \in 1 .. L : s[p] = <<w[p], val[w[p]]>>
  BY <1>1, <1>2, ContentFacts
<1>5. Reverse(s) = [i \in 1 .. L |-> s[(L - i) + 1]]
  BY <1>4 DEF Reverse
<1>6. ContentOf(v, val) = [i \in 1 .. L |-> <<v[i], val[v[i]]>>]
  BY <1>3 DEF ContentOf
<1>7. ASSUME NEW i \in 1 .. L PROVE s[(L - i) + 1] = <<v[i], val[v[i]]>>
  <2>1. (L - i) + 1 \in 1 .. L /\ (L - i) + 1 = L - i + 1
    OBVIOUS
  <2> QED
    BY <2>1, <1>3, <1>4
<1> QED
  BY <1>2, <1>5, <1>6, <1>7

(* One sequence behind another.                                            *)
LEMMA ContentConcat ==
  ASSUME NEW v \in Seq(Nodes), NEW w \in Seq(Nodes), NEW val \in [Nodes -> Values]
  PROVE  ContentOf(v \o w, val) = ContentOf(v, val) \o ContentOf(w, val)
<1>1. PICK K, L \in Nat : K = Len(v) /\ L = Len(w)
  OBVIOUS
<1>2. PICK x, s, t, y : /\ x = v \o w /\ s = ContentOf(v, val) /\ t = ContentOf(w, val)
                        /\ y = s \o t
  OBVIOUS
<1>3. /\ x \in Seq(Nodes) /\ Len(x) = K + L
      /\ \A i \in 1 .. K + L : x[i] = IF i <= K THEN v[i] ELSE w[i - K]
  BY <1>1, <1>2, ConcatProperties
<1>4. /\ s \in Seq(Pairs) /\ Len(s) = K /\ \A i \in 1 .. K : s[i] = <<v[i], val[v[i]]>>
      /\ t \in Seq(Pairs) /\ Len(t) = L /\ \A i \in 1 .. L : t[i] = <<w[i], val[w[i]]>>
  BY <1>1, <1>2, ContentFacts
<1>5. /\ y \in Seq(Pairs) /\ Len(y) = K + L
      /\ \A i \in 1 .. K + L : y[i] = IF i <= K THEN s[i] ELSE t[i - K]
  BY <1>2, <1>4, ConcatProperties
<1>6. ASSUME NEW i \in 1 .. K + L PROVE y[i] = <<x[i], val[x[i]]>>
  <2>1. CASE i <= K
    <3>1. i \in 1 .. K
      BY <2>1
    <3> QED
      BY <3>1, <2>1, <1>3, <1>4, <1>5
  <2>2. CASE ~(i <= K)
    <3>1. i - K \in 1 .. L
      BY <2>2
    <3> QED
      BY <3>1, <2>2, <1>3, <1>4, <1>5, ZenonT(40)
  <2> QED
    BY <2>1, <2>2
<1>7. y = [i \in 1 .. K + L |-> <<x[i], val[x[i]]>>]
  <2>1. y = [i \in 1 .. K + L |-> y[i]]
    BY <1>5
  <2> QED
    BY <2>1, <1>6
<1>8. ContentOf(x, val) = [i \in 1 .. K + L |-> <<x[i], val[x[i]]>>]
  BY <1>3 DEF ContentOf
<1> QED
  BY <1>2, <1>7, <1>8

(* What a loop that erases elements leaves is what it keeps.               *)
LEMMA ThinnedKeeps ==
  ASSUME NEW w \in Seq(Nodes), NEW v \in Seq(Nodes), NEW P, NEW e, Thinned(w, v, P, e),
         NEW val \in [Nodes -> Values]
  PROVE  AsSequences!Keeps(ContentOf(v, val), ContentOf(w, val), P)
<1>1. PICK L, M \in Nat : L = Len(w) /\ M = Len(v)
  OBVIOUS
<1>2. PICK s, t : s = ContentOf(w, val) /\ t = ContentOf(v, val)
  OBVIOUS
<1>3. /\ Len(s) = L /\ \A i \in 1 .. L : s[i] = <<w[i], val[w[i]]>>
      /\ Len(t) = M /\ \A i \in 1 .. M : t[i] = <<v[i], val[v[i]]>>
      /\ t = [i \in 1 .. M |-> <<v[i], val[v[i]]>>]
  <2>1. t = [i \in 1 .. M |-> <<v[i], val[v[i]]>>]
    BY <1>1, <1>2 DEF ContentOf
  <2> QED
    BY <2>1, <1>1, <1>2, ContentFacts
<1>4. /\ P \in SUBSET (1 .. L) /\ e \in [1 .. M -> P]
      /\ \A a, b \in 1 .. M : a < b => e[a] < e[b]
      /\ \A p \in P : \E a \in 1 .. M : e[a] = p
      /\ \A a \in 1 .. M : v[a] = w[e[a]]
  BY <1>1 DEF Thinned
<1>5. ASSUME NEW a \in 1 .. M PROVE e[a] \in P /\ t[a] = s[e[a]]
  <2>1. e[a] \in P /\ e[a] \in 1 .. L
    BY <1>4
  <2> QED
    BY <2>1, <1>3, <1>4
<1>6. Len(t) = Cardinality(P)
  <2>1. ASSUME NEW a \in 1 .. M, NEW b \in 1 .. M, e[a] = e[b] PROVE a = b
    <3>1. e[a] \in 1 .. L
      BY <1>4
    <3>2. PICK x \in Int : x = e[a] /\ x = e[b]
      BY <3>1, <2>1
    <3>3. ~(e[a] < e[b]) /\ ~(e[b] < e[a])
      BY <3>2
    <3>4. ~(a < b) /\ ~(b < a)
      BY <3>3, <1>4
    <3> QED
      BY <3>4
  <2>2. e \in Bijection(1 .. M, P)
    BY <2>1, <1>4 DEF Bijection, Injection, Surjection, IsInjective
  <2>3. IsFiniteSet(1 .. M) /\ Cardinality(1 .. M) = M
    <3>1. Cardinality(1 .. M) = IF 1 > M THEN 0 ELSE M - 1 + 1
      BY FS_Interval
    <3> QED
      BY <3>1, FS_Interval
  <2> QED
    BY <2>2, <2>3, <1>3, FS_Bijection DEF ExistsBijection
<1>7. ToSet(t) = {s[i] : i \in P}
  <2>1. ToSet(t) = {t[a] : a \in 1 .. M}
    BY <1>3 DEF ToSet
  <2>2. \A i \in P : \E a \in 1 .. M : t[a] = s[i]
    BY <1>4, <1>5
  <2> QED
    BY <2>1, <2>2, <1>5
<1>8. ASSUME NEW a \in 1 .. M, NEW b \in 1 .. M, a < b
      PROVE  \E i, j \in P : i < j /\ t[a] = s[i] /\ t[b] = s[j]
  <2>1. e[a] < e[b]
    BY <1>4, <1>8
  <2> QED
    BY <2>1, <1>5
<1>9. AsSequences!Keeps(t, s, P)
  <2>1. /\ Len(t) = AsSequences!Cardinality(P)
        /\ AsSequences!ToSet(t) = {s[i] : i \in P}
    BY <1>6, <1>7, SameOperators
  <2>2. \A a, b \in 1 .. Len(t) :
          a < b => \E i, j \in P : i < j /\ t[a] = s[i] /\ t[b] = s[j]
    BY <1>3, <1>8
  <2> QED
    BY <2>1, <2>2 DEF AsSequences!Keeps
<1> QED
  BY <1>2, <1>9

(* Nothing is kept of a list that is cleared.                              *)
LEMMA NothingKept ==
  ASSUME NEW s, NEW val
  PROVE  ContentOf(<<>>, val) = <<>> /\ AsSequences!Keeps(<<>>, s, {})
<1>1. ContentOf(<<>>, val) = <<>>
  BY DEF ContentOf
<1>2. AsSequences!ToSet(<<>>) = {} /\ AsSequences!Cardinality({}) = 0
  BY SameOperators, FS_EmptySet DEF ToSet
<1> QED
  BY <1>1, <1>2 DEF AsSequences!Keeps

(* The sorted vector is what sort and merge promise.                       *)
LEMMA SortedStable ==
  ASSUME value \in [Nodes -> Values], NEW w \in Seq(Nodes), Distinct(w)
  PROVE  AsSequences!IsStableSort(ContentOf(stable_sort(w), value), ContentOf(w, value))
<1>1. PICK L \in Nat : L = Len(w)
  OBVIOUS
<1>2. PICK v, p : v = stable_sort(w) /\ p = PlaceOf(w)
  OBVIOUS
<1>3. /\ v \in Seq(Nodes) /\ Len(v) = L
      /\ \A j \in 1 .. L : p[j] \in 1 .. L /\ v[p[j]] = w[j]
  BY <1>1, <1>2, SortedFacts
<1>4. /\ \A q \in 1 .. L : \E j \in 1 .. L : p[j] = q
      /\ \A j, k \in 1 .. L : NotBehind(w, j, k) <=> p[j] <= p[k]
  BY <1>1, <1>2, PlacesDiffer DEF Bijection, Surjection
<1>5. PICK s, t : s = ContentOf(w, value) /\ t = ContentOf(v, value)
  OBVIOUS
<1>6. /\ Len(s) = L /\ s = [i \in 1 .. L |-> <<w[i], value[w[i]]>>]
      /\ Len(t) = L /\ t = [i \in 1 .. L |-> <<v[i], value[v[i]]>>]
      /\ \A i \in 1 .. L : s[i][2] = value[w[i]] /\ t[i][2] = value[v[i]]
  BY <1>1, <1>3, <1>5, ContentFacts DEF ContentOf
<1>7. \A j \in 1 .. L : t[p[j]] = s[j]
  BY <1>3, <1>6
<1>8. ToSet(t) = ToSet(s)
  <2>1. ToSet(t) = {t[q] : q \in 1 .. L} /\ ToSet(s) = {s[j] : j \in 1 .. L}
    BY <1>6 DEF ToSet
  <2>2. \A q \in 1 .. L : \E j \in 1 .. L : t[q] = s[j]
    BY <1>4, <1>7, SMTT(20)
  <2>3. \A j \in 1 .. L : \E q \in 1 .. L : t[q] = s[j]
    BY <1>3, <1>7
  <2> QED
    BY <2>1, <2>2, <2>3, Zenon
<1>9. ASSUME NEW i \in 1 .. L, NEW j \in 1 .. L, i < j
      PROVE  \/ Rank[t[i][2]] < Rank[t[j][2]]
             \/ /\ Rank[t[i][2]] = Rank[t[j][2]]
                /\ \E a, b \in 1 .. L : a < b /\ s[a] = t[i] /\ s[b] = t[j]
  <2>1. PICK a \in 1 .. L : p[a] = i
    BY <1>4
  <2>2. PICK b \in 1 .. L : p[b] = j
    BY <1>4
  <2>3. a # b /\ p[a] <= p[b]
    BY <1>9, <2>1, <2>2
  <2>4. NotBehind(w, a, b)
    BY <1>4, <2>3
  <2>5. s[a] = t[i] /\ s[b] = t[j]
    BY <1>7, <2>1, <2>2
  <2>6. Ranked(w, a) = Rank[t[i][2]] /\ Ranked(w, b) = Rank[t[j][2]]
    BY <1>6, <2>5 DEF Ranked
  <2>7. Ranked(w, a) < Ranked(w, b) \/ (Ranked(w, a) = Ranked(w, b) /\ a < b)
    BY <2>3, <2>4 DEF NotBehind
  <2> QED
    BY <2>5, <2>6, <2>7
<1>10. AsSequences!IsStableSort(t, s)
  <2>1. Len(t) = Len(s) /\ AsSequences!ToSet(t) = AsSequences!ToSet(s)
    BY <1>6, <1>8, SameOperators
  <2>2. \A i, j \in 1 .. Len(t) :
          i < j =>
            \/ Rank[t[i][2]] < Rank[t[j][2]]
            \/ /\ Rank[t[i][2]] = Rank[t[j][2]]
               /\ \E a, b \in 1 .. Len(s) : a < b /\ s[a] = t[i] /\ s[b] = t[j]
    <3>1. Len(t) = L /\ Len(s) = L
      BY <1>6
    <3> QED
      BY <3>1, <1>9
  <2> QED
    BY <2>1, <2>2 DEF AsSequences!IsStableSort
<1> QED
  BY <1>2, <1>5, <1>10

----------------------------------------------------------------------------
(* The refinement                                                          *)

(* The lists before and after a step.                                      *)
LEMMA ContentsNow ==
  ASSUME NEW W, NEW F, NEW H, Sound(Now, W, F, H)
  PROVE  Shows(Contents, W, value) /\ value \in [Nodes -> Values] /\ W \in Sequences
<1>1. value \in [Nodes -> Values] /\ W \in Sequences /\ Rings(ring, W)
  BY SoundParts, ZenonT(40) DEF Sound, Now
<1>2. \A l \in Lists : Walk(ring, l) = W[l]
  BY <1>1, ListsApart, WalkIs
<1>3. Contents = [l \in Lists |-> ContentOf(Walk(ring, l), value)]
  BY DEF Contents, ContentOf
<1> QED
  BY <1>1, <1>2, <1>3 DEF Shows

(* After the step.                                                         *)
LEMMA ContentsNext ==
  ASSUME NEW V, NEW G, NEW K, Reaches(V, G, K)
  PROVE  Shows(Contents', V, value') /\ value' \in [Nodes -> Values] /\ V \in Sequences
<1>1. Sound(Now', V, G, K) /\ Now'.ring = ring' /\ Now'.value = value'
  BY DEF Reaches, Now
<1>2. value' \in [Nodes -> Values] /\ V \in Sequences /\ Rings(ring', V)
  BY <1>1, SoundParts, Zenon DEF Sound
<1>3. \A l \in Lists : Walk(ring', l) = V[l]
  BY <1>2, ListsApart, WalkIs
<1>4. Contents' = [l \in Lists |-> ContentOf(Walk(ring', l), value')]
  BY DEF Contents, ContentOf
<1> QED
  BY <1>2, <1>3, <1>4 DEF Shows

(* What the lists of C are.                                                *)
LEMMA ShownAt ==
  ASSUME NEW C, NEW W \in Sequences, NEW val, Shows(C, W, val), NEW l \in Lists
  PROVE  C[l] = ContentOf(W[l], val) /\ W[l] \in Seq(Nodes)
  BY ListsApart DEF Shows, Sequences

(* A list with the same nodes, whose values have not changed.              *)
LEMMA ShownSame ==
  ASSUME NEW C, NEW W \in Sequences, NEW val, Shows(C, W, val),
         NEW D, NEW V \in Sequences, NEW new, Shows(D, V, new),
         NEW l \in Lists, V[l] = W[l], \A n \in Elements(W[l]) : new[n] = val[n]
  PROVE  D[l] = C[l]
<1>1. C[l] = ContentOf(W[l], val) /\ D[l] = ContentOf(W[l], new) /\ W[l] \in Seq(Nodes)
  BY ShownAt
<1> QED
  BY <1>1, ContentSame

(* New nodes have their values from the input.                             *)
Given(vals) ==
  /\ vals \in Seq(Values)
  /\ vals \in Inputs \/ \E v \in Values : \E n \in Nat : vals = [j \in 1 .. n |-> v]

(* What was taken of them is what AbstractLists allows.                    *)
LEMMA FromGiven ==
  ASSUME NEW vals, Given(vals), NEW c \in Seq(Nodes), Len(c) <= Len(vals),
         NEW val \in [Nodes -> Values], \A j \in 1 .. Len(c) : val[c[j]] = vals[j]
  PROVE  AsSequences!FromInput(ContentOf(c, val))
<1>1. PICK M, N \in Nat : M = Len(c) /\ N = Len(vals)
  BY DEF Given
<1>2. PICK t, u : t = ContentOf(c, val) /\ u = AsSequences!ValuesOf(t)
  OBVIOUS
<1>3. Len(t) = M /\ u = [i \in 1 .. M |-> vals[i]]
  <2>1. Len(t) = M /\ u = [i \in 1 .. M |-> val[c[i]]]
    BY <1>1, <1>2, ContentFacts
  <2> QED
    BY <2>1, <1>1
<1>4. CASE vals \in Inputs
  <2>1. u \in Seq(Values) /\ Len(u) = M
    <3>1. \A i \in 1 .. M : i \in 1 .. N
      BY <1>1
    <3>2. \A i \in 1 .. M : vals[i] \in Values
      BY <1>1, <3>1 DEF Given
    <3> QED
      BY <3>2, <1>3
  <2>2. SubSeq(u, 1, M) = u
    BY <2>1, SubSeqFull
  <2>3. /\ SubSeq(vals, 1, M) \in Seq(Values) /\ Len(SubSeq(vals, 1, M)) = M - 1 + 1
        /\ \A p \in 1 .. M - 1 + 1 : SubSeq(vals, 1, M)[p] = vals[p + (1 - 1)]
    <3>1. vals \in Seq(Values) /\ 1 \in 1 .. Len(vals) + 1 /\ M \in 1 - 1 .. Len(vals)
      BY <1>1 DEF Given
    <3> QED
      BY <3>1, SubSeqFacts
  <2>4. SubSeq(vals, 1, M) = u
    <3>1. PICK x : x = SubSeq(vals, 1, M)
      OBVIOUS
    <3>2. M - 1 + 1 = M /\ \A p \in 1 .. M : p + (1 - 1) = p
      OBVIOUS
    <3>3. x \in Seq(Values) /\ Len(x) = M /\ \A p \in 1 .. M : x[p] = vals[p]
      BY <2>3, <3>1, <3>2
    <3>4. x = [p \in 1 .. M |-> x[p]]
      BY <3>3
    <3> QED
      BY <3>1, <3>3, <3>4, <1>3
  <2>5. AsSequences!IsPrefix(u, vals)
    BY <1>1, <2>1, <2>2, <2>4 DEF AsSequences!IsPrefix
  <2> QED
    BY <2>5, <1>2, <1>4 DEF AsSequences!FromInput
<1>5. ASSUME NEW v \in Values, NEW n \in Nat, vals = [j \in 1 .. n |-> v]
      PROVE  AsSequences!FromInput(t)
  <2>1. N = n
    BY <1>1, <1>5
  <2>2. \A i \in 1 .. M : vals[i] = v
    BY <1>1, <1>5, <2>1
  <2>3. u = [i \in 1 .. Len(t) |-> v]
    BY <1>3, <2>2
  <2> QED
    BY <2>3, <1>2 DEF AsSequences!FromInput
<1> QED
  BY <1>2, <1>4, <1>5 DEF Given

(* New elements are apart from those of the lists.                         *)
LEMMA NewApart ==
  ASSUME NEW W \in Sequences, Shows(Contents, W, value), value \in [Nodes -> Values],
         NEW c \in Seq(Nodes), Distinct(c), NEW L \in SUBSET Lists,
         \A m \in L : Elements(c) \cap Elements(W[m]) = {}, NEW val \in [Nodes -> Values]
  PROVE  AsSequences!Apart(ContentOf(c, val), L)
<1>1. PICK t : t = ContentOf(c, val)
  OBVIOUS
<1>2. /\ Len(t) = Len(c) /\ \A i \in 1 .. Len(c) : t[i][1] = c[i]
      /\ AsSequences!NodesOf(t) = Elements(c)
  BY <1>1, ContentFacts
<1>3. \A i, j \in 1 .. Len(t) : t[i][1] = t[j][1] => i = j
  BY <1>2 DEF Distinct
<1>4. ASSUME NEW m \in L PROVE AsSequences!NodesOf(t) \cap AsSequences!NodesOf(Contents[m]) = {}
  <2>1. Contents[m] = ContentOf(W[m], value) /\ W[m] \in Seq(Nodes)
    BY ShownAt
  <2>2. AsSequences!NodesOf(Contents[m]) = Elements(W[m])
    BY <2>1, ContentFacts
  <2> QED
    BY <2>2, <1>2
<1> QED
  BY <1>1, <1>3, <1>4 DEF AsSequences!Apart

(* insert, and resize to a larger size.                                    *)
LEMMA InsertRefines ==
  ASSUME NEW W, NEW F, NEW H, Sound(Now, W, F, H), NEW V, NEW G, NEW K, Reaches(V, G, K),
         NEW l \in Lists, NEW k, NEW c, NEW vals, Inserts(W, V, l, k, c, vals), Given(vals)
  PROVE  AsSequences!Insert(l)
<1>1. Shows(Contents, W, value) /\ value \in [Nodes -> Values] /\ W \in Sequences
  BY ContentsNow
<1>2. Shows(Contents', V, value') /\ value' \in [Nodes -> Values] /\ V \in Sequences
  BY ContentsNext
<1>3. l \in Sentinels /\ \A m \in Lists : m \in Sentinels
  BY ListsApart
<1>4. /\ k \in 0 .. Len(W[l]) /\ c \in Seq(Nodes) /\ Distinct(c) /\ Loose(c, W)
      /\ Len(c) <= Len(vals)
      /\ V[l] = Pasted(W[l], k, c) /\ \A m \in Sentinels \ {l} : V[m] = W[m]
      /\ \A j \in 1 .. Len(c) : value'[c[j]] = vals[j]
      /\ \A n \in Nodes \ Elements(c) : value'[n] = value[n]
  BY DEF Inserts
<1>5. W[l] \in Seq(Nodes) /\ Contents[l] = ContentOf(W[l], value)
      /\ Contents'[l] = ContentOf(V[l], value')
  BY <1>1, <1>2, ShownAt
<1>6. ASSUME NEW m \in Lists, NEW n \in Elements(W[m]) PROVE value'[n] = value[n]
  <2>1. W[m] \in Seq(Nodes)
    BY <1>1, ShownAt
  <2>2. n \in Nodes /\ n \notin Elements(c)
    BY <2>1, <1>3, <1>4, ElementsOf DEF Loose
  <2> QED
    BY <2>2, <1>4
<1>7. PICK s, t : s = Contents[l] /\ t = ContentOf(c, value')
  OBVIOUS
<1>8. s = ContentOf(W[l], value')
  BY <1>5, <1>6, <1>7, ContentSame
<1>9. Contents'[l] = Pasted(s, k, t)
  <2>1. PICK w \in Seq(Nodes) : w = W[l]
    BY <1>5
  <2>2. k \in 0 .. Len(w) /\ c \in Seq(Nodes) /\ value' \in [Nodes -> Values]
    BY <2>1, <1>2, <1>4
  <2>3. ContentOf(Pasted(w, k, c), value') = Pasted(ContentOf(w, value'), k, ContentOf(c, value'))
    BY <2>2, ContentPasted, Zenon
  <2>4. Contents'[l] = ContentOf(Pasted(w, k, c), value')
    BY <2>1, <1>4, <1>5, Zenon
  <2>5. s = ContentOf(w, value') /\ t = ContentOf(c, value')
    BY <2>1, <1>7, <1>8, Zenon
  <2> QED
    BY <2>3, <2>4, <2>5, Zenon
<1>10. /\ s \in Seq(Pairs) /\ Len(s) = Len(W[l]) /\ t \in Seq(Pairs) /\ Len(t) = Len(c)
  BY <1>2, <1>4, <1>5, <1>7, <1>8, ContentFacts
<1>11. /\ AsSequences!Paste(s, k, t) = Pasted(s, k, t)
       /\ Len(Pasted(s, k, t)) = Len(s) + Len(t)
       /\ SubSeq(Pasted(s, k, t), k + 1, k + Len(t)) = t
  <2>1. k \in 0 .. Len(s)
    BY <1>4, <1>10
  <2>2. s \in Seq(Pairs) /\ t \in Seq(Pairs)
    BY <1>10
  <2> QED
    BY <2>1, <2>2, PasteIs
<1>12. SubSeq(Contents'[l], k + 1, k + Len(Contents'[l]) - Len(s)) = t
  <2>1. PICK a, b, x \in Int : a = Len(s) /\ b = Len(t) /\ x = k
    BY <1>4, <1>5, <1>10
  <2>2. k + Len(Contents'[l]) - Len(s) = x + (a + b) - a
    BY <2>1, <1>9, <1>11
  <2>3. x + (a + b) - a = k + Len(t)
    BY <2>1
  <2> QED
    BY <2>2, <2>3, <1>9, <1>11
<1>13. AsSequences!FromInput(t)
  BY <1>2, <1>4, <1>7, FromGiven
<1>14. AsSequences!Apart(t, Lists)
  <2>1. \A m \in Lists : Elements(c) \cap Elements(W[m]) = {}
    BY <1>3, <1>4 DEF Loose
  <2> QED
    BY <2>1, <1>1, <1>2, <1>4, <1>7, NewApart
<1>15. AsSequences!Only(l)
  <2>1. ASSUME NEW m \in Lists \ {l} PROVE Contents'[m] = Contents[m]
    <3>1. V[m] = W[m]
      BY <1>3, <1>4
    <3> QED
      BY <3>1, <1>1, <1>2, <1>6, ShownSame
  <2> QED
    BY <2>1 DEF AsSequences!Only
<1>16. k \in 0 .. Len(Contents[l])
  BY <1>4, <1>7, <1>10
<1> QED
  <2>1. /\ k \in 0 .. Len(Contents[l])
        /\ Contents'[l] = AsSequences!Paste(Contents[l], k, t)
        /\ SubSeq(Contents'[l], k + 1, k + Len(Contents'[l]) - Len(Contents[l])) = t
    BY <1>7, <1>9, <1>11, <1>12, <1>16
  <2> QED
    BY <2>1, <1>13, <1>14, <1>15 DEF AsSequences!Insert

(* All elements of a list are new.                                         *)
Renews(W, V, l, c) ==
  /\ c \in Seq(Nodes) /\ Distinct(c) /\ V[l] = c
  /\ \A m \in Lists \ {l} : V[m] = W[m] /\ Elements(c) \cap Elements(W[m]) = {}
  /\ \A n \in Nodes \ Elements(c) : value'[n] = value[n]

(* Then the others are the same.                                           *)
LEMMA RenewFacts ==
  ASSUME NEW W, NEW F, NEW H, Sound(Now, W, F, H), NEW V, NEW G, NEW K, Reaches(V, G, K),
         NEW l \in Lists, NEW c, Renews(W, V, l, c)
  PROVE  /\ Contents'[l] = ContentOf(c, value')
         /\ AsSequences!Apart(Contents'[l], Lists \ {l})
         /\ AsSequences!Only(l)
<1>1. Shows(Contents, W, value) /\ value \in [Nodes -> Values] /\ W \in Sequences
  BY ContentsNow
<1>2. Shows(Contents', V, value') /\ value' \in [Nodes -> Values] /\ V \in Sequences
  BY ContentsNext
<1>3. /\ c \in Seq(Nodes) /\ Distinct(c) /\ V[l] = c
      /\ \A m \in Lists \ {l} : V[m] = W[m] /\ Elements(c) \cap Elements(W[m]) = {}
      /\ \A n \in Nodes \ Elements(c) : value'[n] = value[n]
  BY DEF Renews
<1>4. Contents'[l] = ContentOf(c, value')
  BY <1>2, <1>3, ShownAt
<1>5. AsSequences!Apart(Contents'[l], Lists \ {l})
  <2>1. Lists \ {l} \in SUBSET Lists
    OBVIOUS
  <2>2. \A m \in Lists \ {l} : Elements(c) \cap Elements(W[m]) = {}
    BY <1>3
  <2>3. AsSequences!Apart(ContentOf(c, value'), Lists \ {l})
    BY <2>1, <2>2, <1>1, <1>2, <1>3, NewApart
  <2> QED
    BY <2>3, <1>4
<1>6. ASSUME NEW m \in Lists \ {l} PROVE Contents'[m] = Contents[m]
  <2>1. W[m] \in Seq(Nodes) /\ V[m] = W[m] /\ Elements(c) \cap Elements(W[m]) = {}
    BY <1>1, <1>3, ShownAt
  <2>2. \A n \in Elements(W[m]) : value'[n] = value[n]
    BY <2>1, <1>3, ElementsOf
  <2> QED
    BY <2>1, <2>2, <1>1, <1>2, ShownSame
<1> QED
  BY <1>4, <1>5, <1>6 DEF AsSequences!Only

(* assign.                                                                 *)
LEMMA AssignRefines ==
  ASSUME NEW W, NEW F, NEW H, Sound(Now, W, F, H), NEW V, NEW G, NEW K, Reaches(V, G, K),
         NEW l \in Lists, NEW U, Sets(W, U, l, <<>>), NEW c, NEW vals,
         Inserts(U, V, l, 0, c, vals), Given(vals)
  PROVE  AsSequences!Assign(l)
<1>1. U[l] = <<>> /\ \A m \in Sentinels \ {l} : U[m] = W[m]
  BY DEF Sets
<1>2. /\ c \in Seq(Nodes) /\ Distinct(c) /\ Loose(c, U) /\ Len(c) <= Len(vals)
      /\ V[l] = Pasted(U[l], 0, c) /\ \A m \in Sentinels \ {l} : V[m] = U[m]
      /\ \A j \in 1 .. Len(c) : value'[c[j]] = vals[j]
      /\ \A n \in Nodes \ Elements(c) : value'[n] = value[n]
  BY DEF Inserts
<1>3. V[l] = c
  <2>1. PICK N \in Nat : N = Len(c)
    BY <1>2
  <2>2. Pasted(<<>>, 0, c) = [p \in 1 .. 0 + N |->
           IF p <= 0 THEN <<>>[p] ELSE IF p <= 0 + N THEN c[p - 0] ELSE <<>>[p - N]]
    BY <2>1 DEF Pasted
  <2>3. 0 + N = N /\ \A p \in 1 .. N : ~(p <= 0) /\ p <= N /\ p - 0 = p
    OBVIOUS
  <2>4. Pasted(<<>>, 0, c) = [p \in 1 .. N |-> c[p]]
    BY <2>2, <2>3
  <2>5. c = [p \in 1 .. N |-> c[p]]
    BY <2>1, <1>2
  <2> QED
    BY <2>4, <2>5, <1>1, <1>2
<1>4. Renews(W, V, l, c)
  <2>1. \A m \in Lists \ {l} : V[m] = W[m] /\ Elements(c) \cap Elements(W[m]) = {}
    BY <1>1, <1>2, ListsApart DEF Loose
  <2> QED
    BY <2>1, <1>2, <1>3 DEF Renews
<1>5. AsSequences!FromInput(ContentOf(c, value'))
  BY <1>2, ContentsNext, FromGiven
<1> QED
  BY <1>4, <1>5, RenewFacts DEF AsSequences!Assign

(* What was created is new.                                                *)
LEMMA CreatesRenews ==
  ASSUME NEW W, NEW V, NEW l \in Lists, NEW c, NEW vals, Creates(W, c, vals), Gets(W, V, l, c)
  PROVE  Renews(W, V, l, c)
  BY ListsApart DEF Creates, Gets, Renews, Loose

(* l = SharedMemoryList(vals).                                             *)
LEMMA ConstructRefines ==
  ASSUME NEW W, NEW F, NEW H, Sound(Now, W, F, H), NEW V, NEW G, NEW K, Reaches(V, G, K),
         NEW l \in Lists, NEW c, NEW vals, Creates(W, c, vals), Gets(W, V, l, c), Given(vals)
  PROVE  AsSequences!Assign(l)
<1>1. Renews(W, V, l, c)
  BY CreatesRenews
<1>2. /\ c \in Seq(Nodes) /\ Len(c) = Len(vals)
      /\ \A j \in 1 .. Len(c) : value'[c[j]] = vals[j]
  BY DEF Creates
<1>3. Len(c) <= Len(vals)
  BY <1>2
<1>4. AsSequences!FromInput(ContentOf(c, value'))
  BY <1>2, <1>3, ContentsNext, FromGiven
<1> QED
  BY <1>1, <1>4, RenewFacts DEF AsSequences!Assign

(* Copy assignment.                                                        *)
LEMMA CopyRefines ==
  ASSUME NEW W, NEW F, NEW H, Sound(Now, W, F, H), NEW V, NEW G, NEW K, Reaches(V, G, K),
         NEW l \in Lists, NEW m \in Lists, NEW c, Creates(W, c, Copied(W[m])), Gets(W, V, l, c)
  PROVE  AsSequences!Copy(l, m)
<1>1. Renews(W, V, l, c)
  BY CreatesRenews
<1>2. PICK vals : vals = Copied(W[m])
  OBVIOUS
<1>3. /\ c \in Seq(Nodes) /\ Distinct(c) /\ Loose(c, W) /\ Len(c) = Len(vals)
      /\ \A j \in 1 .. Len(c) : value'[c[j]] = vals[j]
  BY <1>2 DEF Creates
<1>4. Shows(Contents, W, value) /\ value \in [Nodes -> Values] /\ W \in Sequences
  BY ContentsNow
<1>5. value' \in [Nodes -> Values]
  BY ContentsNext
<1>6. W[m] \in Seq(Nodes) /\ Contents[m] = ContentOf(W[m], value)
  BY <1>4, ShownAt
<1>7. Contents'[l] = ContentOf(c, value') /\ AsSequences!Only(l)
  BY <1>1, RenewFacts
<1>8. AsSequences!ValuesOf(Contents[m]) = vals
  <2>1. AsSequences!ValuesOf(ContentOf(W[m], value)) = [i \in 1 .. Len(W[m]) |-> value[W[m][i]]]
    BY <1>4, <1>6, ContentFacts
  <2>2. vals = [i \in 1 .. Len(W[m]) |-> value[W[m][i]]]
    BY <1>2, Zenon DEF Copied
  <2> QED
    BY <2>1, <2>2, <1>6
<1>9. PICK N \in Nat : N = Len(W[m])
  BY <1>6
<1>10. vals = [i \in 1 .. N |-> vals[i]] /\ Len(vals) = N
  BY <1>2, <1>9 DEF Copied
<1>11. AsSequences!ValuesOf(Contents'[l]) = vals
  <2>1. AsSequences!ValuesOf(Contents'[l]) = [i \in 1 .. Len(c) |-> value'[c[i]]]
    BY <1>3, <1>5, <1>7, ContentFacts
  <2> QED
    BY <2>1, <1>3, <1>10
<1>12. AsSequences!Apart(Contents'[l], Lists)
  <2>1. \A o \in Lists : Elements(c) \cap Elements(W[o]) = {}
    BY <1>3, ListsApart DEF Loose
  <2>2. Lists \in SUBSET Lists
    OBVIOUS
  <2>3. AsSequences!Apart(ContentOf(c, value'), Lists)
    BY <2>1, <2>2, <1>3, <1>4, <1>5, NewApart
  <2> QED
    BY <2>3, <1>7
<1> QED
  BY <1>7, <1>8, <1>11, <1>12 DEF AsSequences!Copy

(* Nothing is inserted.                                                    *)
Moves(V, G, K) == Reaches(V, G, K) /\ value' = value

(* The lists outside L stay.                                               *)
Stay(W, V, L) == \A m \in Lists \ L : V[m] = W[m]

(* The values of the nodes stay when nothing is inserted.                  *)
LEMMA OthersRefine ==
  ASSUME NEW W, NEW F, NEW H, Sound(Now, W, F, H), NEW V, NEW G, NEW K, Moves(V, G, K),
         NEW L, Stay(W, V, L)
  PROVE  /\ \A m \in Lists \ L : Contents'[m] = Contents[m]
         /\ \A m \in Lists : /\ Contents[m] = ContentOf(W[m], value)
                             /\ Contents'[m] = ContentOf(V[m], value)
                             /\ W[m] \in Seq(Nodes) /\ V[m] \in Seq(Nodes) /\ Distinct(W[m])
         /\ value \in [Nodes -> Values]
         /\ Contents = [m \in Lists |-> Contents[m]]
         /\ Contents' = [m \in Lists |-> Contents'[m]]
<1>1. Shows(Contents, W, value) /\ value \in [Nodes -> Values] /\ W \in Sequences
  BY ContentsNow
<1>2. Shows(Contents', V, value) /\ V \in Sequences
  <2>1. Reaches(V, G, K) /\ value' = value
    BY DEF Moves
  <2>2. Shows(Contents', V, value') /\ V \in Sequences
    BY <2>1, ContentsNext
  <2> QED
    BY <2>1, <2>2
<1>3. \A m \in Lists : /\ Contents[m] = ContentOf(W[m], value)
                       /\ Contents'[m] = ContentOf(V[m], value)
                       /\ W[m] \in Seq(Nodes) /\ V[m] \in Seq(Nodes)
  BY <1>1, <1>2, ShownAt
<1>4. \A m \in Lists : Distinct(W[m])
  BY ListsApart, SoundParts
<1>5. Contents = [m \in Lists |-> Contents[m]] /\ Contents' = [m \in Lists |-> Contents'[m]]
  BY <1>1, <1>2 DEF Shows
<1> QED
  BY <1>1, <1>3, <1>4, <1>5 DEF Stay

(* Some of the elements stay.                                              *)
LEMMA ThinRefines ==
  ASSUME NEW W, NEW F, NEW H, Sound(Now, W, F, H), NEW V, NEW G, NEW K, Reaches(V, G, K),
         NEW l \in Lists, NEW P, Thins(W, V, l, P)
  PROVE  AsSequences!Left(l, P)
<1>1. Moves(V, G, K) /\ Stay(W, V, {l})
  BY ListsApart DEF Thins, Moves, Stay
<1>2. PICK e : Thinned(W[l], V[l], P, e)
  BY DEF Thins
<1>3. /\ \A m \in Lists \ {l} : Contents'[m] = Contents[m]
      /\ Contents[l] = ContentOf(W[l], value) /\ Contents'[l] = ContentOf(V[l], value)
      /\ W[l] \in Seq(Nodes) /\ V[l] \in Seq(Nodes) /\ value \in [Nodes -> Values]
  BY <1>1, OthersRefine
<1>4. AsSequences!Keeps(ContentOf(V[l], value), ContentOf(W[l], value), P)
  BY <1>2, <1>3, ThinnedKeeps
<1>5. AsSequences!Keeps(Contents'[l], Contents[l], P)
  BY <1>3, <1>4
<1>6. AsSequences!Only(l)
  BY <1>3 DEF AsSequences!Only
<1> QED
  BY <1>5, <1>6 DEF AsSequences!Left

(* How many elements there are, and what their values are.                 *)
LEMMA LengthShown ==
  ASSUME NEW W, NEW F, NEW H, Sound(Now, W, F, H), NEW l \in Lists
  PROVE  /\ Len(Contents[l]) = Len(W[l]) /\ Len(W[l]) \in Nat
         /\ \A j \in 1 .. Len(W[l]) : Contents[l][j][2] = value[W[l][j]]
<1>1. Shows(Contents, W, value) /\ value \in [Nodes -> Values] /\ W \in Sequences
  BY ContentsNow
<1>2. Contents[l] = ContentOf(W[l], value) /\ W[l] \in Seq(Nodes)
  BY <1>1, ShownAt
<1> QED
  BY <1>1, <1>2, ContentFacts

(* erase, and resize to a smaller size.                                    *)
LEMMA EraseRefines ==
  ASSUME NEW W, NEW F, NEW H, Sound(Now, W, F, H), NEW V, NEW G, NEW K, Reaches(V, G, K),
         NEW l \in Lists, NEW i \in 1 .. Len(W[l]) + 1, NEW j \in i .. Len(W[l]) + 1,
         Thins(W, V, l, (1 .. Len(W[l])) \ (i .. j - 1))
  PROVE  AsSequences!Erase(l)
<1>1. PICK L \in Nat : L = Len(W[l]) /\ L = Len(Contents[l])
  BY LengthShown
<1>2. PICK b \in 0 .. L : b = j - 1
  BY <1>1
<1>3. PICK a \in 0 .. b : a = i - 1
  BY <1>1, <1>2
<1>4. (1 .. Len(W[l])) \ (i .. j - 1) = (1 .. L) \ (a + 1 .. b)
  <2>1. a + 1 = i
    BY <1>1, <1>3
  <2> QED
    BY <2>1, <1>1, <1>2
<1>5. AsSequences!Left(l, (1 .. L) \ (a + 1 .. b))
  <2>1. AsSequences!Left(l, (1 .. Len(W[l])) \ (i .. j - 1))
    BY ThinRefines
  <2> QED
    BY <2>1, <1>4
<1> QED
  BY <1>1, <1>5, Zenon DEF AsSequences!Erase

(* remove_if.                                                              *)
LEMMA RemoveRefines ==
  ASSUME NEW W, NEW F, NEW H, Sound(Now, W, F, H), NEW V, NEW G, NEW K, Reaches(V, G, K),
         NEW l \in Lists, NEW matching \in SUBSET Values, NEW i \in 0 .. Len(W[l]),
         Thins(W, V, l, LeftBy(W[l], matching, i))
  PROVE  AsSequences!RemoveIf(l)
<1>1. PICK P : P = LeftBy(W[l], matching, i)
  OBVIOUS
<1>2. AsSequences!Left(l, P)
  BY <1>1, ThinRefines
<1>3. P = {j \in 1 .. Len(Contents[l]) : j > i \/ Contents[l][j][2] \notin matching}
  BY <1>1, LengthShown DEF LeftBy
<1>4. i \in 0 .. Len(Contents[l])
  BY LengthShown
<1> QED
  BY <1>2, <1>3, <1>4 DEF AsSequences!RemoveIf

(* unique.                                                                 *)
LEMMA UniqueRefines ==
  ASSUME NEW W, NEW F, NEW H, Sound(Now, W, F, H), NEW V, NEW G, NEW K, Reaches(V, G, K),
         NEW l \in Lists, NEW i \in 1 .. Len(W[l]), Thins(W, V, l, FirstOfRuns(W[l], i))
  PROVE  AsSequences!Unique(l)
<1>1. PICK P : P = FirstOfRuns(W[l], i)
  OBVIOUS
<1>2. AsSequences!Left(l, P)
  BY <1>1, ThinRefines
<1>3. PICK L, s, w : /\ L \in Nat /\ L = Len(w) /\ w = W[l] /\ L = Len(s) /\ s = Contents[l]
                     /\ \A j \in 1 .. L : s[j][2] = value[w[j]]
  BY LengthShown
<1>4. P = {j \in 1 .. L : j = 1 \/ j > i \/ s[j][2] # s[j - 1][2]}
  <2>1. P = {j \in 1 .. L : j = 1 \/ j > i \/ value[w[j]] # value[w[j - 1]]}
    BY <1>1, <1>3 DEF FirstOfRuns
  <2>2. ASSUME NEW j \in 1 .. L, j # 1
        PROVE  s[j][2] = value[w[j]] /\ s[j - 1][2] = value[w[j - 1]]
    <3>1. j - 1 \in 1 .. L
      BY <1>3, <2>2
    <3> QED
      BY <3>1, <1>3, Zenon
  <2>3. ASSUME NEW j \in 1 .. L
        PROVE  (j = 1 \/ j > i \/ value[w[j]] # value[w[j - 1]])
               <=> (j = 1 \/ j > i \/ s[j][2] # s[j - 1][2])
    BY <2>2, Zenon
  <2> QED
    BY <2>1, <2>3, Zenon
<1>5. i \in 0 .. Len(Contents[l])
  BY <1>3
<1> QED
  BY <1>2, <1>3, <1>4, <1>5 DEF AsSequences!Unique

(* clear.                                                                  *)
LEMMA ClearRefines ==
  ASSUME NEW W, NEW F, NEW H, Sound(Now, W, F, H), NEW V, NEW G, NEW K, Moves(V, G, K),
         NEW l \in Lists, Sets(W, V, l, <<>>)
  PROVE  AsSequences!Erase(l)
<1>1. Stay(W, V, {l})
  BY ListsApart DEF Sets, Stay
<1>2. /\ \A m \in Lists \ {l} : Contents'[m] = Contents[m]
      /\ Contents'[l] = ContentOf(V[l], value)
  BY <1>1, OthersRefine
<1>3. PICK L \in Nat : L = Len(Contents[l])
  BY LengthShown
<1>4. Contents'[l] = <<>> /\ AsSequences!Keeps(<<>>, Contents[l], {})
  <2>1. V[l] = <<>>
    BY DEF Sets
  <2> QED
    BY <2>1, <1>2, NothingKept
<1>5. PICK b \in 0 .. L : b = L
  BY <1>3
<1>6. PICK a \in 0 .. b : a = 0
  BY <1>5
<1>7. (1 .. L) \ (a + 1 .. b) = {}
  BY <1>5, <1>6
<1>8. AsSequences!Only(l)
  BY <1>2 DEF AsSequences!Only
<1>9. AsSequences!Left(l, (1 .. L) \ (a + 1 .. b))
  BY <1>4, <1>7, <1>8 DEF AsSequences!Left
<1> QED
  BY <1>3, <1>9, Zenon DEF AsSequences!Erase

(* One list is set.                                                        *)
LEMMA SetsShown ==
  ASSUME NEW W, NEW F, NEW H, Sound(Now, W, F, H), NEW V, NEW G, NEW K, Moves(V, G, K),
         NEW l \in Lists, NEW v, Sets(W, V, l, v)
  PROVE  /\ Contents'[l] = ContentOf(v, value) /\ Contents[l] = ContentOf(W[l], value)
         /\ AsSequences!Only(l)
         /\ Contents' = [Contents EXCEPT ![l] = Contents'[l]]
         /\ W[l] \in Seq(Nodes) /\ Distinct(W[l]) /\ value \in [Nodes -> Values]
<1>1. Stay(W, V, {l}) /\ V[l] = v
  BY ListsApart DEF Sets, Stay
<1>2. /\ \A m \in Lists \ {l} : Contents'[m] = Contents[m]
      /\ Contents'[l] = ContentOf(V[l], value) /\ Contents[l] = ContentOf(W[l], value)
      /\ Contents = [m \in Lists |-> Contents[m]]
      /\ Contents' = [m \in Lists |-> Contents'[m]]
      /\ W[l] \in Seq(Nodes) /\ Distinct(W[l]) /\ value \in [Nodes -> Values]
  BY <1>1, OthersRefine
<1>3. PICK C, D, x : C = Contents /\ D = Contents' /\ x = Contents'[l]
  OBVIOUS
<1>4. D = [C EXCEPT ![l] = x]
  <2>1. D = [m \in Lists |-> D[m]] /\ C = [m \in Lists |-> C[m]] /\ x = D[l]
        /\ \A m \in Lists \ {l} : D[m] = C[m]
    BY <1>2, <1>3
  <2>2. [C EXCEPT ![l] = x] = [m \in Lists |-> IF m = l THEN x ELSE C[m]]
    BY <2>1
  <2> QED
    BY <2>1, <2>2
<1> QED
  BY <1>1, <1>2, <1>3, <1>4 DEF AsSequences!Only

(* reverse.                                                                *)
LEMMA ReverseRefines ==
  ASSUME NEW W, NEW F, NEW H, Sound(Now, W, F, H), NEW V, NEW G, NEW K, Moves(V, G, K),
         NEW l \in Lists, Sets(W, V, l, Reverse(W[l]))
  PROVE  AsSequences!Becomes(l, AsSequences!Reverse(Contents[l]))
<1>1. PICK v : v = Reverse(W[l])
  OBVIOUS
<1>2. /\ Contents'[l] = ContentOf(v, value) /\ Contents[l] = ContentOf(W[l], value)
      /\ Contents' = [Contents EXCEPT ![l] = Contents'[l]]
      /\ W[l] \in Seq(Nodes) /\ Distinct(W[l]) /\ value \in [Nodes -> Values]
  BY <1>1, SetsShown
<1>3. ContentOf(v, value) = Reverse(ContentOf(W[l], value))
  BY <1>1, <1>2, ContentReverse
<1>4. Contents'[l] = AsSequences!Reverse(Contents[l])
  BY <1>2, <1>3, SameOperators
<1> QED
  BY <1>2, <1>4 DEF AsSequences!Becomes

(* sort.                                                                   *)
LEMMA SortRefines ==
  ASSUME NEW W, NEW F, NEW H, Sound(Now, W, F, H), NEW V, NEW G, NEW K, Moves(V, G, K),
         NEW l \in Lists, Sets(W, V, l, stable_sort(W[l]))
  PROVE  AsSequences!Sort(l)
<1>1. PICK v : v = stable_sort(W[l])
  OBVIOUS
<1>2. /\ Contents'[l] = ContentOf(v, value) /\ Contents[l] = ContentOf(W[l], value)
      /\ AsSequences!Only(l)
      /\ W[l] \in Seq(Nodes) /\ Distinct(W[l]) /\ value \in [Nodes -> Values]
  BY <1>1, SetsShown
<1>3. AsSequences!IsStableSort(ContentOf(stable_sort(W[l]), value), ContentOf(W[l], value))
  BY <1>2, SortedStable
<1>4. AsSequences!IsStableSort(Contents'[l], Contents[l])
  BY <1>1, <1>2, <1>3
<1> QED
  BY <1>2, <1>4 DEF AsSequences!Sort

(* merge.                                                                  *)
LEMMA MergeRefines ==
  ASSUME NEW W, NEW F, NEW H, Sound(Now, W, F, H), NEW V, NEW G, NEW K, Moves(V, G, K),
         NEW l \in Lists, NEW m \in Lists, l # m, V = MergedLists(W, l, m)
  PROVE  AsSequences!Merge(l, m)
<1>1. W \in Sequences /\ l \in Sentinels /\ m \in Sentinels /\ Lists \subseteq Sentinels
      /\ Rings(Now.ring, W)
  BY SoundParts, ListsApart DEF Sound
<1>2. PICK x : x = W[l] \o W[m]
  OBVIOUS
<1>3. /\ V[l] = stable_sort(x) /\ V[m] = <<>>
      /\ \A o \in Lists \ {l, m} : V[o] = W[o]
  BY <1>1, <1>2 DEF MergedLists, Sequences
<1>4. Stay(W, V, {l, m})
  BY <1>3 DEF Stay
<1>5. /\ \A o \in Lists \ {l, m} : Contents'[o] = Contents[o]
      /\ Contents'[l] = ContentOf(V[l], value) /\ Contents[l] = ContentOf(W[l], value)
      /\ Contents'[m] = ContentOf(V[m], value) /\ Contents[m] = ContentOf(W[m], value)
      /\ W[l] \in Seq(Nodes) /\ Distinct(W[l])
      /\ W[m] \in Seq(Nodes) /\ Distinct(W[m]) /\ value \in [Nodes -> Values]
  BY <1>4, OthersRefine
<1>6. x \in Seq(Nodes) /\ Distinct(x)
  <2>1. Elements(W[l]) \cap Elements(W[m]) = {}
    BY <1>1 DEF Rings
  <2> QED
    BY <2>1, <1>2, <1>5, ConcatFacts
<1>7. ContentOf(x, value) = Contents[l] \o Contents[m]
  BY <1>2, <1>5, ContentConcat
<1>8. AsSequences!IsStableSort(Contents'[l], Contents[l] \o Contents[m])
  <2>1. AsSequences!IsStableSort(ContentOf(stable_sort(x), value), ContentOf(x, value))
    BY <1>5, <1>6, SortedStable
  <2> QED
    BY <2>1, <1>3, <1>5, <1>7
<1>9. Contents'[m] = <<>>
  BY <1>3, <1>5, NothingKept
<1> QED
  BY <1>5, <1>8, <1>9 DEF AsSequences!Merge

(* Two entries of the contents change.                                     *)
LEMMA TwoChange ==
  ASSUME NEW C, C = [o \in Lists |-> C[o]], NEW D, D = [o \in Lists |-> D[o]],
         NEW l \in Lists, NEW m \in Lists, l # m, NEW x, NEW y, D[l] = x, D[m] = y,
         \A o \in Lists \ {l, m} : D[o] = C[o]
  PROVE  D = [C EXCEPT ![l] = x, ![m] = y]
<1>1. PICK E : E = [C EXCEPT ![l] = x]
  OBVIOUS
<1>2. E = [o \in Lists |-> IF o = l THEN x ELSE C[o]]
  BY <1>1
<1>3. [E EXCEPT ![m] = y] = [o \in Lists |-> IF o = m THEN y ELSE IF o = l THEN x ELSE C[o]]
  BY <1>2
<1>4. \A o \in Lists : D[o] = IF o = m THEN y ELSE IF o = l THEN x ELSE C[o]
  OBVIOUS
<1>5. D = [E EXCEPT ![m] = y]
  BY <1>3, <1>4
<1> QED
  BY <1>1, <1>5

(* swap.                                                                   *)
LEMMA SwapRefines ==
  ASSUME NEW W, NEW F, NEW H, Sound(Now, W, F, H), NEW V, NEW G, NEW K, Moves(V, G, K),
         NEW l \in Lists, NEW m \in Lists, l # m, V = Exchanged(W, l, m)
  PROVE  AsSequences!Swap(l, m)
<1>1. W \in Sequences /\ l \in Sentinels /\ m \in Sentinels /\ Lists \subseteq Sentinels
  BY SoundParts, ListsApart
<1>2. /\ V[l] = W[m] /\ V[m] = W[l]
      /\ \A o \in Lists \ {l, m} : V[o] = W[o]
  BY <1>1 DEF Exchanged, Sequences
<1>3. Stay(W, V, {l, m})
  BY <1>2 DEF Stay
<1>4. /\ \A o \in Lists \ {l, m} : Contents'[o] = Contents[o]
      /\ Contents'[l] = ContentOf(V[l], value) /\ Contents[l] = ContentOf(W[l], value)
      /\ Contents'[m] = ContentOf(V[m], value) /\ Contents[m] = ContentOf(W[m], value)
      /\ Contents = [o \in Lists |-> Contents[o]]
      /\ Contents' = [o \in Lists |-> Contents'[o]]
  BY <1>3, OthersRefine
<1>5. PICK C, D : C = Contents /\ D = Contents'
  OBVIOUS
<1>6. D[l] = C[m] /\ D[m] = C[l] /\ \A o \in Lists \ {l, m} : D[o] = C[o]
  BY <1>2, <1>4, <1>5
<1>7. D = [C EXCEPT ![l] = C[m], ![m] = C[l]]
  BY <1>4, <1>5, <1>6, TwoChange
<1> QED
  BY <1>5, <1>7 DEF AsSequences!Swap

(* What m held is in l.                                                    *)
TakenOver(W, l, m) == [W EXCEPT ![l] = W[m], ![m] = <<>>]

(* Move assignment.                                                        *)
LEMMA MoveRefines ==
  ASSUME NEW W, NEW F, NEW H, Sound(Now, W, F, H), NEW V, NEW G, NEW K, Moves(V, G, K),
         NEW l \in Lists, NEW m \in Lists, l # m, V = TakenOver(W, l, m)
  PROVE  AsSequences!Move(l, m)
<1>1. W \in Sequences /\ l \in Sentinels /\ m \in Sentinels /\ Lists \subseteq Sentinels
  BY SoundParts, ListsApart
<1>2. /\ V[l] = W[m] /\ V[m] = <<>>
      /\ \A o \in Lists \ {l, m} : V[o] = W[o]
  BY <1>1 DEF TakenOver, Sequences
<1>3. Stay(W, V, {l, m})
  BY <1>2 DEF Stay
<1>4. /\ \A o \in Lists \ {l, m} : Contents'[o] = Contents[o]
      /\ Contents'[l] = ContentOf(V[l], value) /\ Contents[l] = ContentOf(W[l], value)
      /\ Contents'[m] = ContentOf(V[m], value) /\ Contents[m] = ContentOf(W[m], value)
      /\ Contents = [o \in Lists |-> Contents[o]]
      /\ Contents' = [o \in Lists |-> Contents'[o]]
  BY <1>3, OthersRefine
<1>5. PICK C, D : C = Contents /\ D = Contents'
  OBVIOUS
<1>6. D[l] = C[m] /\ D[m] = <<>> /\ \A o \in Lists \ {l, m} : D[o] = C[o]
  BY <1>2, <1>4, <1>5, NothingKept
<1>7. D = [C EXCEPT ![l] = C[m], ![m] = <<>>]
  BY <1>4, <1>5, <1>6, TwoChange
<1> QED
  BY <1>5, <1>7 DEF AsSequences!Move

(* The content of what was cut out and of what was pasted.                 *)
LEMMA ContentSpliced ==
  ASSUME NEW u \in Seq(Nodes), NEW w \in Seq(Nodes),
         NEW i \in 1 .. Len(w), NEW j \in i + 1 .. Len(w) + 1, NEW k \in 0 .. Len(u),
         value \in [Nodes -> Values]
  PROVE  /\ ContentOf(Pasted(u, k, SubSeq(w, i, j - 1)), value)
              = AsSequences!Paste(ContentOf(u, value), k,
                                  SubSeq(ContentOf(w, value), (i - 1) + 1, j - 1))
         /\ ContentOf(CutOut(w, i, j), value)
              = AsSequences!Cut(ContentOf(w, value), i - 1, j - 1)
         /\ CutOut(w, i, j) \in Seq(Nodes)
         /\ Len(CutOut(w, i, j)) = Len(w) - (j - i)
<1>1. PICK L \in Nat : L = Len(w)
  OBVIOUS
<1>2. i \in Nat /\ j \in Nat /\ 1 <= i /\ i < j /\ j <= L + 1
  BY <1>1
<1>3. PICK c, s, t, d : /\ c = SubSeq(w, i, j - 1) /\ s = ContentOf(u, value)
                        /\ t = ContentOf(w, value) /\ d = SubSeq(t, i, j - 1)
  OBVIOUS
<1>4. c \in Seq(Nodes) /\ (i - 1) + 1 = i
  <2>1. i \in 1 .. Len(w) + 1 /\ j - 1 \in i - 1 .. Len(w) /\ (i - 1) + 1 = i
    BY <1>1, <1>2
  <2> QED
    BY <2>1, <1>3, SubSeqFacts
<1>5. /\ s \in Seq(Pairs) /\ Len(s) = Len(u) /\ t \in Seq(Pairs) /\ Len(t) = Len(w)
  BY <1>3, ContentFacts
<1>6. ContentOf(c, value) = d /\ ContentOf(CutOut(w, i, j), value) = CutOut(t, i, j)
  BY <1>3, ContentCut
<1>7. ContentOf(c, value) \in Seq(Pairs)
  BY <1>4, ContentFacts
<1>8. ContentOf(Pasted(u, k, c), value) = Pasted(s, k, d)
  <2>1. ContentOf(Pasted(u, k, c), value)
          = Pasted(ContentOf(u, value), k, ContentOf(c, value))
    BY <1>4, ContentPasted
  <2> QED
    BY <2>1, <1>3, <1>6
<1>9. AsSequences!Paste(s, k, d) = Pasted(s, k, d)
  <2>1. k \in 0 .. Len(s) /\ d \in Seq(Pairs)
    BY <1>5, <1>6, <1>7
  <2> QED
    BY <2>1, <1>5, PasteIs
<1>10. AsSequences!Cut(t, i - 1, j - 1) = CutOut(t, i, j)
  <2>1. i \in 1 .. Len(t) /\ j \in i + 1 .. Len(t) + 1
    BY <1>5
  <2> QED
    BY <2>1, <1>5, CutIs
<1>11. CutOut(w, i, j) \in Seq(Nodes) /\ Len(CutOut(w, i, j)) = Len(w) - (j - i)
  BY CutIs
<1> QED
  BY <1>3, <1>4, <1>6, <1>8, <1>9, <1>10, <1>11

(* The range that is moved, in the words of AbstractLists.                 *)
LEMMA RangeIs ==
  ASSUME NEW L \in Nat, NEW i \in 1 .. L, NEW j \in i + 1 .. L + 1
  PROVE  /\ j - 1 \in 1 .. L /\ i - 1 \in 0 .. (j - 1) - 1
         /\ (j - 1) - (i - 1) = j - i
  OBVIOUS

(* splice within one list.                                                 *)
LEMMA SpliceWithin ==
  ASSUME NEW W, NEW F, NEW H, Sound(Now, W, F, H), NEW V, NEW G, NEW K, Moves(V, G, K),
         NEW l \in Lists, Splices(W, V, l, l)
  PROVE  AsSequences!Splice(l, l)
<1>1. W \in [Sentinels -> Seq(Nodes)] /\ l \in Sentinels /\ Lists \subseteq Sentinels
  BY SoundParts, ListsApart DEF Sequences
<1>2. PICK w \in Seq(Nodes) : w = W[l]
  BY <1>1
<1>3. PICK L \in Nat : L = Len(w)
  BY <1>2
<1>4. PICK i \in 1 .. L : \E j \in i + 1 .. L + 1 :
        \E k \in 0 .. Len(Without(W, l, i, j)[l]) : V = Spliced(W, l, l, i, j, k)
  BY <1>2, <1>3 DEF Splices
<1>5. PICK j \in i + 1 .. L + 1 :
        \E k \in 0 .. Len(Without(W, l, i, j)[l]) : V = Spliced(W, l, l, i, j, k)
  BY <1>4
<1>6. PICK U : U = Without(W, l, i, j)
  OBVIOUS
<1>7. U[l] = CutOut(w, i, j) /\ U \in [Sentinels -> Seq(Nodes)]
      /\ \A m \in Sentinels \ {l} : U[m] = W[m]
  <2>1. CutOut(w, i, j) \in Seq(Nodes)
    BY <1>3, CutIs
  <2>2. U = [W EXCEPT ![l] = CutOut(w, i, j)]
    BY <1>2, <1>6 DEF Without
  <2> QED
    BY <2>1, <2>2, <1>1
<1>8. PICK u : u = CutOut(w, i, j)
  OBVIOUS
<1>9. PICK k \in 0 .. Len(u) : V = Spliced(W, l, l, i, j, k)
  BY <1>5, <1>6, <1>7, <1>8
<1>10. PICK v : v = Pasted(u, k, SubSeq(w, i, j - 1))
  OBVIOUS
<1>11. V = [U EXCEPT ![l] = v]
  BY <1>2, <1>6, <1>7, <1>8, <1>9, <1>10 DEF Spliced
<1>12. Sets(W, V, l, v)
  BY <1>1, <1>7, <1>11 DEF Sets
<1>13. /\ Contents'[l] = ContentOf(v, value) /\ Contents[l] = ContentOf(w, value)
       /\ Contents' = [Contents EXCEPT ![l] = Contents'[l]]
       /\ value \in [Nodes -> Values]
  BY <1>2, <1>12, SetsShown
<1>14. PICK s : s = Contents[l]
  OBVIOUS
<1>15. u \in Seq(Nodes) /\ Len(u) = L - (j - i)
       /\ ContentOf(u, value) = AsSequences!Cut(s, i - 1, j - 1)
       /\ ContentOf(v, value)
            = AsSequences!Paste(ContentOf(u, value), k, SubSeq(s, (i - 1) + 1, j - 1))
  <2>1. u \in Seq(Nodes) /\ Len(u) = Len(w) - (j - i)
    BY <1>3, <1>8, CutIs
  <2>2. i \in 1 .. Len(w) /\ j \in i + 1 .. Len(w) + 1
    BY <1>3
  <2> QED
    BY <2>1, <2>2, <1>3, <1>8, <1>10, <1>13, <1>14, ContentSpliced
<1>16. Len(s) = L
  BY <1>2, <1>3, <1>13, <1>14, ContentFacts
<1>17. PICK a, b : a = i - 1 /\ b = j - 1
  OBVIOUS
<1>18. b \in 1 .. L /\ a \in 0 .. b - 1 /\ b - a = j - i
  BY <1>17, RangeIs
<1>19. k \in 0 .. Len(s) - (b - a)
  BY <1>15, <1>16, <1>18
<1>20. AsSequences!Becomes(l, AsSequences!Paste(AsSequences!Cut(s, a, b), k,
                                                SubSeq(s, a + 1, b)))
  BY <1>13, <1>15, <1>17 DEF AsSequences!Becomes
<1> QED
  <2>1. b \in 1 .. Len(Contents[l]) /\ a \in 0 .. b - 1
        /\ k \in 0 .. Len(Contents[l]) - (b - a)
    BY <1>14, <1>16, <1>18, <1>19
  <2>2. AsSequences!Becomes(l, AsSequences!Paste(AsSequences!Cut(Contents[l], a, b), k,
                                                 SubSeq(Contents[l], a + 1, b)))
    BY <1>14, <1>20
  <2> QED
    BY <2>1, <2>2, Zenon DEF AsSequences!Splice

(* splice from another list.                                               *)
LEMMA SpliceBetween ==
  ASSUME NEW W, NEW F, NEW H, Sound(Now, W, F, H), NEW V, NEW G, NEW K, Moves(V, G, K),
         NEW l \in Lists, NEW m \in Lists, l # m, Splices(W, V, l, m)
  PROVE  AsSequences!Splice(l, m)
<1>1. W \in [Sentinels -> Seq(Nodes)] /\ l \in Sentinels /\ m \in Sentinels
      /\ Lists \subseteq Sentinels
  BY SoundParts, ListsApart DEF Sequences
<1>2. PICK u \in Seq(Nodes), w \in Seq(Nodes) : u = W[l] /\ w = W[m]
  BY <1>1
<1>3. PICK L \in Nat : L = Len(w)
  BY <1>2
<1>4. PICK i \in 1 .. L : \E j \in i + 1 .. L + 1 :
        \E k \in 0 .. Len(Without(W, m, i, j)[l]) : V = Spliced(W, l, m, i, j, k)
  BY <1>2, <1>3 DEF Splices
<1>5. PICK j \in i + 1 .. L + 1 :
        \E k \in 0 .. Len(Without(W, m, i, j)[l]) : V = Spliced(W, l, m, i, j, k)
  BY <1>4
<1>6. PICK U : U = Without(W, m, i, j)
  OBVIOUS
<1>7. PICK d : d = CutOut(w, i, j)
  OBVIOUS
<1>8. U[m] = d /\ U[l] = u /\ U \in [Sentinels -> Seq(Nodes)] /\ d \in Seq(Nodes)
      /\ \A o \in Sentinels \ {m} : U[o] = W[o]
  <2>1. d \in Seq(Nodes)
    BY <1>3, <1>7, CutIs
  <2>2. U = [W EXCEPT ![m] = d]
    BY <1>2, <1>6, <1>7 DEF Without
  <2>3. U[m] = d /\ U \in [Sentinels -> Seq(Nodes)]
        /\ \A o \in Sentinels \ {m} : U[o] = W[o]
    BY <2>1, <2>2, <1>1
  <2> QED
    BY <2>1, <2>3, <1>1, <1>2
<1>9. PICK k \in 0 .. Len(u) : V = Spliced(W, l, m, i, j, k)
  BY <1>5, <1>6, <1>8
<1>10. PICK v : v = Pasted(u, k, SubSeq(w, i, j - 1))
  OBVIOUS
<1>11. V = [U EXCEPT ![l] = v]
  BY <1>2, <1>6, <1>8, <1>9, <1>10 DEF Spliced
<1>12. V[l] = v /\ V[m] = d /\ \A o \in Lists \ {l, m} : V[o] = W[o]
  BY <1>1, <1>8, <1>11
<1>13. Stay(W, V, {l, m})
  BY <1>12 DEF Stay
<1>14. /\ \A o \in Lists \ {l, m} : Contents'[o] = Contents[o]
       /\ Contents'[l] = ContentOf(V[l], value) /\ Contents[l] = ContentOf(W[l], value)
       /\ Contents'[m] = ContentOf(V[m], value) /\ Contents[m] = ContentOf(W[m], value)
       /\ Contents = [o \in Lists |-> Contents[o]]
       /\ Contents' = [o \in Lists |-> Contents'[o]]
       /\ value \in [Nodes -> Values]
  BY <1>13, OthersRefine
<1>15. PICK C, D : C = Contents /\ D = Contents'
  OBVIOUS
<1>16. PICK s, t : s = C[l] /\ t = C[m]
  OBVIOUS
<1>17. s = ContentOf(u, value) /\ t = ContentOf(w, value)
       /\ D[l] = ContentOf(v, value) /\ D[m] = ContentOf(d, value)
  BY <1>2, <1>12, <1>14, <1>15, <1>16
<1>18. /\ D[l] = AsSequences!Paste(s, k, SubSeq(t, (i - 1) + 1, j - 1))
       /\ D[m] = AsSequences!Cut(t, i - 1, j - 1)
  <2>1. i \in 1 .. Len(w) /\ j \in i + 1 .. Len(w) + 1
    BY <1>3
  <2> QED
    BY <2>1, <1>7, <1>10, <1>14, <1>17, ContentSpliced
<1>19. Len(s) = Len(u) /\ Len(t) = L
  BY <1>3, <1>14, <1>17, ContentFacts
<1>20. PICK a, b : a = i - 1 /\ b = j - 1
  OBVIOUS
<1>21. b \in 1 .. L /\ a \in 0 .. b - 1
  BY <1>20, RangeIs
<1>22. PICK x, y : x = AsSequences!Paste(s, k, SubSeq(t, a + 1, b)) /\ y = AsSequences!Cut(t, a, b)
  OBVIOUS
<1>23. D = [C EXCEPT ![l] = x, ![m] = y]
  <2>1. D[l] = x /\ D[m] = y
    BY <1>18, <1>20, <1>22
  <2>2. \A o \in Lists \ {l, m} : D[o] = C[o]
    BY <1>14, <1>15
  <2>3. C = [o \in Lists |-> C[o]] /\ D = [o \in Lists |-> D[o]]
    BY <1>14, <1>15
  <2> QED
    BY <2>1, <2>2, <2>3, TwoChange
<1> QED
  <2>1. b \in 1 .. Len(Contents[m]) /\ a \in 0 .. b - 1 /\ k \in 0 .. Len(Contents[l])
    BY <1>15, <1>16, <1>19, <1>21
  <2>2. Contents' = [Contents EXCEPT
                       ![l] = AsSequences!Paste(Contents[l], k, SubSeq(Contents[m], a + 1, b)),
                       ![m] = AsSequences!Cut(Contents[m], a, b)]
    BY <1>15, <1>16, <1>22, <1>23
  <2> QED
    BY <2>1, <2>2, Zenon DEF AsSequences!Splice

(* What the lists do is a step of the sequences, or none.                  *)
Follows == AsSequences!Next \/ Contents' = Contents

(* What one list may do.                                                   *)
OneDoes(l) ==
  \/ AsSequences!Insert(l) \/ AsSequences!Assign(l) \/ AsSequences!Erase(l)
  \/ AsSequences!RemoveIf(l) \/ AsSequences!Unique(l) \/ AsSequences!Sort(l)
  \/ AsSequences!Becomes(l, AsSequences!Reverse(Contents[l]))

(* What two lists may do.                                                  *)
TwoDo(l, m) ==
  \/ AsSequences!Merge(l, m) \/ AsSequences!Splice(l, m) \/ AsSequences!Move(l, m)
  \/ AsSequences!Swap(l, m) \/ AsSequences!Copy(l, m)

(* Either is a step.                                                       *)
LEMMA DoesFollow ==
  ASSUME NEW l \in Lists
  PROVE  /\ OneDoes(l) => Follows
         /\ \A m \in Lists : TwoDo(l, m) => Follows
  BY Zenon DEF OneDoes, TwoDo, Follows, AsSequences!Next

(* What changes no list.                                                   *)
LEMMA SameShown ==
  ASSUME NEW W, NEW F, NEW H, Sound(Now, W, F, H), NEW V, NEW G, NEW K, Reaches(V, G, K),
         \A m \in Lists : V[m] = W[m] /\ \A n \in Elements(W[m]) : value'[n] = value[n]
  PROVE  Contents' = Contents
<1>1. Shows(Contents, W, value) /\ W \in Sequences
  BY ContentsNow
<1>2. Shows(Contents', V, value') /\ V \in Sequences
  BY ContentsNext
<1>3. ASSUME NEW m \in Lists PROVE ContentOf(V[m], value') = ContentOf(W[m], value)
  <2>1. W[m] \in Seq(Nodes)
    BY <1>1, ShownAt
  <2> QED
    BY <2>1, ContentSame
<1> QED
  BY <1>1, <1>2, <1>3 DEF Shows

(* An input is given, and so is a count and a value.                       *)
LEMMA GivenInputs ==
  /\ \A vals \in Inputs : vals \in Seq(Values) /\ Given(vals)
  /\ \A v \in Values : \A n \in Nat : Given([j \in 1 .. n |-> v])
<1>1. \A vals \in Inputs : vals \in Seq(Values) /\ Given(vals)
  BY InputIs DEF Given
<1>2. ASSUME NEW v \in Values, NEW n \in Nat PROVE Given([j \in 1 .. n |-> v])
  <2>1. PICK vals : vals = [j \in 1 .. n |-> v]
    OBVIOUS
  <2>2. vals \in Seq(Values)
    BY <2>1
  <2> QED
    BY <2>1, <2>2 DEF Given
<1> QED
  BY <1>1, <1>2

(* resize.                                                                 *)
LEMMA ResizeRefines ==
  ASSUME NEW W, NEW F, NEW H, Sound(Now, W, F, H), TempFree(W, F), NEW l \in Lists,
         NEW count \in Nat, NEW v \in Values, resize(l, count, v)
  PROVE  OneDoes(l)
<1>1. PICK L \in Nat : L = Len(W[l]) /\ L = size_[l]
  BY ListsApart, SoundParts DEF Now
<1>2. CASE L >= count
  <2>1. PICK V, G, K : Reaches(V, G, K)
                       /\ Thins(W, V, l, (1 .. Len(W[l])) \ (count + 1 .. Len(W[l])))
    BY <1>1, <1>2, ShorterStep
  <2>2. PICK i \in 1 .. Len(W[l]) + 1 : i = count + 1
    BY <1>1, <1>2
  <2>3. PICK j \in i .. Len(W[l]) + 1 : j = L + 1
    BY <1>1, <2>2
  <2>4. (1 .. Len(W[l])) \ (i .. j - 1) = (1 .. Len(W[l])) \ (count + 1 .. Len(W[l]))
    <3>1. j - 1 = Len(W[l])
      BY <1>1, <2>3
    <3> QED
      BY <3>1, <2>2
  <2>5. Thins(W, V, l, (1 .. Len(W[l])) \ (i .. j - 1))
    BY <2>1, <2>4
  <2>6. AsSequences!Erase(l)
    BY <2>1, <2>5, EraseRefines
  <2> QED
    BY <2>6 DEF OneDoes
<1>3. CASE L < count
  <2>1. PICK V, G, K, k, c, n :
          n \in Nat /\ Reaches(V, G, K) /\ Inserts(W, V, l, k, c, [j \in 1 .. n |-> v])
    BY <1>1, <1>3, LongerStep, ZenonT(40)
  <2>2. PICK vals : vals = [j \in 1 .. n |-> v]
    OBVIOUS
  <2>3. Inserts(W, V, l, k, c, vals) /\ Given(vals)
    BY <2>1, <2>2, GivenInputs
  <2>4. AsSequences!Insert(l)
    BY <2>1, <2>3, InsertRefines
  <2> QED
    BY <2>4 DEF OneDoes
<1> QED
  BY <1>1, <1>2, <1>3

(* A step of one list.                                                     *)
LEMMA OneListFollows ==
  ASSUME NEW W, NEW F, NEW H, Sound(Now, W, F, H), TempFree(W, F), NEW l \in Lists
  PROVE  /\ \A vals \in Inputs :
              /\ \A pos \in Positions(l) : insert(l, pos, vals) => Follows
              /\ assign(l, vals) => Follows
              /\ ConstructAssign(l, vals) => Follows
              /\ ConstructorThrows(vals) => Follows
         /\ \A i, j \in 1 .. size_[l] + 1 :
              i < j /\ Erase(l, Append(Walk(ring, l), l)[i], Append(Walk(ring, l), l)[j]) => Follows
         /\ Clear(l) => Follows
         /\ ShrinkToFit(l) => Follows
         /\ \A count \in 0 .. MaxSize, v \in Values : resize(l, count, v) => Follows
         /\ \A matching \in SUBSET Values : remove_if(l, matching) => Follows
         /\ unique(l) => Follows
         /\ reverse(l) => Follows
         /\ sort(l) => Follows
<1>1. ASSUME NEW vals \in Inputs, NEW pos \in Positions(l), insert(l, pos, vals)
      PROVE  Follows
  <2>1. PICK V, G, K, k, c : Reaches(V, G, K) /\ Inserts(W, V, l, k, c, vals)
    BY <1>1, GivenInputs, InsertStep
  <2>2. AsSequences!Insert(l)
    BY <2>1, GivenInputs, InsertRefines
  <2> QED
    BY <2>2, DoesFollow DEF OneDoes
<1>2. ASSUME NEW vals \in Inputs, assign(l, vals) PROVE Follows
  <2>1. PICK U, V, G, K, c : /\ Reaches(V, G, K) /\ Sets(W, U, l, <<>>)
                             /\ Inserts(U, V, l, 0, c, vals)
    BY <1>2, GivenInputs, AssignStep
  <2>2. AsSequences!Assign(l)
    BY <2>1, GivenInputs, AssignRefines
  <2> QED
    BY <2>2, DoesFollow DEF OneDoes
<1>3. ASSUME NEW vals \in Inputs, ConstructAssign(l, vals) PROVE Follows
  <2>1. PICK V, G, K, c : Reaches(V, G, K) /\ Creates(W, c, vals) /\ Gets(W, V, l, c)
    BY <1>3, GivenInputs, ConstructStep
  <2>2. AsSequences!Assign(l)
    BY <2>1, GivenInputs, ConstructRefines
  <2> QED
    BY <2>2, DoesFollow DEF OneDoes
<1>4. ASSUME NEW vals \in Inputs, ConstructorThrows(vals) PROVE Follows
  <2>1. PICK V, G, K : /\ Reaches(V, G, K)
                       /\ \A m \in Lists : V[m] = W[m]
                       /\ \A m \in Lists : \A n \in Elements(W[m]) : value'[n] = value[n]
    BY <1>4, GivenInputs, ThrowsStep
  <2> QED
    BY <2>1, SameShown DEF Follows
<1>5. ASSUME NEW i \in 1 .. size_[l] + 1, NEW j \in 1 .. size_[l] + 1, i < j,
             Erase(l, Append(Walk(ring, l), l)[i], Append(Walk(ring, l), l)[j])
      PROVE  Follows
  <2>1. /\ i \in 1 .. Len(W[l]) + 1 /\ j \in 1 .. Len(W[l]) + 1 /\ Len(W[l]) \in Nat
        /\ Append(Walk(ring, l), l)[i] = Place(l, W[l], i)
        /\ Append(Walk(ring, l), l)[j] = Place(l, W[l], j)
    BY NodesArePlaces
  <2>2. j \in i .. Len(W[l]) + 1
    BY <1>5, <2>1
  <2>3. Erase(l, Place(l, W[l], i), Place(l, W[l], j))
    BY <1>5, <2>1
  <2>4. PICK V, G, K : Reaches(V, G, K) /\ Thins(W, V, l, (1 .. Len(W[l])) \ (i .. j - 1))
    BY <2>1, <2>2, <2>3, EraseStep
  <2>5. AsSequences!Erase(l)
    BY <2>1, <2>2, <2>4, EraseRefines
  <2> QED
    BY <2>5, DoesFollow DEF OneDoes
<1>6. ASSUME Clear(l) PROVE Follows
  <2>1. PICK V, G, K : Reaches(V, G, K) /\ Sets(W, V, l, <<>>) /\ value' = value
    BY <1>6, ClearStep
  <2>2. Moves(V, G, K)
    BY <2>1 DEF Moves
  <2>3. AsSequences!Erase(l)
    BY <2>1, <2>2, ClearRefines
  <2> QED
    BY <2>3, DoesFollow DEF OneDoes
<1>7. ASSUME ShrinkToFit(l) PROVE Follows
  <2>1. PICK G, K : Reaches(W, G, K) /\ value' = value
    BY <1>7, ShrinkStep
  <2>2. \A m \in Lists : W[m] = W[m] /\ \A n \in Elements(W[m]) : value'[n] = value[n]
    BY <2>1
  <2> QED
    BY <2>1, <2>2, SameShown DEF Follows
<1>8. ASSUME NEW count \in 0 .. MaxSize, NEW v \in Values, resize(l, count, v) PROVE Follows
  <2>1. count \in Nat
    BY ListAssumption
  <2> QED
    BY <1>8, <2>1, ResizeRefines, DoesFollow
<1>9. ASSUME NEW matching \in SUBSET Values, remove_if(l, matching) PROVE Follows
  <2>1. PICK V, G, K : \E i \in 0 .. Len(W[l]) :
          Reaches(V, G, K) /\ Thins(W, V, l, LeftBy(W[l], matching, i))
    BY <1>9, RemoveStep
  <2>2. AsSequences!RemoveIf(l)
    BY <2>1, RemoveRefines
  <2> QED
    BY <2>2, DoesFollow DEF OneDoes
<1>10. ASSUME unique(l) PROVE Follows
  <2>1. PICK V, G, K : \E i \in 1 .. Len(W[l]) :
          Reaches(V, G, K) /\ Thins(W, V, l, FirstOfRuns(W[l], i))
    BY <1>10, UniqueStep
  <2>2. AsSequences!Unique(l)
    BY <2>1, UniqueRefines
  <2> QED
    BY <2>2, DoesFollow DEF OneDoes
<1>11. ASSUME reverse(l) PROVE Follows
  <2>1. PICK V, G, K : Reaches(V, G, K) /\ Sets(W, V, l, Reverse(W[l])) /\ value' = value
    BY <1>11, ReverseStep
  <2>2. Moves(V, G, K)
    BY <2>1 DEF Moves
  <2>3. AsSequences!Becomes(l, AsSequences!Reverse(Contents[l]))
    BY <2>1, <2>2, ReverseRefines
  <2> QED
    BY <2>3, DoesFollow DEF OneDoes
<1>12. ASSUME sort(l) PROVE Follows
  <2>1. PICK V, G, K : Reaches(V, G, K) /\ Sets(W, V, l, stable_sort(W[l])) /\ value' = value
    BY <1>12, SortStep
  <2>2. Moves(V, G, K)
    BY <2>1 DEF Moves
  <2>3. AsSequences!Sort(l)
    BY <2>1, <2>2, SortRefines
  <2> QED
    BY <2>3, DoesFollow DEF OneDoes
<1> QED
  BY <1>1, <1>2, <1>3, <1>4, <1>5, <1>6, <1>7, <1>8, <1>9, <1>10, <1>11, <1>12

(* What is spliced.                                                        *)
LEMMA SpliceFollows ==
  ASSUME NEW W, NEW F, NEW H, Sound(Now, W, F, H), NEW l \in Lists, NEW m \in Lists,
         \E V, G, K : Reaches(V, G, K) /\ Splices(W, V, l, m), value' = value
  PROVE  Follows
<1>1. PICK V, G, K : Moves(V, G, K) /\ Splices(W, V, l, m)
  BY DEF Moves
<1>2. AsSequences!Splice(l, m)
  <2>1. CASE l = m
    BY <1>1, <2>1, SpliceWithin
  <2>2. CASE l # m
    BY <1>1, <2>2, SpliceBetween
  <2> QED
    BY <2>1, <2>2
<1> QED
  BY <1>2, DoesFollow DEF TwoDo

(* A step of two lists.                                                    *)
LEMMA TwoListsFollow ==
  ASSUME NEW W, NEW F, NEW H, Sound(Now, W, F, H), TempFree(W, F),
         NEW l \in Lists, NEW m \in Lists
  PROVE  /\ merge(l, m) => Follows
         /\ Swap(l, m) => Follows
         /\ MoveAssign(l, m) => Follows
         /\ CopyAssign(l, m) => Follows
         /\ \A pos \in Positions(l) :
              /\ SpliceAll(l, m, pos) => Follows
              /\ \A n \in Positions(m) : SpliceOne(l, m, pos, n) => Follows
              /\ \A i, j \in 1 .. size_[m] + 1 :
                   /\ i <= j
                   /\ SpliceRange(l, m, pos, Append(Walk(ring, m), m)[i],
                                  Append(Walk(ring, m), m)[j])
                   => Follows
<1>1. ASSUME merge(l, m) PROVE Follows
  <2>1. l # m
    BY <1>1 DEF merge
  <2>2. (\E V, G, K : Reaches(V, G, K) /\ V = MergedLists(W, l, m)) /\ value' = value
    BY <1>1, MergeStep
  <2>3. PICK V, G, K : Moves(V, G, K) /\ V = MergedLists(W, l, m)
    BY <2>2 DEF Moves
  <2>4. AsSequences!Merge(l, m)
    BY <2>1, <2>3, MergeRefines
  <2> QED
    BY <2>4, DoesFollow DEF TwoDo
<1>2. ASSUME Swap(l, m) PROVE Follows
  <2>1. l # m
    BY <1>2 DEF Swap
  <2>2. (\E V, G, K : Reaches(V, G, K) /\ V = Exchanged(W, l, m)) /\ value' = value
    BY <1>2, SwapStep
  <2>3. PICK V, G, K : Moves(V, G, K) /\ V = Exchanged(W, l, m)
    BY <2>2 DEF Moves
  <2>4. AsSequences!Swap(l, m)
    BY <2>1, <2>3, SwapRefines
  <2> QED
    BY <2>4, DoesFollow DEF TwoDo
<1>3. ASSUME MoveAssign(l, m) PROVE Follows
  <2>1. l # m
    BY <1>3 DEF MoveAssign
  <2>2. (\E V, G, K : Reaches(V, G, K) /\ V = [W EXCEPT ![l] = W[m], ![m] = <<>>])
        /\ value' = value
    BY <1>3, MoveStep
  <2>3. PICK V, G, K : Moves(V, G, K) /\ V = TakenOver(W, l, m)
    BY <2>2 DEF Moves, TakenOver
  <2>4. AsSequences!Move(l, m)
    BY <2>1, <2>3, MoveRefines
  <2> QED
    BY <2>4, DoesFollow DEF TwoDo
<1>4. ASSUME CopyAssign(l, m) PROVE Follows
  <2>1. PICK V, G, K, c : /\ Reaches(V, G, K) /\ Creates(W, c, Copied(W[m]))
                          /\ Gets(W, V, l, c)
    BY <1>4, CopyStep
  <2>2. AsSequences!Copy(l, m)
    BY <2>1, CopyRefines
  <2> QED
    BY <2>2, DoesFollow DEF TwoDo
<1>5. ASSUME NEW pos \in Positions(l), SpliceAll(l, m, pos) PROVE Follows
  BY <1>5, SpliceAllStep, SpliceFollows
<1>6. ASSUME NEW pos \in Positions(l), NEW n \in Positions(m), SpliceOne(l, m, pos, n)
      PROVE  Follows
  BY <1>6, SpliceOneStep, SpliceFollows
<1>7. ASSUME NEW pos \in Positions(l), NEW i \in 1 .. size_[m] + 1, NEW j \in 1 .. size_[m] + 1,
             i <= j, SpliceRange(l, m, pos, Append(Walk(ring, m), m)[i],
                                 Append(Walk(ring, m), m)[j])
      PROVE  Follows
  <2>1. /\ i \in 1 .. Len(W[m]) + 1 /\ j \in 1 .. Len(W[m]) + 1
        /\ Append(Walk(ring, m), m)[i] = Place(m, W[m], i)
        /\ Append(Walk(ring, m), m)[j] = Place(m, W[m], j)
    BY NodesArePlaces
  <2>2. SpliceRange(l, m, pos, Place(m, W[m], i), Place(m, W[m], j))
    BY <1>7, <2>1
  <2> QED
    BY <1>7, <2>1, <2>2, SpliceRangeStep, SpliceFollows
<1> QED
  BY <1>1, <1>2, <1>3, <1>4, <1>5, <1>6, <1>7

(* Every step of the lists is one of the sequences, or changes nothing     *)
(* that they show.                                                         *)
LEMMA NextFollows ==
  ASSUME IInv, [Next]_vars
  PROVE  Follows
<1>1. CASE UNCHANGED vars
  BY <1>1 DEF vars, Follows, Contents, Walk, Between
<1>2. CASE Next
  <2>1. PICK W, F, H : Sound(Now, W, F, H) /\ TempFree(W, F)
    BY DEF IInv, Holds
  <2> QED
    BY <1>2, <2>1, OneListFollows, TwoListsFollow, ZenonT(60) DEF Next
<1> QED
  BY <1>1, <1>2

(* At first all sequences are empty.                                       *)
LEMMA InitFollows ==
  ASSUME Init
  PROVE  AsSequences!Init
<1>1. PICK W, F, H : Sound(Now, W, F, H) /\ \A l \in Lists : W[l] = <<>>
  BY InitSound
<1>2. Shows(Contents, W, value)
  BY <1>1, ContentsNow
<1>3. \A l \in Lists : ContentOf(W[l], value) = <<>>
  BY <1>1, NothingKept
<1> QED
  BY <1>2, <1>3 DEF Shows, AsSequences!Init

(* The lists do what sequences of elements that keep their nodes do: every *)
(* operation, whole or cut short by an exception, is a step of             *)
(* AbstractLists, so that no iterator to an element that stays is lost.    *)
THEOREM ListRefined == Spec => ListSpec
<1>1. Init => AsSequences!Init
  BY InitFollows
<1>2. IInv /\ [Next]_vars => [AsSequences!Next]_Contents
  BY NextFollows DEF Follows
<1> QED
  BY <1>1, <1>2, Invariant, PTL DEF Spec, ListSpec, AsSequences!Spec
=============================================================================
