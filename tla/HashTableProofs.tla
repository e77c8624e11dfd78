--------------------------- MODULE HashTableProofs ---------------------------
(***************************************************************************)
(* Proofs about HashTable for any keys, values and hash function, any      *)
(* number of node storages, any limit on the bucket array, and any         *)
(* arguments of rehash, reserve and max_load_factor.                       *)
(***************************************************************************)
EXTENDS HashTable, SequenceTheorems, FiniteSetTheorems, WellFoundedInduction, TLAPS

----------------------------------------------------------------------------
(* The inductive invariant: some sequence of nodes is the iteration list,  *)
(* some sequence for every bucket its chain, and every storage is in one   *)
(* place.                                                                  *)

Elements(w) == {w[i] : i \in 1 .. Len(w)}
Distinct(w) == \A i, j \in 1 .. Len(w) : w[i] = w[j] => i = j

(* The node in place i, none outside the sequence.                         *)
At(w, i) == IF i \in 1 .. Len(w) THEN w[i] ELSE Nil

Links == [Nodes -> Maybe(Nodes)]

(* w is linked both ways, from first until Nil.                            *)
TwoWayWalk(w, first, prev, next) ==
  /\ w \in Seq(Nodes)
  /\ Distinct(w)
  /\ first = At(w, 1)
  /\ \A i \in 1 .. Len(w) : prev[w[i]] = At(w, i - 1) /\ next[w[i]] = At(w, i + 1)

----------------------------------------------------------------------------
(* Walks                                                                   *)

(* A nonempty set of natural numbers has a least element.                  *)
LEMMA LeastExists ==
  ASSUME NEW S \in SUBSET Nat, S # {}
  PROVE  \E x \in S : \A y \in S : x <= y
<1>1. PICK x \in S : \A y \in S : ~(<<y, x>> \in OpToRel(<, Nat))
  BY NatLessThanWellFounded, WFMin
<1>2. OpToRel(<, Nat) = {ss \in Nat \X Nat : ss[1] < ss[2]}
  BY DEF OpToRel
<1>3. ASSUME NEW y \in S, y < x PROVE FALSE
  <2>1. <<y, x>> \in Nat \X Nat /\ <<y, x>>[1] < <<y, x>>[2]
    BY <1>3
  <2> QED
    BY <2>1, <1>1, <1>2
<1> QED
  BY <1>3

(* f[i] is what i applications of G make of x.                             *)
Iterates(f, N, G, x) == f = [i \in 0 .. N |-> IF i = 0 THEN x ELSE G[f[i - 1]]]

(* A function that every step of a loop determines from the one before is  *)
(* the only one.                                                           *)
LEMMA IteratesUnique ==
  ASSUME NEW N \in Nat, NEW G, NEW x, NEW f, NEW p,
         Iterates(f, N, G, x), Iterates(p, N, G, x)
  PROVE  f = p
<1> USE DEF Iterates
<1> DEFINE bad == {i \in 0 .. N : f[i] # p[i]}
<1>0. \A i \in 0 .. N : /\ f[i] = IF i = 0 THEN x ELSE G[f[i - 1]]
                        /\ p[i] = IF i = 0 THEN x ELSE G[p[i - 1]]
  <2>1. ASSUME NEW i \in 0 .. N PROVE f[i] = IF i = 0 THEN x ELSE G[f[i - 1]]
    <3>1. f[i] = [j \in 0 .. N |-> IF j = 0 THEN x ELSE G[f[j - 1]]][i]
      OBVIOUS
    <3> QED
      BY <3>1, Zenon
  <2>2. ASSUME NEW i \in 0 .. N PROVE p[i] = IF i = 0 THEN x ELSE G[p[i - 1]]
    <3>1. p[i] = [j \in 0 .. N |-> IF j = 0 THEN x ELSE G[p[j - 1]]][i]
      OBVIOUS
    <3> QED
      BY <3>1, Zenon
  <2> QED
    BY <2>1, <2>2
<1>1. ASSUME bad # {} PROVE FALSE
  <2>1. PICK i \in bad : \A j \in bad : i <= j
    <3>1. bad \in SUBSET Nat
      OBVIOUS
    <3> HIDE DEF bad
    <3> QED
      BY <1>1, <3>1, LeastExists
  <2>2. i # 0
    BY <1>0
  <2>3. i - 1 \in 0 .. N /\ i - 1 \notin bad
    <3>1. i \in Nat /\ i <= N /\ i - 1 \in 0 .. N /\ ~(i <= i - 1)
      BY <2>2
    <3> HIDE DEF bad
    <3> QED
      BY <2>1, <3>1
  <2>4. f[i] = G[f[i - 1]] /\ p[i] = G[p[i - 1]]
    BY <2>2, <1>0
  <2> QED
    BY <2>3, <2>4
<1>2. \A i \in 0 .. N : f[i] = p[i]
  BY <1>1
<1>3. f = [i \in 0 .. N |-> f[i]] /\ p = [i \in 0 .. N |-> p[i]]
  OBVIOUS
<1> QED
  BY <1>2, <1>3

(* No node is Nil.                                                         *)
LEMMA NodesNotNil == IsFiniteSet(Nodes) /\ \A n \in Nodes : n # Nil /\ n \in Nat
  BY TableAssumption DEF Nil

(* A list of different nodes is not longer than there are nodes.           *)
LEMMA DistinctLength ==
  ASSUME NEW w \in Seq(Nodes), Distinct(w)
  PROVE  Cardinality(Nodes) \in Nat /\ Len(w) <= Cardinality(Nodes)
<1>1. IsFiniteSet(Nodes)
  BY NodesNotNil
<1>2. w \in Injection(1 .. Len(w), Nodes)
  BY DEF Distinct, Injection, IsInjective
<1>3. Cardinality(1 .. Len(w)) = Len(w)
  <2>1. Len(w) \in Nat
    OBVIOUS
  <2>2. Cardinality(1 .. Len(w)) = IF 1 > Len(w) THEN 0 ELSE Len(w) - 1 + 1
    <3>1. PICK N \in Int : N = Len(w)
      BY <2>1
    <3>2. Cardinality(1 .. N) = IF 1 > N THEN 0 ELSE N - 1 + 1
      BY FS_Interval
    <3> QED
      BY <3>1, <3>2
  <2> QED
    BY <2>1, <2>2
<1>4. Cardinality(1 .. Len(w)) <= Cardinality(Nodes)
  BY <1>1, <1>2, FS_Injection
<1>5. Cardinality(Nodes) \in Nat
  BY <1>1, FS_CardinalityType
<1> QED
  BY <1>3, <1>4, <1>5

(* Following the links from the first node gives the walk.                 *)
LEMMA AlongIs ==
  ASSUME NEW w, NEW first, NEW prev, NEW next, TwoWayWalk(w, first, prev, next)
  PROVE  Along(next, first) = w
<1> DEFINE N == Cardinality(Nodes)
           Longer == [v \in Seq(Nodes) |->
                        LET m == IF v = <<>> THEN first ELSE next[Last(v)]
                        IN  IF m = Nil THEN v ELSE Append(v, m)]
           Upto(i) == SubSeq(w, 1, IF i <= Len(w) THEN i ELSE Len(w))
           p == [i \in 0 .. N |-> Upto(i)]
<1>1. w \in Seq(Nodes) /\ Len(w) \in Nat /\ N \in Nat /\ Len(w) <= N
  BY DistinctLength DEF TwoWayWalk
<1>2. \A i \in 0 .. N : Upto(i) \in Seq(Nodes)
  BY <1>1
<1>a. ASSUME NEW v \in Seq(Nodes), NEW m,
             m = IF v = <<>> THEN first ELSE next[Last(v)]
      PROVE  Longer[v] = IF m = Nil THEN v ELSE Append(v, m)
  BY <1>a
<1>3. ASSUME NEW i \in 1 .. N PROVE Upto(i) = Longer[Upto(i - 1)]
  <2>1. Upto(i - 1) \in Seq(Nodes)
    BY <1>2
  <2>2. CASE i <= Len(w)
    <3>1. Upto(i) = SubSeq(w, 1, i) /\ Upto(i - 1) = SubSeq(w, 1, i - 1)
      BY <2>2, <1>1
    <3>2. SubSeq(w, 1, i) = Append(SubSeq(w, 1, i - 1), w[i])
      BY <1>1, <2>2
    <3>3. w[i] \in Nodes /\ w[i] # Nil
      <4>1. i \in 1 .. Len(w)
        BY <2>2, <1>1
      <4> QED
        BY <4>1, <1>1, NodesNotNil, ElementOfSeq
    <3>4. w[i] = IF Upto(i - 1) = <<>> THEN first ELSE next[Last(Upto(i - 1))]
      <4>1. CASE i = 1
        BY <3>1, <4>1, <2>2, <1>1 DEF TwoWayWalk, At
      <4>2. CASE i > 1
        <5>1. Upto(i - 1) # <<>> /\ Last(Upto(i - 1)) = w[i - 1]
          BY <3>1, <4>2, <2>2, <1>1 DEF Last
        <5>2. next[w[i - 1]] = w[i]
          BY <4>2, <2>2, <1>1 DEF TwoWayWalk, At
        <5> QED
          BY <5>1, <5>2
      <4>3. i = 1 \/ i > 1
        BY <1>1
      <4> QED
        BY <4>1, <4>2, <4>3
    <3> HIDE DEF Longer, Upto
    <3> QED
      BY <1>a, <2>1, <3>1, <3>2, <3>3, <3>4
  <2>3. CASE i > Len(w)
    <3>1. Upto(i) = w /\ Upto(i - 1) = w
      BY <2>3, <1>1, SubSeqFull
    <3>2. Nil = IF w = <<>> THEN first ELSE next[Last(w)]
      <4>1. CASE w = <<>>
        BY <4>1 DEF TwoWayWalk, At
      <4>2. CASE w # <<>>
        <5>1. Last(w) = w[Len(w)] /\ Len(w) \in 1 .. Len(w)
          BY <4>2, <1>1 DEF Last
        <5>2. next[w[Len(w)]] = Nil
          BY <5>1, <1>1 DEF TwoWayWalk, At
        <5> QED
          BY <5>1, <5>2, <4>2
      <4> QED
        BY <4>1, <4>2
    <3> HIDE DEF Longer, Upto
    <3> QED
      BY <1>a, <1>1, <3>1, <3>2
  <2>4. i <= Len(w) \/ i > Len(w)
    BY <1>1
  <2> QED
    BY <2>2, <2>3, <2>4
<1>4. Iterates(p, N, Longer, <<>>)
  <2>1. Upto(0) = <<>>
    BY <1>1
  <2>2. ASSUME NEW i \in 0 .. N
        PROVE  p[i] = IF i = 0 THEN <<>> ELSE Longer[p[i - 1]]
    <3>1. CASE i = 0
      BY <3>1, <2>1
    <3>2. CASE i # 0
      <4>1. i \in 1 .. N /\ i - 1 \in 0 .. N /\ p[i] = Upto(i) /\ p[i - 1] = Upto(i - 1)
        BY <3>2, <1>1
      <4> HIDE DEF p, Upto, Longer
      <4> QED
        BY <4>1, <3>2, <1>3
    <3> QED
      BY <3>1, <3>2
  <2> QED
    BY <2>2 DEF Iterates
<1>5. p[N] = w
  BY <1>1, SubSeqFull
<1>6. Along(next, first) = (CHOOSE f : Iterates(f, N, Longer, <<>>))[N]
  BY DEF Along, Iterates
<1> HIDE DEF p, Longer, N
<1>7. ASSUME NEW f, Iterates(f, N, Longer, <<>>) PROVE f = p
  BY <1>1, <1>4, <1>7, IteratesUnique
<1>8. (CHOOSE f : Iterates(f, N, Longer, <<>>)) = p
  BY <1>4, <1>7
<1> QED
  BY <1>5, <1>6, <1>8

(* Links of nodes that are not in the walk do not matter.                  *)
LEMMA WalkFrame ==
  ASSUME NEW w, NEW first, NEW prev, NEW next, NEW prev2, NEW next2,
         TwoWayWalk(w, first, prev, next),
         \A n \in Elements(w) : prev2[n] = prev[n] /\ next2[n] = next[n]
  PROVE  TwoWayWalk(w, first, prev2, next2)
  BY DEF TwoWayWalk, Elements

(* Places of a sequence of nodes.                                          *)
LEMMA Places ==
  ASSUME NEW w \in Seq(Nodes), NEW i \in Int
  PROVE  /\ Len(w) \in Nat
         /\ At(w, i) \in Maybe(Nodes)
         /\ At(w, i) = Nil <=> i \notin 1 .. Len(w)
         /\ i \in 1 .. Len(w) => At(w, i) = w[i] /\ w[i] \in Nodes /\ w[i] \in Elements(w)
  BY NodesNotNil DEF At, Maybe, Elements

(* n in front of a sequence.                                               *)
LEMMA InFront ==
  ASSUME NEW c \in Seq(Nodes), NEW n \in Nodes, n \notin Elements(c), Distinct(c)
  PROVE  LET d == <<n>> \o c
         IN  /\ d \in Seq(Nodes) /\ Len(d) = Len(c) + 1
             /\ d[1] = n /\ \A i \in 1 .. Len(c) : d[i + 1] = c[i]
             /\ Elements(d) = Elements(c) \cup {n}
             /\ Distinct(d)
<1> DEFINE d == <<n>> \o c
<1>1. d \in Seq(Nodes) /\ Len(d) = Len(c) + 1 /\ Len(c) \in Nat
  OBVIOUS
<1>2. d[1] = n /\ \A i \in 2 .. Len(c) + 1 : d[i] = c[i - 1]
  OBVIOUS
<1> HIDE DEF d
<1>3. \A i \in 1 .. Len(c) : d[i + 1] = c[i]
  <2> TAKE i \in 1 .. Len(c)
  <2>1. i + 1 \in 2 .. Len(c) + 1 /\ i + 1 - 1 = i
    BY <1>1
  <2> QED
    BY <2>1, <1>2
<1>4. Elements(d) = Elements(c) \cup {n}
  <2>1. ASSUME NEW x \in Elements(d) PROVE x \in Elements(c) \cup {n}
    BY <1>1, <1>2 DEF Elements
  <2>2. ASSUME NEW x \in Elements(c) PROVE x \in Elements(d)
    <3>1. PICK i \in 1 .. Len(c) : x = c[i]
      BY DEF Elements
    <3>2. i + 1 \in 1 .. Len(d) /\ x = d[i + 1]
      BY <1>1, <1>3, <3>1
    <3> QED
      BY <3>2 DEF Elements
  <2>3. n \in Elements(d)
    BY <1>1, <1>2 DEF Elements
  <2> QED
    BY <2>1, <2>2, <2>3
<1>5. Distinct(d)
  <2> SUFFICES ASSUME NEW i \in 1 .. Len(d), NEW j \in 1 .. Len(d), d[i] = d[j]
               PROVE  i = j
    BY DEF Distinct
  <2>1. CASE i = 1 /\ j > 1
    BY <2>1, <1>1, <1>2 DEF Elements
  <2>2. CASE j = 1 /\ i > 1
    BY <2>2, <1>1, <1>2 DEF Elements
  <2>3. CASE i > 1 /\ j > 1
    <3>1. i - 1 \in 1 .. Len(c) /\ j - 1 \in 1 .. Len(c) /\ c[i - 1] = c[j - 1]
      BY <2>3, <1>1, <1>2
    <3>2. i - 1 = j - 1
      BY <3>1 DEF Distinct
    <3> QED
      BY <3>2, <1>1
  <2> QED
    BY <2>1, <2>2, <2>3, <1>1
<1> QED
  BY <1>1, <1>2, <1>3, <1>4, <1>5 DEF d

(* A node enters a chain in front.                                         *)
LEMMA PushWalk ==
  ASSUME NEW prev \in Links, NEW next \in Links, NEW c, NEW first,
         TwoWayWalk(c, first, prev, next),
         NEW n \in Nodes, n \notin Elements(c),
         NEW prev2 \in Links, NEW next2 \in Links,
         next2[n] = first, prev2[n] = Nil,
         \A m \in Nodes \ {n} : next2[m] = next[m],
         \A m \in Nodes \ {n} : prev2[m] = IF m = first THEN n ELSE prev[m]
  PROVE  TwoWayWalk(<<n>> \o c, n, prev2, next2)
<1> DEFINE d == <<n>> \o c
<1>1. c \in Seq(Nodes) /\ Distinct(c) /\ first = At(c, 1) /\ Len(c) \in Nat
  BY DEF TwoWayWalk
<1>2. /\ d \in Seq(Nodes) /\ Len(d) = Len(c) + 1 /\ Distinct(d)
      /\ d[1] = n /\ \A i \in 1 .. Len(c) : d[i + 1] = c[i]
  BY <1>1, InFront
<1> HIDE DEF d
<1>3. \A i \in 2 .. Len(d) : d[i] = c[i - 1] /\ i - 1 \in 1 .. Len(c)
  <2> TAKE i \in 2 .. Len(d)
  <2>1. i - 1 \in 1 .. Len(c) /\ (i - 1) + 1 = i
    BY <1>1, <1>2
  <2> QED
    BY <2>1, <1>2
<1>4. At(d, 1) = n
  BY <1>1, <1>2 DEF At
<1>5. \A i \in 1 .. Len(d) : At(d, i + 1) = At(c, i)
  BY <1>1, <1>2 DEF At
<1>6. ASSUME NEW i \in 1 .. Len(d)
      PROVE  prev2[d[i]] = At(d, i - 1) /\ next2[d[i]] = At(d, i + 1)
  <2>1. CASE i = 1
    BY <2>1, <1>1, <1>2, <1>5 DEF At
  <2>2. CASE i > 1
    <3>1. i - 1 \in 1 .. Len(c) /\ d[i] = c[i - 1] /\ c[i - 1] \in Elements(c)
          /\ c[i - 1] \in Nodes \ {n} /\ i - 1 + 1 = i /\ i - 1 \in 1 .. Len(d)
      BY <2>2, <1>1, <1>2, <1>3 DEF Elements
    <3>2. next2[d[i]] = At(c, i)
      BY <3>1 DEF TwoWayWalk
    <3>3. prev2[d[i]] = IF c[i - 1] = first THEN n ELSE At(c, i - 1 - 1)
      BY <3>1 DEF TwoWayWalk
    <3>4. CASE i = 2
      <4>1. c[i - 1] = first
        BY <3>1, <3>4, <1>1 DEF At
      <4> QED
        BY <4>1, <3>2, <3>3, <3>4, <1>4, <1>5
    <3>5. CASE i > 2
      <4>1. c[i - 1] # first
        <5>1. 1 \in 1 .. Len(c) /\ i - 1 # 1
          BY <3>1, <3>5, <1>1
        <5>2. first = c[1]
          BY <5>1, <1>1 DEF At
        <5>3. PICK j \in 1 .. Len(c) : j = i - 1 /\ j # 1
          BY <3>1, <5>1
        <5>4. c[j] # c[1]
          BY <5>1, <5>3, <1>1 DEF Distinct
        <5> QED
          BY <5>2, <5>3, <5>4
      <4>2. At(d, i - 1) = At(c, i - 1 - 1)
        <5>1. i - 2 \in 1 .. Len(d) /\ (i - 2) + 1 = i - 1 /\ i - 1 - 1 = i - 2
          BY <3>5, <1>1
        <5> QED
          BY <5>1, <1>5
      <4> QED
        BY <4>1, <4>2, <3>2, <3>3, <1>5
    <3> QED
      BY <2>2, <3>4, <3>5
  <2> QED
    BY <2>1, <2>2
<1> QED
  BY <1>2, <1>4, <1>6 DEF TwoWayWalk, d

(* A node comes last.                                                      *)
LEMMA AtTheEnd ==
  ASSUME NEW w \in Seq(Nodes), NEW n \in Nodes, n \notin Elements(w), Distinct(w)
  PROVE  LET v == Append(w, n)
         IN  /\ v \in Seq(Nodes) /\ Len(v) = Len(w) + 1
             /\ v[Len(w) + 1] = n /\ \A i \in 1 .. Len(w) : v[i] = w[i]
             /\ Elements(v) = Elements(w) \cup {n}
             /\ Distinct(v)
<1> DEFINE v == Append(w, n)
<1>1. v \in Seq(Nodes) /\ Len(v) = Len(w) + 1 /\ Len(w) \in Nat
  OBVIOUS
<1>2. v[Len(w) + 1] = n /\ \A i \in 1 .. Len(w) : v[i] = w[i]
  OBVIOUS
<1> HIDE DEF v
<1>3. Elements(v) = Elements(w) \cup {n}
  <2>1. ASSUME NEW x \in Elements(v) PROVE x \in Elements(w) \cup {n}
    <3>1. PICK i \in 1 .. Len(v) : x = v[i]
      BY DEF Elements
    <3>2. i = Len(w) + 1 \/ i \in 1 .. Len(w)
      BY <1>1
    <3> QED
      BY <3>1, <3>2, <1>2 DEF Elements
  <2>2. ASSUME NEW x \in Elements(w) PROVE x \in Elements(v)
    <3>1. PICK i \in 1 .. Len(w) : x = w[i]
      BY DEF Elements
    <3>2. i \in 1 .. Len(v) /\ x = v[i]
      BY <1>1, <1>2, <3>1
    <3> QED
      BY <3>2 DEF Elements
  <2>3. n \in Elements(v)
    BY <1>1, <1>2 DEF Elements
  <2> QED
    BY <2>1, <2>2, <2>3
<1>4. Distinct(v)
  <2> SUFFICES ASSUME NEW i \in 1 .. Len(v), NEW j \in 1 .. Len(v), v[i] = v[j]
               PROVE  i = j
    BY DEF Distinct
  <2>1. CASE i = Len(w) + 1 /\ j \in 1 .. Len(w)
    BY <2>1, <1>1, <1>2 DEF Elements
  <2>2. CASE j = Len(w) + 1 /\ i \in 1 .. Len(w)
    BY <2>2, <1>1, <1>2 DEF Elements
  <2>3. CASE i \in 1 .. Len(w) /\ j \in 1 .. Len(w)
    BY <2>3, <1>2 DEF Distinct
  <2> QED
    BY <2>1, <2>2, <2>3, <1>1
<1> QED
  BY <1>1, <1>2, <1>3, <1>4 DEF v

(* A node enters the iteration list behind its last node.                  *)
LEMMA AppendWalk ==
  ASSUME NEW prev \in Links, NEW next \in Links, NEW w, NEW first,
         TwoWayWalk(w, first, prev, next),
         NEW n \in Nodes, n \notin Elements(w),
         NEW prev2 \in Links, NEW next2 \in Links, NEW first2, NEW last,
         last = At(w, Len(w)),
         next2[n] = Nil, prev2[n] = last,
         first2 = IF last = Nil THEN n ELSE first,
         \A m \in Nodes \ {n} : prev2[m] = prev[m],
         \A m \in Nodes \ {n} : next2[m] = IF m = last THEN n ELSE next[m]
  PROVE  TwoWayWalk(Append(w, n), first2, prev2, next2)
<1> DEFINE v == Append(w, n)
<1>1. w \in Seq(Nodes) /\ Distinct(w) /\ first = At(w, 1) /\ Len(w) \in Nat
  BY DEF TwoWayWalk
<1>2. /\ v \in Seq(Nodes) /\ Len(v) = Len(w) + 1 /\ Distinct(v)
      /\ v[Len(w) + 1] = n /\ \A i \in 1 .. Len(w) : v[i] = w[i]
  BY <1>1, AtTheEnd
<1> HIDE DEF v
<1>3. \A i \in 0 .. Len(w) : At(v, i) = At(w, i)
  BY <1>1, <1>2 DEF At
<1>4. At(v, Len(w) + 1) = n /\ At(v, Len(w) + 2) = Nil
  BY <1>1, <1>2 DEF At
<1>5. first2 = At(v, 1)
  <2>1. CASE Len(w) = 0
    BY <2>1, <1>4 DEF At
  <2>2. CASE Len(w) > 0
    <3>1. last # Nil
      BY <2>2, <1>1, NodesNotNil DEF At
    <3> QED
      BY <3>1, <2>2, <1>1, <1>3
  <2> QED
    BY <2>1, <2>2, <1>1
<1>6. ASSUME NEW i \in 1 .. Len(v)
      PROVE  prev2[v[i]] = At(v, i - 1) /\ next2[v[i]] = At(v, i + 1)
  <2>1. CASE i = Len(w) + 1
    <3>1. i - 1 = Len(w) /\ i + 1 = Len(w) + 2 /\ Len(w) \in 0 .. Len(w)
      BY <2>1, <1>1
    <3> QED
      BY <2>1, <3>1, <1>2, <1>3, <1>4
  <2>2. CASE i \in 1 .. Len(w)
    <3>1. v[i] = w[i] /\ w[i] \in Nodes \ {n}
      BY <2>2, <1>1, <1>2 DEF Elements
    <3>2. prev2[v[i]] = At(w, i - 1)
      BY <2>2, <3>1 DEF TwoWayWalk
    <3>3. next2[v[i]] = IF w[i] = last THEN n ELSE At(w, i + 1)
      BY <2>2, <3>1 DEF TwoWayWalk
    <3>4. i - 1 \in 0 .. Len(w)
      BY <2>2
    <3>5. CASE i = Len(w)
      <4>1. w[i] = last
        BY <3>5, <2>2 DEF At
      <4> QED
        BY <4>1, <3>2, <3>3, <3>4, <3>5, <1>3, <1>4
    <3>6. CASE i < Len(w)
      <4>1. w[i] # last
        <5>1. Len(w) \in 1 .. Len(w) /\ i # Len(w)
          BY <2>2, <3>6
        <5>2. last = w[Len(w)]
          BY <5>1 DEF At
        <5> QED
          BY <5>1, <5>2, <2>2, <1>1 DEF Distinct
      <4>2. i + 1 \in 0 .. Len(w)
        BY <2>2, <3>6, <1>1
      <4> QED
        BY <4>1, <4>2, <3>2, <3>3, <3>4, <1>3
    <3> QED
      BY <2>2, <3>5, <3>6
  <2> QED
    BY <2>1, <2>2, <1>1, <1>2
<1> QED
  BY <1>2, <1>5, <1>6 DEF TwoWayWalk, v

(* w without its node in place q.                                          *)
Without(w, q) == [i \in 1 .. Len(w) - 1 |-> IF i < q THEN w[i] ELSE w[i + 1]]

(* The other nodes keep their order.                                       *)
LEMMA LeftOut ==
  ASSUME NEW w \in Seq(Nodes), NEW q \in 1 .. Len(w), Distinct(w)
  PROVE  LET v == Without(w, q)
         IN  /\ v \in Seq(Nodes) /\ Len(v) = Len(w) - 1
             /\ \A i \in 1 .. Len(v) : v[i] = IF i < q THEN w[i] ELSE w[i + 1]
             /\ Elements(v) = Elements(w) \ {w[q]}
             /\ Distinct(v)
<1> DEFINE v == Without(w, q)
<1>1. Len(w) \in Nat /\ Len(w) - 1 \in Nat /\ q \in Nat
  OBVIOUS
<1>2. \A i \in 1 .. Len(w) - 1 : (IF i < q THEN w[i] ELSE w[i + 1]) \in Nodes
  <2> TAKE i \in 1 .. Len(w) - 1
  <2>1. i \in 1 .. Len(w) /\ i + 1 \in 1 .. Len(w)
    BY <1>1
  <2> QED
    BY <2>1
<1>3. /\ v \in Seq(Nodes) /\ Len(v) = Len(w) - 1
      /\ \A i \in 1 .. Len(w) - 1 : v[i] = IF i < q THEN w[i] ELSE w[i + 1]
  BY <1>1, <1>2 DEF Without
<1> HIDE DEF v
<1>4. \A i \in 1 .. Len(v) : \E j \in 1 .. Len(w) :
        j # q /\ v[i] = w[j] /\ j = IF i < q THEN i ELSE i + 1
  <2> TAKE i \in 1 .. Len(v)
  <2>1. i \in 1 .. Len(w) /\ i + 1 \in 1 .. Len(w)
    BY <1>1, <1>3
  <2> QED
    BY <2>1, <1>3
<1>5. Elements(v) = Elements(w) \ {w[q]}
  <2>1. ASSUME NEW x \in Elements(v) PROVE x \in Elements(w) \ {w[q]}
    BY <1>4 DEF Elements, Distinct
  <2>2. ASSUME NEW x \in Elements(w), x # w[q] PROVE x \in Elements(v)
    <3>1. PICK j \in 1 .. Len(w) : x = w[j]
      BY DEF Elements
    <3>2. CASE j < q
      <4>1. j \in 1 .. Len(v) /\ v[j] = w[j]
        BY <3>2, <1>1, <1>3
      <4> QED
        BY <4>1, <3>1 DEF Elements
    <3>3. CASE j > q
      <4>1. j - 1 \in 1 .. Len(v) /\ ~(j - 1 < q) /\ (j - 1) + 1 = j
        BY <3>3, <1>1, <1>3
      <4>2. v[j - 1] = w[j]
        BY <4>1, <1>3
      <4> QED
        BY <4>1, <4>2, <3>1 DEF Elements
    <3> QED
      BY <2>2, <3>1, <3>2, <3>3
  <2> QED
    BY <2>1, <2>2
<1>6. Distinct(v)
  <2> SUFFICES ASSUME NEW i \in 1 .. Len(v), NEW j \in 1 .. Len(v), v[i] = v[j]
               PROVE  i = j
    BY DEF Distinct
  <2>1. PICK a \in 1 .. Len(w) : v[i] = w[a] /\ a = IF i < q THEN i ELSE i + 1
    BY <1>4
  <2>2. PICK b \in 1 .. Len(w) : v[j] = w[b] /\ b = IF j < q THEN j ELSE j + 1
    BY <1>4
  <2>3. a = b
    BY <2>1, <2>2 DEF Distinct
  <2> QED
    BY <2>1, <2>2, <2>3, <1>1, <1>3
<1> QED
  BY <1>3, <1>5, <1>6 DEF v

(* The links of the other nodes pass n by.                                 *)
Bypassed(n, prev, next, prev2, next2) ==
  /\ \A m \in Nodes \ {n} : prev2[m] = IF m = next[n] THEN prev[n] ELSE prev[m]
  /\ \A m \in Nodes \ {n} : next2[m] = IF m = prev[n] THEN next[n] ELSE next[m]

(* A node leaves a list: its neighbours are linked to each other.          *)
LEMMA RemoveWalk ==
  ASSUME NEW prev \in Links, NEW next \in Links, NEW w, NEW first,
         TwoWayWalk(w, first, prev, next),
         NEW q \in 1 .. Len(w), NEW n, n = w[q],
         NEW prev2 \in Links, NEW next2 \in Links, NEW first2,
         first2 = IF prev[n] = Nil THEN next[n] ELSE first,
         Bypassed(n, prev, next, prev2, next2)
  PROVE  /\ TwoWayWalk(Without(w, q), first2, prev2, next2)
         /\ At(Without(w, q), Len(w) - 1) =
              IF next[n] = Nil THEN prev[n] ELSE At(w, Len(w))
<1> USE DEF Bypassed
<1> DEFINE v == Without(w, q)
<1>1. w \in Seq(Nodes) /\ Distinct(w) /\ first = At(w, 1) /\ Len(w) \in Nat /\ q \in Nat
  BY DEF TwoWayWalk
<1>2. /\ v \in Seq(Nodes) /\ Len(v) = Len(w) - 1 /\ Distinct(v)
      /\ \A i \in 1 .. Len(v) : v[i] = IF i < q THEN w[i] ELSE w[i + 1]
  BY <1>1, LeftOut
<1> HIDE DEF v
<1>3. \A i \in 0 .. Len(w) : At(v, i) = IF i < q THEN At(w, i) ELSE At(w, i + 1)
  <2> TAKE i \in 0 .. Len(w)
  <2>1. CASE i \in 1 .. Len(v)
    BY <2>1, <1>1, <1>2 DEF At
  <2>2. CASE i = 0
    BY <2>2, <1>1 DEF At
  <2>3. CASE i = Len(w)
    BY <2>3, <1>1, <1>2 DEF At
  <2> QED
    BY <2>1, <2>2, <2>3, <1>1, <1>2
<1>4. prev[n] = At(w, q - 1) /\ next[n] = At(w, q + 1)
  BY DEF TwoWayWalk
<1>5. \A i \in 1 .. Len(w) : (w[i] = prev[n] <=> i = q - 1) /\ (w[i] = next[n] <=> i = q + 1)
  <2> TAKE i \in 1 .. Len(w)
  <2>1. w[i] # Nil
    BY <1>1, NodesNotNil
  <2> QED
    BY <2>1, <1>1, <1>4 DEF At, Distinct
<1>a. ASSUME NEW i \in 1 .. Len(w), i # q
      PROVE  /\ prev2[w[i]] = IF i = q + 1 THEN prev[n] ELSE At(w, i - 1)
             /\ next2[w[i]] = IF i = q - 1 THEN next[n] ELSE At(w, i + 1)
  <2>1. w[i] \in Nodes \ {n}
    BY <1>1, <1>a DEF Distinct
  <2>2. prev2[w[i]] = IF w[i] = next[n] THEN prev[n] ELSE prev[w[i]]
    BY <2>1
  <2>3. next2[w[i]] = IF w[i] = prev[n] THEN next[n] ELSE next[w[i]]
    BY <2>1
  <2>4. prev[w[i]] = At(w, i - 1) /\ next[w[i]] = At(w, i + 1)
    BY DEF TwoWayWalk
  <2>5. (w[i] = prev[n] <=> i = q - 1) /\ (w[i] = next[n] <=> i = q + 1)
    BY <1>5
  <2> QED
    BY <2>2, <2>3, <2>4, <2>5
<1>6. prev[n] = Nil <=> q = 1
  BY <1>1, <1>4, NodesNotNil DEF At
<1>7. next[n] = Nil <=> q = Len(w)
  BY <1>1, <1>4, NodesNotNil DEF At
<1>8. first2 = At(v, 1)
  <2>1. At(v, 1) = IF 1 < q THEN At(w, 1) ELSE At(w, 2)
    BY <1>1, <1>3
  <2>2. CASE q = 1
    BY <2>1, <2>2, <1>4, <1>6
  <2>3. CASE q > 1
    BY <2>1, <2>3, <1>1, <1>6
  <2> QED
    BY <2>2, <2>3, <1>1
<1>9. At(v, Len(w) - 1) = IF next[n] = Nil THEN prev[n] ELSE At(w, Len(w))
  <2>1. Len(w) - 1 \in 0 .. Len(w) /\ Len(w) - 1 + 1 = Len(w)
    BY <1>1
  <2>2. At(v, Len(w) - 1) = IF Len(w) - 1 < q THEN At(w, Len(w) - 1) ELSE At(w, Len(w))
    BY <2>1, <1>3
  <2>3. CASE q = Len(w)
    BY <2>2, <2>3, <1>1, <1>4, <1>7
  <2>4. CASE q < Len(w)
    BY <2>2, <2>4, <1>1, <1>7
  <2> QED
    BY <2>3, <2>4, <1>1
<1>10. ASSUME NEW i \in 1 .. Len(v)
       PROVE  prev2[v[i]] = At(v, i - 1) /\ next2[v[i]] = At(v, i + 1)
  <2>1. i \in 1 .. Len(w) /\ i + 1 \in 1 .. Len(w) /\ i - 1 \in 0 .. Len(w)
        /\ (i - 1) + 1 = i /\ (i + 1) - 1 = i /\ i \in Nat
    BY <1>1, <1>2
  <2>2. CASE i < q
    <3>1. v[i] = w[i] /\ i # q
      BY <2>1, <2>2, <1>1, <1>2
    <3>2. prev2[v[i]] = IF i = q + 1 THEN prev[n] ELSE At(w, i - 1)
      BY <2>1, <3>1, <1>a
    <3>3. next2[v[i]] = IF i = q - 1 THEN next[n] ELSE At(w, i + 1)
      BY <2>1, <3>1, <1>a
    <3>4. At(v, i - 1) = At(w, i - 1)
      BY <2>1, <2>2, <1>1, <1>3
    <3>5. At(v, i + 1) = IF i + 1 < q THEN At(w, i + 1) ELSE At(w, i + 1 + 1)
      BY <2>1, <1>3
    <3> QED
      BY <2>1, <2>2, <3>2, <3>3, <3>4, <3>5, <1>1, <1>4
  <2>3. CASE i >= q
    <3>1. v[i] = w[i + 1] /\ i + 1 # q
      BY <2>1, <2>3, <1>1, <1>2
    <3>2. prev2[v[i]] = IF i + 1 = q + 1 THEN prev[n] ELSE At(w, i)
      BY <2>1, <3>1, <1>a
    <3>3. next2[v[i]] = IF i + 1 = q - 1 THEN next[n] ELSE At(w, i + 1 + 1)
      BY <2>1, <3>1, <1>a
    <3>4. At(v, i - 1) = IF i - 1 < q THEN At(w, i - 1) ELSE At(w, i)
      BY <2>1, <1>3
    <3>5. At(v, i + 1) = At(w, i + 1 + 1)
      BY <2>1, <2>3, <1>1, <1>3
    <3> QED
      BY <2>1, <2>3, <3>2, <3>3, <3>4, <3>5, <1>1, <1>4
  <2> QED
    BY <2>2, <2>3, <2>1, <1>1
<1> QED
  BY <1>2, <1>8, <1>9, <1>10 DEF TwoWayWalk, v

----------------------------------------------------------------------------
(* Buckets                                                                 *)

TableShape(t) ==
  /\ t \in [buckets : {t.buckets}, bucket_count : Nat,
            bucket_prev : Links, bucket_next : Links, iter_prev : Links, iter_next : Links,
            head : Maybe(Nodes), tail : Maybe(Nodes)]
  /\ t.buckets \in [0 .. t.bucket_count - 1 -> Maybe(Nodes)]

(* The nodes of S whose keys, kf, belong into bucket i.                    *)
Hashed(S, kf, count, i) == {n \in S : bucket_index_for(kf[n], count) = i}

IsChain(c, t, kf, S, i) ==
  /\ TwoWayWalk(c, t.buckets[i], t.bucket_prev, t.bucket_next)
  /\ Elements(c) = Hashed(S, kf, t.bucket_count, i)

(* Every bucket has a chain, of the nodes of S that belong into it.        *)
Chained(t, kf, S) ==
  \A i \in 0 .. t.bucket_count - 1 : \E c \in Seq(Nodes) : IsChain(c, t, kf, S, i)

(* The fields that only the iteration list uses.                           *)
SameList(t, u) ==
  /\ u.iter_prev = t.iter_prev /\ u.iter_next = t.iter_next
  /\ u.head = t.head /\ u.tail = t.tail

(* bucket_index_for stays within the bucket array.                         *)
LEMMA IndexInRange ==
  ASSUME NEW k \in Keys, NEW count \in Nat, count # 0
  PROVE  bucket_index_for(k, count) \in 0 .. count - 1
<1>1. Hash[k] \in Nat
  BY TableAssumption
<1>2. PICK h \in Nat : h = Hash[k]
  BY <1>1
<1>3. h % count \in 0 .. count - 1
  OBVIOUS
<1> QED
  BY <1>2, <1>3 DEF bucket_index_for

(* What link_new_node and relink_all_buckets write for one node.           *)
LEMMA PushedFields ==
  ASSUME NEW t, TableShape(t), NEW n \in Nodes, NEW k \in Keys, t.bucket_count # 0,
         NEW i, i = bucket_index_for(k, t.bucket_count), t.buckets[i] # n,
         NEW u, u = PushedFront(t, n, k)
  PROVE  /\ TableShape(u) /\ u.bucket_count = t.bucket_count /\ SameList(t, u)
         /\ i \in 0 .. t.bucket_count - 1
         /\ u.buckets = [t.buckets EXCEPT ![i] = n]
         /\ u.bucket_next[n] = t.buckets[i] /\ u.bucket_prev[n] = Nil
         /\ \A m \in Nodes \ {n} : u.bucket_next[m] = t.bucket_next[m]
         /\ \A m \in Nodes \ {n} :
              u.bucket_prev[m] = IF m = t.buckets[i] THEN n ELSE t.bucket_prev[m]
<1>1. i \in 0 .. t.bucket_count - 1
  BY IndexInRange DEF TableShape
<1> DEFINE next == t.buckets[i]
           bp == IF next = Nil THEN [t.bucket_prev EXCEPT ![n] = Nil]
                 ELSE [[t.bucket_prev EXCEPT ![n] = Nil] EXCEPT ![next] = n]
           bn == [t.bucket_next EXCEPT ![n] = next]
           bs == [t.buckets EXCEPT ![i] = n]
<1>2. next \in Maybe(Nodes) /\ n \in Maybe(Nodes) /\ Nil \in Maybe(Nodes)
  BY <1>1 DEF TableShape, Maybe
<1>3. bn \in Links /\ bp \in Links /\ bs \in [0 .. t.bucket_count - 1 -> Maybe(Nodes)]
  <2>1. t.bucket_prev \in Links /\ t.bucket_next \in Links
        /\ t.buckets \in [0 .. t.bucket_count - 1 -> Maybe(Nodes)]
    BY DEF TableShape
  <2> HIDE DEF next
  <2> QED
    BY <2>1, <1>2, <1>1 DEF Links
<1>4. u = [t EXCEPT !.bucket_prev = bp, !.bucket_next = bn, !.buckets = bs]
  BY DEF PushedFront, TableShape
<1>5. /\ u.bucket_prev = bp /\ u.bucket_next = bn /\ u.buckets = bs
      /\ u.bucket_count = t.bucket_count /\ SameList(t, u)
  <2> HIDE DEF bp, bn, bs
  <2> QED
    BY <1>4 DEF TableShape, SameList
<1>6. TableShape(u)
  <2> HIDE DEF bp, bn, bs
  <2> QED
    BY <1>3, <1>4, <1>5 DEF TableShape
<1>7. bn[n] = next /\ \A m \in Nodes \ {n} : bn[m] = t.bucket_next[m]
  BY DEF TableShape, Links
<1>8. bp[n] = Nil /\ \A m \in Nodes \ {n} : bp[m] = IF m = next THEN n ELSE t.bucket_prev[m]
  BY NodesNotNil DEF TableShape, Links
<1> QED
  BY <1>1, <1>5, <1>6, <1>7, <1>8

(* The nodes of S are chained; n is one more.                              *)
OneMore(t, kf, S, n) ==
  /\ TableShape(t) /\ t.bucket_count # 0 /\ kf \in [Nodes -> Keys]
  /\ S \in SUBSET Nodes /\ n \in Nodes /\ n \notin S
  /\ Chained(t, kf, S)

(* u has the buckets and the iteration list of t, and chains S.            *)
NowChained(t, u, kf, S) ==
  /\ TableShape(u) /\ u.bucket_count = t.bucket_count
  /\ SameList(t, u) /\ Chained(u, kf, S)

(* One more node is chained.                                               *)
LEMMA PushedTable ==
  ASSUME NEW t, TableShape(t), NEW kf \in [Nodes -> Keys], NEW S \in SUBSET Nodes,
         Chained(t, kf, S), NEW n \in Nodes, n \notin S, t.bucket_count # 0,
         NEW u, u = PushedFront(t, n, kf[n])
  PROVE  /\ TableShape(u) /\ u.bucket_count = t.bucket_count /\ SameList(t, u)
         /\ Chained(u, kf, S \cup {n})
<1> DEFINE count == t.bucket_count
           i == bucket_index_for(kf[n], count)
<1>1. i \in 0 .. count - 1 /\ count \in Nat
  BY IndexInRange DEF TableShape
<1>2. PICK c \in Seq(Nodes) : IsChain(c, t, kf, S, i)
  BY <1>1 DEF Chained
<1>3. Elements(c) \subseteq S /\ n \notin Elements(c)
  BY <1>2 DEF IsChain, Hashed
<1>4. t.buckets[i] = Nil \/ t.buckets[i] \in Elements(c)
  BY <1>2 DEF IsChain, TwoWayWalk, At, Elements
<1>5. t.buckets[i] # n
  BY <1>3, <1>4, NodesNotNil
<1>6. /\ TableShape(u) /\ u.bucket_count = count /\ SameList(t, u)
      /\ u.buckets = [t.buckets EXCEPT ![i] = n]
      /\ u.bucket_next[n] = t.buckets[i] /\ u.bucket_prev[n] = Nil
      /\ \A m \in Nodes \ {n} : u.bucket_next[m] = t.bucket_next[m]
      /\ \A m \in Nodes \ {n} :
           u.bucket_prev[m] = IF m = t.buckets[i] THEN n ELSE t.bucket_prev[m]
  BY <1>5, PushedFields
<1>7. u.bucket_prev \in Links /\ u.bucket_next \in Links
      /\ t.bucket_prev \in Links /\ t.bucket_next \in Links
  BY <1>6 DEF TableShape
<1>8. \A j \in 0 .. count - 1 : u.buckets[j] = IF j = i THEN n ELSE t.buckets[j]
  BY <1>6 DEF TableShape
<1>9. IsChain(<<n>> \o c, u, kf, S \cup {n}, i) /\ <<n>> \o c \in Seq(Nodes)
  <2>1. TwoWayWalk(c, t.buckets[i], t.bucket_prev, t.bucket_next)
    BY <1>2 DEF IsChain
  <2>2. TwoWayWalk(<<n>> \o c, n, u.bucket_prev, u.bucket_next)
    BY <1>3, <1>6, <1>7, <2>1, PushWalk
  <2>3. Distinct(c)
    BY <2>1 DEF TwoWayWalk
  <2>4. Elements(<<n>> \o c) = Elements(c) \cup {n}
    BY <2>3, <1>3, InFront
  <2>5. Elements(c) \cup {n} = Hashed(S \cup {n}, kf, u.bucket_count, i)
    BY <1>2, <1>6 DEF IsChain, Hashed
  <2> QED
    BY <2>2, <2>4, <2>5, <1>1, <1>8 DEF IsChain, TwoWayWalk
<1>10. ASSUME NEW j \in 0 .. count - 1, j # i
       PROVE  \E d \in Seq(Nodes) : IsChain(d, u, kf, S \cup {n}, j)
  <2>1. PICK d \in Seq(Nodes) : IsChain(d, t, kf, S, j)
    BY DEF Chained
  <2>2. ASSUME NEW m \in Elements(d)
        PROVE  m \in Nodes \ {n} /\ m # t.buckets[i]
    <3>1. m \in S /\ bucket_index_for(kf[m], count) = j
      BY <2>1 DEF IsChain, Hashed
    <3>2. m \notin Elements(c)
      BY <3>1, <1>2, <1>10 DEF IsChain, Hashed
    <3> QED
      BY <3>1, <3>2, <1>4, NodesNotNil
  <2>3. \A m \in Elements(d) : /\ u.bucket_prev[m] = t.bucket_prev[m]
                               /\ u.bucket_next[m] = t.bucket_next[m]
    BY <2>2, <1>6
  <2>4. TwoWayWalk(d, t.buckets[j], t.bucket_prev, t.bucket_next)
    BY <2>1 DEF IsChain
  <2>5. TwoWayWalk(d, t.buckets[j], u.bucket_prev, u.bucket_next)
    BY <2>3, <2>4, WalkFrame
  <2>6. Elements(d) = Hashed(S \cup {n}, kf, u.bucket_count, j)
    BY <2>1, <1>6, <1>10 DEF IsChain, Hashed
  <2> QED
    BY <2>5, <2>6, <1>8, <1>10 DEF IsChain
<1> QED
  BY <1>6, <1>9, <1>10 DEF Chained

(* The same, for tables that are the result of other operations.           *)
LEMMA Pushed ==
  ASSUME NEW t, NEW kf, NEW S, NEW n, OneMore(t, kf, S, n)
  PROVE  NowChained(t, PushedFront(t, n, kf[n]), kf, S \cup {n})
  BY PushedTable DEF OneMore, NowChained

(* The passes of the loop in relink_all_buckets: f[i] is the table after   *)
(* the first i nodes.                                                      *)
Passes(f, t, nodes, N) ==
  f = [i \in 0 .. N |-> IF i = 0 THEN t ELSE PushedFront(f[i - 1], nodes[i], key[nodes[i]])]

(* One pass more.                                                          *)
LEMMA PassMore ==
  ASSUME NEW f, NEW t, NEW nodes, NEW N \in Nat, N # 0, Passes(f, t, nodes, N - 1)
  PROVE  \E g : Passes(g, t, nodes, N)
<1> DEFINE Then(x, i) == PushedFront(x, nodes[i], key[nodes[i]])
           g == [i \in 0 .. N |-> IF i = N THEN Then(f[N - 1], N) ELSE f[i]]
<1>1. ASSUME NEW i \in 0 .. N - 1
      PROVE  f[i] = IF i = 0 THEN t ELSE Then(f[i - 1], i)
  <2>1. f[i] = [j \in 0 .. N - 1 |-> IF j = 0 THEN t ELSE Then(f[j - 1], j)][i]
    BY DEF Passes
  <2> HIDE DEF Then
  <2> QED
    BY <2>1, Zenon
<1> HIDE DEF Then
<1>2. ASSUME NEW i \in 0 .. N
      PROVE  g[i] = IF i = 0 THEN t ELSE Then(g[i - 1], i)
  <2>1. CASE i = N
    <3>1. g[N] = Then(f[N - 1], N) /\ N - 1 \in 0 .. N /\ N - 1 # N
      OBVIOUS
    <3>2. g[N - 1] = f[N - 1]
      BY <3>1
    <3> QED
      BY <2>1, <3>1, <3>2
  <2>2. CASE i # N
    <3>1. i \in 0 .. N - 1 /\ g[i] = f[i]
      BY <2>2
    <3>2. CASE i = 0
      BY <3>1, <3>2, <1>1
    <3>3. CASE i # 0
      <4>1. i - 1 \in 0 .. N /\ i - 1 # N
        BY <3>1, <3>3
      <4>2. g[i - 1] = f[i - 1]
        BY <4>1
      <4> HIDE DEF g
      <4> QED
        BY <3>1, <3>3, <4>2, <1>1
    <3> QED
      BY <3>2, <3>3
  <2> QED
    BY <2>1, <2>2
<1>3. g = [i \in 0 .. N |-> g[i]]
  OBVIOUS
<1> HIDE DEF g
<1>4. g = [i \in 0 .. N |-> IF i = 0 THEN t ELSE Then(g[i - 1], i)]
  BY <1>2, <1>3
<1>5. Passes(g, t, nodes, N)
  BY <1>4 DEF Passes, Then
<1> QED
  BY <1>5

(* So the loop determines a table for every number of passes.              *)
LEMMA PassesExist ==
  ASSUME NEW t, NEW nodes, NEW N \in Nat
  PROVE  \E f : Passes(f, t, nodes, N)
<1> DEFINE bad == {i \in Nat : ~\E f : Passes(f, t, nodes, i)}
<1>1. ASSUME bad # {} PROVE FALSE
  <2>0. bad \in SUBSET Nat
    OBVIOUS
  <2>1. PICK i \in bad : \A j \in bad : i <= j
    <3> HIDE DEF bad
    <3> QED
      BY <1>1, <2>0, LeastExists
  <2>2. i # 0
    <3>1. Passes([j \in 0 .. 0 |-> t], t, nodes, 0)
      BY DEF Passes
    <3> QED
      BY <3>1
  <2>3. i - 1 \in Nat /\ ~(i <= i - 1) /\ i \in Nat
    BY <2>0, <2>2
  <2>4. i - 1 \notin bad
    <3> HIDE DEF bad
    <3> QED
      BY <2>1, <2>3
  <2>5. PICK f : Passes(f, t, nodes, i - 1)
    BY <2>3, <2>4
  <2>6. \E g : Passes(g, t, nodes, i)
    BY <2>2, <2>3, <2>5, PassMore
  <2> QED
    BY <2>6
<1> QED
  BY <1>1

(* relink_all_buckets makes its passes one after the other.                *)
LEMMA RelinkedPasses ==
  ASSUME NEW t, NEW nodes, Len(nodes) \in Nat
  PROVE  /\ Relinked(t, nodes)[0] = t
         /\ \A i \in 1 .. Len(nodes) :
              Relinked(t, nodes)[i] =
                PushedFront(Relinked(t, nodes)[i - 1], nodes[i], key[nodes[i]])
<1> DEFINE r == Relinked(t, nodes)
           N == Len(nodes)
           Then(x, i) == PushedFront(x, nodes[i], key[nodes[i]])
<1>1. r = CHOOSE f : Passes(f, t, nodes, N)
  BY DEF Relinked, Passes
<1>2. Passes(r, t, nodes, N)
  <2> HIDE DEF r
  <2> QED
    BY <1>1, PassesExist
<1> HIDE DEF r
<1>3. ASSUME NEW i \in 0 .. N PROVE r[i] = IF i = 0 THEN t ELSE Then(r[i - 1], i)
  <2>1. r[i] = [j \in 0 .. N |-> IF j = 0 THEN t ELSE Then(r[j - 1], j)][i]
    BY <1>2 DEF Passes
  <2> HIDE DEF Then
  <2> QED
    BY <2>1, Zenon
<1> HIDE DEF Then
<1>4. r[0] = t /\ \A i \in 1 .. N : r[i] = Then(r[i - 1], i)
  BY <1>3
<1> QED
  BY <1>4 DEF r, Then

(* w is the iteration list, from head_ to tail_.                           *)
Listing(t, w) ==
  /\ TwoWayWalk(w, t.head, t.iter_prev, t.iter_next)
  /\ t.tail = At(w, Len(w))

(* Both ways of linking hold the nodes of w.                               *)
Linked(t, kf, w) ==
  /\ TableShape(t)
  /\ Listing(t, w)
  /\ Chained(t, kf, Elements(w))
  /\ t.bucket_count = 0 => w = <<>>

(* No bucket has a node.                                                   *)
Unchained(t) == \A i \in 0 .. t.bucket_count - 1 : t.buckets[i] = Nil

(* Buckets without a node chain nothing.                                   *)
LEMMA EmptyBuckets ==
  ASSUME NEW t, NEW kf, Unchained(t)
  PROVE  Chained(t, kf, {})
<1>1. <<>> \in Seq(Nodes) /\ Elements(<<>>) = {} /\ Distinct(<<>>)
  BY DEF Elements, Distinct
<1>2. ASSUME NEW i \in 0 .. t.bucket_count - 1 PROVE IsChain(<<>>, t, kf, {}, i)
  BY <1>1 DEF IsChain, TwoWayWalk, At, Hashed, Unchained
<1> QED
  BY <1>1, <1>2 DEF Chained

(* relink_all_buckets chains the nodes of the iteration list.              *)
LEMMA RelinkTable ==
  ASSUME NEW t, TableShape(t), NEW w, Listing(t, w), t.bucket_count # 0,
         Unchained(t),
         key \in [Nodes -> Keys]
  PROVE  LET u == relink_all_buckets(t)
         IN  Linked(u, key, w) /\ u.bucket_count = t.bucket_count
<1> DEFINE r == Relinked(t, w)
           N == Len(w)
           Upto(i) == {w[j] : j \in 1 .. i}
           Pass(i) == /\ TableShape(r[i]) /\ r[i].bucket_count = t.bucket_count
                      /\ SameList(t, r[i]) /\ Chained(r[i], key, Upto(i))
           bad == {i \in 0 .. N : ~Pass(i)}
<1>1. TwoWayWalk(w, t.head, t.iter_prev, t.iter_next) /\ w \in Seq(Nodes) /\ N \in Nat
      /\ Distinct(w)
  BY DEF Listing, TwoWayWalk
<1>2. relink_all_buckets(t) = r[N]
  <2>1. Along(t.iter_next, t.head) = w
    BY <1>1, AlongIs
  <2> QED
    BY <2>1 DEF relink_all_buckets
<1>3. /\ r[0] = t
      /\ \A i \in 1 .. N : r[i] = PushedFront(r[i - 1], w[i], key[w[i]])
  BY <1>1, RelinkedPasses
<1> HIDE DEF r
<1>4. Pass(0)
  <2>1. Upto(0) = {}
    OBVIOUS
  <2>2. Chained(t, key, {})
    BY EmptyBuckets
  <2> QED
    BY <2>1, <2>2, <1>3 DEF SameList
<1>5. ASSUME NEW i \in 1 .. N, Pass(i - 1) PROVE Pass(i)
  <2>1. Upto(i) = Upto(i - 1) \cup {w[i]} /\ Upto(i - 1) \in SUBSET Nodes /\ w[i] \in Nodes
    BY <1>1
  <2>2. w[i] \notin Upto(i - 1)
    BY <1>1 DEF Distinct
  <2>3. TableShape(r[i - 1]) /\ r[i - 1].bucket_count # 0 /\ SameList(t, r[i - 1])
        /\ r[i - 1].bucket_count = t.bucket_count /\ Chained(r[i - 1], key, Upto(i - 1))
    BY <1>5
  <2>4. r[i] = PushedFront(r[i - 1], w[i], key[w[i]])
    BY <1>3
  <2> HIDE DEF Upto
  <2>5. /\ TableShape(r[i]) /\ r[i].bucket_count = r[i - 1].bucket_count
        /\ SameList(r[i - 1], r[i]) /\ Chained(r[i], key, Upto(i - 1) \cup {w[i]})
    <3>1. PICK S, a, b, n, kf : S = Upto(i - 1) /\ a = r[i - 1] /\ b = r[i] /\ n = w[i]
                                /\ kf = key
      OBVIOUS
    <3>2. OneMore(a, kf, S, n)
      BY <2>1, <2>2, <2>3, <3>1 DEF OneMore
    <3>3. NowChained(a, PushedFront(a, n, kf[n]), kf, S \cup {n})
      BY <3>2, Pushed
    <3> QED
      BY <2>4, <3>1, <3>3 DEF NowChained
  <2> QED
    BY <2>1, <2>3, <2>5 DEF SameList
<1>6. ASSUME bad # {} PROVE FALSE
  <2>0. bad \in SUBSET Nat
    OBVIOUS
  <2>1. PICK i \in bad : \A j \in bad : i <= j
    <3> HIDE DEF bad
    <3> QED
      BY <1>6, <2>0, LeastExists
  <2>2. i \in 0 .. N /\ ~Pass(i)
    OBVIOUS
  <2> HIDE DEF Pass
  <2>3. i # 0
    BY <2>2, <1>4
  <2>4. i \in 1 .. N /\ i - 1 \in 0 .. N /\ ~(i <= i - 1)
    BY <2>2, <2>3, <1>1
  <2>5. i - 1 \notin bad
    <3> HIDE DEF bad
    <3> QED
      BY <2>1, <2>4
  <2>6. Pass(i - 1)
    BY <2>4, <2>5
  <2> QED
    BY <1>5, <2>2, <2>4, <2>6
<1>7. Pass(N)
  <2> HIDE DEF Pass
  <2> QED
    BY <1>6, <1>1
<1>8. Upto(N) = Elements(w)
  BY DEF Elements
<1>9. Listing(r[N], w)
  <2> HIDE DEF Upto
  <2> QED
    BY <1>7 DEF Listing, SameList
<1> QED
  BY <1>2, <1>7, <1>8, <1>9 DEF Linked

(* initialize_bucket_array and clear_buckets.                              *)
LEMMA NewBucketsFields ==
  ASSUME NEW t, TableShape(t), NEW count \in Nat, NEW u, u = NewBuckets(t, count)
  PROVE  /\ TableShape(u) /\ u.bucket_count = count /\ SameList(t, u)
         /\ Unchained(u)
<1> DEFINE bs == [i \in 0 .. count - 1 |-> Nil]
<1>1. bs \in [0 .. count - 1 -> Maybe(Nodes)] /\ \A i \in 0 .. count - 1 : bs[i] = Nil
  BY DEF Maybe
<1>2. u = [t EXCEPT !.buckets = bs, !.bucket_count = count]
  BY DEF NewBuckets
<1> HIDE DEF bs
<1>3. u.buckets = bs /\ u.bucket_count = count /\ SameList(t, u)
  BY <1>2 DEF TableShape, SameList
<1>4. TableShape(u)
  BY <1>1, <1>2, <1>3 DEF TableShape
<1> QED
  BY <1>1, <1>3, <1>4 DEF Unchained

(* rehash keeps the elements and their order.                              *)
LEMMA RehashedTable ==
  ASSUME NEW w, Linked(table, key, w), key \in [Nodes -> Keys],
         NEW count \in Nat, count # 0
  PROVE  Linked(Rehashed(count), key, w) /\ Rehashed(count).bucket_count = count
<1>1. CASE count = bucket_count_
  BY <1>1 DEF Rehashed, bucket_count_
<1>2. CASE count # bucket_count_
  <2>1. PICK u : u = NewBuckets(table, count)
    OBVIOUS
  <2>2. /\ TableShape(u) /\ u.bucket_count = count /\ SameList(table, u)
        /\ Unchained(u)
    <3>1. TableShape(table)
      BY DEF Linked
    <3> QED
      BY <2>1, <3>1, NewBucketsFields
  <2>3. Listing(u, w)
    BY <2>2 DEF Linked, Listing, SameList
  <2>4. Linked(relink_all_buckets(u), key, w)
        /\ relink_all_buckets(u).bucket_count = u.bucket_count
    BY <2>2, <2>3, RelinkTable
  <2> QED
    BY <1>2, <2>1, <2>2, <2>4 DEF Rehashed
<1> QED
  BY <1>1, <1>2

(* The chains lie in the fields that u shares with t.                      *)
LEMMA ChainedSame ==
  ASSUME NEW t, NEW u, NEW kf, NEW S, Chained(t, kf, S),
         u.bucket_count = t.bucket_count, u.buckets = t.buckets,
         u.bucket_prev = t.bucket_prev, u.bucket_next = t.bucket_next
  PROVE  Chained(u, kf, S)
  BY DEF Chained, IsChain

(* link_new_node puts a new element into its bucket and behind the others. *)
LEMMA LinkNew ==
  ASSUME NEW t, NEW kf \in [Nodes -> Keys], NEW w, Linked(t, kf, w), t.bucket_count # 0,
         NEW n \in Nodes, n \notin Elements(w)
  PROVE  LET v == link_new_node(t, n, kf[n])
         IN  Linked(v, kf, Append(w, n)) /\ v.bucket_count = t.bucket_count
<1> DEFINE v == link_new_node(t, n, kf[n])
<1>1. w \in Seq(Nodes) /\ Distinct(w) /\ Elements(w) \in SUBSET Nodes /\ Len(w) \in Nat
  BY DEF Linked, Listing, TwoWayWalk, Elements
<1>2. OneMore(t, kf, Elements(w), n)
  BY <1>1 DEF OneMore, Linked
<1>3. PICK u : u = PushedFront(t, n, kf[n])
  OBVIOUS
<1>4. NowChained(t, u, kf, Elements(w) \cup {n})
  BY <1>2, <1>3, Pushed
<1>5. /\ TableShape(u) /\ u.bucket_count = t.bucket_count
      /\ u.iter_prev = t.iter_prev /\ u.iter_next = t.iter_next
      /\ u.head = t.head /\ u.tail = t.tail
  BY <1>4 DEF NowChained, SameList
<1>6. /\ TwoWayWalk(w, u.head, u.iter_prev, u.iter_next)
      /\ u.tail = At(w, Len(w)) /\ u.tail \in Maybe(Nodes)
  BY <1>5 DEF Linked, Listing, TableShape
<1> DEFINE last == u.tail
           ip == [u.iter_prev EXCEPT ![n] = last]
           in == IF last = Nil THEN [u.iter_next EXCEPT ![n] = Nil]
                 ELSE [[u.iter_next EXCEPT ![n] = Nil] EXCEPT ![last] = n]
           first == IF last = Nil THEN n ELSE u.head
<1>7. v = [u EXCEPT !.iter_prev = ip, !.iter_next = in, !.head = first, !.tail = n]
  <2>1. CASE last = Nil
    BY <2>1, <1>3, <1>5 DEF link_new_node, TableShape
  <2>2. CASE last # Nil
    BY <2>2, <1>3, <1>5 DEF link_new_node, TableShape
  <2> QED
    BY <2>1, <2>2
<1>8. u.iter_prev \in Links /\ u.iter_next \in Links /\ u.head \in Maybe(Nodes)
  BY <1>5 DEF TableShape
<1>9. ip \in Links /\ in \in Links /\ first \in Maybe(Nodes) /\ n \in Maybe(Nodes)
  <2> HIDE DEF last
  <2> QED
    BY <1>6, <1>8 DEF Links, Maybe, last
<1>10. last # n
  BY <1>6, NodesNotNil DEF At, Elements
<1>11. /\ in[n] = Nil /\ ip[n] = last
       /\ \A m \in Nodes \ {n} : ip[m] = u.iter_prev[m]
       /\ \A m \in Nodes \ {n} : in[m] = IF m = last THEN n ELSE u.iter_next[m]
  <2> HIDE DEF last
  <2> QED
    BY <1>8, <1>10, NodesNotNil DEF Links
<1>12. TwoWayWalk(Append(w, n), first, ip, in)
  <2> HIDE DEF ip, in
  <2> QED
    BY <1>6, <1>8, <1>9, <1>11, AppendWalk
<1>13. At(Append(w, n), Len(Append(w, n))) = n /\ Elements(Append(w, n)) = Elements(w) \cup {n}
  <2>1. /\ Append(w, n) \in Seq(Nodes) /\ Len(Append(w, n)) = Len(w) + 1
        /\ Append(w, n)[Len(w) + 1] = n
        /\ Elements(Append(w, n)) = Elements(w) \cup {n}
    BY <1>1, AtTheEnd
  <2> QED
    BY <1>1, <2>1 DEF At
<1> HIDE DEF ip, in, first, v
<1>14. /\ TableShape(v) /\ v.bucket_count = u.bucket_count /\ v.buckets = u.buckets
       /\ v.bucket_prev = u.bucket_prev /\ v.bucket_next = u.bucket_next
       /\ v.iter_prev = ip /\ v.iter_next = in /\ v.head = first /\ v.tail = n
  BY <1>5, <1>7, <1>9 DEF TableShape
<1>15. Chained(v, kf, Elements(w) \cup {n})
  BY <1>4, <1>14, ChainedSame DEF NowChained
<1>16. Linked(v, kf, Append(w, n))
  BY <1>5, <1>12, <1>13, <1>14, <1>15 DEF Linked, Listing
<1> QED
  BY <1>5, <1>14, <1>16 DEF v

(* What unlink_bucket leaves.                                              *)
LEMMA UnlinkBucketFields ==
  ASSUME NEW t, TableShape(t), NEW n \in Nodes,
         NEW i, i = bucket_index_for(key[n], t.bucket_count), i \in 0 .. t.bucket_count - 1,
         NEW u, u = unlink_bucket(t, n)
  PROVE  /\ TableShape(u) /\ u.bucket_count = t.bucket_count /\ SameList(t, u)
         /\ \A m \in Nodes : u.bucket_prev[m] =
              IF m = t.bucket_next[n] THEN t.bucket_prev[n] ELSE t.bucket_prev[m]
         /\ \A m \in Nodes : u.bucket_next[m] =
              IF m = t.bucket_prev[n] THEN t.bucket_next[n] ELSE t.bucket_next[m]
         /\ \A j \in 0 .. t.bucket_count - 1 : u.buckets[j] =
              IF t.bucket_prev[n] = Nil /\ j = i THEN t.bucket_next[n] ELSE t.buckets[j]
<1>0. /\ t.bucket_prev \in Links /\ t.bucket_next \in Links
      /\ t.buckets \in [0 .. t.bucket_count - 1 -> Maybe(Nodes)]
  BY DEF TableShape
<1>1. PICK p, s : p = t.bucket_prev[n] /\ s = t.bucket_next[n]
  OBVIOUS
<1>2. p \in Maybe(Nodes) /\ s \in Maybe(Nodes)
  BY <1>0, <1>1 DEF Links
<1> DEFINE bs == IF p = Nil THEN [t.buckets EXCEPT ![i] = s] ELSE t.buckets
           bn == IF p = Nil THEN t.bucket_next ELSE [t.bucket_next EXCEPT ![p] = s]
           bp == IF s = Nil THEN t.bucket_prev ELSE [t.bucket_prev EXCEPT ![s] = p]
<1>3. u = [t EXCEPT !.buckets = bs, !.bucket_next = bn, !.bucket_prev = bp]
  <2>1. CASE p = Nil /\ s = Nil
    BY <2>1, <1>1 DEF unlink_bucket, TableShape
  <2>2. CASE p = Nil /\ s # Nil
    BY <2>2, <1>1 DEF unlink_bucket, TableShape
  <2>3. CASE p # Nil /\ s = Nil
    BY <2>3, <1>1 DEF unlink_bucket, TableShape
  <2>4. CASE p # Nil /\ s # Nil
    BY <2>4, <1>1 DEF unlink_bucket, TableShape
  <2> QED
    BY <2>1, <2>2, <2>3, <2>4
<1>4. bp \in Links /\ bn \in Links /\ bs \in [0 .. t.bucket_count - 1 -> Maybe(Nodes)]
  BY <1>0, <1>2 DEF Links, Maybe
<1>5. /\ \A m \in Nodes : bp[m] = IF m = s THEN p ELSE t.bucket_prev[m]
      /\ \A m \in Nodes : bn[m] = IF m = p THEN s ELSE t.bucket_next[m]
  BY <1>0, NodesNotNil DEF Links
<1>6. \A j \in 0 .. t.bucket_count - 1 : bs[j] = IF p = Nil /\ j = i THEN s ELSE t.buckets[j]
  BY <1>0
<1> HIDE DEF bs, bn, bp
<1>7. /\ u.buckets = bs /\ u.bucket_next = bn /\ u.bucket_prev = bp
      /\ u.bucket_count = t.bucket_count /\ SameList(t, u)
  BY <1>3 DEF TableShape, SameList
<1>8. TableShape(u)
  BY <1>3, <1>4, <1>7 DEF TableShape
<1> QED
  BY <1>1, <1>5, <1>6, <1>7, <1>8

(* What unlink_iteration leaves.                                           *)
LEMMA UnlinkIterationFields ==
  ASSUME NEW t, TableShape(t), NEW n \in Nodes, NEW u, u = unlink_iteration(t, n)
  PROVE  /\ TableShape(u) /\ u.bucket_count = t.bucket_count /\ u.buckets = t.buckets
         /\ u.bucket_prev = t.bucket_prev /\ u.bucket_next = t.bucket_next
         /\ \A m \in Nodes : u.iter_prev[m] =
              IF m = t.iter_next[n] THEN t.iter_prev[n] ELSE t.iter_prev[m]
         /\ \A m \in Nodes : u.iter_next[m] =
              IF m = t.iter_prev[n] THEN t.iter_next[n] ELSE t.iter_next[m]
         /\ u.head = IF t.iter_prev[n] = Nil THEN t.iter_next[n] ELSE t.head
         /\ u.tail = IF t.iter_next[n] = Nil THEN t.iter_prev[n] ELSE t.tail
<1>0. t.iter_prev \in Links /\ t.iter_next \in Links
      /\ t.head \in Maybe(Nodes) /\ t.tail \in Maybe(Nodes)
  BY DEF TableShape
<1>1. PICK p, s : p = t.iter_prev[n] /\ s = t.iter_next[n]
  OBVIOUS
<1>2. p \in Maybe(Nodes) /\ s \in Maybe(Nodes)
  BY <1>0, <1>1 DEF Links
<1> DEFINE hd == IF p = Nil THEN s ELSE t.head
           tl == IF s = Nil THEN p ELSE t.tail
           in == IF p = Nil THEN t.iter_next ELSE [t.iter_next EXCEPT ![p] = s]
           ip == IF s = Nil THEN t.iter_prev ELSE [t.iter_prev EXCEPT ![s] = p]
<1>3. u = [t EXCEPT !.head = hd, !.tail = tl, !.iter_next = in, !.iter_prev = ip]
  <2>1. CASE p = Nil /\ s = Nil
    BY <2>1, <1>1 DEF unlink_iteration, TableShape
  <2>2. CASE p = Nil /\ s # Nil
    BY <2>2, <1>1 DEF unlink_iteration, TableShape
  <2>3. CASE p # Nil /\ s = Nil
    BY <2>3, <1>1 DEF unlink_iteration, TableShape
  <2>4. CASE p # Nil /\ s # Nil
    BY <2>4, <1>1 DEF unlink_iteration, TableShape
  <2> QED
    BY <2>1, <2>2, <2>3, <2>4
<1>4. ip \in Links /\ in \in Links /\ hd \in Maybe(Nodes) /\ tl \in Maybe(Nodes)
  BY <1>0, <1>2 DEF Links, Maybe
<1>5. /\ \A m \in Nodes : ip[m] = IF m = s THEN p ELSE t.iter_prev[m]
      /\ \A m \in Nodes : in[m] = IF m = p THEN s ELSE t.iter_next[m]
  BY <1>0, NodesNotNil DEF Links
<1>6. hd = IF p = Nil THEN s ELSE t.head
  OBVIOUS
<1>7. tl = IF s = Nil THEN p ELSE t.tail
  OBVIOUS
<1> HIDE DEF hd, tl, in, ip
<1>8. /\ u.head = hd /\ u.tail = tl /\ u.iter_next = in /\ u.iter_prev = ip
      /\ u.bucket_count = t.bucket_count /\ u.buckets = t.buckets
      /\ u.bucket_prev = t.bucket_prev /\ u.bucket_next = t.bucket_next
  BY <1>3 DEF TableShape
<1>9. TableShape(u)
  BY <1>3, <1>4, <1>8 DEF TableShape
<1> QED
  BY <1>1, <1>5, <1>6, <1>7, <1>8, <1>9

(* What erase_node leaves, up to the links of the node itself.             *)
LEMMA ErasedFields ==
  ASSUME NEW t, TableShape(t), NEW n \in Nodes,
         NEW i, i = bucket_index_for(key[n], t.bucket_count), i \in 0 .. t.bucket_count - 1,
         NEW v, v = Erased(t, n)
  PROVE  /\ TableShape(v) /\ v.bucket_count = t.bucket_count
         /\ \A m \in Nodes \ {n} : v.bucket_prev[m] =
              IF m = t.bucket_next[n] THEN t.bucket_prev[n] ELSE t.bucket_prev[m]
         /\ \A m \in Nodes \ {n} : v.bucket_next[m] =
              IF m = t.bucket_prev[n] THEN t.bucket_next[n] ELSE t.bucket_next[m]
         /\ \A j \in 0 .. t.bucket_count - 1 : v.buckets[j] =
              IF t.bucket_prev[n] = Nil /\ j = i THEN t.bucket_next[n] ELSE t.buckets[j]
         /\ \A m \in Nodes \ {n} : v.iter_prev[m] =
              IF m = t.iter_next[n] THEN t.iter_prev[n] ELSE t.iter_prev[m]
         /\ \A m \in Nodes \ {n} : v.iter_next[m] =
              IF m = t.iter_prev[n] THEN t.iter_next[n] ELSE t.iter_next[m]
         /\ v.head = IF t.iter_prev[n] = Nil THEN t.iter_next[n] ELSE t.head
         /\ v.tail = IF t.iter_next[n] = Nil THEN t.iter_prev[n] ELSE t.tail
<1>1. PICK a : a = unlink_bucket(t, n)
  OBVIOUS
<1>2. PICK u : u = unlink_iteration(a, n)
  OBVIOUS
<1>3. /\ TableShape(a) /\ a.bucket_count = t.bucket_count /\ SameList(t, a)
      /\ \A m \in Nodes : a.bucket_prev[m] =
           IF m = t.bucket_next[n] THEN t.bucket_prev[n] ELSE t.bucket_prev[m]
      /\ \A m \in Nodes : a.bucket_next[m] =
           IF m = t.bucket_prev[n] THEN t.bucket_next[n] ELSE t.bucket_next[m]
      /\ \A j \in 0 .. t.bucket_count - 1 : a.buckets[j] =
           IF t.bucket_prev[n] = Nil /\ j = i THEN t.bucket_next[n] ELSE t.buckets[j]
  BY <1>1, UnlinkBucketFields
<1>4. /\ TableShape(u) /\ u.bucket_count = a.bucket_count /\ u.buckets = a.buckets
      /\ u.bucket_prev = a.bucket_prev /\ u.bucket_next = a.bucket_next
      /\ \A m \in Nodes : u.iter_prev[m] =
           IF m = a.iter_next[n] THEN a.iter_prev[n] ELSE a.iter_prev[m]
      /\ \A m \in Nodes : u.iter_next[m] =
           IF m = a.iter_prev[n] THEN a.iter_next[n] ELSE a.iter_next[m]
      /\ u.head = IF a.iter_prev[n] = Nil THEN a.iter_next[n] ELSE a.head
      /\ u.tail = IF a.iter_next[n] = Nil THEN a.iter_prev[n] ELSE a.tail
  BY <1>2, <1>3, UnlinkIterationFields
<1> DEFINE Cut(f) == [f EXCEPT ![n] = Nil]
<1>5. \A f \in Links : Cut(f) \in Links /\ \A m \in Nodes \ {n} : Cut(f)[m] = f[m]
  BY DEF Links, Maybe
<1>6. v = [u EXCEPT !.bucket_prev = Cut(u.bucket_prev), !.bucket_next = Cut(u.bucket_next),
                    !.iter_prev = Cut(u.iter_prev), !.iter_next = Cut(u.iter_next)]
  BY <1>1, <1>2, <1>4 DEF Erased, TableShape
<1> HIDE DEF Cut
<1>7. /\ v.bucket_prev = Cut(u.bucket_prev) /\ v.bucket_next = Cut(u.bucket_next)
      /\ v.iter_prev = Cut(u.iter_prev) /\ v.iter_next = Cut(u.iter_next)
      /\ v.buckets = u.buckets /\ v.bucket_count = u.bucket_count
      /\ v.head = u.head /\ v.tail = u.tail
  BY <1>4, <1>6 DEF TableShape
<1>8. /\ u.bucket_prev \in Links /\ u.bucket_next \in Links
      /\ u.iter_prev \in Links /\ u.iter_next \in Links
  BY <1>4 DEF TableShape
<1>9. TableShape(v)
  <2>1. PICK f, g, h, k \in Links : f = Cut(u.bucket_prev) /\ g = Cut(u.bucket_next)
                                    /\ h = Cut(u.iter_prev) /\ k = Cut(u.iter_next)
    BY <1>5, <1>8
  <2>2. v = [u EXCEPT !.bucket_prev = f, !.bucket_next = g, !.iter_prev = h, !.iter_next = k]
    BY <1>6, <2>1
  <2>3. v.buckets = u.buckets /\ v.bucket_count = u.bucket_count
    BY <1>7
  <2> QED
    <3>1. TableShape(u)
      BY <1>4
    <3> HIDE DEF Cut
    <3> QED
      BY <2>2, <2>3, <3>1 DEF TableShape
<1>10. /\ \A m \in Nodes \ {n} : v.bucket_prev[m] = a.bucket_prev[m]
       /\ \A m \in Nodes \ {n} : v.bucket_next[m] = a.bucket_next[m]
  BY <1>4, <1>5, <1>7, <1>8
<1>11. /\ \A m \in Nodes \ {n} : v.iter_prev[m] = u.iter_prev[m]
       /\ \A m \in Nodes \ {n} : v.iter_next[m] = u.iter_next[m]
  BY <1>5, <1>7, <1>8
<1>12. /\ a.iter_prev = t.iter_prev /\ a.iter_next = t.iter_next
       /\ a.head = t.head /\ a.tail = t.tail
  BY <1>3 DEF SameList
<1>13. /\ v.bucket_count = t.bucket_count
       /\ v.head = IF t.iter_prev[n] = Nil THEN t.iter_next[n] ELSE t.head
       /\ v.tail = IF t.iter_next[n] = Nil THEN t.iter_prev[n] ELSE t.tail
  BY <1>3, <1>4, <1>7, <1>12
<1>14. /\ \A m \in Nodes \ {n} : v.bucket_prev[m] =
            IF m = t.bucket_next[n] THEN t.bucket_prev[n] ELSE t.bucket_prev[m]
       /\ \A m \in Nodes \ {n} : v.bucket_next[m] =
            IF m = t.bucket_prev[n] THEN t.bucket_next[n] ELSE t.bucket_next[m]
       /\ \A j \in 0 .. t.bucket_count - 1 : v.buckets[j] =
            IF t.bucket_prev[n] = Nil /\ j = i THEN t.bucket_next[n] ELSE t.buckets[j]
  BY <1>3, <1>4, <1>7, <1>10
<1>15. /\ \A m \in Nodes \ {n} : v.iter_prev[m] =
            IF m = t.iter_next[n] THEN t.iter_prev[n] ELSE t.iter_prev[m]
       /\ \A m \in Nodes \ {n} : v.iter_next[m] =
            IF m = t.iter_prev[n] THEN t.iter_next[n] ELSE t.iter_next[m]
  BY <1>4, <1>11, <1>12
<1> QED
  BY <1>9, <1>13, <1>14, <1>15

(* erase_node takes a node out of both kinds of list.                      *)
LEMMA ErasedTable ==
  ASSUME NEW t, NEW w, key \in [Nodes -> Keys], Linked(t, key, w), NEW q \in 1 .. Len(w)
  PROVE  LET v == Erased(t, w[q])
         IN  Linked(v, key, Without(w, q)) /\ v.bucket_count = t.bucket_count
<1>0. PICK n, i, v : n = w[q] /\ i = bucket_index_for(key[n], t.bucket_count)
                     /\ v = Erased(t, n)
  OBVIOUS
<1>1. /\ w \in Seq(Nodes) /\ Distinct(w) /\ Len(w) \in Nat /\ n \in Nodes
      /\ n \in Elements(w) /\ Elements(w) \subseteq Nodes
  BY <1>0 DEF Linked, Listing, TwoWayWalk, Elements
<1>2. TableShape(t) /\ t.bucket_count \in Nat /\ t.bucket_count # 0
  <2>1. w # <<>>
    BY <1>1
  <2> QED
    BY <2>1 DEF Linked, TableShape
<1>3. i \in 0 .. t.bucket_count - 1
  BY <1>0, <1>1, <1>2, IndexInRange
<1>4. /\ TableShape(v) /\ v.bucket_count = t.bucket_count
      /\ \A m \in Nodes \ {n} : v.bucket_prev[m] =
           IF m = t.bucket_next[n] THEN t.bucket_prev[n] ELSE t.bucket_prev[m]
      /\ \A m \in Nodes \ {n} : v.bucket_next[m] =
           IF m = t.bucket_prev[n] THEN t.bucket_next[n] ELSE t.bucket_next[m]
      /\ \A j \in 0 .. t.bucket_count - 1 : v.buckets[j] =
           IF t.bucket_prev[n] = Nil /\ j = i THEN t.bucket_next[n] ELSE t.buckets[j]
      /\ \A m \in Nodes \ {n} : v.iter_prev[m] =
           IF m = t.iter_next[n] THEN t.iter_prev[n] ELSE t.iter_prev[m]
      /\ \A m \in Nodes \ {n} : v.iter_next[m] =
           IF m = t.iter_prev[n] THEN t.iter_next[n] ELSE t.iter_next[m]
      /\ v.head = IF t.iter_prev[n] = Nil THEN t.iter_next[n] ELSE t.head
      /\ v.tail = IF t.iter_next[n] = Nil THEN t.iter_prev[n] ELSE t.tail
  BY <1>0, <1>1, <1>2, <1>3, ErasedFields
<1>5. /\ t.bucket_prev \in Links /\ t.bucket_next \in Links
      /\ t.iter_prev \in Links /\ t.iter_next \in Links
      /\ v.bucket_prev \in Links /\ v.bucket_next \in Links
      /\ v.iter_prev \in Links /\ v.iter_next \in Links
  BY <1>2, <1>4 DEF TableShape
<1>6. /\ Len(Without(w, q)) = Len(w) - 1
      /\ Elements(Without(w, q)) = Elements(w) \ {n}
  BY <1>0, <1>1, LeftOut
<1>7. Listing(v, Without(w, q))
  <2>1. TwoWayWalk(w, t.head, t.iter_prev, t.iter_next) /\ t.tail = At(w, Len(w))
    BY DEF Linked, Listing
  <2>2. /\ TwoWayWalk(Without(w, q), v.head, v.iter_prev, v.iter_next)
        /\ At(Without(w, q), Len(w) - 1) =
             IF t.iter_next[n] = Nil THEN t.iter_prev[n] ELSE At(w, Len(w))
    <3>1. PICK h : h = v.head
      OBVIOUS
    <3>2. Bypassed(n, t.iter_prev, t.iter_next, v.iter_prev, v.iter_next)
      BY <1>4 DEF Bypassed
    <3>3. h = IF t.iter_prev[n] = Nil THEN t.iter_next[n] ELSE t.head
      BY <1>4, <3>1
    <3> QED
      BY <2>1, <1>0, <1>5, <3>1, <3>2, <3>3, RemoveWalk
  <2> QED
    BY <2>1, <2>2, <1>4, <1>6 DEF Listing
<1>8. PICK c \in Seq(Nodes) : IsChain(c, t, key, Elements(w), i)
  BY <1>3 DEF Linked, Chained
<1>9. /\ TwoWayWalk(c, t.buckets[i], t.bucket_prev, t.bucket_next)
      /\ Elements(c) = Hashed(Elements(w), key, t.bucket_count, i)
  BY <1>8 DEF IsChain
<1>10. n \in Elements(c)
  BY <1>0, <1>1, <1>9 DEF Hashed
<1>11. PICK r \in 1 .. Len(c) : c[r] = n
  BY <1>10 DEF Elements
<1>12. /\ t.bucket_prev[n] = Nil \/ t.bucket_prev[n] \in Elements(c)
       /\ t.bucket_next[n] = Nil \/ t.bucket_next[n] \in Elements(c)
  BY <1>9, <1>11 DEF TwoWayWalk, At, Elements
<1>13. IsChain(Without(c, r), v, key, Elements(w) \ {n}, i) /\ Without(c, r) \in Seq(Nodes)
  <2>1. v.buckets[i] = IF t.bucket_prev[n] = Nil THEN t.bucket_next[n] ELSE t.buckets[i]
    <3>1. \A j \in 0 .. t.bucket_count - 1 : v.buckets[j] =
             IF t.bucket_prev[n] = Nil /\ j = i THEN t.bucket_next[n] ELSE t.buckets[j]
      BY <1>4
    <3> QED
      BY <1>3, <3>1
  <2>2. TwoWayWalk(Without(c, r), v.buckets[i], v.bucket_prev, v.bucket_next)
    <3>1. Bypassed(n, t.bucket_prev, t.bucket_next, v.bucket_prev, v.bucket_next)
      BY <1>4 DEF Bypassed
    <3>2. PICK b, b2 : b = t.buckets[i] /\ b2 = v.buckets[i]
      OBVIOUS
    <3>3. b2 = IF t.bucket_prev[n] = Nil THEN t.bucket_next[n] ELSE b
      BY <1>3, <2>1, <3>2
    <3> QED
      BY <1>5, <1>9, <1>11, <3>1, <3>2, <3>3, RemoveWalk
  <2>3. Distinct(c)
    BY <1>9 DEF TwoWayWalk
  <2>4. Elements(Without(c, r)) = Elements(c) \ {n}
    BY <2>3, <1>11, LeftOut
  <2>5. Elements(c) \ {n} = Hashed(Elements(w) \ {n}, key, v.bucket_count, i)
    BY <1>4, <1>9 DEF Hashed
  <2> QED
    BY <2>2, <2>4, <2>5 DEF IsChain, TwoWayWalk
<1>14. ASSUME NEW j \in 0 .. t.bucket_count - 1, j # i
       PROVE  \E d \in Seq(Nodes) : IsChain(d, v, key, Elements(w) \ {n}, j)
  <2>1. PICK d \in Seq(Nodes) : IsChain(d, t, key, Elements(w), j)
    BY DEF Linked, Chained
  <2>2. /\ TwoWayWalk(d, t.buckets[j], t.bucket_prev, t.bucket_next)
        /\ Elements(d) = Hashed(Elements(w), key, t.bucket_count, j)
    BY <2>1 DEF IsChain
  <2>3. ASSUME NEW m \in Elements(d)
        PROVE  m \in Nodes \ {n} /\ m # t.bucket_prev[n] /\ m # t.bucket_next[n]
    <3>1. m \in Elements(w) /\ m \notin Elements(c)
      BY <2>2, <1>9, <1>14 DEF Hashed
    <3> QED
      BY <3>1, <1>1, <1>10, <1>12, NodesNotNil
  <2>4. \A m \in Elements(d) : /\ v.bucket_prev[m] = t.bucket_prev[m]
                               /\ v.bucket_next[m] = t.bucket_next[m]
    BY <2>3, <1>4
  <2>5. TwoWayWalk(d, t.buckets[j], v.bucket_prev, v.bucket_next)
    BY <2>2, <2>4, WalkFrame
  <2>6. n \notin Elements(d)
    BY <2>3
  <2>7. Elements(d) = Hashed(Elements(w) \ {n}, key, v.bucket_count, j)
    BY <2>2, <2>6, <1>4 DEF Hashed
  <2>8. v.buckets[j] = t.buckets[j]
    BY <1>4, <1>14
  <2> QED
    BY <2>5, <2>7, <2>8 DEF IsChain
<1>15. Chained(v, key, Elements(w) \ {n})
  BY <1>4, <1>13, <1>14 DEF Chained
<1>16. Linked(v, key, Without(w, q))
  BY <1>2, <1>4, <1>6, <1>7, <1>15 DEF Linked
<1> QED
  BY <1>0, <1>4, <1>16

----------------------------------------------------------------------------
(* The inductive invariant                                                 *)

(* No key is there twice.                                                  *)
OneEach(kf, w) == \A i, j \in 1 .. Len(w) : kf[w[i]] = kf[w[j]] => i = j

(* Every storage is linked, waits in the pool or is the allocator's.       *)
Stored(w, f, hp) ==
  /\ w \in Seq(Nodes) /\ Distinct(w)
  /\ f \in Seq(Nodes) /\ Distinct(f)
  /\ Elements(w) \cap Elements(f) = {}
  /\ Elements(w) \cap hp = {} /\ Elements(f) \cap hp = {}
  /\ Elements(w) \cup Elements(f) \cup hp = Nodes

(* A pool of the cached nodes f for a container of n nodes.                *)
Pools == [free_nodes : Seq(Nodes), cached_node_count : Nat, node_pool_allocations : Nat]
PoolOf(pl, f, n) ==
  /\ pl \in Pools /\ pl.free_nodes = f
  /\ pl.cached_node_count = Len(f) /\ pl.node_pool_allocations = n + Len(f)

(* The table has the elements of w, in this order, and its pool caches f.  *)
Holds(t, kf, mp, n, load, pl, hp, w, f) ==
  /\ kf \in [Nodes -> Keys] /\ mp \in [Nodes -> Values]
  /\ load \in LoadFactors \cup {LoadUnit}
  /\ Linked(t, kf, w) /\ t.bucket_count <= MaxBuckets
  /\ OneEach(kf, w)
  /\ n = Len(w)
  /\ PoolOf(pl, f, Len(w))
  /\ Stored(w, f, hp)

HoldsNow(w, f) == Holds(table, key, mapped, size_, max_load_factor_, pool, heap, w, f)

IInv == \E w, f \in Seq(Nodes) : HoldsNow(w, f)

(* What a step does to the elements: nothing or a new value for one, one   *)
(* element more behind the others, one less, or none left.                 *)
Outcome(w, v) ==
  \/ /\ v = w /\ key' = key
     /\ \/ mapped' = mapped
        \/ \E q \in 1 .. Len(w), x \in Values : mapped' = [mapped EXCEPT ![w[q]] = x]
  \/ \E n \in Nodes, k \in Keys, x \in Values :
       /\ n \notin Elements(w)
       /\ \A i \in 1 .. Len(w) : key[w[i]] # k
       /\ v = Append(w, n)
       /\ key' = [key EXCEPT ![n] = k] /\ mapped' = [mapped EXCEPT ![n] = x]
  \/ \E q \in 1 .. Len(w) : v = Without(w, q) /\ UNCHANGED <<key, mapped>>
  \/ v = <<>> /\ UNCHANGED <<key, mapped>>

Stepped(w) ==
  \E v, g \in Seq(Nodes) :
    /\ Holds(table', key', mapped', size_', max_load_factor_', pool', heap', v, g)
    /\ Outcome(w, v)

(* Iteration follows the list.                                             *)
LEMMA IterationIs ==
  ASSUME NEW t, NEW kf, NEW w, Linked(t, kf, w)
  PROVE  Along(t.iter_next, t.head) = w
  BY AlongIs DEF Linked, Listing

(* find_node finds the only element with that key.                         *)
LEMMA FindFacts ==
  ASSUME NEW w, NEW f, HoldsNow(w, f), NEW k \in Keys
  PROVE  \/ find_node(k) = Nil /\ \A i \in 1 .. Len(w) : key[w[i]] # k
         \/ \E q \in 1 .. Len(w) : find_node(k) = w[q] /\ key[w[q]] = k
<1>1. Linked(table, key, w) /\ key \in [Nodes -> Keys] /\ w \in Seq(Nodes)
  BY DEF HoldsNow, Holds, Stored
<1>2. CASE bucket_count_ = 0
  <2>1. w = <<>>
    BY <1>1, <1>2 DEF Linked, bucket_count_
  <2> QED
    BY <1>2, <2>1 DEF find_node
<1>3. CASE bucket_count_ # 0
  <2>1. bucket_count_ \in Nat /\ bucket_count_ = table.bucket_count
    BY <1>1 DEF Linked, TableShape, bucket_count_
  <2>2. PICK i : i = bucket_index_for(k, bucket_count_)
    OBVIOUS
  <2>3. i \in 0 .. table.bucket_count - 1
    BY <1>3, <2>1, <2>2, IndexInRange
  <2>4. PICK c \in Seq(Nodes) : IsChain(c, table, key, Elements(w), i)
    BY <1>1, <2>3 DEF Linked, Chained
  <2>5. /\ TwoWayWalk(c, table.buckets[i], table.bucket_prev, table.bucket_next)
        /\ Elements(c) = Hashed(Elements(w), key, table.bucket_count, i)
    BY <2>4 DEF IsChain
  <2>6. Chain(i) = c
    BY <2>5, AlongIs DEF Chain
  <2>7. PICK hits : hits = {j \in 1 .. Len(c) : key[c[j]] = k}
    OBVIOUS
  <2>8. find_node(k) = IF hits = {} THEN Nil ELSE c[Min(hits)]
    BY <1>3, <2>2, <2>6, <2>7 DEF find_node
  <2>9. CASE hits = {}
    <3>1. ASSUME NEW q \in 1 .. Len(w), key[w[q]] = k PROVE FALSE
      <4>1. w[q] \in Elements(c)
        BY <3>1, <2>1, <2>2, <2>5 DEF Hashed, Elements
      <4> QED
        BY <4>1, <3>1, <2>7, <2>9 DEF Elements
    <3> QED
      BY <2>8, <2>9, <3>1
  <2>10. CASE hits # {}
    <3>1. \E x \in hits : \A y \in hits : x <= y
      <4>1. hits \in SUBSET Nat
        BY <2>7
      <4> QED
        BY <4>1, <2>10, LeastExists
    <3>2. Min(hits) \in hits
      BY <3>1 DEF Min
    <3>3. PICK j \in 1 .. Len(c) : j = Min(hits) /\ key[c[j]] = k
      BY <3>2, <2>7
    <3>4. c[j] \in Elements(w)
      BY <2>5 DEF Hashed, Elements
    <3>5. PICK q \in 1 .. Len(w) : w[q] = c[j]
      BY <3>4 DEF Elements
    <3> QED
      BY <2>8, <2>10, <3>3, <3>5
  <2> QED
    BY <2>9, <2>10
<1> QED
  BY <1>2, <1>3

(* The quotient rounded up.                                                *)
LEMMA CeilFacts ==
  ASSUME NEW a \in Nat, NEW d \in Nat, d # 0
  PROVE  LET q == (a + d - 1) \div d IN q \in Nat /\ a <= q * d /\ (a # 0 => q # 0)
<1>1. PICK b \in Nat : b = a + d - 1
  OBVIOUS
<1>2. PICK q, r \in Nat : q = b \div d /\ r = b % d
  OBVIOUS
<1>3. b = d * q + r /\ r < d
  BY <1>2
<1>4. PICK m \in Nat : m = d * q
  BY <1>2
<1>5. m = q * d /\ a <= m
  BY <1>1, <1>3, <1>4
<1>6. q = 0 => m = 0
  BY <1>4
<1> QED
  BY <1>1, <1>2, <1>5, <1>6

(* The numbers of buckets that rehash settles for.                         *)
LEMMA RehashFacts ==
  ASSUME NEW requested \in Nat, NEW load \in LoadFactors \cup {LoadUnit}, size_ \in Nat
  PROVE  /\ RehashCount(requested, load) \in Nat /\ RehashCount(requested, load) # 0
         /\ requested <= RehashCount(requested, load)
         /\ LoadUnit * size_ <= RehashCount(requested, load) * load
         /\ load \in Nat /\ load # 0
<1>1. load \in Nat /\ load # 0 /\ DefaultBucketCount \in Nat /\ DefaultBucketCount # 0
      /\ LoadUnit \in Nat /\ LoadUnit # 0
  BY TableAssumption
<1>2. PICK asked : asked = normalize_bucket_count(requested)
  OBVIOUS
<1>3. asked \in Nat /\ asked # 0 /\ requested <= asked
  BY <1>1, <1>2 DEF normalize_bucket_count
<1>4. PICK least : least = minimum_bucket_count_for_size(size_, load)
  OBVIOUS
<1>5. least \in Nat /\ least # 0 /\ LoadUnit * size_ <= least * load
  <2>1. CASE size_ = 0
    <3>1. least = DefaultBucketCount
      BY <1>4, <2>1 DEF minimum_bucket_count_for_size
    <3>2. PICK x \in Nat : x = least * load
      BY <1>1, <3>1
    <3> QED
      BY <1>1, <2>1, <3>1, <3>2
  <2>2. CASE size_ # 0
    <3>1. PICK a \in Nat : a = LoadUnit * size_ /\ a # 0
      BY <1>1, <2>2
    <3>2. least = (a + load - 1) \div load
      BY <1>4, <2>2, <3>1 DEF minimum_bucket_count_for_size
    <3> QED
      BY <1>1, <3>1, <3>2, CeilFacts
  <2> QED
    BY <2>1, <2>2
<1>6. PICK count : count = RehashCount(requested, load)
  OBVIOUS
<1>7. count = IF asked < least THEN least ELSE asked
  BY <1>2, <1>4, <1>6 DEF RehashCount
<1>8. count \in Nat /\ count # 0 /\ requested <= count /\ least <= count
  BY <1>3, <1>5, <1>7
<1>9. least * load <= count * load
  <2>1. PICK e \in Nat : count = least + e
    <3>1. count - least \in Nat /\ count = least + (count - least)
      BY <1>5, <1>8
    <3> QED
      BY <3>1
  <2>2. count * load = least * load + e * load
    BY <1>1, <1>5, <2>1
  <2>3. e * load \in Nat /\ least * load \in Nat
    BY <1>1, <1>5
  <2> QED
    BY <2>2, <2>3
<1>10. least * load \in Nat /\ count * load \in Nat
  BY <1>1, <1>5, <1>8
<1> QED
  BY <1>1, <1>5, <1>6, <1>8, <1>9, <1>10

(* More buckets have room for more.                                        *)
LEMMA MoreRoom ==
  ASSUME NEW b \in Nat, NEW count \in Nat, b <= count, NEW load \in Nat
  PROVE  b * load <= count * load
<1>1. PICK e \in Nat : count = b + e
  <2>1. count - b \in Nat /\ count = b + (count - b)
    OBVIOUS
  <2> QED
    BY <2>1
<1>2. count * load = b * load + e * load
  BY <1>1
<1>3. e * load \in Nat /\ b * load \in Nat
  BY <1>1
<1> QED
  BY <1>2, <1>3

(* maybe_rehash_for_insert leaves room for those already there, and for    *)
(* one more if there was room for the ones before: the first may be too    *)
(* much for the default number of buckets.                                 *)
LEMMA InsertFacts ==
  ASSUME size_ \in Nat, bucket_count_ \in Nat, max_load_factor_ \in LoadFactors \cup {LoadUnit}
  PROVE  /\ CountForInsert \in Nat /\ CountForInsert # 0
         /\ WithinLoad(size_, CountForInsert, max_load_factor_)
         /\ WithinLoad(size_, bucket_count_, max_load_factor_) =>
              \/ WithinLoad(size_ + 1, CountForInsert, max_load_factor_)
              \/ size_ = 0 /\ ~WithinLoad(1, DefaultBucketCount, max_load_factor_)
<1>1. PICK n, b, load \in Nat : /\ n = size_ /\ b = bucket_count_ /\ load = max_load_factor_
                                /\ load # 0 /\ load \in LoadFactors \cup {LoadUnit}
  BY TableAssumption
<1>2. PICK least, u \in Nat : /\ least = DefaultBucketCount /\ least # 0
                              /\ u = LoadUnit /\ u # 0
  BY TableAssumption
<1>3. PICK un \in Nat : un = u * n /\ (n = 0 => un = 0) /\ (n # 0 => u <= un)
  <2>1. CASE n = 0
    BY <1>1, <1>2, <2>1
  <2>2. CASE n # 0
    <3>1. PICK m \in Nat : n = m + 1
      <4>1. n - 1 \in Nat /\ n = (n - 1) + 1
        BY <1>1, <2>2
      <4> QED
        BY <4>1
    <3>2. u * n = u * m + u /\ u * m \in Nat
      BY <1>2, <3>1
    <3> QED
      BY <1>2, <2>2, <3>2
  <2> QED
    BY <2>1, <2>2
<1>4. u * (n + 1) = un + u
  BY <1>1, <1>2, <1>3
<1>5. PICK count : count = CountForInsert
  OBVIOUS
<1>6. PICK x, d \in Nat : x = b * load /\ d = least * load
  BY <1>1, <1>2
<1>7. SUFFICES /\ count \in Nat /\ count # 0
               /\ un <= count * load
               /\ un <= x => un + u <= count * load \/ (n = 0 /\ ~(u * 1 <= d))
  BY <1>1, <1>2, <1>3, <1>4, <1>5, <1>6 DEF WithinLoad
<1>8. CASE b = 0
  <2>1. count = RehashCount(least, load)
    BY <1>1, <1>2, <1>5, <1>8 DEF CountForInsert
  <2>2. count \in Nat /\ count # 0 /\ least <= count /\ un <= count * load
    BY <1>1, <1>2, <1>3, <2>1, RehashFacts
  <2>3. d <= count * load
    BY <1>1, <1>2, <1>6, <2>2, MoreRoom
  <2>4. un <= x => n = 0
    BY <1>1, <1>2, <1>3, <1>6, <1>8
  <2>5. PICK y \in Nat : y = count * load
    BY <1>1, <2>2
  <2> QED
    BY <1>2, <1>3, <1>6, <2>2, <2>3, <2>4, <2>5
<1>9. CASE b # 0 /\ un + u > x
  <2>1. count = RehashCount(b * 2, load)
    BY <1>1, <1>2, <1>4, <1>5, <1>6, <1>9 DEF CountForInsert
  <2>2. b * 2 \in Nat
    BY <1>1
  <2>3. count \in Nat /\ count # 0 /\ b * 2 <= count /\ un <= count * load
    BY <1>1, <1>2, <1>3, <2>1, <2>2, RehashFacts
  <2>4. (b * 2) * load <= count * load
    BY <1>1, <2>2, <2>3, MoreRoom
  <2>5. (b * 2) * load = 2 * x
    BY <1>1, <1>6
  <2>6. PICK y \in Nat : y = count * load
    BY <1>1, <2>3
  <2>7. CASE n # 0
    BY <1>2, <1>3, <1>6, <2>3, <2>4, <2>5, <2>6, <2>7
  <2>8. CASE n = 0
    <3>1. least <= count
      <4>1. minimum_bucket_count_for_size(size_, load) = least
        BY <1>1, <1>2, <2>8 DEF minimum_bucket_count_for_size
      <4>2. normalize_bucket_count(b * 2) \in Nat
        BY <1>2, <2>2 DEF normalize_bucket_count
      <4> QED
        BY <1>2, <2>1, <4>1, <4>2 DEF RehashCount
    <3>2. d <= count * load
      BY <1>1, <1>2, <1>6, <2>3, <3>1, MoreRoom
    <3> QED
      BY <1>2, <1>3, <1>6, <2>3, <2>6, <2>8, <3>2
  <2> QED
    BY <2>7, <2>8
<1>10. CASE b # 0 /\ ~(un + u > x)
  <2>1. count = b
    BY <1>1, <1>2, <1>4, <1>5, <1>6, <1>10 DEF CountForInsert
  <2> QED
    BY <1>1, <1>2, <1>3, <1>6, <1>10, <2>1
<1> QED
  BY <1>8, <1>9, <1>10

----------------------------------------------------------------------------
(* Storages                                                                *)

(* pop_cached_node takes the latest cached node.                           *)
LEMMA PopPool ==
  ASSUME NEW pl, NEW f \in Seq(Nodes), NEW n \in Nat, PoolOf(pl, f, n),
         NEW g \in Seq(Nodes), g = Tail(f), Len(f) = Len(g) + 1
  PROVE  PoolOf(pop_cached_node(pl), g, n + 1)
<1>0. pl.node_pool_allocations \in Nat /\ Len(f) \in Nat /\ Len(g) \in Nat
  BY LenProperties DEF PoolOf, Pools
<1>1. PICK a, c, d \in Nat : a = pl.node_pool_allocations /\ c = Len(f) /\ d = Len(g)
  BY <1>0, Zenon
<1>2. pl \in Pools /\ g = Tail(pl.free_nodes) /\ d = pl.cached_node_count - 1 /\ a = n + c
  BY <1>1 DEF PoolOf
<1>3. PICK ql : ql = pop_cached_node(pl)
  OBVIOUS
<1>4. ql = [pl EXCEPT !.free_nodes = g, !.cached_node_count = d]
  BY <1>2, <1>3 DEF pop_cached_node
<1>5. /\ ql \in Pools /\ ql.free_nodes = g /\ ql.cached_node_count = d
      /\ ql.node_pool_allocations = a
  BY <1>1, <1>2, <1>4 DEF Pools
<1>6. a = (n + 1) + d
  BY <1>1, <1>2
<1> QED
  BY <1>1, <1>3, <1>5, <1>6 DEF PoolOf

(* push_cached_node puts a node in front of the cached ones.               *)
LEMMA PushPool ==
  ASSUME NEW pl, NEW f \in Seq(Nodes), NEW n \in Nat, PoolOf(pl, f, n + 1),
         NEW m, NEW g \in Seq(Nodes), g = <<m>> \o f, Len(g) = Len(f) + 1
  PROVE  PoolOf(push_cached_node(pl, m), g, n)
<1>0. pl.node_pool_allocations \in Nat
  BY DEF PoolOf, Pools
<1>1. PICK a, c, d \in Nat : a = pl.node_pool_allocations /\ c = Len(f) /\ d = Len(g)
  BY <1>0
<1>2. /\ pl \in Pools /\ g = <<m>> \o pl.free_nodes
      /\ d = pl.cached_node_count + 1 /\ a = (n + 1) + c
  BY <1>1 DEF PoolOf
<1>3. PICK ql : ql = push_cached_node(pl, m)
  OBVIOUS
<1>4. ql = [pl EXCEPT !.free_nodes = g, !.cached_node_count = d]
  BY <1>2, <1>3 DEF push_cached_node
<1>5. /\ ql \in Pools /\ ql.free_nodes = g /\ ql.cached_node_count = d
      /\ ql.node_pool_allocations = a
  BY <1>1, <1>2, <1>4 DEF Pools
<1>6. a = n + d
  BY <1>1, <1>2
<1> QED
  BY <1>1, <1>3, <1>5, <1>6 DEF PoolOf

(* The same for all the nodes of a container.                              *)
LEMMA PushPools ==
  ASSUME NEW pl, NEW f \in Seq(Nodes), NEW w \in Seq(Nodes), PoolOf(pl, f, Len(w)),
         NEW g \in Seq(Nodes), g = Reverse(w) \o f, Len(g) = Len(w) + Len(f)
  PROVE  PoolOf(push_cached_nodes(pl, w), g, 0)
<1>1. PICK a, b, c, d \in Nat : /\ a = pl.node_pool_allocations
                                /\ b = Len(w) /\ c = Len(f) /\ d = Len(g)
  BY DEF PoolOf, Pools
<1>2. /\ pl \in Pools /\ g = Reverse(w) \o pl.free_nodes
      /\ pl.cached_node_count + Len(w) = d /\ a = b + c /\ d = b + c
  BY <1>1 DEF PoolOf
<1>3. PICK ql : ql = push_cached_nodes(pl, w)
  OBVIOUS
<1>4. ql = [pl EXCEPT !.free_nodes = g, !.cached_node_count = d]
  BY <1>2, <1>3 DEF push_cached_nodes
<1>5. /\ ql \in Pools /\ ql.free_nodes = g /\ ql.cached_node_count = d
      /\ ql.node_pool_allocations = a
  BY <1>1, <1>2, <1>4 DEF Pools
<1>6. a = 0 + d
  BY <1>1, <1>2
<1> QED
  BY <1>1, <1>3, <1>5, <1>6 DEF PoolOf

(* One storage more comes from the allocator, and goes back to it.         *)
LEMMA CountPool ==
  ASSUME NEW pl, NEW f \in Seq(Nodes), NEW n \in Nat, PoolOf(pl, f, n)
  PROVE  LET ql == [pl EXCEPT !.node_pool_allocations = @ + 1]
         IN  /\ PoolOf(ql, f, n + 1)
             /\ PoolOf([ql EXCEPT !.node_pool_allocations = IF @ > 0 THEN @ - 1 ELSE @], f, n)
<1>1. PICK a, c \in Nat : a = pl.node_pool_allocations /\ c = Len(f)
  BY DEF PoolOf, Pools
<1>2. pl \in Pools /\ pl.free_nodes = f /\ pl.cached_node_count = c /\ a = n + c
  BY <1>1 DEF PoolOf
<1>3. PICK b \in Nat : b = a + 1
  BY <1>1
<1>4. PICK ql : ql = [pl EXCEPT !.node_pool_allocations = b]
  OBVIOUS
<1>5. /\ ql \in Pools /\ ql.free_nodes = f /\ ql.cached_node_count = c
      /\ ql.node_pool_allocations = b
  BY <1>2, <1>3, <1>4 DEF Pools
<1>6. PICK rl : rl = [ql EXCEPT !.node_pool_allocations = IF @ > 0 THEN @ - 1 ELSE @]
  OBVIOUS
<1>7. rl = [ql EXCEPT !.node_pool_allocations = a]
  <2>1. (IF b > 0 THEN b - 1 ELSE b) = a
    BY <1>3
  <2> QED
    BY <2>1, <1>5, <1>6
<1>8. /\ rl \in Pools /\ rl.free_nodes = f /\ rl.cached_node_count = c
      /\ rl.node_pool_allocations = a
  BY <1>1, <1>5, <1>7 DEF Pools
<1>9. b = (n + 1) + c
  BY <1>1, <1>2, <1>3
<1>10. PoolOf(ql, f, n + 1) /\ PoolOf(rl, f, n)
  BY <1>1, <1>2, <1>5, <1>8, <1>9 DEF PoolOf
<1> QED
  BY <1>1, <1>3, <1>4, <1>6, <1>10

(* create takes a storage that is not linked, and counts it; the handler   *)
(* gives it back to where it came from.                                    *)
LEMMA TakenFacts ==
  ASSUME NEW w, NEW f, NEW hp, NEW pl, Stored(w, f, hp), PoolOf(pl, f, Len(w)),
         NEW n \in Offered(pl, hp)
  PROVE  LET taken == Taken(pl, hp, n)
         IN  /\ n \in Nodes /\ n \notin Elements(w)
             /\ \E g \in Seq(Nodes) : /\ PoolOf(taken.pool, g, Len(w) + 1)
                                      /\ Stored(Append(w, n), g, taken.heap)
             /\ PoolOf(PutBack(taken, n).pool, f, Len(w)) /\ PutBack(taken, n).heap = hp
<1> DEFINE taken == Taken(pl, hp, n)
<1>1. /\ w \in Seq(Nodes) /\ f \in Seq(Nodes) /\ Len(w) \in Nat /\ Len(f) \in Nat
      /\ Distinct(w) /\ Distinct(f) /\ hp \subseteq Nodes /\ pl.free_nodes = f
  BY DEF Stored, PoolOf
<1>2. CASE f # <<>>
  <2>1. n = f[1] /\ Len(f) >= 1
    BY <1>1, <1>2 DEF Offered
  <2>2. n \in Elements(f) /\ n \in Nodes /\ n \notin Elements(w) /\ n \notin hp
    BY <2>1, <1>1 DEF Stored, Elements
  <2>3. /\ Append(w, n) \in Seq(Nodes)
        /\ Elements(Append(w, n)) = Elements(w) \cup {n} /\ Distinct(Append(w, n))
    BY <1>1, <2>2, AtTheEnd
  <2>4. PICK g : g = Tail(f)
    OBVIOUS
  <2>5. /\ g \in Seq(Nodes) /\ Len(f) = Len(g) + 1 /\ Len(g) \in Nat
        /\ \A i \in 1 .. Len(g) : g[i] = f[i + 1] /\ i + 1 \in 1 .. Len(f)
    BY <1>1, <1>2, <2>4
  <2>6. Distinct(g)
    <3> SUFFICES ASSUME NEW i \in 1 .. Len(g), NEW j \in 1 .. Len(g), g[i] = g[j]
                 PROVE  i = j
      BY DEF Distinct
    <3>1. i + 1 \in 1 .. Len(f) /\ j + 1 \in 1 .. Len(f) /\ f[i + 1] = f[j + 1]
      BY <2>5
    <3>2. i + 1 = j + 1
      BY <3>1, <1>1 DEF Distinct
    <3> QED
      BY <3>2
  <2>7. Elements(g) = Elements(f) \ {n}
    <3>1. ASSUME NEW x \in Elements(g) PROVE x \in Elements(f) \ {n}
      <4>1. PICK i \in 1 .. Len(g) : x = g[i]
        BY DEF Elements
      <4>2. x = f[i + 1] /\ i + 1 \in 1 .. Len(f) /\ 1 \in 1 .. Len(f) /\ i + 1 # 1
        BY <4>1, <2>1, <2>5, <1>1
      <4> QED
        BY <4>2, <2>1, <1>1 DEF Elements, Distinct
    <3>2. ASSUME NEW x \in Elements(f), x # n PROVE x \in Elements(g)
      <4>1. PICK j \in 1 .. Len(f) : x = f[j]
        BY DEF Elements
      <4>2. j # 1
        BY <3>2, <4>1, <2>1
      <4>3. j - 1 \in 1 .. Len(g) /\ (j - 1) + 1 = j
        BY <4>2, <2>5, <1>1
      <4> QED
        BY <4>1, <4>3, <2>5 DEF Elements
    <3> QED
      BY <3>1, <3>2
  <2>8. Stored(Append(w, n), g, hp)
    BY <2>2, <2>3, <2>5, <2>6, <2>7 DEF Stored
  <2>9. PICK ql : ql = pop_cached_node(pl)
    OBVIOUS
  <2>10. PoolOf(ql, g, Len(w) + 1)
    BY <1>1, <2>4, <2>5, <2>9, PopPool
  <2>11. taken = [pool |-> ql, heap |-> hp, from_cache |-> TRUE]
    BY <1>1, <1>2, <2>9 DEF Taken
  <2>12. <<n>> \o g = f
    <3>1. <<n>> \o g \in Seq(Nodes) /\ Len(<<n>> \o g) = Len(f)
      BY <2>2, <2>5, <1>1
    <3>2. \A i \in 1 .. Len(f) : (<<n>> \o g)[i] = f[i]
      BY <2>1, <2>2, <2>5, <1>1
    <3> QED
      BY <3>1, <3>2, <1>1, SeqEqual
  <2>13. PoolOf(push_cached_node(ql, n), f, Len(w))
    BY <1>1, <2>5, <2>10, <2>12, PushPool
  <2>14. PutBack(taken, n).pool = push_cached_node(ql, n) /\ PutBack(taken, n).heap = hp
    <3> HIDE DEF taken
    <3> QED
      BY <2>11 DEF PutBack
  <2>15. taken.pool = ql /\ taken.heap = hp
    BY <2>11
  <2> HIDE DEF taken
  <2> QED
    BY <2>2, <2>5, <2>8, <2>10, <2>13, <2>14, <2>15 DEF taken
<1>3. CASE f = <<>>
  <2>1. n \in hp
    BY <1>1, <1>3 DEF Offered
  <2>2. n \in Nodes /\ n \notin Elements(w) /\ n \notin Elements(f)
    BY <2>1 DEF Stored
  <2>3. /\ Append(w, n) \in Seq(Nodes)
        /\ Elements(Append(w, n)) = Elements(w) \cup {n} /\ Distinct(Append(w, n))
    BY <1>1, <2>2, AtTheEnd
  <2>4. Stored(Append(w, n), f, hp \ {n})
    BY <2>1, <2>2, <2>3 DEF Stored
  <2>5. PICK ql : ql = [pl EXCEPT !.node_pool_allocations = @ + 1]
    OBVIOUS
  <2>6. PICK rl : rl = [ql EXCEPT !.node_pool_allocations = IF @ > 0 THEN @ - 1 ELSE @]
    OBVIOUS
  <2>7. PoolOf(ql, f, Len(w) + 1) /\ PoolOf(rl, f, Len(w))
    BY <1>1, <2>5, <2>6, CountPool
  <2>8. taken = [pool |-> ql, heap |-> hp \ {n}, from_cache |-> FALSE]
    BY <2>5, <1>1, <1>3 DEF Taken
  <2>9. (hp \ {n}) \cup {n} = hp
    BY <2>1
  <2>10. PutBack(taken, n).pool = rl /\ PutBack(taken, n).heap = hp
    <3> HIDE DEF taken
    <3> QED
      BY <2>6, <2>8, <2>9 DEF PutBack
  <2>11. taken.pool = ql /\ taken.heap = hp \ {n}
    BY <2>8
  <2> HIDE DEF taken
  <2> QED
    BY <2>2, <2>4, <2>7, <2>10, <2>11, <1>1 DEF taken
<1> QED
  BY <1>2, <1>3

(* erase_node destroys the node into the pool.                             *)
LEMMA StoredErased ==
  ASSUME NEW w, NEW f, NEW hp, NEW pl, Stored(w, f, hp), PoolOf(pl, f, Len(w)),
         NEW q \in 1 .. Len(w)
  PROVE  \E g \in Seq(Nodes) :
           /\ Stored(Without(w, q), g, hp)
           /\ PoolOf(push_cached_node(pl, w[q]), g, Len(Without(w, q)))
<1>1. /\ w \in Seq(Nodes) /\ f \in Seq(Nodes) /\ Len(w) \in Nat /\ Len(f) \in Nat
      /\ Distinct(w) /\ Distinct(f)
  BY DEF Stored
<1>2. PICK n : n = w[q]
  OBVIOUS
<1>3. n \in Nodes /\ n \in Elements(w) /\ n \notin Elements(f) /\ n \notin hp
  BY <1>1, <1>2 DEF Stored, Elements
<1>4. PICK g : g = <<n>> \o f
  OBVIOUS
<1>5. /\ g \in Seq(Nodes) /\ Len(g) = Len(f) + 1 /\ Distinct(g)
      /\ Elements(g) = Elements(f) \cup {n}
  BY <1>1, <1>3, <1>4, InFront
<1>6. PICK v : v = Without(w, q)
  OBVIOUS
<1>7. v \in Seq(Nodes) /\ Len(v) = Len(w) - 1 /\ Distinct(v)
      /\ Elements(v) = Elements(w) \ {n}
  BY <1>1, <1>2, <1>6, LeftOut
<1>8. Stored(v, g, hp)
  BY <1>3, <1>5, <1>7 DEF Stored
<1>9. Len(v) \in Nat /\ Len(w) = Len(v) + 1
  BY <1>1, <1>7
<1>10. PoolOf(push_cached_node(pl, n), g, Len(v))
  BY <1>1, <1>4, <1>5, <1>9, PushPool
<1> QED
  BY <1>2, <1>5, <1>6, <1>8, <1>10

(* The elements of one sequence behind those of another.                   *)
LEMMA Behind ==
  ASSUME NEW r \in Seq(Nodes), NEW f \in Seq(Nodes), Distinct(r), Distinct(f),
         Elements(r) \cap Elements(f) = {}
  PROVE  /\ r \o f \in Seq(Nodes) /\ Len(r \o f) = Len(r) + Len(f)
         /\ Elements(r \o f) = Elements(r) \cup Elements(f) /\ Distinct(r \o f)
<1>1. PICK N, M \in Nat : N = Len(r) /\ M = Len(f)
  OBVIOUS
<1>2. PICK g : g = r \o f
  OBVIOUS
<1>3. /\ g \in Seq(Nodes) /\ Len(g) = N + M
      /\ \A i \in 1 .. N + M : g[i] = IF i <= N THEN r[i] ELSE f[i - N]
  BY <1>1, <1>2, ConcatProperties
<1>4. \A i \in 1 .. N + M : i > N => i - N \in 1 .. M
  BY <1>1
<1>5. \A i \in 1 .. N + M : i <= N => i \in 1 .. N
  BY <1>1
<1>6. ASSUME NEW i \in 1 .. N + M
      PROVE  (i <= N => g[i] \in Elements(r)) /\ (i > N => g[i] \in Elements(f))
  <2>1. CASE i <= N
    BY <2>1, <1>1, <1>3, <1>5 DEF Elements
  <2>2. CASE i > N
    <3>1. PICK j \in 1 .. M : j = i - N
      BY <2>2, <1>4
    <3>2. ~(i <= N)
      BY <2>2, <1>1
    <3>3. g[i] = f[j]
      BY <3>1, <3>2, <1>3
    <3> QED
      BY <3>2, <3>3, <1>1 DEF Elements
  <2> QED
    BY <2>1, <2>2, <1>1
<1>7. Elements(g) = Elements(r) \cup Elements(f)
  <2>1. ASSUME NEW x \in Elements(g) PROVE x \in Elements(r) \cup Elements(f)
    <3>1. PICK i \in 1 .. N + M : x = g[i]
      BY <1>3 DEF Elements
    <3>2. i <= N \/ i > N
      BY <1>1
    <3> QED
      BY <3>1, <3>2, <1>6
  <2>2. ASSUME NEW x \in Elements(r) PROVE x \in Elements(g)
    <3>1. PICK i \in 1 .. N : x = r[i]
      BY <1>1 DEF Elements
    <3>2. i \in 1 .. N + M /\ i <= N
      BY <1>1
    <3> QED
      BY <3>1, <3>2, <1>3 DEF Elements
  <2>3. ASSUME NEW x \in Elements(f) PROVE x \in Elements(g)
    <3>1. PICK i \in 1 .. M : x = f[i]
      BY <1>1 DEF Elements
    <3>2. PICK j \in 1 .. N + M : j - N = i /\ ~(j <= N)
      <4>1. i + N \in 1 .. N + M /\ (i + N) - N = i /\ ~(i + N <= N)
        BY <1>1
      <4> QED
        BY <4>1
    <3>3. g[j] = f[i]
      BY <3>2, <1>3
    <3> QED
      BY <3>1, <3>3, <1>3 DEF Elements
  <2> QED
    BY <2>1, <2>2, <2>3
<1>8. Distinct(g)
  <2> SUFFICES ASSUME NEW i \in 1 .. N + M, NEW j \in 1 .. N + M, g[i] = g[j]
               PROVE  i = j
    BY <1>3 DEF Distinct
  <2>1. CASE i <= N /\ j <= N
    BY <2>1, <1>1, <1>3, <1>5 DEF Distinct
  <2>2. CASE i > N /\ j > N
    <3>1. PICK a, b \in 1 .. M : a = i - N /\ b = j - N
      BY <2>2, <1>4
    <3>2. ~(i <= N) /\ ~(j <= N)
      BY <2>2, <1>1
    <3>3. f[a] = f[b]
      BY <3>1, <3>2, <1>3
    <3>4. a = b
      BY <3>3, <1>1 DEF Distinct
    <3> QED
      BY <3>1, <3>4, <1>1
  <2>3. CASE i <= N /\ j > N
    BY <2>3, <1>6
  <2>4. CASE i > N /\ j <= N
    BY <2>4, <1>6
  <2> QED
    BY <2>1, <2>2, <2>3, <2>4, <1>1
<1> QED
  BY <1>1, <1>2, <1>3, <1>7, <1>8

(* The same elements the other way round.                                  *)
LEMMA Backwards ==
  ASSUME NEW w \in Seq(Nodes), Distinct(w)
  PROVE  /\ Reverse(w) \in Seq(Nodes) /\ Len(Reverse(w)) = Len(w)
         /\ Distinct(Reverse(w)) /\ Elements(Reverse(w)) = Elements(w)
<1>1. PICK N \in Nat : N = Len(w)
  OBVIOUS
<1>2. PICK r : r = Reverse(w)
  OBVIOUS
<1>3. r = [i \in 1 .. N |-> w[N - i + 1]]
  BY <1>1, <1>2 DEF Reverse
<1>4. \A i \in 1 .. N : N - i + 1 \in 1 .. N
  BY <1>1
<1>5. /\ r \in Seq(Nodes) /\ Len(r) = N
      /\ \A i \in 1 .. N : r[i] = w[N - i + 1]
  <2>1. \A i \in 1 .. N : w[N - i + 1] \in Nodes
    BY <1>1, <1>4
  <2> QED
    BY <2>1, <1>1, <1>3
<1>6. Distinct(r)
  <2> SUFFICES ASSUME NEW i \in 1 .. N, NEW j \in 1 .. N, r[i] = r[j]
               PROVE  i = j
    BY <1>5 DEF Distinct
  <2>1. PICK a, b \in 1 .. N : a = N - i + 1 /\ b = N - j + 1
    BY <1>4
  <2>2. w[a] = w[b]
    BY <2>1, <1>5
  <2>3. a = b
    BY <2>2, <1>1 DEF Distinct
  <2> QED
    BY <2>1, <2>3, <1>1
<1>7. ASSUME NEW i \in 1 .. N PROVE w[i] \in Elements(r)
  <2>1. PICK j \in 1 .. N : j = N - i + 1
    BY <1>4
  <2>2. N - j + 1 = i
    BY <2>1, <1>1
  <2>3. r[j] = w[i]
    BY <2>2, <1>5
  <2> QED
    BY <2>3, <1>5 DEF Elements
<1>8. ASSUME NEW i \in 1 .. N PROVE r[i] \in Elements(w)
  BY <1>1, <1>4, <1>5 DEF Elements
<1>9. Elements(r) = Elements(w)
  BY <1>1, <1>5, <1>7, <1>8 DEF Elements
<1> QED
  BY <1>1, <1>2, <1>5, <1>6, <1>9

(* The empty sequence.                                                     *)
LEMMA NoElements ==
  /\ <<>> \in Seq(Nodes) /\ Len(<<>>) = 0
  /\ Elements(<<>>) = {} /\ Distinct(<<>>)
  BY DEF Elements, Distinct

(* clear destroys one node after the other into the pool.                  *)
LEMMA StoredCleared ==
  ASSUME NEW w, NEW f, NEW hp, NEW pl, Stored(w, f, hp), PoolOf(pl, f, Len(w))
  PROVE  \E g \in Seq(Nodes) :
           /\ Stored(<<>>, g, hp)
           /\ PoolOf(push_cached_nodes(pl, w), g, 0)
<1>1. /\ w \in Seq(Nodes) /\ f \in Seq(Nodes)
      /\ Distinct(w) /\ Distinct(f) /\ Elements(w) \cap Elements(f) = {}
  BY DEF Stored
<1>2. PICK r : r = Reverse(w)
  OBVIOUS
<1>3. r \in Seq(Nodes) /\ Len(r) = Len(w) /\ Distinct(r) /\ Elements(r) = Elements(w)
  BY <1>1, <1>2, Backwards
<1>4. PICK g : g = r \o f
  OBVIOUS
<1>5. /\ g \in Seq(Nodes) /\ Len(g) = Len(r) + Len(f)
      /\ Elements(g) = Elements(r) \cup Elements(f) /\ Distinct(g)
  BY <1>1, <1>3, <1>4, Behind
<1>6. Stored(<<>>, g, hp)
  BY <1>3, <1>5, NoElements DEF Stored
<1>7. PoolOf(push_cached_nodes(pl, w), g, 0)
  BY <1>1, <1>2, <1>3, <1>4, <1>5, PushPools
<1> QED
  BY <1>5, <1>6, <1>7

(* shrink_to_fit gives the cached nodes back, and the counter is right.    *)
LEMMA StoredShrunk ==
  ASSUME NEW w, NEW f, NEW hp, NEW pl, Stored(w, f, hp), PoolOf(pl, f, Len(w))
  PROVE  /\ Stored(w, <<>>, hp \cup CachedNodes(pl))
         /\ PoolOf(Shrunk(pl), <<>>, Len(w))
<1>1. CachedNodes(pl) = Elements(f)
  BY DEF PoolOf, CachedNodes, Elements
<1>2. Stored(w, <<>>, hp \cup Elements(f))
  BY NoElements DEF Stored
<1>3. PICK a, b, c \in Nat : a = pl.node_pool_allocations /\ b = Len(w) /\ c = Len(f)
  BY DEF PoolOf, Pools, Stored
<1>4. a = b + c /\ Len(pl.free_nodes) = c
  BY <1>3 DEF PoolOf
<1>5. (IF a >= c THEN a - c ELSE 0) = b
  BY <1>3, <1>4
<1>6. Shrunk(pl) = [free_nodes |-> <<>>, cached_node_count |-> 0, node_pool_allocations |-> b]
  BY <1>3, <1>4, <1>5 DEF Shrunk
<1>7. PoolOf(Shrunk(pl), <<>>, b)
  BY <1>3, <1>6, NoElements DEF PoolOf, Pools
<1> QED
  BY <1>1, <1>2, <1>3, <1>7

(* A table that has given everything back, with a new pool.                *)
LEMMA StoredEmptied ==
  ASSUME NEW w, NEW f, NEW hp, NEW pl, Stored(w, f, hp), PoolOf(pl, f, Len(w))
  PROVE  Stored(<<>>, <<>>, hp \cup Elements(w) \cup CachedNodes(pl))
<1>1. CachedNodes(pl) = Elements(f)
  BY DEF PoolOf, CachedNodes, Elements
<1> QED
  BY <1>1, NoElements DEF Stored

(* The pool of a new table.                                                *)
LEMMA PoolIsNew == PoolOf(NewPool, <<>>, 0)
  BY NoElements DEF PoolOf, Pools, NewPool

----------------------------------------------------------------------------
(* The steps                                                               *)

(* A table without an element.                                             *)
LEMMA EmptyTable ==
  ASSUME NEW t, TableShape(t), Unchained(t),
         t.head = Nil, t.tail = Nil, NEW kf
  PROVE  Linked(t, kf, <<>>)
<1>1. Chained(t, kf, Elements(<<>>))
  BY EmptyBuckets, NoElements
<1>2. Listing(t, <<>>)
  BY NoElements DEF Listing, TwoWayWalk, At
<1> QED
  BY <1>1, <1>2 DEF Linked

(* clear and move construction leave a table without an element.           *)
LEMMA ClearedTable ==
  ASSUME NEW t, TableShape(t), NEW count \in Nat, NEW kf
  PROVE  LET v == [NewBuckets(t, count) EXCEPT !.head = Nil, !.tail = Nil]
         IN  Linked(v, kf, <<>>) /\ v.bucket_count = count
<1>0. PICK v : v = [NewBuckets(t, count) EXCEPT !.head = Nil, !.tail = Nil]
  OBVIOUS
<1>1. PICK u : u = NewBuckets(t, count)
  OBVIOUS
<1>2. TableShape(u) /\ u.bucket_count = count /\ Unchained(u)
  BY <1>1, NewBucketsFields
<1>3. v = [u EXCEPT !.head = Nil, !.tail = Nil]
  BY <1>0, <1>1
<1>4. Nil \in Maybe(Nodes)
  BY DEF Maybe
<1>5. /\ v.bucket_count = count /\ v.buckets = u.buckets /\ v.head = Nil /\ v.tail = Nil
  BY <1>2, <1>3 DEF TableShape
<1>6. TableShape(v)
  BY <1>2, <1>3, <1>4, <1>5 DEF TableShape
<1>7. Unchained(v)
  BY <1>2, <1>5 DEF Unchained
<1>8. Linked(v, kf, <<>>)
  BY <1>5, <1>6, <1>7, EmptyTable
<1> QED
  BY <1>0, <1>5, <1>8

(* So does the constructor.                                                *)
LEMMA ConstructedTable ==
  ASSUME NEW requested \in Requests, NEW kf
  PROVE  LET t == NewTable(requested)
         IN  Linked(t, kf, <<>>) /\ t.bucket_count = normalize_bucket_count(requested)
<1>1. PICK t, count, bs : /\ t = NewTable(requested)
                          /\ count = normalize_bucket_count(requested)
                          /\ bs = [i \in 0 .. count - 1 |-> Nil]
  OBVIOUS
<1>2. count \in Nat
  BY <1>1, TableAssumption DEF normalize_bucket_count
<1>3. /\ bs \in [0 .. count - 1 -> Maybe(Nodes)]
      /\ \A i \in 0 .. count - 1 : bs[i] = Nil
      /\ NoLinks \in Links /\ Nil \in Maybe(Nodes)
  BY <1>1 DEF Maybe, NoLinks, Links
<1>4. t = [buckets |-> bs, bucket_count |-> count,
           bucket_prev |-> NoLinks, bucket_next |-> NoLinks,
           iter_prev |-> NoLinks, iter_next |-> NoLinks, head |-> Nil, tail |-> Nil]
  BY <1>1 DEF NewTable
<1>5. t.bucket_count = count /\ t.buckets = bs /\ t.head = Nil /\ t.tail = Nil
  BY <1>4
<1>6. TableShape(t)
  BY <1>2, <1>3, <1>4, <1>5 DEF TableShape
<1>7. Unchained(t)
  BY <1>3, <1>5 DEF Unchained
<1> QED
  BY <1>1, <1>5, <1>6, <1>7, EmptyTable

(* A new table holds nothing.                                              *)
LEMMA InitIInv == Init => IInv
<1> SUFFICES ASSUME Init PROVE IInv
  OBVIOUS
<1>1. PICK requested \in Requests :
        normalize_bucket_count(requested) <= MaxBuckets /\ table = NewTable(requested)
  BY DEF Init
<1>2. Linked(table, key, <<>>) /\ table.bucket_count <= MaxBuckets
  BY <1>1, ConstructedTable
<1>3. key \in [Nodes -> Keys] /\ mapped \in [Nodes -> Values]
  BY TableAssumption DEF Init
<1>4. PoolOf(pool, <<>>, 0)
  BY PoolIsNew DEF Init
<1>5. Stored(<<>>, <<>>, heap)
  BY NoElements DEF Init, Stored
<1>6. OneEach(key, <<>>)
  BY NoElements DEF OneEach
<1>7. HoldsNow(<<>>, <<>>)
  BY <1>2, <1>3, <1>4, <1>5, <1>6, NoElements DEF Init, HoldsNow, Holds
<1> QED
  BY <1>7, NoElements DEF IInv

(* What is known before a step.                                            *)
LEMMA BeforeStep ==
  ASSUME NEW w, NEW f, HoldsNow(w, f)
  PROVE  /\ key \in [Nodes -> Keys] /\ mapped \in [Nodes -> Values]
         /\ max_load_factor_ \in LoadFactors \cup {LoadUnit}
         /\ Linked(table, key, w) /\ TableShape(table)
         /\ bucket_count_ \in Nat /\ bucket_count_ = table.bucket_count
         /\ bucket_count_ <= MaxBuckets
         /\ OneEach(key, w) /\ size_ = Len(w) /\ size_ \in Nat
         /\ PoolOf(pool, f, Len(w)) /\ Stored(w, f, heap)
         /\ w \in Seq(Nodes) /\ f \in Seq(Nodes) /\ Distinct(w)
         /\ Iteration = w
<1>1. Linked(table, key, w)
  BY DEF HoldsNow, Holds
<1>2. Iteration = w
  BY <1>1, IterationIs DEF Iteration
<1>3. TableShape(table) /\ bucket_count_ \in Nat /\ bucket_count_ = table.bucket_count
  BY <1>1 DEF Linked, TableShape, bucket_count_
<1> QED
  BY <1>1, <1>2, <1>3 DEF HoldsNow, Holds, Stored

(* Steps that leave the elements and their order alone.                    *)
LEMMA StayStep ==
  ASSUME NEW w, NEW f, HoldsNow(w, f), UNCHANGED <<key, mapped, size_>>,
         Linked(table', key, w), table'.bucket_count <= MaxBuckets,
         max_load_factor_' \in LoadFactors \cup {LoadUnit},
         NEW g \in Seq(Nodes), Stored(w, g, heap'), PoolOf(pool', g, Len(w))
  PROVE  Stepped(w)
<1>1. Holds(table', key', mapped', size_', max_load_factor_', pool', heap', w, g)
  BY BeforeStep DEF Holds
<1>2. Outcome(w, w)
  BY DEF Outcome
<1> QED
  BY <1>1, <1>2, BeforeStep DEF Stepped

(* Steps that leave no element.                                            *)
LEMMA EmptyStep ==
  ASSUME NEW w, NEW f, HoldsNow(w, f), UNCHANGED <<key, mapped>>, size_' = 0,
         Linked(table', key, <<>>), table'.bucket_count <= MaxBuckets,
         max_load_factor_' \in LoadFactors \cup {LoadUnit},
         NEW g \in Seq(Nodes), Stored(<<>>, g, heap'), PoolOf(pool', g, 0)
  PROVE  Stepped(w)
<1>1. OneEach(key, <<>>)
  BY NoElements DEF OneEach
<1>2. Holds(table', key', mapped', size_', max_load_factor_', pool', heap', <<>>, g)
  BY <1>1, BeforeStep, NoElements DEF Holds
<1>3. Outcome(w, <<>>)
  BY DEF Outcome
<1> QED
  BY <1>2, <1>3, NoElements DEF Stepped

(* clear unlinks everything and keeps the number of buckets.               *)
LEMMA ClearStep == ASSUME NEW w, NEW f, HoldsNow(w, f), clear PROVE Stepped(w)
<1>1. PICK g \in Seq(Nodes) : /\ Stored(<<>>, g, heap)
                              /\ PoolOf(push_cached_nodes(pool, w), g, 0)
  BY BeforeStep, StoredCleared
<1>2. /\ UNCHANGED <<key, mapped>> /\ size_' = 0 /\ heap' = heap
      /\ max_load_factor_' = max_load_factor_ /\ pool' = push_cached_nodes(pool, w)
  BY BeforeStep DEF clear
<1>3. table' = [NewBuckets(table, bucket_count_) EXCEPT !.head = Nil, !.tail = Nil]
  BY DEF clear
<1>4. Linked(table', key, <<>>) /\ table'.bucket_count = bucket_count_
  BY <1>3, BeforeStep, ClearedTable
<1> QED
  BY <1>1, <1>2, <1>4, BeforeStep, EmptyStep

(* A table that was moved from is empty and has no buckets.                *)
LEMMA MoveAwayStep == ASSUME NEW w, NEW f, HoldsNow(w, f), MoveAway PROVE Stepped(w)
<1>1. heap' = heap \cup Elements(w) \cup CachedNodes(pool)
  BY BeforeStep DEF MoveAway, Elements
<1>2. Stored(<<>>, <<>>, heap') /\ PoolOf(pool', <<>>, 0)
  BY <1>1, BeforeStep, StoredEmptied, PoolIsNew DEF MoveAway
<1>3. /\ UNCHANGED <<key, mapped>> /\ size_' = 0 /\ max_load_factor_' = max_load_factor_
      /\ table' = [NewBuckets(table, 0) EXCEPT !.head = Nil, !.tail = Nil]
  BY DEF MoveAway
<1>4. Linked(table', key, <<>>) /\ table'.bucket_count = 0
  BY <1>3, BeforeStep, ClearedTable
<1>5. 0 <= MaxBuckets
  BY TableAssumption
<1> QED
  BY <1>2, <1>3, <1>4, <1>5, BeforeStep, NoElements, EmptyStep

(* A table that was assigned to gave back all that it had.                 *)
LEMMA MoveAssignStep ==
  ASSUME NEW w, NEW f, HoldsNow(w, f), NEW requested \in Requests, MoveAssign(requested)
  PROVE  Stepped(w)
<1>1. heap' = heap \cup Elements(w) \cup CachedNodes(pool)
  BY BeforeStep DEF MoveAssign, Elements
<1>2. Stored(<<>>, <<>>, heap') /\ PoolOf(pool', <<>>, 0)
  BY <1>1, BeforeStep, StoredEmptied, PoolIsNew DEF MoveAssign
<1>3. /\ UNCHANGED <<key, mapped>> /\ size_' = 0 /\ max_load_factor_' = LoadUnit
      /\ table' = NewTable(requested) /\ normalize_bucket_count(requested) <= MaxBuckets
  BY DEF MoveAssign
<1>4. Linked(table', key, <<>>) /\ table'.bucket_count <= MaxBuckets
  BY <1>3, ConstructedTable
<1> QED
  BY <1>2, <1>3, <1>4, NoElements, EmptyStep

(* shrink_to_fit of the pool does not touch a linked node.                 *)
LEMMA ShrinkStep == ASSUME NEW w, NEW f, HoldsNow(w, f), shrink_to_fit PROVE Stepped(w)
<1>1. Stored(w, <<>>, heap') /\ PoolOf(pool', <<>>, Len(w))
  BY BeforeStep, StoredShrunk DEF shrink_to_fit
<1>2. UNCHANGED <<table, key, mapped, size_, max_load_factor_>>
  BY DEF shrink_to_fit
<1> QED
  BY <1>1, <1>2, BeforeStep, NoElements, StayStep

(* rehash once its memory is there, with its own count.                    *)
LEMMA RehashStep ==
  ASSUME NEW w, NEW f, HoldsNow(w, f), NEW count \in Nat, count # 0, count <= MaxBuckets,
         table' = Rehashed(count), UNCHANGED <<key, mapped, size_>>,
         max_load_factor_' \in LoadFactors \cup {LoadUnit},
         Stored(w, f, heap'), PoolOf(pool', f, Len(w))
  PROVE  Stepped(w)
<1>1. Linked(table', key, w) /\ table'.bucket_count = count
  BY BeforeStep, RehashedTable
<1> QED
  BY <1>1, BeforeStep, StayStep

(* rehash, with the count that it settles for.                             *)
LEMMA RehashOpStep ==
  ASSUME NEW w, NEW f, HoldsNow(w, f), NEW requested \in Nat, rehash(requested)
  PROVE  Stepped(w)
<1>1. PICK count : count = RehashCount(requested, max_load_factor_)
  OBVIOUS
<1>2. count \in Nat /\ count # 0
  BY <1>1, BeforeStep, RehashFacts
<1>3. /\ count <= MaxBuckets /\ table' = Rehashed(count) /\ UNCHANGED <<key, mapped, size_>>
      /\ max_load_factor_' = max_load_factor_ /\ heap' = heap /\ pool' = pool
  BY <1>1 DEF rehash
<1> QED
  BY <1>2, <1>3, BeforeStep, RehashStep

(* The number of buckets for a number of elements.                         *)
LEMMA MinimumIsNat ==
  ASSUME NEW count \in Nat, NEW load \in LoadFactors \cup {LoadUnit}
  PROVE  minimum_bucket_count_for_size(count, load) \in Nat
<1>1. load \in Nat /\ load # 0 /\ DefaultBucketCount \in Nat
  BY TableAssumption
<1>2. PICK a \in Nat : a = LoadUnit * count
  BY TableAssumption
<1>3. (a + load - 1) \div load \in Nat
  BY <1>1, CeilFacts
<1> QED
  BY <1>1, <1>2, <1>3 DEF minimum_bucket_count_for_size

(* reserve is a rehash for more elements.                                  *)
LEMMA ReserveStep ==
  ASSUME NEW w, NEW f, HoldsNow(w, f), NEW count \in Nat, reserve(count)
  PROVE  Stepped(w)
<1>1. minimum_bucket_count_for_size(count, max_load_factor_) \in Nat
  BY BeforeStep, MinimumIsNat
<1>2. rehash(minimum_bucket_count_for_size(count, max_load_factor_))
  BY DEF reserve
<1> QED
  BY <1>1, <1>2, RehashOpStep

(* max_load_factor rehashes a table that is now overloaded.                *)
LEMMA MaxLoadStep ==
  ASSUME NEW w, NEW f, HoldsNow(w, f), NEW load \in LoadFactors, max_load_factor(load)
  PROVE  Stepped(w)
<1>1. /\ UNCHANGED <<key, mapped, size_>> /\ max_load_factor_' = load
      /\ heap' = heap /\ pool' = pool
  BY DEF max_load_factor
<1>2. CASE Overloaded(load)
  <2>1. PICK least : least = minimum_bucket_count_for_size(size_, load)
    OBVIOUS
  <2>2. least \in Nat
    BY <2>1, BeforeStep, MinimumIsNat
  <2>3. PICK count : count = RehashCount(least, load)
    OBVIOUS
  <2>4. count \in Nat /\ count # 0
    BY <2>2, <2>3, BeforeStep, RehashFacts
  <2>5. count <= MaxBuckets /\ table' = Rehashed(count)
    BY <1>2, <2>1, <2>3 DEF max_load_factor
  <2> QED
    BY <1>1, <2>4, <2>5, BeforeStep, RehashStep
<1>3. CASE ~Overloaded(load)
  <2>1. table' = table
    BY <1>3 DEF max_load_factor
  <2> QED
    BY <1>1, <2>1, BeforeStep, StayStep
<1> QED
  BY <1>2, <1>3

(* max_load_factor, when the buckets are refused.                          *)
LEMMA MaxLoadThrowsStep ==
  ASSUME NEW w, NEW f, HoldsNow(w, f), NEW load \in LoadFactors, MaxLoadFactorThrows(load)
  PROVE  Stepped(w)
<1>1. /\ UNCHANGED <<table, key, mapped, size_, pool, heap>> /\ max_load_factor_' = load
  BY DEF MaxLoadFactorThrows
<1> QED
  BY <1>1, BeforeStep, StayStep

(* A failed insert has rehashed, and puts the storage back.                *)
LEMMA InsertThrowsStep ==
  ASSUME NEW w, NEW f, HoldsNow(w, f), NEW k \in Keys, InsertThrows(k)
  PROVE  Stepped(w)
<1>1. PICK count : count = CountForInsert
  OBVIOUS
<1>2. count \in Nat /\ count # 0
  BY <1>1, BeforeStep, InsertFacts
<1>3. /\ count <= MaxBuckets /\ table' = Rehashed(count) /\ UNCHANGED <<key, mapped, size_>>
      /\ max_load_factor_' = max_load_factor_
  BY <1>1 DEF InsertThrows
<1>4. Stored(w, f, heap') /\ PoolOf(pool', f, Len(w))
  <2>1. CASE heap' = heap /\ pool' = pool
    BY <2>1, BeforeStep
  <2>2. CASE \E n \in Offered(pool, heap) :
               /\ pool' = PutBack(Taken(pool, heap, n), n).pool
               /\ heap' = PutBack(Taken(pool, heap, n), n).heap
    BY <2>2, BeforeStep, TakenFacts
  <2> QED
    BY <2>1, <2>2 DEF InsertThrows
<1> QED
  BY <1>2, <1>3, <1>4, BeforeStep, RehashStep

(* insert_or_assign writes into the element it found.                      *)
LEMMA AssignStep ==
  ASSUME NEW w, NEW f, HoldsNow(w, f), NEW k \in Keys, NEW x \in Values, Assign(k, x)
  PROVE  Stepped(w)
<1>1. PICK q \in 1 .. Len(w) : find_node(k) = w[q]
  BY FindFacts DEF Assign
<1>2. w[q] \in Nodes
  BY BeforeStep
<1>3. mapped' = [mapped EXCEPT ![w[q]] = x]
  BY <1>1 DEF Assign
<1>4. mapped' \in [Nodes -> Values]
  BY <1>2, <1>3, BeforeStep
<1>5. UNCHANGED <<table, key, size_, max_load_factor_, pool, heap>>
  BY DEF Assign
<1>6. Holds(table', key', mapped', size_', max_load_factor_', pool', heap', w, f)
  BY <1>4, <1>5 DEF HoldsNow, Holds
<1>7. Outcome(w, w)
  BY <1>3, <1>5 DEF Outcome
<1> QED
  BY <1>6, <1>7, BeforeStep DEF Stepped

(* erase takes one element out of both lists.                              *)
LEMMA EraseStep ==
  ASSUME NEW w, NEW f, HoldsNow(w, f), NEW k \in Keys, erase(k)
  PROVE  Stepped(w)
<1>1. PICK q \in 1 .. Len(w) : find_node(k) = w[q]
  BY FindFacts DEF erase
<1>2. /\ table' = Erased(table, w[q]) /\ pool' = push_cached_node(pool, w[q])
      /\ size_' = size_ - 1 /\ UNCHANGED <<key, mapped, max_load_factor_, heap>>
  BY <1>1 DEF erase
<1>3. PICK v : v = Without(w, q)
  OBVIOUS
<1>4. Linked(table', key, v) /\ table'.bucket_count = table.bucket_count
  BY <1>2, <1>3, BeforeStep, ErasedTable
<1>5. PICK g \in Seq(Nodes) : Stored(v, g, heap') /\ PoolOf(pool', g, Len(v))
  BY <1>2, <1>3, BeforeStep, StoredErased
<1>6. /\ v \in Seq(Nodes) /\ Len(v) = Len(w) - 1
      /\ \A i \in 1 .. Len(v) : v[i] = IF i < q THEN w[i] ELSE w[i + 1]
  BY <1>3, BeforeStep, LeftOut
<1>7. OneEach(key, v)
  <2> SUFFICES ASSUME NEW i \in 1 .. Len(v), NEW j \in 1 .. Len(v), key[v[i]] = key[v[j]]
               PROVE  i = j
    BY DEF OneEach
  <2>1. PICK N \in Nat : N = Len(w)
    BY BeforeStep
  <2>2. PICK a, b \in 1 .. N : /\ a = IF i < q THEN i ELSE i + 1
                               /\ b = IF j < q THEN j ELSE j + 1
    <3>1. /\ (IF i < q THEN i ELSE i + 1) \in 1 .. N
          /\ (IF j < q THEN j ELSE j + 1) \in 1 .. N
      BY <2>1, <1>6
    <3> QED
      BY <3>1
  <2>3. v[i] = w[a] /\ v[j] = w[b]
    BY <2>2, <1>6
  <2>4. a = b
    BY <2>1, <2>3, BeforeStep DEF OneEach
  <2> QED
    BY <2>2, <2>4, <2>1
<1>8. Holds(table', key', mapped', size_', max_load_factor_', pool', heap', v, g)
  BY <1>2, <1>4, <1>5, <1>6, <1>7, BeforeStep DEF Holds
<1>9. Outcome(w, v)
  BY <1>2, <1>3 DEF Outcome
<1> QED
  BY <1>5, <1>6, <1>8, <1>9 DEF Stepped

(* The key of a node that is not chained does not matter.                  *)
LEMMA KeyFrame ==
  ASSUME NEW t, NEW kf \in [Nodes -> Keys], NEW w, Linked(t, kf, w),
         NEW n \in Nodes, n \notin Elements(w), NEW k \in Keys
  PROVE  Linked(t, [kf EXCEPT ![n] = k], w)
<1>1. PICK kg : kg = [kf EXCEPT ![n] = k]
  OBVIOUS
<1>2. Elements(w) \subseteq Nodes
  BY DEF Linked, Listing, TwoWayWalk, Elements
<1>3. \A m \in Elements(w) : kg[m] = kf[m]
  BY <1>1, <1>2
<1>4. \A i : Hashed(Elements(w), kg, t.bucket_count, i) =
              Hashed(Elements(w), kf, t.bucket_count, i)
  BY <1>3 DEF Hashed
<1>5. Chained(t, kg, Elements(w))
  BY <1>4 DEF Linked, Chained, IsChain
<1> QED
  BY <1>1, <1>5 DEF Linked

(* insert rehashes by the old keys, then links the new element.            *)
LEMMA InsertStep ==
  ASSUME NEW w, NEW f, HoldsNow(w, f), NEW k \in Keys, NEW x \in Values, insert_value(k, x)
  PROVE  Stepped(w) /\ table'.bucket_count = CountForInsert
<1>1. PICK count : count = CountForInsert
  OBVIOUS
<1>2. count \in Nat /\ count # 0
  BY <1>1, BeforeStep, InsertFacts
<1>3. PICK n \in Offered(pool, heap) :
        /\ pool' = Taken(pool, heap, n).pool /\ heap' = Taken(pool, heap, n).heap
        /\ key' = [key EXCEPT ![n] = k] /\ mapped' = [mapped EXCEPT ![n] = x]
        /\ table' = link_new_node(Rehashed(count), n, k)
  BY <1>1 DEF insert_value
<1>4. count <= MaxBuckets /\ size_' = size_ + 1 /\ max_load_factor_' = max_load_factor_
  BY <1>1 DEF insert_value
<1>5. /\ n \in Nodes /\ n \notin Elements(w)
      /\ \E g \in Seq(Nodes) : PoolOf(pool', g, Len(w) + 1) /\ Stored(Append(w, n), g, heap')
  BY <1>3, BeforeStep, TakenFacts
<1>6. PICK v : v = Append(w, n)
  OBVIOUS
<1>7. PICK g \in Seq(Nodes) : PoolOf(pool', g, Len(w) + 1) /\ Stored(v, g, heap')
  BY <1>5, <1>6
<1>8. /\ v \in Seq(Nodes) /\ Len(v) = Len(w) + 1 /\ v[Len(w) + 1] = n
      /\ \A i \in 1 .. Len(w) : v[i] = w[i]
  BY <1>5, <1>6, BeforeStep, AtTheEnd
<1>9. PICK kg : kg = [key EXCEPT ![n] = k]
  OBVIOUS
<1>10. kg \in [Nodes -> Keys] /\ kg[n] = k /\ \A m \in Nodes \ {n} : kg[m] = key[m]
  BY <1>5, <1>9, BeforeStep
<1>11. PICK t : t = Rehashed(count)
  OBVIOUS
<1>12. Linked(t, key, w) /\ t.bucket_count = count
  BY <1>2, <1>11, BeforeStep, RehashedTable
<1>13. Linked(t, kg, w)
  BY <1>5, <1>9, <1>12, BeforeStep, KeyFrame
<1>14. Linked(table', kg, v) /\ table'.bucket_count = count
  <2>1. table' = link_new_node(t, n, kg[n])
    BY <1>3, <1>10, <1>11
  <2> QED
    BY <2>1, <1>2, <1>5, <1>6, <1>10, <1>12, <1>13, LinkNew
<1>15. \A i \in 1 .. Len(w) : key[w[i]] # k
  <2>1. find_node(k) = Nil
    BY DEF insert_value
  <2>2. \A q \in 1 .. Len(w) : w[q] # Nil
    BY BeforeStep, NodesNotNil
  <2> QED
    BY <2>1, <2>2, FindFacts
<1>16. \A i \in 1 .. Len(w) : kg[w[i]] = key[w[i]]
  <2>1. \A i \in 1 .. Len(w) : w[i] \in Nodes /\ w[i] # n
    BY <1>5, BeforeStep DEF Elements
  <2> QED
    BY <2>1, <1>10
<1>17. OneEach(kg, v)
  <2> SUFFICES ASSUME NEW i \in 1 .. Len(v), NEW j \in 1 .. Len(v), kg[v[i]] = kg[v[j]]
               PROVE  i = j
    BY DEF OneEach
  <2>1. PICK N \in Nat : N = Len(w)
    BY BeforeStep
  <2>2. i \in 1 .. N + 1 /\ j \in 1 .. N + 1
    BY <2>1, <1>8
  <2>3. \A m \in 1 .. N : kg[v[m]] = key[w[m]] /\ key[w[m]] # k
    BY <2>1, <1>8, <1>15, <1>16
  <2>4. kg[v[N + 1]] = k
    BY <2>1, <1>8, <1>10
  <2>5. CASE i \in 1 .. N /\ j \in 1 .. N
    BY <2>1, <2>3, <2>5, BeforeStep DEF OneEach
  <2>6. CASE i = N + 1 /\ j = N + 1
    BY <2>6
  <2>7. CASE i \in 1 .. N /\ j = N + 1
    BY <2>3, <2>4, <2>7
  <2>8. CASE i = N + 1 /\ j \in 1 .. N
    BY <2>3, <2>4, <2>8
  <2> QED
    BY <2>1, <2>2, <2>5, <2>6, <2>7, <2>8
<1>18. key' = kg /\ mapped' \in [Nodes -> Values]
  BY <1>3, <1>5, <1>9, BeforeStep
<1>19. Holds(table', key', mapped', size_', max_load_factor_', pool', heap', v, g)
  BY <1>4, <1>7, <1>8, <1>14, <1>17, <1>18, <1>10, BeforeStep DEF Holds
<1>20. Outcome(w, v)
  BY <1>3, <1>5, <1>6, <1>15 DEF Outcome
<1> QED
  BY <1>1, <1>7, <1>8, <1>14, <1>19, <1>20 DEF Stepped

----------------------------------------------------------------------------
(* The theorems                                                            *)

(* Every step, by the operations of the table.                             *)
LEMMA NextStep == ASSUME NEW w, NEW f, HoldsNow(w, f), [Next]_vars PROVE Stepped(w)
<1>1. CASE UNCHANGED vars
  <2>1. UNCHANGED <<table, key, mapped, size_, max_load_factor_, pool, heap>>
    BY <1>1 DEF vars
  <2> QED
    BY <2>1, BeforeStep, StayStep
<1>2. ASSUME NEW k \in Keys, NEW x \in ValuesOf[k], insert_value(k, x) \/ Assign(k, x)
      PROVE  Stepped(w)
  <2>1. x \in Values
    BY TableAssumption
  <2> QED
    BY <1>2, <2>1, InsertStep, AssignStep
<1>3. ASSUME NEW k \in Keys, InsertThrows(k) \/ erase(k) PROVE Stepped(w)
  BY <1>3, InsertThrowsStep, EraseStep
<1>4. ASSUME NEW requested \in Requests,
             rehash(requested) \/ reserve(requested) \/ MoveAssign(requested)
      PROVE  Stepped(w)
  <2>1. requested \in Nat
    BY TableAssumption
  <2> QED
    BY <1>4, <2>1, RehashOpStep, ReserveStep, MoveAssignStep
<1>5. ASSUME NEW load \in LoadFactors, max_load_factor(load) \/ MaxLoadFactorThrows(load)
      PROVE  Stepped(w)
  BY <1>5, MaxLoadStep, MaxLoadThrowsStep
<1> QED
  BY <1>1, <1>2, <1>3, <1>4, <1>5, ClearStep, ShrinkStep, MoveAwayStep DEF Next

(* A step from a table that holds w leads to one that holds what the       *)
(* step makes of w.                                                        *)
LEMMA NextIInv == IInv /\ [Next]_vars => IInv'
<1> SUFFICES ASSUME IInv, [Next]_vars PROVE IInv'
  OBVIOUS
<1>1. PICK w, f \in Seq(Nodes) : HoldsNow(w, f)
  BY DEF IInv
<1>2. Stepped(w)
  BY <1>1, NextStep
<1> QED
  BY <1>2 DEF Stepped, IInv, HoldsNow

(* The inductive invariant: some sequence of the nodes is the iteration    *)
(* list and, split by the hashes of the keys, the chains of the buckets.   *)
THEOREM Invariant == Spec => []IInv
<1>1. Init => IInv
  BY InitIInv
<1>2. IInv /\ [Next]_vars => IInv'
  BY NextIInv
<1> QED
  BY <1>1, <1>2, PTL DEF Spec

(* A list of different nodes has as many elements as places.               *)
LEMMA DistinctCount ==
  ASSUME NEW w \in Seq(Nodes), Distinct(w)
  PROVE  Cardinality(Elements(w)) = Len(w)
<1>1. PICK N \in Nat : N = Len(w)
  OBVIOUS
<1>2. w \in Bijection(1 .. N, Elements(w))
  BY <1>1 DEF Distinct, Elements, Bijection, Injection, Surjection, IsInjective
<1>3. ExistsBijection(1 .. N, Elements(w))
  BY <1>2 DEF ExistsBijection
<1> QED
  BY <1>1, <1>3, FS_CountingElements

(* What the properties say of a walk.                                      *)
LEMMA WalkTwoWay ==
  ASSUME NEW w, NEW first, NEW prev, NEW next, TwoWayWalk(w, first, prev, next)
  PROVE  TwoWay(w, prev)
<1>1. Cardinality({w[i] : i \in 1 .. Len(w)}) = Len(w)
  BY DistinctCount DEF TwoWayWalk, Elements
<1>2. ASSUME NEW i \in 1 .. Len(w)
      PROVE  prev[w[i]] = IF i = 1 THEN Nil ELSE w[i - 1]
  <2>1. prev[w[i]] = At(w, i - 1)
    BY DEF TwoWayWalk
  <2>2. w \in Seq(Nodes) /\ Len(w) \in Nat
    BY DEF TwoWayWalk
  <2>3. i - 1 \in 1 .. Len(w) <=> i # 1
    BY <2>2
  <2> QED
    BY <2>1, <2>3 DEF At
<1> QED
  BY <1>1, <1>2 DEF TwoWay

(* IInv says what the properties say of the table.                         *)
LEMMA HoldsTableInv == ASSUME NEW w, NEW f, HoldsNow(w, f) PROVE TableInv
<1>1. Listed = Elements(w)
  BY BeforeStep DEF Listed, Elements
<1>2. TypeOK
  <2>1. table.bucket_count \in 0 .. MaxBuckets
    BY BeforeStep, TableAssumption
  <2>2. heap \subseteq Nodes
    BY BeforeStep DEF Stored
  <2> QED
    BY <2>1, <2>2, BeforeStep DEF TypeOK, TableShape, Links
<1>3. ChainsMatchList
  <2>1. TwoWay(Iteration, table.iter_prev)
    BY BeforeStep, WalkTwoWay DEF Linked, Listing
  <2>2. table.tail = IF Iteration = <<>> THEN Nil ELSE Last(Iteration)
    <3>1. table.tail = At(w, Len(w)) /\ w \in Seq(Nodes) /\ Len(w) \in Nat /\ Iteration = w
      BY BeforeStep DEF Linked, Listing
    <3>2. w # <<>> => Len(w) \in 1 .. Len(w)
      BY <3>1
    <3> QED
      BY <3>1, <3>2 DEF At, Last
  <2>3. ASSUME NEW i \in 0 .. bucket_count_ - 1
        PROVE  /\ TwoWay(Chain(i), table.bucket_prev)
               /\ {Chain(i)[j] : j \in 1 .. Len(Chain(i))} =
                    {n \in Listed : bucket_index_for(key[n], bucket_count_) = i}
    <3>1. PICK c \in Seq(Nodes) : IsChain(c, table, key, Elements(w), i)
      BY BeforeStep DEF Linked, Chained
    <3>2. /\ TwoWayWalk(c, table.buckets[i], table.bucket_prev, table.bucket_next)
          /\ Elements(c) = Hashed(Elements(w), key, table.bucket_count, i)
      BY <3>1 DEF IsChain
    <3>3. Chain(i) = c
      BY <3>2, AlongIs DEF Chain
    <3>4. TwoWay(c, table.bucket_prev)
      BY <3>2, WalkTwoWay
    <3> QED
      BY <1>1, <3>2, <3>3, <3>4, BeforeStep DEF Hashed, Elements
  <2>4. bucket_count_ = 0 => Listed = {}
    BY <1>1, BeforeStep, NoElements DEF Linked
  <2> QED
    BY <2>1, <2>2, <2>3, <2>4 DEF ChainsMatchList
<1>4. FindExact
  <2> SUFFICES ASSUME NEW k \in Keys
               PROVE  {n \in Elements(w) : key[n] = k} = {find_node(k)} \ {Nil}
    BY <1>1 DEF FindExact
  <2>1. \A i \in 1 .. Len(w) : w[i] # Nil
    BY BeforeStep, NodesNotNil
  <2>2. CASE find_node(k) = Nil /\ \A i \in 1 .. Len(w) : key[w[i]] # k
    BY <2>2 DEF Elements
  <2>3. CASE \E q \in 1 .. Len(w) : find_node(k) = w[q] /\ key[w[q]] = k
    <3>1. PICK q \in 1 .. Len(w) : find_node(k) = w[q] /\ key[w[q]] = k
      BY <2>3
    <3>2. ASSUME NEW i \in 1 .. Len(w), key[w[i]] = k PROVE w[i] = w[q]
      BY <3>1, <3>2, BeforeStep DEF OneEach
    <3> QED
      BY <2>1, <3>1, <3>2 DEF Elements
  <2> QED
    BY <2>2, <2>3, FindFacts
<1>5. NothingLost
  <2>1. /\ f \in Seq(Nodes) /\ Distinct(f) /\ w \in Seq(Nodes) /\ Distinct(w)
        /\ Elements(w) \cap Elements(f) = {}
        /\ Elements(w) \cap heap = {} /\ Elements(f) \cap heap = {}
        /\ Elements(w) \cup Elements(f) \cup heap = Nodes
        /\ PoolOf(pool, f, Len(w)) /\ size_ = Len(w)
    BY BeforeStep DEF Stored
  <2>2. CachedNodes(pool) = Elements(f)
    BY <2>1 DEF PoolOf, CachedNodes, Elements
  <2>3. Cardinality(Elements(w)) = Len(w) /\ Cardinality(Elements(f)) = Len(f)
    BY <2>1, DistinctCount
  <2>4. IsFiniteSet(Elements(w)) /\ IsFiniteSet(Elements(f)) /\ IsFiniteSet(heap)
    <3>1. Elements(w) \in SUBSET Nodes /\ Elements(f) \in SUBSET Nodes /\ heap \in SUBSET Nodes
      BY <2>1
    <3> QED
      BY <3>1, NodesNotNil, FS_Subset
  <2>5. /\ IsFiniteSet(Elements(w) \cup Elements(f))
        /\ Cardinality(Elements(w) \cup Elements(f)) =
             Cardinality(Elements(w)) + Cardinality(Elements(f)) - Cardinality({})
    BY <2>1, <2>4, FS_Union
  <2>6. Cardinality(Nodes) =
          Cardinality(Elements(w) \cup Elements(f)) + Cardinality(heap) - Cardinality({})
    <3>1. (Elements(w) \cup Elements(f)) \cap heap = {}
      BY <2>1
    <3> QED
      BY <2>1, <2>4, <2>5, <3>1, FS_Union
  <2>7. Cardinality({}) = 0 /\ Len(w) \in Nat /\ Len(f) \in Nat /\ Cardinality(heap) \in Nat
    BY <2>1, <2>4, FS_EmptySet, FS_CardinalityType
  <2>8. size_ + Cardinality(CachedNodes(pool)) + Cardinality(heap) = Cardinality(Nodes)
    <3>1. PICK a, b, c \in Nat : a = Len(w) /\ b = Len(f) /\ c = Cardinality(heap)
      BY <2>7
    <3>2. Cardinality(Elements(w) \cup Elements(f)) = a + b
      BY <2>3, <2>5, <2>7, <3>1
    <3> QED
      BY <2>1, <2>2, <2>3, <2>6, <2>7, <3>1, <3>2
  <2>9. PoolAccounts(pool, size_)
    BY <2>1 DEF PoolOf, PoolAccounts
  <2> QED
    BY <1>1, <2>1, <2>2, <2>3, <2>8, <2>9 DEF NothingLost
<1> QED
  BY <1>2, <1>3, <1>4, <1>5 DEF TableInv

(* The two ways of linking agree, find_node finds every element and        *)
(* nothing else, and no storage is lost, after every operation of          *)
(* SharedMemoryHashTable and whichever memory is refused: for every set of *)
(* nodes, every hash function and every bucket count.                      *)
THEOREM TableCorrect == Spec => []TableInv
<1>1. IInv => TableInv
  BY HoldsTableInv DEF IInv
<1> QED
  BY <1>1, Invariant, PTL

(* What a step does to the elements, seen from outside.                    *)
LEMMA StepFacts ==
  ASSUME IInv, [Next]_vars
  PROVE  \E w, v \in Seq(Nodes) :
           /\ Distinct(w) /\ OneEach(key, w) /\ Distinct(v) /\ OneEach(key', v)
           /\ Iteration = w /\ Iteration' = v /\ table'.tail = At(v, Len(v))
           /\ key \in [Nodes -> Keys] /\ mapped \in [Nodes -> Values]
           /\ Outcome(w, v)
<1>1. PICK w, f \in Seq(Nodes) : HoldsNow(w, f)
  BY DEF IInv
<1>2. PICK v, g \in Seq(Nodes) :
        /\ Holds(table', key', mapped', size_', max_load_factor_', pool', heap', v, g)
        /\ Outcome(w, v)
  BY <1>1, NextStep DEF Stepped
<1>3. Linked(table', key', v) /\ Distinct(v) /\ OneEach(key', v)
  BY <1>2 DEF Holds, Stored
<1>4. Iteration' = v
  BY <1>3, IterationIs DEF Iteration
<1>5. table'.tail = At(v, Len(v))
  BY <1>3 DEF Linked, Listing
<1> QED
  BY <1>1, <1>2, <1>3, <1>4, <1>5, BeforeStep

(* The order of two elements when a third is left out.                     *)
LEMMA PrecedesLeftOut ==
  ASSUME NEW w \in Seq(Nodes), Distinct(w), NEW q \in 1 .. Len(w),
         NEW n \in Elements(Without(w, q)), NEW m \in Elements(Without(w, q)),
         Precedes(w, n, m)
  PROVE  Precedes(Without(w, q), n, m)
<1>1. PICK v : v = Without(w, q)
  OBVIOUS
<1>2. /\ v \in Seq(Nodes) /\ Len(v) = Len(w) - 1
      /\ \A i \in 1 .. Len(v) : v[i] = IF i < q THEN w[i] ELSE w[i + 1]
  BY <1>1, LeftOut
<1>3. PICK N \in Nat : N = Len(w)
  OBVIOUS
<1>4. PICK i, j \in 1 .. N : i < j /\ w[i] = n /\ w[j] = m
  BY <1>3 DEF Precedes
<1>5. PICK a \in 1 .. N - 1 : v[a] = n
  BY <1>1, <1>2, <1>3 DEF Elements
<1>6. PICK b \in 1 .. N - 1 : v[b] = m
  BY <1>1, <1>2, <1>3 DEF Elements
<1>7. i = IF a < q THEN a ELSE a + 1
  <2>1. (IF a < q THEN a ELSE a + 1) \in 1 .. N
    BY <1>3
  <2>2. w[IF a < q THEN a ELSE a + 1] = n
    BY <1>2, <1>3, <1>5
  <2> QED
    BY <2>1, <2>2, <1>3, <1>4 DEF Distinct
<1>8. j = IF b < q THEN b ELSE b + 1
  <2>1. (IF b < q THEN b ELSE b + 1) \in 1 .. N
    BY <1>3
  <2>2. w[IF b < q THEN b ELSE b + 1] = m
    BY <1>2, <1>3, <1>6
  <2> QED
    BY <2>1, <2>2, <1>3, <1>4 DEF Distinct
<1>9. a < b
  BY <1>3, <1>4, <1>7, <1>8
<1> QED
  BY <1>1, <1>2, <1>3, <1>5, <1>6, <1>9 DEF Precedes

(* The order is kept by every step.                                        *)
Ordered(old, new) ==
  LET stay == {n \in ToSet(old) : \E m \in ToSet(new) : key'[m] = key[n]}
  IN  /\ stay \subseteq ToSet(new)
      /\ \A n, m \in stay : Precedes(old, n, m) => Precedes(new, n, m)
      /\ \A m \in ToSet(new) \ stay : m = table'.tail

(* Each outcome of a step keeps the order.                                 *)
LEMMA OutcomeOrdered ==
  ASSUME NEW w \in Seq(Nodes), NEW v \in Seq(Nodes), Distinct(w), OneEach(key, w),
         Distinct(v), table'.tail = At(v, Len(v)), key \in [Nodes -> Keys], Outcome(w, v)
  PROVE  Ordered(w, v)
<1>0. ToSet(w) = Elements(w) /\ ToSet(v) = Elements(v)
  BY DEF ToSet, Elements
<1> DEFINE stay == {n \in Elements(w) : \E m \in Elements(v) : key'[m] = key[n]}
<1> SUFFICES /\ stay \subseteq Elements(v)
             /\ \A n, m \in stay : Precedes(w, n, m) => Precedes(v, n, m)
             /\ \A m \in Elements(v) \ stay : m = table'.tail
  BY <1>0 DEF Ordered
<1>1. CASE v = w /\ key' = key
  <2>1. stay = Elements(w)
    BY <1>1
  <2> HIDE DEF stay
  <2> QED
    BY <1>1, <2>1
<1>2. ASSUME NEW n \in Nodes, NEW k \in Keys, n \notin Elements(w),
             \A i \in 1 .. Len(w) : key[w[i]] # k,
             v = Append(w, n), key' = [key EXCEPT ![n] = k]
      PROVE  /\ stay \subseteq Elements(v)
             /\ \A x, m \in stay : Precedes(w, x, m) => Precedes(v, x, m)
             /\ \A m \in Elements(v) \ stay : m = table'.tail
  <2>1. /\ v \in Seq(Nodes) /\ Len(v) = Len(w) + 1 /\ v[Len(w) + 1] = n
        /\ \A i \in 1 .. Len(w) : v[i] = w[i]
        /\ Elements(v) = Elements(w) \cup {n}
    BY <1>2, AtTheEnd
  <2>2. \A m \in Elements(w) : m \in Nodes /\ key'[m] = key[m]
    BY <1>2 DEF Elements
  <2>3. stay = Elements(w)
    BY <2>1, <2>2
  <2>4. ASSUME NEW x, NEW m, Precedes(w, x, m) PROVE Precedes(v, x, m)
    <3>1. PICK i, j \in 1 .. Len(w) : i < j /\ w[i] = x /\ w[j] = m
      BY <2>4 DEF Precedes
    <3>2. i \in 1 .. Len(v) /\ j \in 1 .. Len(v) /\ v[i] = x /\ v[j] = m
      BY <3>1, <2>1
    <3> QED
      BY <3>1, <3>2 DEF Precedes
  <2>5. table'.tail = n
    BY <2>1 DEF At
  <2> HIDE DEF stay
  <2> QED
    BY <2>1, <2>3, <2>4, <2>5
<1>3. ASSUME NEW q \in 1 .. Len(w), v = Without(w, q), key' = key
      PROVE  /\ stay \subseteq Elements(v)
             /\ \A x, m \in stay : Precedes(w, x, m) => Precedes(v, x, m)
             /\ \A m \in Elements(v) \ stay : m = table'.tail
  <2>1. Elements(v) = Elements(w) \ {w[q]}
    BY <1>3, LeftOut
  <2>2. ASSUME NEW x \in Elements(w), NEW m \in Elements(v), key[m] = key[x]
        PROVE  x = m
    BY <2>1, <2>2 DEF OneEach, Elements
  <2>3. stay = Elements(v)
    BY <1>3, <2>1, <2>2
  <2>4. \A x, m \in Elements(v) : Precedes(w, x, m) => Precedes(v, x, m)
    BY <1>3, PrecedesLeftOut
  <2> HIDE DEF stay
  <2> QED
    BY <2>3, <2>4
<1>4. CASE v = <<>>
  <2>1. Elements(v) = {}
    BY <1>4, NoElements
  <2>2. stay = {}
    BY <2>1
  <2> HIDE DEF stay
  <2> QED
    BY <2>1, <2>2
<1> QED
  <2> HIDE DEF stay
  <2> QED
    BY <1>1, <1>2, <1>3, <1>4 DEF Outcome

(* Iterators stay valid and iteration keeps the order of insertion,        *)
(* through every rehash, erasure and failed operation of the table.        *)
THEOREM OrderCorrect == Spec => OrderKept
<1>1. ASSUME IInv, [Next]_vars
      PROVE  \A old \in {Iteration}, new \in {Iteration'} : Ordered(old, new)
  <2>1. PICK w, v \in Seq(Nodes) :
          /\ Distinct(w) /\ OneEach(key, w) /\ Distinct(v)
          /\ Iteration = w /\ Iteration' = v /\ table'.tail = At(v, Len(v))
          /\ key \in [Nodes -> Keys] /\ Outcome(w, v)
    BY <1>1, StepFacts
  <2>2. Ordered(w, v)
    BY <2>1, OutcomeOrdered
  <2> QED
    BY <2>1, <2>2
<1>2. IInv /\ [Next]_vars =>
        [\A old \in {Iteration}, new \in {Iteration'} :
           LET stay == {n \in ToSet(old) : \E m \in ToSet(new) : key'[m] = key[n]}
           IN  /\ stay \subseteq ToSet(new)
               /\ \A n, m \in stay : Precedes(old, n, m) => Precedes(new, n, m)
               /\ \A m \in ToSet(new) \ stay : m = table'.tail]_vars
  BY <1>1 DEF Ordered
<1> QED
  BY <1>2, Invariant, PTL DEF Spec, OrderKept

(* What a step may do that finds a table within its maximum: stay there,   *)
(* or insert a first element for which the default buckets are too few.    *)
StaysWithin ==
  \/ WithinLoad(size_, bucket_count_, max_load_factor_)'
  \/ size_ = 0 /\ size_' = 1 /\ ~WithinLoad(1, DefaultBucketCount, max_load_factor_)

(* Room for the elements after a step, if the maximum stays what it is.    *)
LEMMA LoadStep ==
  ASSUME NEW w, NEW f, HoldsNow(w, f), [Next]_vars,
         max_load_factor_' = max_load_factor_,
         WithinLoad(size_, bucket_count_, max_load_factor_)
  PROVE  StaysWithin
<1>0. bucket_count_' = table'.bucket_count
  BY DEF bucket_count_
<1>1. PICK n, b, load \in Nat : /\ n = size_ /\ b = bucket_count_ /\ load = max_load_factor_
                                /\ load \in LoadFactors \cup {LoadUnit}
                                /\ LoadUnit * n <= b * load
  BY BeforeStep, TableAssumption DEF WithinLoad
<1>2. ASSUME size_' = size_, bucket_count_' = b
      PROVE  StaysWithin
  BY <1>1, <1>2 DEF StaysWithin, WithinLoad
<1>3. ASSUME size_' = 0, bucket_count_' \in Nat
      PROVE  StaysWithin
  <2>1. PICK b2 \in Nat : b2 = bucket_count_'
    BY <1>3
  <2>2. PICK c \in Nat : c = b2 * load
    BY <1>1
  <2>3. LoadUnit * 0 <= c
    BY TableAssumption, <2>2
  <2> QED
    BY <1>1, <1>3, <2>1, <2>2, <2>3 DEF StaysWithin, WithinLoad
<1>4. ASSUME NEW count \in Nat, count # 0, LoadUnit * n <= count * load,
             size_' = size_, table' = Rehashed(count)
      PROVE  StaysWithin
  <2>1. bucket_count_' = count
    BY <1>0, <1>4, BeforeStep, RehashedTable
  <2> QED
    BY <1>1, <1>4, <2>1 DEF StaysWithin, WithinLoad
<1>5. PICK room : room = CountForInsert
  OBVIOUS
<1>6. /\ room \in Nat /\ room # 0 /\ LoadUnit * n <= room * load
      /\ \/ WithinLoad(n + 1, room, load)
         \/ n = 0 /\ ~WithinLoad(1, DefaultBucketCount, load)
  BY <1>1, <1>5, BeforeStep, InsertFacts DEF WithinLoad
<1>8. CASE UNCHANGED vars
  BY <1>0, <1>1, <1>2, <1>8 DEF vars, bucket_count_
<1>9. ASSUME NEW k \in Keys, NEW x \in ValuesOf[k], insert_value(k, x)
      PROVE  StaysWithin
  <2>1. x \in Values
    BY TableAssumption
  <2>2. bucket_count_' = room
    BY <1>0, <1>5, <1>9, <2>1, InsertStep
  <2>3. size_' = n + 1
    BY <1>1, <1>9 DEF insert_value
  <2> QED
    BY <1>1, <1>6, <2>2, <2>3 DEF StaysWithin, WithinLoad
<1>10. ASSUME NEW k \in Keys, NEW x \in ValuesOf[k], Assign(k, x)
       PROVE  StaysWithin
  BY <1>0, <1>1, <1>2, <1>10 DEF Assign, bucket_count_
<1>11. ASSUME NEW k \in Keys, InsertThrows(k)
       PROVE  StaysWithin
  BY <1>4, <1>5, <1>6, <1>11 DEF InsertThrows
<1>12. ASSUME NEW k \in Keys, erase(k)
       PROVE  StaysWithin
  <2>1. PICK q \in 1 .. Len(w) : find_node(k) = w[q]
    BY <1>12, FindFacts DEF erase
  <2>2. table' = Erased(table, w[q]) /\ size_' = n - 1
    BY <1>1, <1>12, <2>1 DEF erase
  <2>3. bucket_count_' = b
    BY <1>0, <1>1, <2>2, BeforeStep, ErasedTable
  <2>4. PICK c, u \in Nat : c = b * load /\ u = LoadUnit
    BY <1>1, TableAssumption
  <2>5. u * (n - 1) <= c
    <3>1. u * (n - 1) = u * n - u /\ u * n \in Nat
      BY <1>1, <2>4
    <3> QED
      BY <1>1, <2>4, <3>1
  <2> QED
    BY <1>1, <2>2, <2>3, <2>4, <2>5 DEF StaysWithin, WithinLoad
<1>13. CASE clear
  <2>1. table'.bucket_count = bucket_count_
    <3>1. table' = [NewBuckets(table, bucket_count_) EXCEPT !.head = Nil, !.tail = Nil]
      BY <1>13 DEF clear
    <3> QED
      BY <3>1, BeforeStep, ClearedTable
  <2> QED
    BY <1>0, <1>1, <1>3, <1>13, <2>1 DEF clear
<1>14. ASSUME NEW requested \in Nat, rehash(requested)
       PROVE  StaysWithin
  <2>1. PICK count : count = RehashCount(requested, load)
    OBVIOUS
  <2>2. count \in Nat /\ count # 0 /\ LoadUnit * n <= count * load
    BY <1>1, <2>1, BeforeStep, RehashFacts
  <2>3. table' = Rehashed(count) /\ size_' = size_
    BY <1>1, <1>14, <2>1 DEF rehash
  <2> QED
    BY <1>4, <2>2, <2>3
<1>15. ASSUME NEW count \in Nat, reserve(count)
       PROVE  StaysWithin
  <2>1. minimum_bucket_count_for_size(count, max_load_factor_) \in Nat
    BY BeforeStep, MinimumIsNat
  <2> QED
    BY <1>14, <1>15, <2>1 DEF reserve
<1>16. ASSUME NEW requested \in Requests, MoveAssign(requested)
       PROVE  StaysWithin
  <2>1. table' = NewTable(requested) /\ size_' = 0
    BY <1>16 DEF MoveAssign
  <2>2. table'.bucket_count = normalize_bucket_count(requested)
    BY <2>1, ConstructedTable
  <2>3. normalize_bucket_count(requested) \in Nat
    BY TableAssumption DEF normalize_bucket_count
  <2> QED
    BY <1>0, <1>3, <2>1, <2>2, <2>3
<1>17. ASSUME NEW limit \in LoadFactors, max_load_factor(limit)
       PROVE  StaysWithin
  <2>1. limit = load /\ size_' = size_
    BY <1>1, <1>17 DEF max_load_factor
  <2>2. CASE Overloaded(limit)
    <3>1. PICK least : least = minimum_bucket_count_for_size(size_, load)
      OBVIOUS
    <3>2. least \in Nat
      BY <1>1, <3>1, BeforeStep, MinimumIsNat
    <3>3. PICK count : count = RehashCount(least, load)
      OBVIOUS
    <3>4. count \in Nat /\ count # 0 /\ LoadUnit * n <= count * load
      BY <1>1, <3>2, <3>3, BeforeStep, RehashFacts
    <3>5. table' = Rehashed(count)
      BY <1>17, <2>1, <2>2, <3>1, <3>3 DEF max_load_factor
    <3> QED
      BY <1>4, <2>1, <3>4, <3>5
  <2>3. CASE ~Overloaded(limit)
    BY <1>0, <1>1, <1>2, <1>17, <2>1, <2>3 DEF max_load_factor, bucket_count_
  <2> QED
    BY <2>2, <2>3
<1>18. ASSUME NEW limit \in LoadFactors, MaxLoadFactorThrows(limit)
       PROVE  StaysWithin
  BY <1>0, <1>1, <1>2, <1>18 DEF MaxLoadFactorThrows, bucket_count_
<1>19. CASE shrink_to_fit
  BY <1>0, <1>1, <1>2, <1>19 DEF shrink_to_fit, bucket_count_
<1>20. CASE MoveAway
  <2>1. table' = [NewBuckets(table, 0) EXCEPT !.head = Nil, !.tail = Nil] /\ size_' = 0
    BY <1>20 DEF MoveAway
  <2>2. table'.bucket_count = 0
    BY <2>1, BeforeStep, ClearedTable
  <2> QED
    BY <1>0, <1>3, <2>1, <2>2
<1>21. Requests \subseteq Nat
  BY TableAssumption
<1> QED
  BY <1>8, <1>9, <1>10, <1>11, <1>12, <1>13, <1>14, <1>15, <1>16, <1>17, <1>18, <1>19,
     <1>20, <1>21 DEF Next

(* An insert makes room for the elements that are already there.           *)
LEMMA RoomStep ==
  ASSUME NEW w, NEW f, HoldsNow(w, f), [Next]_vars, size_' > size_
  PROVE  WithinLoad(size_, bucket_count_', max_load_factor_)
<1>1. size_ \in Nat
  BY BeforeStep
<1>2. \E k \in Keys : \E x \in ValuesOf[k] : insert_value(k, x)
  <2>1. size_' # size_ /\ size_' # 0 /\ size_' # size_ - 1
    BY <1>1
  <2> QED
    BY <2>1
       DEF Next, vars, Assign, InsertThrows, erase, clear, rehash, reserve, MoveAssign,
           max_load_factor, MaxLoadFactorThrows, shrink_to_fit, MoveAway
<1>3. bucket_count_' = CountForInsert
  <2>1. PICK k \in Keys, x \in Values : insert_value(k, x)
    BY <1>2, TableAssumption
  <2> QED
    BY <2>1, InsertStep DEF bucket_count_
<1> QED
  BY <1>3, BeforeStep, InsertFacts

(***************************************************************************)
(* For every positive maximum and every default number of buckets, in      *)
(* exact arithmetic: no operation but one that lowers the maximum takes a  *)
(* table above it, save the first insert where one element is too much for *)
(* the default number of buckets; and an insert makes room for all         *)
(* elements that are there, also after a max_load_factor that failed.      *)
(***************************************************************************)
THEOREM LoadBound == Spec => LoadKept
<1>1. ASSUME IInv, [Next]_vars, max_load_factor_' = max_load_factor_
      PROVE  /\ WithinLoad(size_, bucket_count_, max_load_factor_) => StaysWithin
             /\ size_' > size_ => WithinLoad(size_, bucket_count_', max_load_factor_)
  BY <1>1, LoadStep, RoomStep DEF IInv
<1>2. IInv /\ [Next]_vars =>
        [max_load_factor_' = max_load_factor_ =>
           /\ WithinLoad(size_, bucket_count_, max_load_factor_) =>
                \/ WithinLoad(size_, bucket_count_, max_load_factor_)'
                \/ /\ size_ = 0 /\ size_' = 1
                   /\ ~WithinLoad(1, DefaultBucketCount, max_load_factor_)
           /\ size_' > size_ =>
                WithinLoad(size_, bucket_count_', max_load_factor_)]_vars
  BY <1>1 DEF StaysWithin
<1> QED
  BY <1>2, Invariant, PTL DEF Spec, LoadKept

----------------------------------------------------------------------------
(* The table implements the abstract map                                   *)

Pairs(kf, mp, w) == {<<kf[n], mp[n]>> : n \in Elements(w)}
KeysOf(kf, w) == {kf[n] : n \in Elements(w)}

(* The constructor writes the pair into the node.                          *)
Written(kf, mp, n, k, x) == kf = [key EXCEPT ![n] = k] /\ mp = [mapped EXCEPT ![n] = x]

(* insert_or_assign of a key that is there.                                *)
LEMMA PairsAssigned ==
  ASSUME NEW w \in Seq(Nodes), OneEach(key, w), mapped \in [Nodes -> Values],
         NEW q \in 1 .. Len(w), NEW x \in Values, NEW mp, mp = [mapped EXCEPT ![w[q]] = x]
  PROVE  Pairs(key, mp, w) = Map!Put(Pairs(key, mapped, w), key[w[q]], x)
<1>1. PICK n : n = w[q] /\ n \in Nodes /\ n \in Elements(w)
  BY DEF Elements
<1>2. Elements(w) \subseteq Nodes
  BY DEF Elements
<1>3. \A m \in Elements(w) : key[m] = key[n] => m = n
  BY <1>1 DEF OneEach, Elements
<1>4. mp[n] = x /\ \A m \in Elements(w) : m # n => mp[m] = mapped[m]
  BY <1>1, <1>2
<1>5. ASSUME NEW p \in Pairs(key, mp, w)
      PROVE  p \in Map!Put(Pairs(key, mapped, w), key[n], x)
  <2>1. PICK m \in Elements(w) : p = <<key[m], mp[m]>>
    BY <1>5 DEF Pairs
  <2>2. CASE m = n
    BY <1>4, <2>1, <2>2 DEF Map!Put
  <2>3. CASE m # n
    <3>1. p = <<key[m], mapped[m]>> /\ p[1] # key[n]
      BY <1>3, <1>4, <2>1, <2>3
    <3> QED
      BY <3>1 DEF Pairs, Map!Put, Map!Others
  <2> QED
    BY <2>2, <2>3
<1>6. ASSUME NEW p \in Map!Put(Pairs(key, mapped, w), key[n], x)
      PROVE  p \in Pairs(key, mp, w)
  <2>1. CASE p = <<key[n], x>>
    BY <1>1, <1>4, <2>1 DEF Pairs
  <2>2. CASE p \in Pairs(key, mapped, w) /\ p[1] # key[n]
    <3>1. PICK m \in Elements(w) : p = <<key[m], mapped[m]>>
      BY <2>2 DEF Pairs
    <3>2. m # n
      BY <2>2, <3>1
    <3> QED
      BY <1>4, <3>1, <3>2 DEF Pairs
  <2> QED
    BY <1>6, <2>1, <2>2 DEF Map!Put, Map!Others
<1> QED
  BY <1>1, <1>5, <1>6

(* insert of a key that is not there.                                      *)
LEMMA PairsInserted ==
  ASSUME NEW w \in Seq(Nodes), Distinct(w),
         key \in [Nodes -> Keys], mapped \in [Nodes -> Values],
         NEW n \in Nodes, n \notin Elements(w), NEW k \in Keys, NEW x \in Values,
         k \notin KeysOf(key, w),
         NEW kf, NEW mp, Written(kf, mp, n, k, x)
  PROVE  Pairs(kf, mp, Append(w, n)) = Map!Put(Pairs(key, mapped, w), k, x)
<1>1. Elements(Append(w, n)) = Elements(w) \cup {n}
  BY AtTheEnd
<1>2. kf[n] = k /\ mp[n] = x
  BY DEF Written
<1>3. \A m \in Elements(w) : kf[m] = key[m] /\ mp[m] = mapped[m] /\ key[m] # k
  BY DEF Elements, KeysOf, Written
<1>4. ASSUME NEW p \in Pairs(kf, mp, Append(w, n))
      PROVE  p \in Map!Put(Pairs(key, mapped, w), k, x)
  <2>1. PICK m \in Elements(w) \cup {n} : p = <<kf[m], mp[m]>>
    BY <1>1, <1>4 DEF Pairs
  <2>2. CASE m = n
    BY <1>2, <2>1, <2>2 DEF Map!Put
  <2>3. CASE m \in Elements(w)
    <3>1. p = <<key[m], mapped[m]>> /\ p[1] # k
      BY <1>3, <2>1, <2>3
    <3> QED
      BY <2>3, <3>1 DEF Pairs, Map!Put, Map!Others
  <2> QED
    BY <2>2, <2>3
<1>5. ASSUME NEW p \in Map!Put(Pairs(key, mapped, w), k, x)
      PROVE  p \in Pairs(kf, mp, Append(w, n))
  <2>1. CASE p = <<k, x>>
    BY <1>1, <1>2, <2>1 DEF Pairs
  <2>2. CASE p \in Pairs(key, mapped, w)
    <3>1. PICK m \in Elements(w) : p = <<key[m], mapped[m]>>
      BY <2>2 DEF Pairs
    <3> QED
      BY <1>1, <1>3, <3>1 DEF Pairs
  <2> QED
    BY <1>5, <2>1, <2>2 DEF Map!Put, Map!Others
<1> QED
  BY <1>4, <1>5

(* erase.                                                                  *)
LEMMA PairsErased ==
  ASSUME NEW w \in Seq(Nodes), Distinct(w), OneEach(key, w), NEW q \in 1 .. Len(w)
  PROVE  Pairs(key, mapped, Without(w, q)) = Map!Others(Pairs(key, mapped, w), key[w[q]])
<1>1. PICK n : n = w[q] /\ n \in Elements(w)
  BY DEF Elements
<1>2. Elements(Without(w, q)) = Elements(w) \ {n}
  BY <1>1, LeftOut
<1>3. \A m \in Elements(w) : key[m] = key[n] <=> m = n
  BY <1>1 DEF OneEach, Elements
<1>4. ASSUME NEW p \in Pairs(key, mapped, Without(w, q))
      PROVE  p \in Map!Others(Pairs(key, mapped, w), key[n])
  <2>1. PICK m \in Elements(w) : m # n /\ p = <<key[m], mapped[m]>>
    BY <1>2, <1>4 DEF Pairs
  <2>2. p[1] # key[n]
    BY <1>3, <2>1
  <2> QED
    BY <2>1, <2>2 DEF Pairs, Map!Others
<1>5. ASSUME NEW p \in Map!Others(Pairs(key, mapped, w), key[n])
      PROVE  p \in Pairs(key, mapped, Without(w, q))
  <2>1. p \in Pairs(key, mapped, w) /\ p[1] # key[n]
    BY <1>5 DEF Map!Others
  <2>2. PICK m \in Elements(w) : p = <<key[m], mapped[m]>>
    BY <2>1 DEF Pairs
  <2>3. m # n
    BY <2>1, <2>2
  <2> QED
    BY <1>2, <2>2, <2>3 DEF Pairs
<1> QED
  BY <1>1, <1>4, <1>5

(* Every step of the table is a step of the map or leaves it alone.        *)
LEMMA MapStep == ASSUME IInv, [Next]_vars PROVE Map!Next \/ Contents' = Contents
<1>1. PICK w, v \in Seq(Nodes) :
        /\ Distinct(w) /\ OneEach(key, w) /\ Iteration = w /\ Iteration' = v
        /\ key \in [Nodes -> Keys] /\ mapped \in [Nodes -> Values]
        /\ Outcome(w, v)
  BY StepFacts
<1>2. Contents = Pairs(key, mapped, w) /\ Contents' = Pairs(key', mapped', v)
  BY <1>1 DEF Contents, Listed, Pairs, Elements
<1>3. \A i \in 1 .. Len(w) : key[w[i]] \in Keys
  BY <1>1
<1>4. CASE v = w /\ key' = key /\ mapped' = mapped
  BY <1>2, <1>4
<1>5. ASSUME v = w, key' = key, NEW q \in 1 .. Len(w), NEW x \in Values,
             mapped' = [mapped EXCEPT ![w[q]] = x]
      PROVE  Map!Next
  <2>1. Contents' = Map!Put(Contents, key[w[q]], x)
    BY <1>1, <1>2, <1>5, PairsAssigned
  <2> QED
    BY <1>3, <2>1 DEF Map!Next, Map!Step
<1>6. ASSUME NEW n \in Nodes, NEW k \in Keys, NEW x \in Values, n \notin Elements(w),
             \A i \in 1 .. Len(w) : key[w[i]] # k, v = Append(w, n),
             key' = [key EXCEPT ![n] = k], mapped' = [mapped EXCEPT ![n] = x]
      PROVE  Map!Next
  <2>1. k \notin KeysOf(key, w)
    BY <1>6 DEF KeysOf, Elements
  <2>2. PICK kf, mp : kf = key' /\ mp = mapped'
    OBVIOUS
  <2>3. Written(kf, mp, n, k, x)
    BY <1>6, <2>2 DEF Written
  <2>4. Pairs(kf, mp, Append(w, n)) = Map!Put(Pairs(key, mapped, w), k, x)
    <3>1. Distinct(w) /\ key \in [Nodes -> Keys] /\ mapped \in [Nodes -> Values]
      BY <1>1
    <3>2. n \notin Elements(w)
      BY <1>6
    <3> QED
      BY <2>1, <2>3, <3>1, <3>2, PairsInserted
  <2>5. Contents' = Map!Put(Contents, k, x)
    BY <1>2, <1>6, <2>2, <2>4
  <2> QED
    BY <2>5 DEF Map!Next, Map!Step
<1>7. ASSUME NEW q \in 1 .. Len(w), v = Without(w, q), UNCHANGED <<key, mapped>>
      PROVE  Map!Next
  <2>1. Contents' = Map!Others(Contents, key[w[q]])
    BY <1>1, <1>2, <1>7, PairsErased
  <2> QED
    BY <1>3, <2>1 DEF Map!Next, Map!Step
<1>8. CASE v = <<>>
  <2>1. Contents' = {}
    BY <1>2, <1>8, NoElements DEF Pairs
  <2> QED
    BY <2>1, TableAssumption DEF Map!Next, Map!Step
<1> QED
  BY <1>1, <1>4, <1>5, <1>6, <1>7, <1>8 DEF Outcome

(* The table implements the map that SharedMemoryHashMap promises.         *)
THEOREM MapRefined == Spec => MapSpec
<1>1. Init => Map!Init
  <2> SUFFICES ASSUME Init PROVE Contents = {}
    BY DEF Map!Init
  <2>1. PICK requested \in Requests : table = NewTable(requested)
    BY DEF Init
  <2>2. Linked(table, key, <<>>)
    BY <2>1, ConstructedTable
  <2>3. Iteration = <<>>
    BY <2>2, IterationIs DEF Iteration
  <2> QED
    BY <2>3 DEF Contents, Listed
<1>2. IInv /\ [Next]_vars => [Map!Next]_Contents
  BY MapStep
<1> QED
  BY <1>1, <1>2, Invariant, PTL DEF Spec, MapSpec, Map!Spec
=============================================================================
