------------------------ MODULE BlockAllocatorProofs ------------------------
(***************************************************************************)
(* Proofs about BlockAllocator for any size of the segment and of the      *)
(* manager header, any width of std::size_t, and any sets of requests,     *)
(* alignments, growths and batch lengths that satisfy Fitting.             *)
(***************************************************************************)
EXTENDS BlockAllocator, SequenceTheorems, WellFoundedInduction, TLAPS

(***************************************************************************)
(* What initialize and allocate take for granted and do not check: the     *)
(* segment is a whole number of granules, and no request is so near to the *)
(* largest std::size_t that adding the headers and the padding wraps.      *)
(***************************************************************************)
LargestOverhead == BlockHeaderSize + AllocationHeaderSize + 4096 + Alignment

Fitting ==
  /\ TotalSize % Alignment = 0
  /\ \A n \in Requests : n + LargestOverhead < SizeModulus

----------------------------------------------------------------------------
(* The inductive invariant, in parts.                                      *)

(* Blocks of sizes sz tile a segment that ends at seg, without a gap in    *)
(* either direction.                                                       *)
Geometry(sz, seg) ==
  /\ seg \in Nat
  /\ DOMAIN sz \subseteq Nat
  /\ sz \in [DOMAIN sz -> Nat]
  /\ FirstBlock \in DOMAIN sz
  /\ \A b \in DOMAIN sz :
       /\ FirstBlock <= b
       /\ b % 16 = 0
       /\ 32 <= sz[b]
       /\ sz[b] % 16 = 0
       /\ b + sz[b] <= seg
       /\ b + sz[b] \in DOMAIN sz \cup {seg}
  /\ \A b, c \in DOMAIN sz : b < c => b + sz[b] <= c
  /\ \A c \in DOMAIN sz \ {FirstBlock} : \E b \in DOMAIN sz : b + sz[b] = c
  /\ \E b \in DOMAIN sz : b + sz[b] = seg

Sorted(sz, list) ==
  \A i, j \in 1 .. Len(list) : i < j => Precedes(sz, list[i], list[j])

(* The list holds exactly the blocks of fr, in order of size and address.  *)
FreeSpace(sz, fr, list) ==
  /\ fr \subseteq DOMAIN sz
  /\ list \in Seq(fr)
  /\ \A b \in fr : \E i \in 1 .. Len(list) : list[i] = b
  /\ Sorted(sz, list)

(* No free block is followed by a free block.                              *)
Merged(sz, fr) == \A b \in fr : b + sz[b] \notin fr

HeapOf(seg, sz, fr, list) ==
  /\ Geometry(sz, seg)
  /\ FreeSpace(sz, fr, list)
  /\ Merged(sz, fr)

HeaderTypes ==
  /\ DOMAIN header \subseteq Nat
  /\ header \in [DOMAIN header -> [block : Nat, requested_size : Nat]]
  /\ live \subseteq Nat

(* The batch works on payloads that are live, each once.                   *)
Distinct(s) == \A i, j \in 1 .. Len(s) : s[i] = s[j] => i = j

Allocating ==
  /\ batch \in [op : {"allocate", "rollback"}, n : Requests, a : Alignments,
                count : Nat, out : Seq(live), before : {batch.before}]
  /\ Distinct(batch.out)

Deallocating ==
  /\ batch \in [op : {"deallocate"}, ptrs : Seq(live)]
  /\ Distinct(batch.ptrs)
  /\ batch.ptrs # << >>

BatchInv == batch = Idle \/ Deallocating \/ Allocating

IInv ==
  /\ HeapOf(segment_size, size, is_free, free_list)
  /\ HeaderTypes
  /\ PayloadsSafe
  /\ BatchInv

----------------------------------------------------------------------------
(* Arithmetic.                                                             *)

(* A nonempty set of natural numbers has a least element.                  *)
LEMMA LeastExists ==
  ASSUME NEW S \in SUBSET Nat, S # {}
  PROVE  Least(S) \in S /\ \A j \in S : Least(S) <= j
<1>1. PICK x \in S : \A y \in S : ~(<<y, x>> \in OpToRel(<, Nat))
  BY NatLessThanWellFounded, WFMin
<1>2. OpToRel(<, Nat) = {ss \in Nat \X Nat : ss[1] < ss[2]}
  BY DEF OpToRel
<1>3. ASSUME NEW y \in S, y < x PROVE FALSE
  <2>1. <<y, x>> \in Nat \X Nat /\ <<y, x>>[1] < <<y, x>>[2]
    BY <1>3
  <2> QED
    BY <2>1, <1>1, <1>2
<1>4. \A y \in S : x <= y
  BY <1>3
<1> QED
  BY <1>4 DEF Least

(* align_down returns the last multiple of 16 that is not above its        *)
(* argument.                                                               *)
LEMMA AlignDownFacts ==
  ASSUME NEW v \in Nat
  PROVE  /\ AlignDown(v) \in Nat /\ AlignDown(v) % 16 = 0
         /\ AlignDown(v) <= v /\ v < AlignDown(v) + 16
BY DEF AlignDown, Alignment

(* align_up returns the first multiple of 16 that is not below its         *)
(* argument, as long as the sum inside it does not wrap.                   *)
LEMMA AlignUpFacts ==
  ASSUME NEW v \in Nat, v + 16 < SizeModulus
  PROVE  /\ AlignUp(v) \in Nat /\ AlignUp(v) % 16 = 0
         /\ v <= AlignUp(v) /\ AlignUp(v) < v + 16
<1>1. (v + Alignment - 1) % SizeModulus = v + 15
  BY SegmentAssumption DEF Alignment
<1>2. PICK w \in Nat : w = v + 15
  OBVIOUS
<1>3. AlignUp(v) = AlignDown(w)
  BY <1>1, <1>2 DEF AlignUp
<1>4. AlignDown(w) \in Nat /\ AlignDown(w) % 16 = 0 /\ AlignDown(w) <= w /\ w < AlignDown(w) + 16
  BY AlignDownFacts
<1> QED
  BY <1>2, <1>3, <1>4

(* align_up_address moves an address up, by less than the alignment.       *)
LEMMA AlignUpAddressFacts ==
  ASSUME NEW v \in Nat, NEW a \in NormalAlignments
  PROVE  /\ AlignUpAddress(v, a) \in Nat
         /\ v <= AlignUpAddress(v, a) /\ AlignUpAddress(v, a) < v + a
BY DEF AlignUpAddress, NormalAlignments

(* normalize_alignment finds a power of two for every alignment callers    *)
(* use.                                                                    *)
LEMMA NormalizeFacts ==
  ASSUME NEW a \in Alignments
  PROVE  NormalizeAlignment(a) \in NormalAlignments
<1>1. a \in 1 .. 4096
  BY CallerAssumption
<1>2. \E c \in NormalAlignments :
        a <= c /\ \A d \in NormalAlignments : a <= d => c <= d
  BY <1>1 DEF NormalAlignments
<1> QED
  BY <1>2 DEF NormalizeAlignment

(* The first block is aligned.                                             *)
LEMMA FirstFacts == FirstBlock \in Nat /\ FirstBlock % 16 = 0
BY AlignUpFacts, SegmentAssumption DEF FirstBlock, Alignment

(* The layout of an allocation: the payload lies above both headers, and   *)
(* the bytes asked for end inside the bytes the block is charged with.     *)
LEMMA LayoutFacts ==
  ASSUME Fitting, NEW b \in Nat, NEW n \in Requests, NEW a \in Alignments
  PROVE  /\ n \in Nat /\ 1 <= n
         /\ Payload(b, a) \in Nat
         /\ LayoutSize(b, n, a) \in Nat
         /\ b + 48 <= Payload(b, a)
         /\ Payload(b, a) + n <= b + LayoutSize(b, n, a)
         /\ LayoutSize(b, n, a) % 16 = 0
<1>1. n \in Nat /\ 1 <= n /\ n + 4160 < SizeModulus /\ a \in 1 .. 4096 /\ SizeModulus \in Nat
  BY CallerAssumption, SegmentAssumption
     DEF Fitting, LargestOverhead, BlockHeaderSize, AllocationHeaderSize, Alignment
<1>2. PICK c \in NormalAlignments : c = NormalizeAlignment(a)
  BY NormalizeFacts
<1>3. c \in Nat /\ c <= 4096
  BY DEF NormalAlignments
<1>4. /\ Payload(b, a) \in Nat
      /\ b + 48 <= Payload(b, a) /\ Payload(b, a) < b + 48 + c
  BY <1>2, AlignUpAddressFacts DEF Payload, BlockHeaderSize, AllocationHeaderSize
<1>5. PICK v \in Nat : v = Payload(b, a) + n - b
  BY <1>1, <1>4
<1>6. v + 16 < SizeModulus /\ v % SizeModulus = v
  BY <1>1, <1>3, <1>4, <1>5
<1>7. LayoutSize(b, n, a) = AlignUp(v)
  BY <1>5, <1>6 DEF LayoutSize
<1> QED
  BY <1>1, <1>4, <1>5, <1>6, <1>7, AlignUpFacts

----------------------------------------------------------------------------
(* Tilings.                                                                *)

(* Block b becomes two, the first of them of used bytes.                   *)
Cut(sz, b, used) ==
  [c \in DOMAIN sz \cup {b + used} |->
     IF c = b THEN used ELSE IF c = b + used THEN sz[b] - used ELSE sz[c]]

(* Block b takes over the block behind it.                                 *)
Join(sz, b) ==
  [c \in DOMAIN sz \ {b + sz[b]} |->
     IF c = b THEN sz[b] + sz[b + sz[b]] ELSE sz[c]]

(* Cutting a block in two leaves a tiling.                                 *)
LEMMA CutGeometry ==
  ASSUME NEW sz, NEW seg, Geometry(sz, seg),
         NEW b \in DOMAIN sz, NEW used \in Nat, used % 16 = 0,
         32 <= used, used + 32 <= sz[b]
  PROVE  /\ Geometry(Cut(sz, b, used), seg)
         /\ b + used \notin DOMAIN sz
<1> DEFINE cz == Cut(sz, b, used)
<1> DEFINE r == b + used
<1>1. r \in Nat /\ r \notin DOMAIN sz /\ r # b /\ r < b + sz[b]
  BY DEF Geometry
<1>2. /\ DOMAIN cz = DOMAIN sz \cup {r}
      /\ cz[b] = used /\ cz[r] = sz[b] - used
      /\ \A c \in DOMAIN sz \ {b} : cz[c] = sz[c]
  BY <1>1 DEF Cut
<1>3. /\ seg \in Nat /\ DOMAIN cz \subseteq Nat /\ cz \in [DOMAIN cz -> Nat]
      /\ FirstBlock \in DOMAIN cz
  <2>1. \A c \in DOMAIN cz : cz[c] \in Nat
    BY <1>1, <1>2 DEF Geometry
  <2>2. cz = [c \in DOMAIN cz |-> cz[c]]
    BY <1>2 DEF Cut
  <2> QED
    BY <1>1, <1>2, <2>1, <2>2 DEF Geometry
<1>4. ASSUME NEW c \in DOMAIN cz
      PROVE  /\ FirstBlock <= c /\ c % 16 = 0 /\ 32 <= cz[c] /\ cz[c] % 16 = 0
             /\ c + cz[c] <= seg /\ c + cz[c] \in DOMAIN cz \cup {seg}
  <2>1. CASE c \in DOMAIN sz \ {b}
    BY <2>1, <1>2 DEF Geometry
  <2>2. CASE c = b
    BY <2>2, <1>1, <1>2 DEF Geometry
  <2>3. CASE c = r
    <3>1. /\ b \in Nat /\ b % 16 = 0 /\ FirstBlock <= b /\ sz[b] \in Nat /\ sz[b] % 16 = 0
          /\ b + sz[b] <= seg /\ b + sz[b] \in DOMAIN sz \cup {seg}
      BY DEF Geometry
    <3>2. r % 16 = 0 /\ (sz[b] - used) % 16 = 0 /\ r + (sz[b] - used) = b + sz[b]
      BY <3>1
    <3> QED
      BY <2>3, <3>1, <3>2, <1>1, <1>2, FirstFacts
  <2> QED
    BY <2>1, <2>2, <2>3, <1>2
<1>5. ASSUME NEW c \in DOMAIN cz, NEW d \in DOMAIN cz, c < d
      PROVE  c + cz[c] <= d
  BY <1>1, <1>2, <1>5 DEF Geometry
<1>6. ASSUME NEW c \in DOMAIN cz \ {FirstBlock}
      PROVE  \E d \in DOMAIN cz : d + cz[d] = c
  <2>1. CASE c = r
    BY <2>1, <1>1, <1>2 DEF Geometry
  <2>2. CASE c # r
    <3>1. PICK d \in DOMAIN sz : d + sz[d] = c
      BY <2>2, <1>2, <1>6 DEF Geometry
    <3>2. CASE d = b
      BY <3>1, <3>2, <1>1, <1>2 DEF Geometry
    <3> QED
      BY <3>1, <3>2, <1>2
  <2> QED
    BY <2>1, <2>2
<1>7. \E d \in DOMAIN cz : d + cz[d] = seg
  <2>1. PICK d \in DOMAIN sz : d + sz[d] = seg
    BY DEF Geometry
  <2>2. CASE d = b
    BY <2>1, <2>2, <1>1, <1>2 DEF Geometry
  <2> QED
    BY <2>1, <2>2, <1>2
<1> QED
  BY <1>1, <1>3, <1>4, <1>5, <1>6, <1>7 DEF Geometry

(* Joining a block with the one behind it leaves a tiling.                 *)
LEMMA JoinGeometry ==
  ASSUME NEW sz, NEW seg, Geometry(sz, seg),
         NEW b \in DOMAIN sz, b + sz[b] \in DOMAIN sz
  PROVE  /\ Geometry(Join(sz, b), seg)
         /\ b \in DOMAIN Join(sz, b)
<1> DEFINE jz == Join(sz, b)
<1>0. PICK r \in DOMAIN sz : r = b + sz[b]
  OBVIOUS
<1>1. r \in Nat /\ b \in Nat /\ sz[b] \in Nat /\ sz[r] \in Nat /\ b < r /\ FirstBlock <= b
  BY <1>0 DEF Geometry
<1>2. /\ DOMAIN jz = DOMAIN sz \ {r}
      /\ jz[b] = sz[b] + sz[r]
      /\ \A c \in DOMAIN sz \ {b, r} : jz[c] = sz[c]
  BY <1>0, <1>1 DEF Join
<1>3. /\ seg \in Nat /\ DOMAIN jz \subseteq Nat /\ jz \in [DOMAIN jz -> Nat]
      /\ FirstBlock \in DOMAIN jz
  <2>1. \A c \in DOMAIN jz : jz[c] \in Nat
    BY <1>1, <1>2 DEF Geometry
  <2>2. jz = [c \in DOMAIN jz |-> jz[c]]
    BY <1>2 DEF Join
  <2> QED
    BY <1>1, <1>2, <2>1, <2>2, FirstFacts DEF Geometry
<1>4. ASSUME NEW c \in DOMAIN jz
      PROVE  /\ FirstBlock <= c /\ c % 16 = 0 /\ 32 <= jz[c] /\ jz[c] % 16 = 0
             /\ c + jz[c] <= seg /\ c + jz[c] \in DOMAIN jz \cup {seg}
  <2>1. CASE c # b
    <3>1. c + sz[c] # r
      BY <2>1, <1>0, <1>2 DEF Geometry
    <3> QED
      BY <2>1, <3>1, <1>2 DEF Geometry
  <2>2. CASE c = b
    <3>1. c + jz[c] = r + sz[r]
      BY <2>2, <1>0, <1>1, <1>2
    <3>2. /\ b % 16 = 0 /\ FirstBlock <= b /\ sz[b] % 16 = 0 /\ 32 <= sz[b] /\ sz[r] % 16 = 0
          /\ r + sz[r] <= seg /\ r + sz[r] \in DOMAIN sz \cup {seg} /\ r + sz[r] # r
      BY <1>1 DEF Geometry
    <3>3. (sz[b] + sz[r]) % 16 = 0 /\ 32 <= sz[b] + sz[r]
      BY <3>2, <1>1
    <3> QED
      BY <2>2, <3>1, <3>2, <3>3, <1>2
  <2> QED
    BY <2>1, <2>2
<1>5. ASSUME NEW c \in DOMAIN jz, NEW d \in DOMAIN jz, c < d
      PROVE  c + jz[c] <= d
  <2>1. CASE c # b
    BY <2>1, <1>2, <1>5 DEF Geometry
  <2>2. CASE c = b
    BY <2>2, <1>0, <1>1, <1>2, <1>5 DEF Geometry
  <2> QED
    BY <2>1, <2>2
<1>6. ASSUME NEW c \in DOMAIN jz \ {FirstBlock}
      PROVE  \E d \in DOMAIN jz : d + jz[d] = c
  <2>1. PICK d \in DOMAIN sz : d + sz[d] = c
    BY <1>2, <1>6 DEF Geometry
  <2>2. d # b
    BY <2>1, <1>0, <1>2, <1>6
  <2>3. CASE d = r
    BY <2>1, <2>3, <1>0, <1>1, <1>2
  <2> QED
    BY <2>1, <2>2, <2>3, <1>2
<1>7. \E d \in DOMAIN jz : d + jz[d] = seg
  <2>1. PICK d \in DOMAIN sz : d + sz[d] = seg
    BY DEF Geometry
  <2>2. d # b
    BY <2>1, <1>0, <1>1 DEF Geometry
  <2>3. CASE d = r
    BY <2>1, <2>3, <1>0, <1>1, <1>2
  <2> QED
    BY <2>1, <2>2, <2>3, <1>2
<1> QED
  BY <1>1, <1>2, <1>3, <1>4, <1>5, <1>6, <1>7 DEF Geometry

----------------------------------------------------------------------------
(* The free list.                                                          *)

(* A function on an initial segment of the positive integers is a          *)
(* sequence.                                                               *)
LEMMA FunctionIsSeq ==
  ASSUME NEW S, NEW n \in Nat, NEW f \in [1 .. n -> S]
  PROVE  f \in Seq(S) /\ Len(f) = n
OBVIOUS

(* Blocks are ordered by size and then by address.                         *)
LEMMA PrecedesOrder ==
  ASSUME NEW sz, DOMAIN sz \subseteq Nat, sz \in [DOMAIN sz -> Nat],
         NEW b \in DOMAIN sz, NEW c \in DOMAIN sz
  PROVE  /\ ~Precedes(sz, b, b)
         /\ b # c /\ ~Precedes(sz, b, c) => Precedes(sz, c, b)
         /\ \A d \in DOMAIN sz :
              Precedes(sz, b, c) /\ Precedes(sz, c, d) => Precedes(sz, b, d)
BY DEF Precedes

(* The list is a sequence of the free blocks, each of which is a block.    *)
LEMMA FreeLength ==
  ASSUME NEW sz, NEW fr, NEW list, FreeSpace(sz, fr, list)
  PROVE  Len(list) \in Nat /\ list \in [1 .. Len(list) -> fr] /\ fr \subseteq DOMAIN sz
<1>1. list \in Seq(fr) /\ fr \subseteq DOMAIN sz
  BY DEF FreeSpace
<1> QED
  BY <1>1, LenProperties

(* insert_free_block puts the block at the place that keeps the order.     *)
LEMMA InsertFree ==
  ASSUME NEW sz, DOMAIN sz \subseteq Nat, sz \in [DOMAIN sz -> Nat],
         NEW fr, NEW list, FreeSpace(sz, fr, list),
         NEW b \in DOMAIN sz, b \notin fr
  PROVE  FreeSpace(sz, fr \cup {b}, insert_free_block(list, sz, b))
<1> DEFINE S == {i \in 1 .. Len(list) + 1 : i <= Len(list) => ~Precedes(sz, list[i], b)}
<1> DEFINE ins == insert_free_block(list, sz, b)
<1>1. PICK n \in Nat : n = Len(list)
  BY FreeLength
<1>2. list \in [1 .. n -> fr] /\ fr \subseteq DOMAIN sz
  BY <1>1, FreeLength
<1>3. PICK pos \in 1 .. n + 1 :
        /\ pos = Least(S)
        /\ pos <= n => ~Precedes(sz, list[pos], b)
        /\ \A i \in 1 .. n : i < pos => Precedes(sz, list[i], b)
  <2>1. S \in SUBSET Nat /\ n + 1 \in S
    BY <1>1
  <2>2. Least(S) \in S /\ \A j \in S : Least(S) <= j
    BY <2>1, LeastExists
  <2> HIDE DEF S
  <2>3. PICK pos \in S : pos = Least(S) /\ \A j \in S : pos <= j
    BY <2>2
  <2>4. pos \in 1 .. n + 1 /\ (pos <= n => ~Precedes(sz, list[pos], b))
    BY <2>3, <1>1 DEF S
  <2>5. ASSUME NEW i \in 1 .. n, i < pos PROVE Precedes(sz, list[i], b)
    <3>1. i \notin S
      BY <2>1, <2>3, <2>4, <2>5
    <3> QED
      BY <3>1, <1>1 DEF S
  <2> QED
    BY <2>3, <2>4, <2>5
<1> HIDE DEF S
<1>4. ins = [i \in 1 .. n + 1 |->
               IF i < pos THEN list[i] ELSE IF i = pos THEN b ELSE list[i - 1]]
  BY <1>1, <1>3 DEF S, insert_free_block
<1> HIDE DEF ins
<1>5. /\ \A i \in 1 .. n : i < pos => ins[i] = list[i]
      /\ ins[pos] = b
      /\ \A i \in 1 .. n : i >= pos => ins[i + 1] = list[i]
  BY <1>4
<1>6. ins \in [1 .. n + 1 -> fr \cup {b}]
  BY <1>2, <1>4
<1>7. ins \in Seq(fr \cup {b}) /\ Len(ins) = n + 1
  BY <1>6, FunctionIsSeq
<1>8. ASSUME NEW c \in fr \cup {b} PROVE \E i \in 1 .. Len(ins) : ins[i] = c
  <2>1. CASE c = b
    BY <2>1, <1>5, <1>7
  <2>2. CASE c \in fr
    <3>1. PICK i \in 1 .. n : list[i] = c
      BY <2>2, <1>1 DEF FreeSpace
    <3>2. i < pos \/ i >= pos
      BY <1>3
    <3>3. i \in 1 .. Len(ins) /\ i + 1 \in 1 .. Len(ins)
      BY <1>7
    <3> QED
      BY <3>1, <3>2, <3>3, <1>5
  <2> QED
    BY <2>1, <2>2
<1>9. ASSUME NEW i \in 1 .. n + 1, NEW j \in 1 .. n + 1, i < j
      PROVE  Precedes(sz, ins[i], ins[j])
  <2>0. \A k, m \in 1 .. n : k < m => Precedes(sz, list[k], list[m])
    BY <1>1 DEF FreeSpace, Sorted
  <2>1. CASE j < pos
    BY <2>0, <2>1, <1>5, <1>9
  <2>2. CASE j = pos
    BY <2>2, <1>3, <1>5, <1>9
  <2>3. CASE i < pos /\ j > pos
    <3>1. j - 1 \in 1 .. n /\ i \in 1 .. n /\ i < j - 1 /\ ins[j] = list[j - 1] /\ ins[i] = list[i]
      BY <2>3, <1>4, <1>5, <1>9
    <3> QED
      BY <3>1, <2>0
  <2>4. CASE i = pos /\ j > pos
    <3>1. j - 1 \in 1 .. n /\ pos \in 1 .. n /\ pos <= j - 1 /\ ins[j] = list[j - 1] /\ ins[i] = b
      BY <2>4, <1>4, <1>5
    <3>2. list[pos] \in DOMAIN sz /\ list[pos] # b /\ list[j - 1] \in DOMAIN sz
      BY <3>1, <1>2
    <3>3. Precedes(sz, b, list[pos])
      BY <3>1, <3>2, <1>3, PrecedesOrder
    <3>4. CASE pos = j - 1
      BY <3>1, <3>3, <3>4
    <3>5. CASE pos < j - 1
      BY <3>1, <3>2, <3>3, <3>5, <2>0, PrecedesOrder
    <3> QED
      BY <3>1, <3>4, <3>5
  <2>5. CASE i > pos
    <3>1. /\ j - 1 \in 1 .. n /\ i - 1 \in 1 .. n /\ i - 1 < j - 1
          /\ ins[j] = list[j - 1] /\ ins[i] = list[i - 1]
      BY <2>5, <1>4, <1>9
    <3> QED
      BY <3>1, <2>0
  <2> QED
    BY <2>1, <2>2, <2>3, <2>4, <2>5, <1>9
<1> QED
  <2>1. fr \cup {b} \subseteq DOMAIN sz
    BY <1>2
  <2> QED
    BY <2>1, <1>7, <1>8, <1>9 DEF FreeSpace, Sorted, ins

(* remove_free_block takes out the block and keeps the order.              *)
LEMMA RemoveFree ==
  ASSUME NEW sz, DOMAIN sz \subseteq Nat, sz \in [DOMAIN sz -> Nat],
         NEW fr, NEW list, FreeSpace(sz, fr, list), NEW b \in fr
  PROVE  FreeSpace(sz, fr \ {b}, remove_free_block(list, b))
<1> DEFINE S == {i \in 1 .. Len(list) : list[i] = b}
<1> DEFINE rem == remove_free_block(list, b)
<1>1. PICK n \in Nat : n = Len(list)
  BY FreeLength
<1>2. list \in [1 .. n -> fr] /\ fr \subseteq DOMAIN sz
  BY <1>1, FreeLength
<1>3. S \in SUBSET Nat /\ S # {}
  BY <1>1 DEF FreeSpace
<1>4. PICK pos \in 1 .. n : pos = Least(S) /\ list[pos] = b
  <2>1. Least(S) \in S
    BY <1>3, LeastExists
  <2> QED
    BY <2>1, <1>1
<1>5. \A i, j \in 1 .. n : i < j => Precedes(sz, list[i], list[j])
  BY <1>1 DEF FreeSpace, Sorted
<1>6. \A i \in 1 .. n : i # pos => list[i] # b
  <2> SUFFICES ASSUME NEW i \in 1 .. n, i # pos, list[i] = b PROVE FALSE
    OBVIOUS
  <2>1. Precedes(sz, b, b)
    BY <1>4, <1>5
  <2> QED
    BY <2>1, <1>2, PrecedesOrder
<1>7. rem = [i \in 1 .. n - 1 |-> IF i < pos THEN list[i] ELSE list[i + 1]]
  BY <1>1, <1>3, <1>4 DEF remove_free_block
<1> HIDE DEF rem, S
<1>8. rem \in [1 .. n - 1 -> fr \ {b}]
  BY <1>2, <1>4, <1>6, <1>7
<1>9. rem \in Seq(fr \ {b}) /\ Len(rem) = n - 1
  <2>1. n - 1 \in Nat
    BY <1>4
  <2> QED
    BY <2>1, <1>8, FunctionIsSeq
<1>10. ASSUME NEW c \in fr \ {b} PROVE \E i \in 1 .. Len(rem) : rem[i] = c
  <2>1. PICK i \in 1 .. n : list[i] = c
    BY <1>1 DEF FreeSpace
  <2>2. i # pos
    BY <2>1, <1>4
  <2>3. CASE i < pos
    <3>1. i \in 1 .. n - 1
      BY <2>3
    <3> QED
      BY <3>1, <2>1, <2>3, <1>7, <1>9
  <2>4. CASE i > pos
    <3>1. i - 1 \in 1 .. n - 1 /\ ~(i - 1 < pos) /\ (i - 1) + 1 = i
      BY <2>4
    <3>2. rem[i - 1] = list[i]
      BY <3>1, <1>7
    <3> QED
      BY <3>1, <3>2, <2>1, <1>9
  <2> QED
    BY <2>2, <2>3, <2>4
<1>11. ASSUME NEW i \in 1 .. n - 1, NEW j \in 1 .. n - 1, i < j
       PROVE  Precedes(sz, rem[i], rem[j])
  <2>1. i \in 1 .. n /\ j \in 1 .. n /\ i + 1 \in 1 .. n /\ j + 1 \in 1 .. n
    OBVIOUS
  <2> QED
    BY <2>1, <1>5, <1>7, <1>11
<1> QED
  <2>1. fr \ {b} \subseteq DOMAIN sz
    BY <1>2
  <2> QED
    BY <2>1, <1>9, <1>10, <1>11 DEF FreeSpace, Sorted, rem

(* The list depends only on the sizes of the blocks in it.                 *)
LEMMA ListFrame ==
  ASSUME NEW sz, NEW sz2, NEW fr, NEW list, FreeSpace(sz, fr, list),
         fr \subseteq DOMAIN sz2, \A b \in fr : sz2[b] = sz[b]
  PROVE  FreeSpace(sz2, fr, list)
<1>1. \A i \in 1 .. Len(list) : list[i] \in fr
  BY DEF FreeSpace
<1>2. Sorted(sz2, list)
  <2> SUFFICES ASSUME NEW i \in 1 .. Len(list), NEW j \in 1 .. Len(list), i < j
               PROVE  Precedes(sz2, list[i], list[j])
    BY DEF Sorted
  <2>1. Precedes(sz, list[i], list[j])
    BY DEF FreeSpace, Sorted
  <2>2. sz2[list[i]] = sz[list[i]] /\ sz2[list[j]] = sz[list[j]]
    BY <1>1
  <2> QED
    BY <2>1, <2>2 DEF Precedes
<1> QED
  BY <1>2 DEF FreeSpace

----------------------------------------------------------------------------
(* Heaps: a tiling with its free blocks merged and listed.                 *)

(* A block is taken off the list.                                          *)
LEMMA RemoveHeap ==
  ASSUME NEW seg, NEW sz, NEW fr, NEW list, HeapOf(seg, sz, fr, list), NEW b \in fr
  PROVE  /\ HeapOf(seg, sz, fr \ {b}, remove_free_block(list, b))
         /\ b + sz[b] \notin fr
         /\ \A f \in fr : f + sz[f] # b
<1>1. FreeSpace(sz, fr \ {b}, remove_free_block(list, b))
  BY RemoveFree DEF HeapOf, Geometry
<1> QED
  BY <1>1 DEF HeapOf, Merged

(* A block without free neighbours is listed.                              *)
LEMMA InsertHeap ==
  ASSUME NEW seg, NEW sz, NEW fr, NEW list, HeapOf(seg, sz, fr, list),
         NEW b \in DOMAIN sz, b \notin fr, b + sz[b] \notin fr,
         \A f \in fr : f + sz[f] # b
  PROVE  HeapOf(seg, sz, fr \cup {b}, insert_free_block(list, sz, b))
<1>1. FreeSpace(sz, fr \cup {b}, insert_free_block(list, sz, b))
  BY InsertFree DEF HeapOf, Geometry
<1>2. b + sz[b] # b
  BY DEF HeapOf, Geometry
<1> QED
  BY <1>1, <1>2 DEF HeapOf, Merged

(* A block in use takes over the one behind it, which is off the list.     *)
LEMMA JoinHeap ==
  ASSUME NEW seg, NEW sz, NEW fr, NEW list, HeapOf(seg, sz, fr, list),
         NEW b \in DOMAIN sz, b \notin fr, NEW r \in DOMAIN sz, r \notin fr, r = b + sz[b]
  PROVE  /\ HeapOf(seg, Join(sz, b), fr, list)
         /\ DOMAIN Join(sz, b) = DOMAIN sz \ {r}
         /\ Join(sz, b)[b] = sz[b] + sz[r]
         /\ b + Join(sz, b)[b] = r + sz[r]
         /\ \A c \in DOMAIN sz \ {b, r} : Join(sz, b)[c] = sz[c]
<1>1. b \in Nat /\ r \in Nat /\ sz[b] \in Nat /\ sz[r] \in Nat /\ r # b
  BY DEF HeapOf, Geometry
<1>2. /\ DOMAIN Join(sz, b) = DOMAIN sz \ {r}
      /\ Join(sz, b)[b] = sz[b] + sz[r]
      /\ \A c \in DOMAIN sz \ {b, r} : Join(sz, b)[c] = sz[c]
  BY <1>1 DEF Join
<1>3. Geometry(Join(sz, b), seg)
  BY JoinGeometry DEF HeapOf
<1>4. fr \subseteq DOMAIN sz \ {b, r}
  BY DEF HeapOf, FreeSpace
<1>5. FreeSpace(Join(sz, b), fr, list)
  <2>1. fr \subseteq DOMAIN Join(sz, b) /\ \A c \in fr : Join(sz, b)[c] = sz[c]
    BY <1>2, <1>4
  <2> QED
    BY <2>1, ListFrame DEF HeapOf
<1>6. Merged(Join(sz, b), fr)
  BY <1>2, <1>4 DEF HeapOf, Merged
<1> QED
  BY <1>1, <1>2, <1>3, <1>5, <1>6 DEF HeapOf

(* A block in use is cut, and the rest of it listed.                       *)
LEMMA CutHeap ==
  ASSUME NEW seg, NEW sz, NEW fr, NEW list, HeapOf(seg, sz, fr, list),
         NEW b \in DOMAIN sz, b \notin fr, b + sz[b] \notin fr,
         NEW used \in Nat, used % 16 = 0, 32 <= used, used + 32 <= sz[b],
         NEW rest, rest = b + used
  PROVE  /\ HeapOf(seg, Cut(sz, b, used), fr \cup {rest},
                   insert_free_block(list, Cut(sz, b, used), rest))
         /\ rest \notin DOMAIN sz
<1> DEFINE cz == Cut(sz, b, used)
<1>1. b \in Nat /\ sz[b] \in Nat /\ fr \subseteq DOMAIN sz
  BY DEF HeapOf, Geometry, FreeSpace
<1>2. Geometry(cz, seg) /\ b + used \notin DOMAIN sz
  BY CutGeometry DEF HeapOf
<1>3. /\ DOMAIN cz = DOMAIN sz \cup {b + used}
      /\ cz[b] = used /\ cz[b + used] = sz[b] - used
      /\ \A c \in DOMAIN sz \ {b} : cz[c] = sz[c]
  BY <1>1, <1>2 DEF Cut
<1> HIDE DEF cz
<1>4. FreeSpace(cz, fr, list)
  <2>1. fr \subseteq DOMAIN cz /\ \A c \in fr : cz[c] = sz[c]
    BY <1>1, <1>3
  <2> QED
    BY <2>1, ListFrame DEF HeapOf
<1>5. Merged(cz, fr)
  BY <1>1, <1>3 DEF HeapOf, Merged
<1>6. PICK r \in DOMAIN cz : r = b + used
  BY <1>3
<1>7. r + cz[r] = b + sz[b]
  BY <1>1, <1>3, <1>6
<1>8. r \notin fr /\ r + cz[r] \notin fr
  BY <1>1, <1>2, <1>6, <1>7
<1>9. ASSUME NEW f \in fr PROVE f + cz[f] # r
  <2>1. f \in DOMAIN sz /\ f # b /\ cz[f] = sz[f]
    BY <1>1, <1>3
  <2>2. /\ f \in Nat /\ sz[f] \in Nat
        /\ (f < b => f + sz[f] <= b) /\ (b < f => b + sz[b] <= f)
    BY <2>1 DEF HeapOf, Geometry
  <2> QED
    BY <2>1, <2>2, <1>1, <1>6
<1>10. HeapOf(seg, cz, fr, list)
  BY <1>2, <1>4, <1>5 DEF HeapOf
<1>11. HeapOf(seg, cz, fr \cup {r}, insert_free_block(list, cz, r))
  BY <1>8, <1>9, <1>10, InsertHeap
<1> QED
  BY <1>2, <1>3, <1>6, <1>11 DEF cz

(* The last block, off the list, gets another size and the segment         *)
(* another end.                                                            *)
LEMMA ResizeHeap ==
  ASSUME NEW seg, NEW sz, NEW fr, NEW list, HeapOf(seg, sz, fr, list),
         NEW b \in DOMAIN sz, b \notin fr, b + sz[b] = seg,
         NEW k \in Nat, k % 16 = 0, 32 <= k
  PROVE  HeapOf(b + k, [sz EXCEPT ![b] = k], fr, list)
<1> DEFINE rz == [sz EXCEPT ![b] = k]
<1>1. b \in Nat /\ sz[b] \in Nat /\ fr \subseteq DOMAIN sz \ {b}
  BY DEF HeapOf, Geometry, FreeSpace
<1>2. DOMAIN rz = DOMAIN sz /\ rz[b] = k /\ \A c \in DOMAIN sz \ {b} : rz[c] = sz[c]
  BY DEF HeapOf, Geometry
<1>3. \A c \in DOMAIN sz \ {b} : c < b /\ c + sz[c] <= b /\ c + sz[c] \in DOMAIN sz
  BY DEF HeapOf, Geometry
<1>4. Geometry(rz, b + k)
  <2>1. /\ b + k \in Nat /\ DOMAIN rz \subseteq Nat /\ rz \in [DOMAIN rz -> Nat]
        /\ FirstBlock \in DOMAIN rz
    BY <1>1 DEF HeapOf, Geometry
  <2>2. ASSUME NEW c \in DOMAIN rz
        PROVE  /\ FirstBlock <= c /\ c % 16 = 0 /\ 32 <= rz[c] /\ rz[c] % 16 = 0
               /\ c + rz[c] <= b + k /\ c + rz[c] \in DOMAIN rz \cup {b + k}
    <3>1. CASE c = b
      BY <3>1, <1>1, <1>2 DEF HeapOf, Geometry
    <3>2. CASE c # b
      BY <3>2, <1>1, <1>2, <1>3 DEF HeapOf, Geometry
    <3> QED
      BY <3>1, <3>2
  <2>3. \A c, d \in DOMAIN rz : c < d => c + rz[c] <= d
    BY <1>1, <1>2, <1>3 DEF HeapOf, Geometry
  <2>4. ASSUME NEW c \in DOMAIN rz \ {FirstBlock}
        PROVE  \E d \in DOMAIN rz : d + rz[d] = c
    <3>1. PICK d \in DOMAIN sz : d + sz[d] = c
      BY <1>2 DEF HeapOf, Geometry
    <3>2. d # b
      BY <3>1, <1>2, <2>4 DEF HeapOf, Geometry
    <3> QED
      BY <3>1, <3>2, <1>2
  <2>5. \E d \in DOMAIN rz : d + rz[d] = b + k
    BY <1>2
  <2> QED
    BY <2>1, <2>2, <2>3, <2>4, <2>5 DEF Geometry
<1>5. FreeSpace(rz, fr, list)
  <2>1. fr \subseteq DOMAIN rz /\ \A c \in fr : rz[c] = sz[c]
    BY <1>1, <1>2
  <2> QED
    BY <2>1, ListFrame DEF HeapOf
<1>6. Merged(rz, fr)
  BY <1>1, <1>2 DEF HeapOf, Merged
<1> QED
  BY <1>4, <1>5, <1>6 DEF HeapOf

(* A block is added at the end of the segment.                             *)
Extended(sz, seg, k) == [c \in DOMAIN sz \cup {seg} |-> IF c = seg THEN k ELSE sz[c]]

(* A free block is added behind the last one, which is in use.             *)
LEMMA AppendHeap ==
  ASSUME NEW seg, NEW sz, NEW fr, NEW list, HeapOf(seg, sz, fr, list),
         NEW k \in Nat, k % 16 = 0, 32 <= k,
         \A b \in DOMAIN sz : b + sz[b] = seg => b \notin fr
  PROVE  /\ HeapOf(seg + k, Extended(sz, seg, k), fr \cup {seg},
                   insert_free_block(list, Extended(sz, seg, k), seg))
         /\ seg \notin DOMAIN sz
         /\ DOMAIN Extended(sz, seg, k) = DOMAIN sz \cup {seg}
         /\ \A c \in DOMAIN sz : Extended(sz, seg, k)[c] = sz[c]
<1> DEFINE az == Extended(sz, seg, k)
<1>1. seg \in Nat /\ seg \notin DOMAIN sz /\ fr \subseteq DOMAIN sz
  <2>1. \A c \in DOMAIN sz : c \in Nat /\ sz[c] \in Nat /\ 32 <= sz[c] /\ c + sz[c] <= seg
    BY DEF HeapOf, Geometry
  <2>2. seg \in Nat /\ fr \subseteq DOMAIN sz
    BY DEF HeapOf, Geometry, FreeSpace
  <2>3. \A c \in DOMAIN sz : c # seg
    BY <2>1, <2>2
  <2> QED
    BY <2>2, <2>3
<1>2. /\ DOMAIN az = DOMAIN sz \cup {seg} /\ az[seg] = k
      /\ \A c \in DOMAIN sz : az[c] = sz[c]
  BY <1>1 DEF Extended
<1>3. PICK t \in DOMAIN sz : t + sz[t] = seg
  BY DEF HeapOf, Geometry
<1>4. seg % 16 = 0 /\ FirstBlock <= seg /\ FirstBlock # seg
  <2>1. t \in Nat /\ sz[t] \in Nat /\ t % 16 = 0 /\ sz[t] % 16 = 0 /\ FirstBlock <= t /\ 32 <= sz[t]
    BY DEF HeapOf, Geometry
  <2> QED
    BY <2>1, <1>3, FirstFacts
<1>5. Geometry(az, seg + k)
  <2>1. /\ seg + k \in Nat /\ DOMAIN az \subseteq Nat /\ az \in [DOMAIN az -> Nat]
        /\ FirstBlock \in DOMAIN az
    <3>1. \A c \in DOMAIN az : az[c] \in Nat
      BY <1>2 DEF HeapOf, Geometry
    <3>2. az = [c \in DOMAIN az |-> az[c]]
      BY <1>2 DEF Extended
    <3> QED
      BY <1>1, <1>2, <3>1, <3>2 DEF HeapOf, Geometry
  <2>2. ASSUME NEW c \in DOMAIN az
        PROVE  /\ FirstBlock <= c /\ c % 16 = 0 /\ 32 <= az[c] /\ az[c] % 16 = 0
               /\ c + az[c] <= seg + k /\ c + az[c] \in DOMAIN az \cup {seg + k}
    <3>1. CASE c = seg
      BY <3>1, <1>1, <1>2, <1>4
    <3>2. CASE c \in DOMAIN sz
      <4>1. /\ FirstBlock <= c /\ c % 16 = 0 /\ 32 <= sz[c] /\ sz[c] % 16 = 0
            /\ c \in Nat /\ sz[c] \in Nat
            /\ c + sz[c] <= seg /\ c + sz[c] \in DOMAIN sz \cup {seg}
        BY <3>2 DEF HeapOf, Geometry
      <4> QED
        BY <4>1, <3>2, <1>1, <1>2
    <3> QED
      BY <3>1, <3>2, <1>2
  <2>3. \A c, d \in DOMAIN az : c < d => c + az[c] <= d
    BY <1>1, <1>2 DEF HeapOf, Geometry
  <2>4. ASSUME NEW c \in DOMAIN az \ {FirstBlock}
        PROVE  \E d \in DOMAIN az : d + az[d] = c
    <3>1. CASE c = seg
      BY <3>1, <1>2, <1>3
    <3>2. CASE c \in DOMAIN sz
      BY <3>2, <1>2 DEF HeapOf, Geometry
    <3> QED
      BY <3>1, <3>2, <1>2
  <2>5. \E d \in DOMAIN az : d + az[d] = seg + k
    BY <1>2
  <2> QED
    BY <2>1, <2>2, <2>3, <2>4, <2>5 DEF Geometry
<1>6. HeapOf(seg + k, az, fr, list)
  <2>1. FreeSpace(az, fr, list)
    <3>1. fr \subseteq DOMAIN az /\ \A c \in fr : az[c] = sz[c]
      BY <1>1, <1>2
    <3> QED
      BY <3>1, ListFrame DEF HeapOf
  <2>2. Merged(az, fr)
    BY <1>1, <1>2 DEF HeapOf, Merged
  <2> QED
    BY <2>1, <2>2, <1>5 DEF HeapOf
<1> HIDE DEF az
<1>7. seg \in DOMAIN az /\ seg \notin fr /\ seg + az[seg] \notin fr
  BY <1>1, <1>2 DEF HeapOf, Geometry
<1>8. \A f \in fr : f + az[f] # seg
  BY <1>1, <1>2
<1> QED
  BY <1>1, <1>2, <1>6, <1>7, <1>8, InsertHeap DEF az

(* The last block goes, and the segment ends where it began.               *)
Front(sz, b) == [c \in DOMAIN sz \ {b} |-> sz[c]]

(* The last block, already out of the list, is cut off.                    *)
LEMMA DropHeap ==
  ASSUME NEW seg, NEW sz, NEW fr, NEW list, HeapOf(seg, sz, fr, list),
         NEW b \in DOMAIN sz, b \notin fr, b + sz[b] = seg, b # FirstBlock
  PROVE  HeapOf(b, Front(sz, b), fr, list)
<1> DEFINE dz == Front(sz, b)
<1>1. b \in Nat /\ sz[b] \in Nat /\ fr \subseteq DOMAIN sz \ {b}
  BY DEF HeapOf, Geometry, FreeSpace
<1>2. DOMAIN dz = DOMAIN sz \ {b} /\ \A c \in DOMAIN dz : dz[c] = sz[c]
  BY DEF Front
<1>3. \A c \in DOMAIN dz : c < b /\ c + sz[c] <= b /\ c + sz[c] \in DOMAIN sz
  BY <1>2 DEF HeapOf, Geometry
<1>4. Geometry(dz, b)
  <2>1. /\ b \in Nat /\ DOMAIN dz \subseteq Nat /\ dz \in [DOMAIN dz -> Nat]
        /\ FirstBlock \in DOMAIN dz
    BY <1>1, <1>2 DEF HeapOf, Geometry, Front
  <2>2. ASSUME NEW c \in DOMAIN dz
        PROVE  /\ FirstBlock <= c /\ c % 16 = 0 /\ 32 <= dz[c] /\ dz[c] % 16 = 0
               /\ c + dz[c] <= b /\ c + dz[c] \in DOMAIN dz \cup {b}
    BY <1>2, <1>3 DEF HeapOf, Geometry
  <2>3. \A c, d \in DOMAIN dz : c < d => c + dz[c] <= d
    BY <1>2 DEF HeapOf, Geometry
  <2>4. ASSUME NEW c \in DOMAIN dz \ {FirstBlock}
        PROVE  \E d \in DOMAIN dz : d + dz[d] = c
    <3>1. PICK d \in DOMAIN sz : d + sz[d] = c
      BY <1>2 DEF HeapOf, Geometry
    <3>2. d # b
      BY <3>1, <1>1, <1>2, <1>3, <2>4 DEF HeapOf, Geometry
    <3> QED
      BY <3>1, <3>2, <1>2
  <2>5. \E d \in DOMAIN dz : d + dz[d] = b
    <3>1. PICK d \in DOMAIN sz : d + sz[d] = b
      BY DEF HeapOf, Geometry
    <3>2. d # b
      BY <3>1, <1>1 DEF HeapOf, Geometry
    <3> QED
      BY <3>1, <3>2, <1>2
  <2> QED
    BY <2>1, <2>2, <2>3, <2>4, <2>5 DEF Geometry
<1>5. FreeSpace(dz, fr, list)
  <2>1. fr \subseteq DOMAIN dz /\ \A c \in fr : dz[c] = sz[c]
    BY <1>1, <1>2
  <2> QED
    BY <2>1, ListFrame DEF HeapOf
<1>6. Merged(dz, fr)
  BY <1>1, <1>2 DEF HeapOf, Merged
<1> QED
  BY <1>4, <1>5, <1>6 DEF HeapOf

----------------------------------------------------------------------------
(* Allocation headers and payloads.                                        *)

Used == Blocks \ is_free

(* What IInv says of blocks and payloads, in the form the proofs use.      *)
LEMMA BlockFacts ==
  ASSUME IInv, NEW b \in Blocks
  PROVE  /\ b \in Nat /\ size[b] \in Nat /\ 32 <= size[b] /\ End(b) = b + size[b]
         /\ b + size[b] <= segment_size /\ segment_size \in Nat
         /\ b + size[b] \in Blocks \cup {segment_size}
         /\ b % 16 = 0 /\ size[b] % 16 = 0 /\ FirstBlock <= b
         /\ \A c \in Blocks : b < c => b + size[b] <= c
BY DEF IInv, HeapOf, Geometry, Blocks, End

(* A payload lies in a block in use, above both headers, and has the block *)
(* to itself.                                                              *)
LEMMA LiveFacts ==
  ASSUME IInv, NEW q \in live
  PROVE  /\ q \in Nat /\ q \in DOMAIN header
         /\ header[q].block \in Used
         /\ header[q].block \in Blocks
         /\ header[q].block \notin is_free
         /\ header[q].requested_size \in Nat
         /\ header[q].block + 48 <= q
         /\ q + header[q].requested_size <= header[q].block + size[header[q].block]
         /\ \A p \in live : header[p].block = header[q].block => p = q
BY DEF IInv, HeaderTypes, PayloadsSafe, Used, End, BlockHeaderSize, AllocationHeaderSize

(* A payload and its header lie outside of every other block.              *)
LEMMA LiveApart ==
  ASSUME IInv, NEW q \in live, NEW b \in Blocks, header[q].block # b
  PROVE  q <= b \/ b + size[b] + 48 <= q
<1>1. PICK c \in Blocks : c = header[q].block
  BY LiveFacts
<1>2. c + 48 <= q /\ q <= c + size[c] /\ q \in Nat
  <2>1. /\ q \in Nat /\ header[q].requested_size \in Nat /\ header[q].block + 48 <= q
        /\ q + header[q].requested_size <= header[q].block + size[header[q].block]
    BY LiveFacts
  <2>2. c \in Nat /\ size[c] \in Nat
    BY BlockFacts
  <2> QED
    BY <2>1, <2>2, <1>1
<1>3. /\ c \in Nat /\ size[c] \in Nat /\ b \in Nat /\ size[b] \in Nat
      /\ (b < c => b + size[b] <= c) /\ (c < b => c + size[c] <= b) /\ b # c
  BY <1>1, BlockFacts
<1> QED
  BY <1>2, <1>3

(* The AllocationHeader of p is written; those of payloads outside of the  *)
(* bytes from b to lim stay.                                               *)
LEMMA HeaderWritten ==
  ASSUME IInv, NEW b \in Nat, NEW lim \in Nat, NEW p \in Nat, NEW n \in Nat,
         b + 48 <= p, p <= lim,
         NEW kept, NEW rest \in SUBSET live, kept \subseteq DOMAIN header,
         rest \subseteq kept, \A q \in rest : q <= b \/ lim + 48 <= q,
         WriteHeader(p, b, n, kept)
  PROVE  /\ DOMAIN header' \subseteq Nat
         /\ header' \in [DOMAIN header' -> [block : Nat, requested_size : Nat]]
         /\ p \in DOMAIN header'
         /\ header'[p] = [block |-> b, requested_size |-> n]
         /\ \A q \in rest : q \in DOMAIN header' /\ header'[q] = header[q]
<1> DEFINE D == (kept \cap Survivors(p - AllocationHeaderSize, p)) \cup {p}
<1>1. header' = [q \in D |-> IF q = p THEN [block |-> b, requested_size |-> n] ELSE header[q]]
  BY DEF WriteHeader
<1>2. D \subseteq DOMAIN header \cup {p}
  BY DEF Survivors
<1>3. DOMAIN header \subseteq Nat /\ header \in [DOMAIN header -> [block : Nat, requested_size : Nat]]
  BY DEF IInv, HeaderTypes
<1>4. ASSUME NEW q \in rest PROVE q \in D /\ q # p
  <2>1. q \in DOMAIN header /\ q \in Nat /\ (q <= b \/ lim + 48 <= q)
    BY <1>3
  <2>2. q <= p - 16 \/ p <= q - 16
    BY <2>1
  <2> QED
    BY <2>1, <2>2 DEF Survivors, AllocationHeaderSize
<1> HIDE DEF D
<1>5. DOMAIN header' = D
  BY <1>1
<1>6. \A q \in D : header'[q] \in [block : Nat, requested_size : Nat]
  BY <1>1, <1>2, <1>3
<1>7. header' \in [D -> [block : Nat, requested_size : Nat]]
  BY <1>1, <1>6
<1>8. p \in D
  BY DEF D
<1> QED
  BY <1>1, <1>2, <1>3, <1>4, <1>5, <1>7, <1>8

(* The BlockHeader that a split writes spares them too.                    *)
LEMMA SplitSpares ==
  ASSUME IInv, NEW b \in Nat, NEW total \in Nat, NEW used \in Nat,
         NEW rest \in SUBSET live,
         \A q \in rest : q <= b \/ b + total + 48 <= q
  PROVE  /\ KeptBySplit(b, total, used) \subseteq DOMAIN header
         /\ rest \subseteq KeptBySplit(b, total, used)
<1>1. rest \subseteq DOMAIN header /\ rest \subseteq Nat
  BY LiveFacts
<1>2. CASE total - used < 48
  BY <1>1, <1>2 DEF KeptBySplit, MinFreeBlock, BlockHeaderSize, Alignment
<1>3. CASE ~(total - used < 48)
  <2>1. KeptBySplit(b, total, used) = Survivors(b + used, b + used + 32)
    BY <1>3 DEF KeptBySplit, MinFreeBlock, BlockHeaderSize, Alignment
  <2>2. \A q \in rest : q <= b + used \/ b + used + 32 <= q - 16
    BY <1>1, <1>3
  <2> QED
    BY <2>1, <2>2, <1>1 DEF Survivors, AllocationHeaderSize
<1> QED
  BY <1>2, <1>3

(* split_allocated_block keeps a heap, given as base, fr and list, in      *)
(* which block b is off the list and has no free block behind it.          *)
LEMMA SplitHeap ==
  ASSUME NEW base, NEW fr, NEW list, HeapOf(segment_size, base, fr, list),
         NEW b \in DOMAIN base, b \notin fr, b + base[b] \notin fr,
         NEW used \in Nat, used % 16 = 0, 48 <= used, used <= base[b],
         NEW total, total = base[b], NEW others, others = DOMAIN base,
         SplitAllocated(b, total, used, others, list),
         fr = (is_free \cap others) \ {b},
         \A c \in others \ {b} : base[c] = size[c]
  PROVE  /\ HeapOf(segment_size, size', is_free', free_list')
         /\ DOMAIN size' \ is_free' = DOMAIN base \ fr
         /\ used <= size'[b]
         /\ \A c \in DOMAIN base \ fr : c # b => size'[c] = base[c]
<1>1. /\ b \in Nat /\ base[b] \in Nat /\ base[b] % 16 = 0
      /\ base = [c \in DOMAIN base |-> base[c]]
  BY DEF HeapOf, Geometry
<1>2. CASE total - used < 48
  <2>1. size' = base /\ is_free' = fr /\ free_list' = list
    <3>1. /\ size' = [c \in others |-> IF c = b THEN total ELSE size[c]]
          /\ is_free' = (is_free \cap others) \ {b} /\ free_list' = list
      BY <1>2 DEF SplitAllocated, MinFreeBlock, BlockHeaderSize, Alignment
    <3>2. size' = [c \in DOMAIN base |-> base[c]]
      BY <3>1
    <3> QED
      BY <3>1, <3>2, <1>1
  <2> QED
    BY <2>1
<1>3. CASE ~(total - used < 48)
  <2>0. PICK r : r = b + used
    OBVIOUS
  <2>1. /\ size' = Cut(base, b, used) /\ is_free' = fr \cup {b + used}
        /\ free_list' = insert_free_block(list, size', b + used)
    <3>1. /\ size' = [c \in others \cup {b + used} |->
                        IF c = b THEN used
                        ELSE IF c = b + used THEN total - used ELSE size[c]]
          /\ is_free' = ((is_free \cap others) \ {b}) \cup {b + used}
          /\ free_list' = insert_free_block(list, size', b + used)
      BY <1>3 DEF SplitAllocated, MinFreeBlock, BlockHeaderSize, Alignment
    <3>2. size' = Cut(base, b, used)
      BY <3>1 DEF Cut
    <3> QED
      BY <3>1, <3>2
  <2>2. used + 32 <= base[b] /\ 32 <= used
    BY <1>1, <1>3
  <2>3. /\ HeapOf(segment_size, Cut(base, b, used), fr \cup {r},
                  insert_free_block(list, Cut(base, b, used), r))
        /\ r \notin DOMAIN base
    BY <2>0, <2>2, CutHeap
  <2>4. /\ DOMAIN Cut(base, b, used) = DOMAIN base \cup {r}
        /\ Cut(base, b, used)[b] = used
        /\ \A c \in DOMAIN base \ {b} : Cut(base, b, used)[c] = base[c]
    BY <2>0, <2>3 DEF Cut
  <2> QED
    BY <2>0, <2>1, <2>3, <2>4
<1> QED
  BY <1>2, <1>3

----------------------------------------------------------------------------
(* One allocation, one deallocation, one expansion.                        *)

Heap == HeapOf(segment_size, size, is_free, free_list)

Spared(S) == \A q \in S : q \in DOMAIN header' /\ header'[q] = header[q]

(* PayloadsSafe with its numbers worked out.                               *)
LEMMA SafeAgain ==
  ASSUME HeaderTypes',
         \A q \in live' :
           /\ q \in DOMAIN header'
           /\ header'[q].block \in DOMAIN size' \ is_free'
           /\ header'[q].block + 48 <= q
           /\ q + header'[q].requested_size <= header'[q].block + size'[header'[q].block],
         \A q, s \in live' : header'[q].block = header'[s].block => q = s,
         \A c \in DOMAIN size' \ is_free' : \E q \in live' : header'[q].block = c
  PROVE  PayloadsSafe'
<1>1. \A q \in live' : header'[q].block + 32 + 16 <= q
  <2>1. \A q \in live' : q \in Nat /\ header'[q].block \in Nat
    BY DEF HeaderTypes
  <2> QED
    BY <2>1
<1> QED
  BY <1>1 DEF PayloadsSafe, Blocks, End, BlockHeaderSize, AllocationHeaderSize

(* One payload comes, in the free block that was chosen for it.            *)
LEMMA AllocateStep ==
  ASSUME Fitting, IInv, NEW b \in is_free, NEW n \in Requests, NEW a \in Alignments,
         LayoutSize(b, n, a) <= size[b], allocate_from_block(b, n, a)
  PROVE  /\ Heap' /\ HeaderTypes' /\ PayloadsSafe'
         /\ Payload(b, a) \notin live /\ Payload(b, a) \in Nat
         /\ live' = live \cup {Payload(b, a)}
         /\ Spared(live)
         /\ DOMAIN size' \ is_free' = Used \cup {b}
         /\ \A c \in Used : size'[c] = size[c]
         /\ header'[Payload(b, a)].block = b /\ segment_size' = segment_size
<1>1. b \in Blocks /\ Heap
  BY DEF IInv, Heap, HeapOf, FreeSpace, Blocks
<1>2. PICK p \in Nat : p = Payload(b, a)
  BY <1>1, BlockFacts, LayoutFacts
<1>3. PICK used \in Nat : used = LayoutSize(b, n, a)
  BY <1>1, BlockFacts, LayoutFacts
<1>4. /\ n \in Nat /\ 1 <= n /\ b + 48 <= p /\ p + n <= b + used /\ used % 16 = 0
      /\ used <= size[b]
  BY <1>1, <1>2, <1>3, BlockFacts, LayoutFacts
<1>5. b \in Nat /\ size[b] \in Nat
  BY <1>1, BlockFacts
<1>6. /\ SplitAllocated(b, size[b], used, Blocks, remove_free_block(free_list, b))
      /\ WriteHeader(p, b, n, KeptBySplit(b, size[b], used))
      /\ live' = live \cup {p} /\ segment_size' = segment_size
  BY <1>2, <1>3 DEF allocate_from_block
<1>7. /\ HeapOf(segment_size, size', is_free', free_list')
      /\ DOMAIN size' \ is_free' = DOMAIN size \ (is_free \ {b})
      /\ used <= size'[b]
      /\ \A c \in DOMAIN size \ (is_free \ {b}) : c # b => size'[c] = size[c]
  <2>1. PICK fr : fr = is_free \ {b}
    OBVIOUS
  <2>2. PICK list : list = remove_free_block(free_list, b)
    OBVIOUS
  <2>3. HeapOf(segment_size, size, fr, list) /\ b + size[b] \notin is_free
    BY <1>1, <2>1, <2>2, RemoveHeap DEF Heap
  <2>4. b \in DOMAIN size /\ b \notin fr /\ b + size[b] \notin fr /\ fr = (is_free \cap Blocks) \ {b}
    BY <1>1, <2>1, <2>3 DEF Heap, HeapOf, FreeSpace, Blocks
  <2>5. 48 <= used
    BY <1>4, <1>5
  <2>6. SplitAllocated(b, size[b], used, DOMAIN size, list)
    BY <1>6, <2>2 DEF Blocks
  <2>7. /\ HeapOf(segment_size, size', is_free', free_list')
        /\ DOMAIN size' \ is_free' = DOMAIN size \ fr
        /\ used <= size'[b]
        /\ \A c \in DOMAIN size \ fr : c # b => size'[c] = size[c]
    BY <1>4, <2>3, <2>4, <2>5, <2>6, SplitHeap DEF Blocks
  <2> QED
    BY <2>1, <2>7
<1>8. ASSUME NEW q \in live
      PROVE  /\ header[q].block # b /\ q \in Nat
             /\ q <= b \/ b + size[b] + 48 <= q
  BY <1>1, LiveFacts, LiveApart
<1>9. p \notin live
  BY <1>4, <1>5, <1>8
<1>10. /\ DOMAIN header' \subseteq Nat
       /\ header' \in [DOMAIN header' -> [block : Nat, requested_size : Nat]]
       /\ p \in DOMAIN header'
       /\ header'[p] = [block |-> b, requested_size |-> n]
       /\ \A q \in live : q \in DOMAIN header' /\ header'[q] = header[q]
  <2>1. PICK lim \in Nat : lim = b + size[b]
    BY <1>5
  <2>2. PICK kept : kept = KeptBySplit(b, size[b], used)
    OBVIOUS
  <2>3. kept \subseteq DOMAIN header /\ live \subseteq kept
    BY <1>5, <1>8, <2>2, SplitSpares
  <2>4. p <= lim /\ \A q \in live : q <= b \/ lim + 48 <= q
    BY <1>4, <1>5, <1>8, <2>1
  <2>5. WriteHeader(p, b, n, kept)
    BY <1>6, <2>2
  <2> QED
    BY <1>4, <1>5, <2>3, <2>4, <2>5, HeaderWritten
<1>11. HeaderTypes'
  BY <1>6, <1>10 DEF HeaderTypes, IInv
<1>12. PayloadsSafe'
  <2>1. ASSUME NEW q \in live
        PROVE  /\ q \in DOMAIN header' /\ header'[q] = header[q]
               /\ header[q].block \in DOMAIN size' \ is_free'
               /\ header[q].block + 48 <= q
               /\ q + header[q].requested_size <= header[q].block + size'[header[q].block]
               /\ header[q].block # b
    <3>1. PICK c \in Blocks : c = header[q].block
      BY LiveFacts
    <3>2. c \notin is_free /\ c # b /\ c + 48 <= q /\ q + header[q].requested_size <= c + size[c]
      BY <3>1, <1>8, LiveFacts
    <3>3. c \in DOMAIN size' \ is_free' /\ size'[c] = size[c]
      BY <3>2, <1>7 DEF Blocks
    <3> QED
      BY <3>1, <3>2, <3>3, <1>10
  <2>2. p + n <= b + size'[b] /\ b \in DOMAIN size' \ is_free'
    <3>1. size'[b] \in Nat /\ b \in DOMAIN size' \ is_free'
      BY <1>1, <1>7 DEF HeapOf, Geometry, Blocks
    <3> QED
      BY <3>1, <1>4, <1>5, <1>7
  <2>3. header'[p].block = b /\ header'[p].requested_size = n
    BY <1>10
  <2>4. \A q \in live' :
          /\ q \in DOMAIN header'
          /\ header'[q].block \in DOMAIN size' \ is_free'
          /\ header'[q].block + 48 <= q
          /\ q + header'[q].requested_size <= header'[q].block + size'[header'[q].block]
    BY <1>4, <1>6, <1>10, <2>1, <2>2, <2>3
  <2>5. \A q, s \in live' : header'[q].block = header'[s].block => q = s
    <3>1. \A q, s \in live : header[q].block = header[s].block => q = s
      BY DEF IInv, PayloadsSafe
    <3> QED
      BY <3>1, <1>6, <2>1, <2>3
  <2>6. ASSUME NEW c \in DOMAIN size' \ is_free' PROVE \E q \in live' : header'[q].block = c
    <3>1. CASE c = b
      BY <3>1, <1>6, <2>3
    <3>2. CASE c # b
      <4>1. PICK q \in live : header[q].block = c
        BY <3>2, <1>7 DEF IInv, PayloadsSafe, Blocks
      <4> QED
        BY <4>1, <1>6, <2>1
    <3> QED
      BY <3>1, <3>2
  <2> QED
    BY <1>11, <2>4, <2>5, <2>6, SafeAgain
<1>13. Heap'
  BY <1>6, <1>7 DEF Heap
<1>14. DOMAIN size' \ is_free' = Used \cup {b} /\ \A c \in Used : size'[c] = size[c]
  BY <1>1, <1>7 DEF Used, Blocks
<1>15. header'[p].block = b
  BY <1>10
<1> QED
  BY <1>2, <1>6, <1>9, <1>10, <1>11, <1>12, <1>13, <1>14, <1>15 DEF Spared

(* The scan of the free list settles on a free block that fits.            *)
LEMMA ChosenFits ==
  ASSUME IInv, NEW n, NEW a, ~OutOfMemory(n, a)
  PROVE  /\ ChosenBlock(n, a) \in is_free
         /\ LayoutSize(ChosenBlock(n, a), n, a) <= size[ChosenBlock(n, a)]
<1>1. FittingEntries(n, a) \in SUBSET Nat /\ FittingEntries(n, a) # {}
  BY DEF FittingEntries, OutOfMemory
<1>2. PICK i \in FittingEntries(n, a) : i = Least(FittingEntries(n, a))
  BY <1>1, LeastExists
<1>3. Fits(free_list[i], n, a)
  BY <1>2 DEF FittingEntries
<1> QED
  BY <1>2, <1>3 DEF Fits, FreeAt, ChosenBlock

(* The free block before b takes b over.                                   *)
LEMMA JoinPrevious ==
  ASSUME NEW seg, NEW sz, NEW fr, NEW list, HeapOf(seg, sz, fr, list),
         NEW b \in DOMAIN sz, b \notin fr, b + sz[b] \notin fr,
         NEW prev \in fr, prev + sz[prev] = b
  PROVE  HeapOf(seg, Join(sz, prev), fr,
                insert_free_block(remove_free_block(list, prev), Join(sz, prev), prev))
<1> DEFINE jz == Join(sz, prev)
<1> DEFINE rest == fr \ {prev}
<1> DEFINE list2 == remove_free_block(list, prev)
<1>1. /\ HeapOf(seg, sz, rest, list2)
      /\ \A f \in fr : f + sz[f] # prev
      /\ fr \subseteq DOMAIN sz
  <2>1. HeapOf(seg, sz, rest, list2) /\ \A f \in fr : f + sz[f] # prev
    BY RemoveHeap
  <2> QED
    BY <2>1 DEF HeapOf, FreeSpace
<1>2. prev \in DOMAIN sz /\ prev \notin rest /\ b \notin rest
  BY <1>1
<1> HIDE DEF rest, list2
<1>3. HeapOf(seg, jz, rest, list2)
  BY <1>1, <1>2, JoinHeap
<1>4. /\ prev \in Nat /\ sz[prev] \in Nat /\ b \in Nat /\ sz[b] \in Nat /\ prev # b
  BY <1>2 DEF HeapOf, Geometry
<1>5. /\ DOMAIN jz = DOMAIN sz \ {b} /\ jz[prev] = sz[prev] + sz[b]
      /\ \A c \in DOMAIN sz \ {prev, b} : jz[c] = sz[c]
  <2>1. jz = [c \in DOMAIN sz \ {b} |-> IF c = prev THEN sz[prev] + sz[b] ELSE sz[c]]
    BY DEF Join
  <2> QED
    BY <2>1, <1>2, <1>4
<1>6. prev + jz[prev] = b + sz[b]
  BY <1>4, <1>5
<1> HIDE DEF jz
<1>7. /\ prev \in DOMAIN jz /\ prev + jz[prev] \notin rest
      /\ \A f \in rest : f + jz[f] # prev
  BY <1>1, <1>2, <1>4, <1>5, <1>6 DEF rest
<1>8. HeapOf(seg, jz, rest \cup {prev}, insert_free_block(list2, jz, prev))
  BY <1>2, <1>3, <1>7, InsertHeap
<1>9. rest \cup {prev} = fr
  BY DEF rest
<1> QED
  BY <1>8, <1>9 DEF jz, list2

(* The walk along the chain finds the block before b, if there is one.     *)
LEMMA PreviousFacts ==
  ASSUME IInv, NEW target
  PROVE  \/ /\ physical_previous(target) \in Blocks
            /\ physical_previous(target) + size[physical_previous(target)] = target
            /\ physical_previous(target) # NoBlock
         \/ /\ physical_previous(target) = NoBlock
            /\ \A c \in Blocks : c + size[c] # target
<1>1. \A c \in Blocks : WellFormed(c) /\ End(c) = c + size[c] /\ c \in Nat
  BY BlockFacts DEF WellFormed, BlockHeaderSize, Alignment
<1>2. WalkReaches(target)
  BY <1>1 DEF WalkReaches
<1>3. CASE \E c \in Blocks : End(c) = target
  <2>1. physical_previous(target) = CHOOSE c \in Blocks : End(c) = target
    BY <1>2, <1>3 DEF physical_previous
  <2>2. physical_previous(target) \in Blocks /\ End(physical_previous(target)) = target
    BY <1>3, <2>1
  <2> QED
    BY <2>2, <1>1 DEF NoBlock
<1>4. CASE ~\E c \in Blocks : End(c) = target
  BY <1>4, <1>1 DEF physical_previous
<1> QED
  BY <1>3, <1>4

(* No two blocks end at the same place.                                    *)
LEMMA EndsDiffer ==
  ASSUME IInv, NEW b \in Blocks, NEW c \in Blocks, b + size[b] = c + size[c]
  PROVE  b = c
<1>1. /\ b \in Nat /\ c \in Nat /\ size[b] \in Nat /\ size[c] \in Nat
      /\ 32 <= size[b] /\ 32 <= size[c]
      /\ (b < c => b + size[b] <= c) /\ (c < b => c + size[c] <= b)
  BY BlockFacts
<1> QED
  BY <1>1

(* deallocate_block takes one block out of use, whichever of its           *)
(* neighbours it merges with.                                              *)
LEMMA DeallocateHeap ==
  ASSUME IInv, NEW b \in Used, deallocate_block(b)
  PROVE  /\ Heap'
         /\ header' = header /\ segment_size' = segment_size
         /\ DOMAIN size' \ is_free' = Used \ {b}
         /\ \A c \in Used \ {b} : size'[c] = size[c]
<1> DEFINE next == physical_next(b)
<1> DEFINE prev == physical_previous(b)
<1> DEFINE absorbed == IF next # NoBlock /\ FreeAt(next) THEN {next} ELSE {}
<1> DEFINE merged == IF prev # NoBlock /\ FreeAt(prev) THEN prev ELSE b
<1> DEFINE end == IF absorbed = {} THEN End(b) ELSE End(next)
<1> DEFINE gone == absorbed \cup ({b} \ {merged})
<1> DEFINE list == IF absorbed = {} THEN free_list ELSE remove_free_block(free_list, next)
<1> DEFINE unlisted == IF merged = b THEN list ELSE remove_free_block(list, prev)
<1>1. /\ size' = [c \in Blocks \ gone |-> IF c = merged THEN end - merged ELSE size[c]]
      /\ is_free' = (is_free \ gone) \cup {merged}
      /\ free_list' = insert_free_block(unlisted, size', merged)
      /\ segment_size' = segment_size /\ header' = header
  BY DEF deallocate_block
<1>2. /\ b \in Blocks /\ b \notin is_free /\ Heap /\ is_free \subseteq Blocks
      /\ size = [c \in Blocks |-> size[c]]
  BY DEF Used, IInv, Heap, HeapOf, FreeSpace, Geometry, Blocks
<1>3. /\ b \in Nat /\ size[b] \in Nat /\ 32 <= size[b] /\ End(b) = b + size[b]
      /\ b + size[b] <= segment_size /\ segment_size \in Nat
      /\ b + size[b] \in Blocks \cup {segment_size}
      /\ \A c \in Blocks : c \in Nat /\ size[c] \in Nat /\ 32 <= size[c] /\ c + size[c] <= segment_size
  BY <1>2, BlockFacts
(* First the block behind b.                                               *)
<1>4. PICK sz1, fr1, list1 :
        /\ HeapOf(segment_size, sz1, fr1, list1)
        /\ b \in DOMAIN sz1 /\ b \notin fr1 /\ b + sz1[b] \notin fr1
        /\ DOMAIN sz1 = Blocks \ absorbed /\ fr1 = is_free \ absorbed /\ list1 = list
        /\ sz1 = [c \in DOMAIN sz1 |-> sz1[c]]
        /\ \A c \in DOMAIN sz1 \ {b} : sz1[c] = size[c]
        /\ b + sz1[b] = end /\ sz1[b] \in Nat
        /\ b \notin absorbed /\ \A c \in absorbed : b < c /\ c \in is_free
  <2>1. CASE next # NoBlock /\ FreeAt(next)
    <3>1. next = b + size[b] /\ next \in is_free /\ next \in Blocks
      BY <2>1, <1>2, <1>3 DEF physical_next, FreeAt
    <3>2. PICK r \in is_free : r = b + size[b] /\ r = next /\ r \in Blocks
      BY <3>1
    <3>3. absorbed = {r} /\ end = r + size[r] /\ list = remove_free_block(free_list, r)
      BY <2>1, <3>2 DEF End
    <3> HIDE DEF next, absorbed, end, list
    <3>4. /\ HeapOf(segment_size, size, is_free \ {r}, remove_free_block(free_list, r))
          /\ r + size[r] \notin is_free
      BY <1>2, RemoveHeap DEF Heap
    <3>5. r \in Nat /\ size[r] \in Nat /\ r # b /\ b < r
      BY <3>2, <1>3
    <3>6. HeapOf(segment_size, Join(size, b), is_free \ {r}, remove_free_block(free_list, r))
      <4>1. PICK fr : fr = is_free \ {r}
        OBVIOUS
      <4>2. PICK l : l = remove_free_block(free_list, r)
        OBVIOUS
      <4>3. /\ HeapOf(segment_size, size, fr, l) /\ b \in DOMAIN size /\ b \notin fr
            /\ r \in DOMAIN size /\ r \notin fr /\ r = b + size[b]
        BY <3>2, <3>4, <4>1, <4>2, <1>2 DEF Blocks
      <4>4. HeapOf(segment_size, Join(size, b), fr, l)
        BY <4>3, JoinHeap
      <4> QED
        BY <4>1, <4>2, <4>4
    <3>7. /\ DOMAIN Join(size, b) = Blocks \ {r} /\ Join(size, b)[b] = size[b] + size[r]
          /\ \A c \in Blocks \ {b, r} : Join(size, b)[c] = size[c]
          /\ Join(size, b) = [c \in DOMAIN Join(size, b) |-> Join(size, b)[c]]
      BY <3>2, <3>5, <1>2 DEF Join, Blocks
    <3>8. b + Join(size, b)[b] = r + size[r] /\ Join(size, b)[b] \in Nat
      BY <3>2, <3>5, <3>7, <1>3
    <3>9. /\ b \in DOMAIN Join(size, b) /\ b \notin is_free \ {r}
          /\ b + Join(size, b)[b] \notin is_free \ {r}
      BY <3>4, <3>5, <3>7, <3>8, <1>2
    <3> QED
      BY <3>2, <3>3, <3>5, <3>6, <3>7, <3>8, <3>9
  <2>2. CASE ~(next # NoBlock /\ FreeAt(next))
    <3>1. absorbed = {} /\ end = b + size[b] /\ list = free_list
      BY <2>2, <1>3
    <3>2. b + size[b] \notin is_free
      <4>1. CASE b + size[b] >= segment_size
        BY <4>1, <1>2, <1>3
      <4>2. CASE ~(b + size[b] >= segment_size)
        BY <4>2, <2>2, <1>3 DEF physical_next, FreeAt, NoBlock
      <4> QED
        BY <4>1, <4>2
    <3> HIDE DEF next, absorbed, end, list
    <3> QED
      BY <3>1, <3>2, <1>2, <1>3 DEF Heap, Blocks
  <2> QED
    BY <2>1, <2>2
(* Then the block before b.                                                *)
<1>5. CASE prev # NoBlock /\ FreeAt(prev)
  <2>1. PICK m \in is_free : m = prev /\ m + size[m] = b /\ m \in Blocks
    BY <1>5, PreviousFacts DEF FreeAt
  <2>2. m \in Nat /\ size[m] \in Nat /\ m < b /\ m \notin absorbed
    BY <2>1, <1>3, <1>4
  <2>3. merged = m /\ gone = absorbed \cup {b} /\ unlisted = remove_free_block(list, m)
    BY <2>1, <2>2, <1>5
  <2> HIDE DEF next, prev, absorbed, merged, end, gone, list, unlisted
  <2>4. m \in fr1 /\ sz1[m] = size[m] /\ m + sz1[m] = b
    BY <2>1, <2>2, <1>4
  <2>5. HeapOf(segment_size, Join(sz1, m), fr1,
               insert_free_block(remove_free_block(list1, m), Join(sz1, m), m))
    BY <2>4, <1>4, JoinPrevious
  <2>6. size' = Join(sz1, m)
    <3>1. size' = [c \in Blocks \ (absorbed \cup {b}) |-> IF c = m THEN end - m ELSE size[c]]
      BY <1>1, <2>3
    <3>2. DOMAIN sz1 \ {b} = Blocks \ (absorbed \cup {b})
      BY <1>4
    <3>3. end - m = sz1[m] + sz1[b]
      BY <2>2, <2>4, <1>3, <1>4
    <3>4. Join(sz1, m) = [c \in DOMAIN sz1 \ {b} |-> IF c = m THEN sz1[m] + sz1[b] ELSE sz1[c]]
      BY <2>4 DEF Join
    <3>5. \A c \in DOMAIN sz1 \ {b} : sz1[c] = size[c]
      BY <1>4
    <3> QED
      BY <3>1, <3>2, <3>3, <3>4, <3>5
  <2>7. is_free' = fr1 /\ free_list' = insert_free_block(remove_free_block(list1, m), size', m)
    BY <1>1, <1>2, <1>4, <2>1, <2>2, <2>3
  <2>8. Heap'
    BY <2>5, <2>6, <2>7, <1>1 DEF Heap
  <2>9. /\ DOMAIN size' = Blocks \ (absorbed \cup {b})
        /\ \A c \in DOMAIN size' : c # m => size'[c] = size[c]
    BY <1>1, <2>3
  <2>10. DOMAIN size' \ is_free' = Used \ {b}
    BY <2>7, <2>9, <1>2, <1>4 DEF Used
  <2>11. \A c \in Used \ {b} : c # m
    BY <2>1 DEF Used
  <2> QED
    BY <2>8, <2>9, <2>10, <2>11, <1>1
<1>6. CASE ~(prev # NoBlock /\ FreeAt(prev))
  <2>1. merged = b /\ gone = absorbed /\ unlisted = list
    BY <1>6
  <2>2. \A c \in is_free : c + size[c] # b
    <3> SUFFICES ASSUME NEW c \in is_free, c + size[c] = b PROVE FALSE
      OBVIOUS
    <3>1. prev \in Blocks /\ prev + size[prev] = b /\ prev # NoBlock
      BY <1>2, PreviousFacts
    <3>2. prev = c
      BY <3>1, <1>2, EndsDiffer
    <3> QED
      BY <3>1, <3>2, <1>6 DEF FreeAt
  <2> HIDE DEF next, prev, absorbed, merged, end, gone, list, unlisted
  <2>3. \A f \in fr1 : f + sz1[f] # b
    BY <2>2, <1>2, <1>4
  <2>4. HeapOf(segment_size, sz1, fr1 \cup {b}, insert_free_block(list1, sz1, b))
    BY <2>3, <1>4, InsertHeap
  <2>5. size' = sz1
    <3>1. size' = [c \in DOMAIN sz1 |-> IF c = b THEN end - b ELSE size[c]]
      BY <2>1, <1>1, <1>4
    <3>2. end - b = sz1[b]
      BY <1>3, <1>4
    <3>3. \A c \in DOMAIN sz1 : c # b => sz1[c] = size[c]
      BY <1>4
    <3>4. sz1 = [c \in DOMAIN sz1 |-> sz1[c]]
      BY <1>4
    <3> QED
      BY <3>1, <3>2, <3>3, <3>4
  <2>6. is_free' = fr1 \cup {b} /\ free_list' = insert_free_block(list1, size', b)
    BY <1>1, <1>4, <2>1
  <2>7. Heap'
    BY <2>4, <2>5, <2>6, <1>1 DEF Heap
  <2>8. DOMAIN size' \ is_free' = Used \ {b}
    BY <2>5, <2>6, <1>2, <1>4 DEF Used
  <2> QED
    BY <2>5, <2>7, <2>8, <1>1, <1>4
<1> QED
  BY <1>5, <1>6

(* One payload goes, and the block it was in.                              *)
LEMMA DeallocateStep ==
  ASSUME IInv, NEW p \in live, deallocate_block(header[p].block), live' = live \ {p}
  PROVE  Heap' /\ HeaderTypes' /\ PayloadsSafe' /\ header' = header
<1>1. PICK b \in Used : b = header[p].block
  BY LiveFacts
<1>2. /\ Heap' /\ header' = header
      /\ DOMAIN size' \ is_free' = Used \ {b}
      /\ \A c \in Used \ {b} : size'[c] = size[c]
  BY <1>1, DeallocateHeap
<1>3. HeaderTypes'
  BY <1>2 DEF IInv, HeaderTypes
<1>4. ASSUME NEW q \in live'
      PROVE  /\ q \in DOMAIN header'
             /\ header'[q].block \in DOMAIN size' \ is_free'
             /\ header'[q].block + 48 <= q
             /\ q + header'[q].requested_size <= header'[q].block + size'[header'[q].block]
  <2>1. q \in live /\ q # p
    BY <1>4
  <2>2. PICK c \in Used : c = header[q].block
    BY <2>1, LiveFacts
  <2>3. c # b
    BY <2>1, <2>2, <1>1, LiveFacts
  <2>4. /\ q \in DOMAIN header /\ c + 48 <= q /\ q + header[q].requested_size <= c + size[c]
    BY <2>1, <2>2, LiveFacts
  <2> QED
    BY <2>2, <2>3, <2>4, <1>2
<1>5. \A q, s \in live' : header'[q].block = header'[s].block => q = s
  BY <1>2 DEF IInv, PayloadsSafe
<1>6. ASSUME NEW c \in DOMAIN size' \ is_free' PROVE \E q \in live' : header'[q].block = c
  <2>1. c \in Used /\ c # b
    BY <1>2
  <2>2. PICK q \in live : header[q].block = c
    BY <2>1 DEF IInv, PayloadsSafe, Used
  <2> QED
    BY <2>1, <2>2, <1>1, <1>2
<1> QED
  BY <1>2, <1>3, <1>4, <1>5, <1>6, SafeAgain

(* Steps that leave the blocks in use and the payloads as they were.       *)
LEMMA UsedKept ==
  ASSUME IInv, HeaderTypes', live' = live, Spared(live),
         DOMAIN size' \ is_free' = Used, \A c \in Used : size'[c] = size[c]
  PROVE  PayloadsSafe'
<1>1. ASSUME NEW q \in live'
      PROVE  /\ q \in DOMAIN header'
             /\ header'[q].block \in DOMAIN size' \ is_free'
             /\ header'[q].block + 48 <= q
             /\ q + header'[q].requested_size <= header'[q].block + size'[header'[q].block]
  <2>1. PICK c \in Used : c = header[q].block
    BY LiveFacts
  <2>2. c + 48 <= q /\ q + header[q].requested_size <= c + size[c]
    BY <2>1, LiveFacts
  <2>3. q \in DOMAIN header' /\ header'[q] = header[q]
    BY DEF Spared
  <2> QED
    BY <2>1, <2>2, <2>3
<1>2. \A q, s \in live' : header'[q].block = header'[s].block => q = s
  BY DEF IInv, PayloadsSafe, Spared
<1>3. \A c \in DOMAIN size' \ is_free' : \E q \in live' : header'[q].block = c
  BY DEF IInv, PayloadsSafe, Spared, Used
<1> QED
  BY <1>1, <1>2, <1>3, SafeAgain

(* A payload in the block b that it had, with n bytes.                     *)
LEMMA Expanded ==
  ASSUME IInv, HeaderTypes', live' = live, NEW p \in live, NEW b \in Used, NEW n \in Nat,
         b = header[p].block, Spared(live \ {p}),
         p \in DOMAIN header', header'[p] = [block |-> b, requested_size |-> n],
         p + n <= b + size'[b],
         DOMAIN size' \ is_free' = Used, \A c \in Used \ {b} : size'[c] = size[c]
  PROVE  PayloadsSafe'
<1>1. header'[p].block = b /\ header'[p].requested_size = n /\ b + 48 <= p
  BY LiveFacts
<1>2. ASSUME NEW q \in live \ {p}
      PROVE  /\ q \in DOMAIN header' /\ header'[q] = header[q]
             /\ header[q].block \in Used \ {b}
             /\ header[q].block + 48 <= q
             /\ q + header[q].requested_size <= header[q].block + size[header[q].block]
  <2>1. PICK c \in Used : c = header[q].block
    BY LiveFacts
  <2>2. c # b
    BY <2>1, LiveFacts
  <2>3. c + 48 <= q /\ q + header[q].requested_size <= c + size[c]
    BY <2>1, LiveFacts
  <2> QED
    BY <2>1, <2>2, <2>3 DEF Spared
<1>3. ASSUME NEW q \in live'
      PROVE  /\ q \in DOMAIN header'
             /\ header'[q].block \in DOMAIN size' \ is_free'
             /\ header'[q].block + 48 <= q
             /\ q + header'[q].requested_size <= header'[q].block + size'[header'[q].block]
  <2>1. CASE q = p
    BY <2>1, <1>1
  <2>2. CASE q # p
    <3>1. PICK c \in Used \ {b} : c = header[q].block
      BY <2>2, <1>2
    <3> QED
      BY <3>1, <2>2, <1>2
  <2> QED
    BY <2>1, <2>2
<1>4. \A q \in live : header'[q].block = header[q].block
  BY <1>1, <1>2
<1>5. \A q, s \in live' : header'[q].block = header'[s].block => q = s
  BY <1>4 DEF IInv, PayloadsSafe
<1>6. \A c \in DOMAIN size' \ is_free' : \E q \in live' : header'[q].block = c
  BY <1>4 DEF IInv, PayloadsSafe, Used
<1> QED
  BY <1>3, <1>5, <1>6, SafeAgain

(* try_expand, where the block is large enough.                            *)
LEMMA ExpandInBlock ==
  ASSUME Fitting, IInv, NEW p \in live, NEW n \in Requests, NEW a \in Alignments,
         try_expand_in_block(p, n, a)
  PROVE  Heap' /\ HeaderTypes' /\ PayloadsSafe' /\ Spared(live \ {p})
           /\ p \in DOMAIN header' /\ header'[p].block = header[p].block
<1>1. PICK b \in Used : b = header[p].block
  BY LiveFacts
<1>2. b \in Blocks /\ b \in Nat /\ size[b] \in Nat
  BY <1>1, BlockFacts DEF Used
<1>3. /\ Payload(b, a) = p /\ LayoutSize(b, n, a) <= size[b]
      /\ WriteHeader(p, b, n, DOMAIN header)
      /\ UNCHANGED <<segment_size, size, is_free, free_list, live>>
  BY <1>1 DEF try_expand_in_block
<1>4. n \in Nat /\ p \in Nat /\ b + 48 <= p /\ p + n <= b + size[b]
  <2>1. PICK used \in Nat : used = LayoutSize(b, n, a)
    BY <1>2, LayoutFacts
  <2>2. n \in Nat /\ p \in Nat /\ b + 48 <= p /\ p + n <= b + used
    BY <2>1, <1>2, <1>3, LayoutFacts
  <2>3. used <= size[b]
    BY <2>1, <1>3
  <2> QED
    BY <2>2, <2>3, <1>2
<1>5. \A q \in live \ {p} : q \in DOMAIN header /\ (q <= b \/ b + size[b] + 48 <= q)
  BY <1>1, <1>2, LiveFacts, LiveApart
<1>6. /\ DOMAIN header' \subseteq Nat
      /\ header' \in [DOMAIN header' -> [block : Nat, requested_size : Nat]]
      /\ p \in DOMAIN header'
      /\ header'[p] = [block |-> b, requested_size |-> n]
      /\ \A q \in live \ {p} : q \in DOMAIN header' /\ header'[q] = header[q]
  <2>1. PICK lim \in Nat : lim = b + size[b]
    BY <1>2
  <2>2. PICK rest \in SUBSET live : rest = live \ {p}
    OBVIOUS
  <2>3. PICK kept : kept = DOMAIN header
    OBVIOUS
  <2>4. /\ p <= lim /\ rest \subseteq kept /\ kept \subseteq DOMAIN header
        /\ \A q \in rest : q <= b \/ lim + 48 <= q
        /\ WriteHeader(p, b, n, kept)
    BY <1>2, <1>3, <1>4, <1>5, <2>1, <2>2, <2>3
  <2>5. /\ DOMAIN header' \subseteq Nat
        /\ header' \in [DOMAIN header' -> [block : Nat, requested_size : Nat]]
        /\ p \in DOMAIN header'
        /\ header'[p] = [block |-> b, requested_size |-> n]
        /\ \A q \in rest : q \in DOMAIN header' /\ header'[q] = header[q]
    BY <1>2, <1>4, <2>4, HeaderWritten
  <2> QED
    BY <2>2, <2>5
<1>7. HeaderTypes' /\ Heap'
  BY <1>3, <1>6 DEF IInv, HeaderTypes, Heap
<1>8. PayloadsSafe'
  <2>1. DOMAIN size' \ is_free' = Used /\ \A c \in Used \ {b} : size'[c] = size[c]
    BY <1>3 DEF Used, Blocks
  <2>2. p + n <= b + size'[b] /\ Spared(live \ {p})
    BY <1>3, <1>4, <1>6 DEF Spared
  <2> QED
    BY <2>1, <2>2, <1>1, <1>3, <1>4, <1>6, <1>7, Expanded
<1> QED
  BY <1>1, <1>6, <1>7, <1>8 DEF Spared

(* try_expand, where the block behind is free and the two are enough.      *)
LEMMA ExpandIntoNext ==
  ASSUME Fitting, IInv, NEW p \in live, NEW n \in Requests, NEW a \in Alignments,
         try_expand_into_next(p, n, a)
  PROVE  Heap' /\ HeaderTypes' /\ PayloadsSafe' /\ Spared(live \ {p})
           /\ p \in DOMAIN header' /\ header'[p].block = header[p].block
<1>1. PICK b \in Used : b = header[p].block
  BY LiveFacts
<1>2. b \in Blocks /\ b \notin is_free /\ b \in Nat /\ size[b] \in Nat /\ Heap
  BY <1>1, BlockFacts DEF Used, IInv, Heap
<1>3. PICK r \in is_free : r = physical_next(b) /\ r # NoBlock
  BY <1>1 DEF try_expand_into_next, FreeAt
<1>4. r = b + size[b] /\ r \in Blocks /\ r \in Nat /\ size[r] \in Nat /\ r # b
  <2>1. r = b + size[b]
    BY <1>2, <1>3 DEF physical_next, End
  <2>2. r \in Blocks
    BY <1>2, <1>3 DEF Heap, HeapOf, FreeSpace, Blocks
  <2> QED
    BY <2>1, <2>2, <1>2, <1>3, BlockFacts
<1>5. PICK total \in Nat : total = size[b] + size[r]
  BY <1>2, <1>4
<1>6. PICK used \in Nat : used = LayoutSize(b, n, a)
  BY <1>2, LayoutFacts
<1>7. /\ Payload(b, a) = p /\ used <= total
      /\ SplitAllocated(b, total, used, Blocks \ {r}, remove_free_block(free_list, r))
      /\ WriteHeader(p, b, n, KeptBySplit(b, total, used))
      /\ segment_size' = segment_size /\ live' = live
  BY <1>1, <1>3, <1>5, <1>6 DEF try_expand_into_next
<1>8. n \in Nat /\ p \in Nat /\ b + 48 <= p /\ p + n <= b + used /\ used % 16 = 0
  BY <1>2, <1>6, <1>7, LayoutFacts
<1>9. \A q \in live \ {p} : q \in Nat /\ (q <= b \/ b + total + 48 <= q)
  <2> SUFFICES ASSUME NEW q \in live \ {p} PROVE q \in Nat /\ (q <= b \/ b + total + 48 <= q)
    OBVIOUS
  <2>1. q \in Nat /\ header[q].block # b /\ header[q].block # r
    BY <1>1, <1>3, LiveFacts
  <2>2. q <= b \/ b + size[b] + 48 <= q
    BY <2>1, <1>2, LiveApart
  <2>3. q <= r \/ r + size[r] + 48 <= q
    BY <2>1, <1>4, LiveApart
  <2> QED
    BY <2>1, <2>2, <2>3, <1>2, <1>4, <1>5
<1>10. /\ HeapOf(segment_size, size', is_free', free_list')
       /\ DOMAIN size' \ is_free' = Used
       /\ used <= size'[b]
       /\ \A c \in Used \ {b} : size'[c] = size[c]
  <2>1. PICK fr : fr = is_free \ {r}
    OBVIOUS
  <2>2. PICK list : list = remove_free_block(free_list, r)
    OBVIOUS
  <2>3. HeapOf(segment_size, size, fr, list) /\ r + size[r] \notin is_free
    BY <1>2, <2>1, <2>2, RemoveHeap DEF Heap
  <2>4. PICK base : base = Join(size, b)
    OBVIOUS
  <2>5. HeapOf(segment_size, base, fr, list)
    <3>1. b \in DOMAIN size /\ b \notin fr /\ r \in DOMAIN size /\ r \notin fr
      BY <1>2, <1>4, <2>1 DEF Blocks
    <3> QED
      BY <3>1, <2>3, <2>4, <1>4, JoinHeap
  <2>6. /\ DOMAIN base = Blocks \ {r} /\ base[b] = total
        /\ \A c \in Blocks \ {b, r} : base[c] = size[c]
    <3>1. base = [c \in Blocks \ {r} |-> IF c = b THEN size[b] + size[r] ELSE size[c]]
      BY <2>4, <1>4 DEF Join, Blocks
    <3> QED
      BY <3>1, <1>2, <1>4, <1>5
  <2>7. /\ b \in DOMAIN base /\ b \notin fr /\ b + base[b] \notin fr
        /\ fr = (is_free \cap (Blocks \ {r})) \ {b}
        /\ used <= base[b] /\ 48 <= used /\ used % 16 = 0
    <3>1. b + base[b] = r + size[r]
      BY <2>6, <1>2, <1>4, <1>5
    <3>2. is_free \subseteq Blocks
      BY <1>2 DEF Heap, HeapOf, FreeSpace, Blocks
    <3>3. 48 <= used
      BY <1>2, <1>8
    <3> QED
      BY <3>1, <3>2, <3>3, <2>1, <2>3, <2>6, <1>2, <1>4, <1>7, <1>8
  <2>8. PICK others : others = Blocks \ {r}
    OBVIOUS
  <2>9. SplitAllocated(b, total, used, others, list)
    BY <1>7, <2>2, <2>8
  <2>10. /\ others = DOMAIN base /\ total = base[b] /\ fr = (is_free \cap others) \ {b}
         /\ \A c \in others \ {b} : base[c] = size[c]
    BY <2>6, <2>7, <2>8
  <2>11. /\ HeapOf(segment_size, size', is_free', free_list')
         /\ DOMAIN size' \ is_free' = DOMAIN base \ fr
         /\ used <= size'[b]
         /\ \A c \in DOMAIN base \ fr : c # b => size'[c] = base[c]
    BY <2>5, <2>7, <2>9, <2>10, SplitHeap
  <2>12. DOMAIN base \ fr = Used
    BY <2>1, <2>6, <1>3 DEF Used
  <2> QED
    BY <2>6, <2>11, <2>12, <1>3 DEF Used
<1>11. /\ DOMAIN header' \subseteq Nat
       /\ header' \in [DOMAIN header' -> [block : Nat, requested_size : Nat]]
       /\ p \in DOMAIN header'
       /\ header'[p] = [block |-> b, requested_size |-> n]
       /\ \A q \in live \ {p} : q \in DOMAIN header' /\ header'[q] = header[q]
  <2>1. PICK lim \in Nat : lim = b + total
    BY <1>2
  <2>2. PICK rest \in SUBSET live : rest = live \ {p}
    OBVIOUS
  <2>3. PICK kept : kept = KeptBySplit(b, total, used)
    OBVIOUS
  <2>4. \A q \in rest : q <= b \/ b + total + 48 <= q
    BY <2>2, <1>9
  <2>5. kept \subseteq DOMAIN header /\ rest \subseteq kept
    BY <2>3, <2>4, <1>2, SplitSpares
  <2>6. p <= lim /\ \A q \in rest : q <= b \/ lim + 48 <= q
    BY <2>1, <2>4, <1>2, <1>7, <1>8
  <2>7. WriteHeader(p, b, n, kept)
    BY <2>3, <1>7
  <2>8. /\ DOMAIN header' \subseteq Nat
        /\ header' \in [DOMAIN header' -> [block : Nat, requested_size : Nat]]
        /\ p \in DOMAIN header'
        /\ header'[p] = [block |-> b, requested_size |-> n]
        /\ \A q \in rest : q \in DOMAIN header' /\ header'[q] = header[q]
    BY <1>2, <1>8, <2>5, <2>6, <2>7, HeaderWritten
  <2> QED
    BY <2>2, <2>8
<1>12. HeaderTypes' /\ Heap'
  BY <1>7, <1>10, <1>11 DEF IInv, HeaderTypes, Heap
<1>13. PayloadsSafe'
  <2>1. p + n <= b + size'[b] /\ Spared(live \ {p})
    <3>1. size'[b] \in Nat
      BY <1>1, <1>10 DEF HeapOf, Geometry
    <3> QED
      BY <3>1, <1>2, <1>8, <1>10, <1>11 DEF Spared
  <2> QED
    BY <2>1, <1>1, <1>7, <1>8, <1>10, <1>11, <1>12, Expanded
<1> QED
  BY <1>1, <1>11, <1>12, <1>13 DEF Spared

----------------------------------------------------------------------------
(* Resizes, and the clearing of free memory.                               *)

(* The last block is free and gets another size.                           *)
LEMMA ResizeLast ==
  ASSUME NEW seg, NEW sz, NEW fr, NEW list, HeapOf(seg, sz, fr, list),
         NEW b \in fr, b + sz[b] = seg, NEW k \in Nat, k % 16 = 0, 32 <= k
  PROVE  HeapOf(b + k, [sz EXCEPT ![b] = k], fr,
                insert_free_block(remove_free_block(list, b), [sz EXCEPT ![b] = k], b))
<1> DEFINE rz == [sz EXCEPT ![b] = k]
<1> DEFINE rest == fr \ {b}
<1> DEFINE list2 == remove_free_block(list, b)
<1>1. HeapOf(seg, sz, rest, list2) /\ \A f \in fr : f + sz[f] # b
  BY RemoveHeap
<1>2. b \in DOMAIN sz /\ b \notin rest /\ fr \subseteq DOMAIN sz
  BY DEF HeapOf, FreeSpace
<1>3. DOMAIN rz = DOMAIN sz /\ rz[b] = k /\ \A c \in DOMAIN sz \ {b} : rz[c] = sz[c]
  BY <1>2 DEF HeapOf, Geometry
<1>4. PICK end : end = b + k
  OBVIOUS
<1> HIDE DEF rest, list2
<1>5. HeapOf(end, rz, rest, list2)
  BY <1>1, <1>2, <1>4, ResizeHeap
<1> HIDE DEF rz
<1>6. end \notin DOMAIN rz
  <2>1. \A c \in DOMAIN rz : c \in Nat /\ rz[c] \in Nat /\ 32 <= rz[c] /\ c + rz[c] <= end
    BY <1>5 DEF HeapOf, Geometry
  <2>2. end \in Nat
    BY <1>5 DEF HeapOf, Geometry
  <2>3. \A c \in DOMAIN rz : c # end
    BY <2>1, <2>2
  <2> QED
    BY <2>3
<1>7. /\ b \in DOMAIN rz /\ b + rz[b] \notin rest
      /\ \A f \in rest : f + rz[f] # b
  BY <1>1, <1>2, <1>3, <1>4, <1>6 DEF rest
<1>8. HeapOf(end, rz, rest \cup {b}, insert_free_block(list2, rz, b))
  BY <1>2, <1>5, <1>7, InsertHeap
<1>9. rest \cup {b} = fr
  BY DEF rest
<1> QED
  BY <1>4, <1>8, <1>9 DEF rz, list2

(* The walk to the end of the segment finds the last block.                *)
LEMMA LastFacts ==
  ASSUME IInv
  PROVE  /\ last_block \in Blocks
         /\ last_block + size[last_block] = segment_size
         /\ segment_size % 16 = 0 /\ segment_size \in Nat
<1>1. last_block \in Blocks /\ last_block + size[last_block] = segment_size
  <2>1. \E b \in Blocks : b + size[b] = segment_size
    BY DEF IInv, HeapOf, Geometry, Blocks
  <2> QED
    BY <2>1, PreviousFacts DEF last_block
<1>2. PICK b \in Blocks : b + size[b] = segment_size
  BY <1>1
<1>3. b \in Nat /\ size[b] \in Nat /\ b % 16 = 0 /\ size[b] % 16 = 0 /\ segment_size \in Nat
  BY BlockFacts
<1>4. (b + size[b]) % 16 = 0
  BY <1>3
<1> QED
  BY <1>1, <1>2, <1>3, <1>4

(* What the resizes have to show.                                          *)
Resized ==
  /\ Heap' /\ HeaderTypes' /\ Spared(live)
  /\ DOMAIN size' \ is_free' = Used
  /\ \A c \in Used : size'[c] = size[c]

(* grow, when the last block is free: it is made longer.                   *)
LEMMA GrowTail ==
  ASSUME IInv, NEW s \in GrowSizes, grow_tail(s)
  PROVE  Resized
<1>1. PICK t \in is_free : t = last_block
  BY DEF grow_tail, FreeAt, last_block
<1>2. t \in Blocks /\ t + size[t] = segment_size /\ segment_size % 16 = 0 /\ segment_size \in Nat
  BY <1>1, LastFacts
<1>3. t \in Nat /\ size[t] \in Nat /\ t % 16 = 0 /\ size[t] % 16 = 0 /\ 32 <= size[t]
  BY <1>2, BlockFacts
<1>4. PICK to \in Nat : to = AlignDown(s) /\ to % 16 = 0
  BY CallerAssumption, AlignDownFacts
<1>5. /\ to > segment_size /\ segment_size' = to
      /\ size' = [size EXCEPT ![t] = size[t] + (to - segment_size)]
      /\ free_list' = insert_free_block(remove_free_block(free_list, t), size', t)
      /\ is_free' = is_free /\ header' = header /\ live' = live
  BY <1>1, <1>4 DEF grow_tail, last_block
<1>6. PICK k \in Nat : k = size[t] + (to - segment_size)
  BY <1>2, <1>3, <1>4, <1>5
<1>7. k % 16 = 0 /\ 32 <= k /\ t + k = to
  BY <1>2, <1>3, <1>4, <1>5, <1>6
<1>8. Heap'
  <2>1. HeapOf(t + k, [size EXCEPT ![t] = k], is_free,
               insert_free_block(remove_free_block(free_list, t), [size EXCEPT ![t] = k], t))
    BY <1>2, <1>7, ResizeLast DEF IInv
  <2> QED
    BY <2>1, <1>5, <1>6, <1>7 DEF Heap
<1>9. DOMAIN size' = Blocks /\ \A c \in Used : size'[c] = size[c]
  BY <1>1, <1>5 DEF Used, Blocks
<1> QED
  BY <1>5, <1>8, <1>9, LiveFacts DEF Resized, Spared, Used, HeaderTypes, IInv

(* grow, when the last block is in use: a free block is added.             *)
LEMMA GrowNewBlock ==
  ASSUME IInv, NEW s \in GrowSizes, grow_new_block(s)
  PROVE  Resized
<1>1. PICK to \in Nat : to = AlignDown(s) /\ to % 16 = 0
  BY CallerAssumption, AlignDownFacts
<1>2. segment_size % 16 = 0 /\ segment_size \in Nat
  BY LastFacts
<1>3. /\ last_block = NoBlock \/ ~FreeAt(last_block)
      /\ to - segment_size >= 48
      /\ segment_size' = to
      /\ size' = [c \in Blocks \cup {segment_size} |->
                    IF c = segment_size THEN to - segment_size ELSE size[c]]
      /\ is_free' = is_free \cup {segment_size}
      /\ free_list' = insert_free_block(free_list, size', segment_size)
      /\ header' = [p \in Survivors(segment_size, segment_size + 32) |-> header[p]]
      /\ live' = live
  BY <1>1 DEF grow_new_block, last_block, MinFreeBlock, BlockHeaderSize, Alignment
<1>4. PICK k \in Nat : k = to - segment_size /\ k % 16 = 0 /\ 32 <= k /\ segment_size + k = to
  BY <1>1, <1>2, <1>3
<1>5. \A b \in Blocks : b + size[b] = segment_size => b \notin is_free
  <2>1. \A b \in Blocks : b + size[b] = segment_size => b = last_block
    BY LastFacts, EndsDiffer
  <2>2. last_block \in Nat
    BY LastFacts, BlockFacts
  <2> QED
    BY <2>1, <2>2, <1>3 DEF FreeAt, NoBlock
<1>6. size' = Extended(size, segment_size, k)
  BY <1>3, <1>4 DEF Extended, Blocks
<1>7. /\ HeapOf(segment_size + k, Extended(size, segment_size, k), is_free \cup {segment_size},
                insert_free_block(free_list, Extended(size, segment_size, k), segment_size))
      /\ segment_size \notin Blocks
  <2>1. \A b \in DOMAIN size : b + size[b] = segment_size => b \notin is_free
    BY <1>5 DEF Blocks
  <2> QED
    BY <2>1, <1>4, AppendHeap DEF IInv, Blocks
<1>8. Heap'
  BY <1>3, <1>4, <1>6, <1>7 DEF Heap
<1>9. DOMAIN size' \ is_free' = Used /\ \A c \in Used : size'[c] = size[c]
  BY <1>3, <1>7 DEF Used
<1>10. DOMAIN header' = Survivors(segment_size, segment_size + 32)
  BY <1>3
<1>11. \A q \in live : q \in Survivors(segment_size, segment_size + 32)
  <2> SUFFICES ASSUME NEW q \in live PROVE q \in Survivors(segment_size, segment_size + 32)
    OBVIOUS
  <2>1. PICK c \in Blocks : c = header[q].block
    BY LiveFacts
  <2>2. c \in Nat /\ size[c] \in Nat /\ c + size[c] <= segment_size
    BY <2>1, BlockFacts
  <2>3. q \in Nat /\ header[q].requested_size \in Nat /\ q + header[q].requested_size <= c + size[c]
    BY <2>1, LiveFacts
  <2>4. q <= segment_size /\ q \in DOMAIN header
    BY <2>2, <2>3, <1>2, LiveFacts
  <2> QED
    BY <2>4 DEF Survivors
<1>12. Spared(live)
  BY <1>3, <1>10, <1>11 DEF Spared
<1>13. HeaderTypes'
  BY <1>3 DEF HeaderTypes, IInv, Survivors
<1> QED
  BY <1>8, <1>9, <1>12, <1>13 DEF Resized

(* shrink_to_fit of a heap that is one free block.                         *)
LEMMA ShrinkOnlyBlock ==
  ASSUME IInv, shrink_only_block
  PROVE  Resized
<1>1. PICK t \in is_free : t = last_block
  BY DEF shrink_only_block, FreeAt
<1>2. t \in Blocks /\ t + size[t] = segment_size
  BY <1>1, LastFacts
<1>3. /\ segment_size' = t + 48 /\ size' = [size EXCEPT ![t] = 48]
      /\ free_list' = insert_free_block(remove_free_block(free_list, t), size', t)
      /\ is_free' = is_free /\ header' = header /\ live' = live
  BY <1>1 DEF shrink_only_block, MinFreeBlock, BlockHeaderSize, Alignment
<1>4. Heap'
  <2>1. 48 % 16 = 0 /\ 32 <= 48 /\ 48 \in Nat
    OBVIOUS
  <2>2. HeapOf(t + 48, [size EXCEPT ![t] = 48], is_free,
               insert_free_block(remove_free_block(free_list, t), [size EXCEPT ![t] = 48], t))
    BY <2>1, <1>2, ResizeLast DEF IInv
  <2> QED
    BY <2>2, <1>3 DEF Heap
<1>5. DOMAIN size' = Blocks /\ \A c \in Used : size'[c] = size[c]
  BY <1>1, <1>3 DEF Used, Blocks
<1> QED
  BY <1>3, <1>4, <1>5, LiveFacts DEF Resized, Spared, Used, HeaderTypes, IInv

(* shrink_to_fit cuts a free last block off.                               *)
LEMMA ShrinkLastBlock ==
  ASSUME IInv, shrink_last_block
  PROVE  Resized
<1>1. PICK t \in is_free : t = last_block /\ t # FirstBlock
  BY DEF shrink_last_block, FreeAt
<1>2. t \in Blocks /\ t + size[t] = segment_size
  BY <1>1, LastFacts
<1>3. /\ segment_size' = t /\ size' = Front(size, t)
      /\ free_list' = remove_free_block(free_list, t)
      /\ is_free' = is_free \ {t} /\ header' = header /\ live' = live
  BY <1>1 DEF shrink_last_block, Front, Blocks
<1>4. Heap'
  <2>1. PICK fr : fr = is_free \ {t}
    OBVIOUS
  <2>2. PICK list : list = remove_free_block(free_list, t)
    OBVIOUS
  <2>3. HeapOf(segment_size, size, fr, list)
    BY <2>1, <2>2, RemoveHeap DEF IInv
  <2>4. HeapOf(t, Front(size, t), fr, list)
    <3>1. t \in DOMAIN size /\ t \notin fr
      BY <1>2, <2>1 DEF Blocks
    <3> QED
      BY <3>1, <2>3, <1>1, <1>2, DropHeap
  <2> QED
    BY <2>1, <2>2, <2>4, <1>3 DEF Heap
<1>5. DOMAIN size' \ is_free' = Used /\ \A c \in Used : size'[c] = size[c]
  BY <1>1, <1>3 DEF Used, Blocks, Front
<1> QED
  BY <1>3, <1>4, <1>5, LiveFacts DEF Resized, Spared, HeaderTypes, IInv

(* zero_free_memory clears no AllocationHeader that a caller relies on.    *)
LEMMA ZeroFreeMemory ==
  ASSUME IInv, zero_free_memory
  PROVE  Resized
<1> DEFINE D == {q \in DOMAIN header :
                   \A b \in is_free : q \in Survivors(b + BlockHeaderSize, End(b))}
<1>1. header' = [p \in D |-> header[p]] /\ UNCHANGED <<segment_size, size, is_free, free_list, live>>
  BY DEF zero_free_memory
<1>2. \A q \in live : q \in D
  <2> SUFFICES ASSUME NEW q \in live, NEW b \in is_free
               PROVE  q \in Survivors(b + BlockHeaderSize, End(b))
    BY LiveFacts
  <2>1. b \in Blocks
    BY DEF IInv, HeapOf, FreeSpace, Blocks
  <2>2. b \in Nat /\ size[b] \in Nat /\ End(b) = b + size[b]
    BY <2>1, BlockFacts
  <2>3. q \in DOMAIN header /\ q \in Nat /\ header[q].block # b
    BY LiveFacts
  <2>4. q <= b \/ b + size[b] + 48 <= q
    BY <2>1, <2>3, LiveApart
  <2>5. q <= b + 32 \/ b + size[b] <= q - 16
    BY <2>2, <2>3, <2>4
  <2> QED
    BY <2>2, <2>3, <2>5 DEF Survivors, BlockHeaderSize, AllocationHeaderSize
<1>3. D \subseteq DOMAIN header
  OBVIOUS
<1> HIDE DEF D
<1>4. HeaderTypes' /\ Spared(live)
  BY <1>1, <1>2, <1>3 DEF HeaderTypes, IInv, Spared
<1>5. Heap' /\ DOMAIN size' \ is_free' = Used /\ \A c \in Used : size'[c] = size[c]
  BY <1>1 DEF IInv, Heap, Used, Blocks
<1> QED
  BY <1>4, <1>5 DEF Resized

----------------------------------------------------------------------------
(* The inductive invariant.                                                *)

(* initialize makes a heap of one free block.                              *)
LEMMA InitIInv == Fitting /\ Init => IInv
<1> SUFFICES ASSUME Fitting, Init PROVE IInv
  OBVIOUS
<1> DEFINE F == FirstBlock
<1>1. /\ F \in Nat /\ F % 16 = 0 /\ TotalSize \in Nat /\ TotalSize % 16 = 0
      /\ F + 32 <= TotalSize
  BY FirstFacts, SegmentAssumption DEF Fitting, Alignment, BlockHeaderSize
<1>2. PICK k \in Nat : k = TotalSize - F /\ k % 16 = 0 /\ 32 <= k /\ F + k = TotalSize
  BY <1>1
<1>3. /\ segment_size = TotalSize /\ size = [b \in {F} |-> k] /\ is_free = {F}
      /\ free_list = <<F>>
  BY <1>2 DEF Init, initialize
<1> HIDE DEF F
<1>4. DOMAIN size = {F} /\ size[F] = k
  BY <1>3
<1>5. Geometry(size, segment_size)
  BY <1>1, <1>2, <1>3, <1>4 DEF Geometry, F
<1>6. FreeSpace(size, is_free, free_list)
  <2>1. free_list \in Seq(is_free) /\ Len(free_list) = 1 /\ free_list[1] = F
    BY <1>3
  <2> QED
    BY <2>1, <1>3, <1>4 DEF FreeSpace, Sorted
<1>7. Merged(size, is_free)
  BY <1>1, <1>2, <1>3, <1>4 DEF Merged
<1>8. HeaderTypes /\ BatchInv
  BY DEF Init, HeaderTypes, BatchInv
<1>9. PayloadsSafe
  BY <1>3, <1>4 DEF Init, PayloadsSafe, Blocks
<1> QED
  BY <1>5, <1>6, <1>7, <1>8, <1>9 DEF IInv, HeapOf

(* A step that leaves no batch under way.                                  *)
LEMMA IdleBatch == ASSUME batch' = Idle PROVE BatchInv'
BY DEF BatchInv

(* The steps of the batch operations.                                      *)
LEMMA BeginAllocateStep ==
  ASSUME IInv, NEW n \in Requests, NEW k \in BatchSizes, NEW a \in Alignments,
         BeginAllocateMany(n, k, a)
  PROVE  BatchInv'
<1>1. /\ batch' = [op |-> "allocate", n |-> n, a |-> a, count |-> k,
                   out |-> << >>, before |-> heap]
      /\ live' = live
  BY DEF BeginAllocateMany
<1>2. k \in Nat
  BY CallerAssumption
<1>3. Allocating'
  BY <1>1, <1>2 DEF Allocating, Distinct
<1> QED
  BY <1>3 DEF BatchInv

(* The operation of the batch tells which record it is.                    *)
LEMMA BatchForm ==
  ASSUME IInv
  PROVE  /\ batch.op \in {"allocate", "rollback"} => Allocating
         /\ batch.op = "deallocate" => Deallocating
BY DEF IInv, BatchInv, Idle, Allocating, Deallocating

(* allocate_many hands out one more payload.                               *)
LEMMA AllocateNextStep ==
  ASSUME Fitting, IInv, AllocateNext
  PROVE  IInv' /\ Spared(live) /\ live \subseteq live'
           /\ \E b \in is_free : live' = live \cup {Payload(b, batch.a)}
<1>1. Allocating /\ batch.op = "allocate" /\ ~OutOfMemory(batch.n, batch.a)
  BY BatchForm DEF AllocateNext
<1>2. PICK n \in Requests, a \in Alignments : n = batch.n /\ a = batch.a
  BY <1>1 DEF Allocating
<1>3. PICK b \in is_free : b = ChosenBlock(n, a) /\ LayoutSize(b, n, a) <= size[b]
  BY <1>1, <1>2, ChosenFits
<1>4. PICK p : p = Payload(b, a)
  OBVIOUS
<1>5. PICK out : out = Append(batch.out, p)
  OBVIOUS
<1>6. /\ allocate_from_block(b, n, a)
      /\ batch' = IF Len(out) = batch.count THEN Idle ELSE [batch EXCEPT !.out = out]
  BY <1>2, <1>3, <1>4, <1>5 DEF AllocateNext
<1>7. /\ Heap' /\ HeaderTypes' /\ PayloadsSafe'
      /\ p \notin live /\ p \in Nat /\ live' = live \cup {p} /\ Spared(live)
  BY <1>3, <1>4, <1>6, AllocateStep
<1>8. BatchInv'
  <2>1. CASE Len(out) = batch.count
    BY <2>1, <1>6, IdleBatch
  <2>2. CASE Len(out) # batch.count
    <3>1. batch' = [batch EXCEPT !.out = out]
      BY <2>2, <1>6
    <3>2. PICK old \in Seq(live) : old = batch.out
      BY <1>1 DEF Allocating
    <3>3. Distinct(old)
      BY <3>2, <1>1 DEF Allocating
    <3>4. old \in Seq(live') /\ p \in live'
      BY <1>7, SeqMonotonic
    <3>5. out \in Seq(live') /\ Len(out) = Len(old) + 1
      BY <3>2, <3>4, <1>5
    <3>6. out[Len(old) + 1] = p /\ \A i \in 1 .. Len(old) : out[i] = old[i] /\ old[i] \in live
      BY <3>2, <3>4, <1>5
    <3>7. Distinct(out)
      BY <3>3, <3>5, <3>6, <1>7 DEF Distinct
    <3>8. /\ batch'.op = batch.op /\ batch'.n = batch.n /\ batch'.a = batch.a
          /\ batch'.count = batch.count /\ batch'.out = out /\ batch'.before = batch.before
      BY <3>1, <1>1 DEF Allocating
    <3>9. batch' \in [op : {"allocate", "rollback"}, n : Requests, a : Alignments,
                      count : Nat, out : Seq(live'), before : {batch'.before}]
      BY <3>1, <3>5, <3>8, <1>1 DEF Allocating
    <3> QED
      BY <3>7, <3>8, <3>9 DEF BatchInv, Allocating
  <2> QED
    BY <2>1, <2>2
<1> QED
  BY <1>2, <1>4, <1>7, <1>8 DEF IInv, Heap

(* allocate_many runs out of memory.                                       *)
LEMMA AllocateManyFailsStep ==
  ASSUME IInv, AllocateManyFails
  PROVE  BatchInv'
<1>1. Allocating /\ batch' = [batch EXCEPT !.op = "rollback"] /\ live' = live
  BY BatchForm DEF AllocateManyFails
<1>2. /\ batch'.op = "rollback" /\ batch'.n = batch.n /\ batch'.a = batch.a
      /\ batch'.count = batch.count /\ batch'.out = batch.out /\ batch'.before = batch.before
  BY <1>1 DEF Allocating
<1>3. batch' \in [op : {"allocate", "rollback"}, n : Requests, a : Alignments,
                  count : Nat, out : Seq(live'), before : {batch'.before}]
  BY <1>1, <1>2 DEF Allocating
<1> QED
  BY <1>1, <1>2, <1>3 DEF BatchInv, Allocating

(* The handler of allocate_many frees the newest payload.                  *)
LEMMA RollbackStep ==
  ASSUME IInv, RollbackNext
  PROVE  IInv' /\ header' = header /\ live' \subseteq live
<1>1. Allocating /\ batch.op = "rollback" /\ batch.out # << >>
  BY BatchForm DEF RollbackNext
<1>2. PICK old \in Seq(live) : old = batch.out /\ Distinct(old) /\ old # << >>
  BY <1>1 DEF Allocating
<1>3. PICK m \in Nat : m = Len(old) /\ m > 0
  BY <1>2
<1>4. PICK p \in live : p = old[m]
  BY <1>3
<1>5. PICK out : out = SubSeq(old, 1, m - 1)
  OBVIOUS
<1>6. /\ deallocate_block(header[p].block) /\ live' = live \ {p}
      /\ batch' = [batch EXCEPT !.out = out]
  BY <1>2, <1>3, <1>4, <1>5 DEF RollbackNext
<1>7. Heap' /\ HeaderTypes' /\ PayloadsSafe' /\ header' = header
  BY <1>6, DeallocateStep
<1>8. /\ out \in Seq(live') /\ Len(out) = m - 1
      /\ \A i \in 1 .. m - 1 : out[i] = old[i]
  <2>1. \A i \in 1 .. m - 1 : old[i] \in live'
    BY <1>2, <1>3, <1>4, <1>6 DEF Distinct
  <2> QED
    BY <2>1, <1>3, <1>5, SubSeqProperties
<1>9. Distinct(out)
  <2>1. \A i, j \in 1 .. m : old[i] = old[j] => i = j
    BY <1>2, <1>3 DEF Distinct
  <2>2. \A i \in 1 .. m - 1 : i \in 1 .. m
    OBVIOUS
  <2> QED
    BY <2>1, <2>2, <1>8 DEF Distinct
<1>10. /\ batch'.op = batch.op /\ batch'.n = batch.n /\ batch'.a = batch.a
       /\ batch'.count = batch.count /\ batch'.out = out /\ batch'.before = batch.before
  BY <1>1, <1>6 DEF Allocating
<1>11. batch' \in [op : {"allocate", "rollback"}, n : Requests, a : Alignments,
                   count : Nat, out : Seq(live'), before : {batch'.before}]
  BY <1>1, <1>6, <1>8, <1>10 DEF Allocating
<1>12. BatchInv'
  BY <1>9, <1>10, <1>11 DEF BatchInv, Allocating
<1> QED
  BY <1>6, <1>7, <1>12 DEF IInv, Heap

(* deallocate_many is called with distinct payloads.                       *)
LEMMA BeginDeallocateStep ==
  ASSUME IInv, NEW ptrs \in PointerArrays, BeginDeallocateMany(ptrs)
  PROVE  BatchInv'
<1>1. PICK k \in BatchSizes : ptrs \in [1 .. k -> live]
  BY DEF PointerArrays
<1>2. k \in Nat /\ k # 0
  BY CallerAssumption
<1>3. ptrs \in Seq(live) /\ Len(ptrs) = k
  BY <1>1, <1>2, FunctionIsSeq
<1>4. Distinct(ptrs) /\ ptrs # << >>
  BY <1>1, <1>2, <1>3 DEF PointerArrays, Distinct
<1>5. batch' = [op |-> "deallocate", ptrs |-> ptrs] /\ live' = live
  BY DEF BeginDeallocateMany
<1> QED
  BY <1>3, <1>4, <1>5 DEF BatchInv, Deallocating

(* deallocate_many frees the next payload.                                 *)
LEMMA DeallocateNextStep ==
  ASSUME IInv, DeallocateNext
  PROVE  IInv' /\ header' = header /\ live' \subseteq live
<1>1. Deallocating
  BY BatchForm DEF DeallocateNext
<1>2. PICK old \in Seq(live) : old = batch.ptrs /\ Distinct(old) /\ old # << >>
  BY <1>1 DEF Deallocating
<1>3. PICK m \in Nat : m = Len(old) /\ m > 0
  BY <1>2
<1>4. PICK p \in live : p = old[1]
  BY <1>3
<1>5. PICK rest : rest = Tail(old)
  OBVIOUS
<1>6. /\ deallocate_block(header[p].block) /\ live' = live \ {p}
      /\ batch' = IF m = 1 THEN Idle ELSE [batch EXCEPT !.ptrs = rest]
  BY <1>2, <1>3, <1>4, <1>5 DEF DeallocateNext
<1>7. Heap' /\ HeaderTypes' /\ PayloadsSafe' /\ header' = header
  BY <1>6, DeallocateStep
<1>8. BatchInv'
  <2>1. CASE m = 1
    BY <2>1, <1>6, IdleBatch
  <2>2. CASE m # 1
    <3>1. Len(rest) = m - 1 /\ \A i \in 1 .. m - 1 : rest[i] = old[i + 1]
      BY <1>2, <1>3, <1>5, HeadTailProperties
    <3>2. \A i \in 1 .. m - 1 : old[i + 1] \in live'
      BY <1>2, <1>3, <1>4, <1>6 DEF Distinct
    <3>3. rest \in Seq(live') /\ rest # << >>
      <4>1. rest \in Seq(live)
        BY <1>2, <1>5, HeadTailProperties
      <4>2. rest \in [1 .. m - 1 -> live']
        BY <4>1, <3>1, <3>2
      <4>3. m - 1 \in Nat /\ m - 1 # 0
        BY <2>2, <1>3
      <4> QED
        BY <4>2, <4>3, <3>1, FunctionIsSeq
    <3>4. Distinct(rest)
      BY <3>1, <1>2, <1>3 DEF Distinct
    <3>5. batch' = [batch EXCEPT !.ptrs = rest] /\ batch'.ptrs = rest /\ batch'.op = batch.op
      BY <2>2, <1>1, <1>6 DEF Deallocating
    <3>6. batch' \in [op : {"deallocate"}, ptrs : Seq(live')]
      BY <3>3, <3>5, <1>1 DEF Deallocating
    <3> QED
      BY <3>3, <3>4, <3>5, <3>6 DEF BatchInv, Deallocating
  <2> QED
    BY <2>1, <2>2
<1> QED
  BY <1>6, <1>7, <1>8 DEF IInv, Heap

(* What PayloadsStay says of a step.                                       *)
Stays ==
  /\ live \cap live' \subseteq DOMAIN header'
  /\ \A p \in live \cap live' :
       /\ header'[p].block = header[p].block
       /\ header'[p] # header[p] =>
            live' = live /\ \A q \in live \ {p} : header'[q] = header[q]

(* A step that leaves the headers of live payloads alone.                  *)
LEMMA SparedStays == ASSUME Spared(live) PROVE Stays
BY DEF Spared, Stays

(* A step that writes no AllocationHeader.                                 *)
LEMMA SameHeaderStays == ASSUME IInv, header' = header PROVE Stays
BY LiveFacts DEF Stays

(* A step that writes the header of one payload, in place.                 *)
LEMMA ExpandStays ==
  ASSUME NEW p \in live, live' = live, Spared(live \ {p}),
         p \in DOMAIN header', header'[p].block = header[p].block
  PROVE  Stays
BY DEF Spared, Stays

(* One step per action.                                                    *)
LEMMA NextStep ==
  ASSUME Fitting, IInv, Next
  PROVE  IInv' /\ Stays
<1>1. ASSUME NEW n \in Requests, NEW a \in Alignments, allocate(n, a) PROVE IInv' /\ Stays
  <2>1. PICK b \in is_free : b = ChosenBlock(n, a) /\ LayoutSize(b, n, a) <= size[b]
    BY <1>1, ChosenFits DEF allocate
  <2>2. allocate_from_block(b, n, a) /\ batch' = Idle
    BY <2>1, <1>1 DEF allocate
  <2>3. Heap' /\ HeaderTypes' /\ PayloadsSafe' /\ Spared(live)
    BY <2>1, <2>2, AllocateStep
  <2> QED
    BY <2>2, <2>3, IdleBatch, SparedStays DEF IInv, Heap
<1>2. ASSUME NEW p \in live, deallocate(p) PROVE IInv' /\ Stays
  <2>1. deallocate_block(header[p].block) /\ live' = live \ {p} /\ batch' = Idle
    BY <1>2 DEF deallocate
  <2>2. Heap' /\ HeaderTypes' /\ PayloadsSafe' /\ header' = header
    BY <2>1, DeallocateStep
  <2> QED
    BY <2>1, <2>2, IdleBatch, SameHeaderStays DEF IInv, Heap
<1>3. ASSUME UNCHANGED <<segment_size, size, is_free, free_list, header, live>>, BatchInv'
      PROVE  IInv' /\ Stays
  <2>1. HeapOf(segment_size, size, is_free, free_list)' /\ HeaderTypes' /\ PayloadsSafe'
    BY <1>3 DEF IInv, HeaderTypes, PayloadsSafe, Blocks, End
  <2> QED
    BY <2>1, <1>3, SameHeaderStays DEF IInv
<1>4. ASSUME NEW n \in Requests, NEW k \in BatchSizes, NEW a \in Alignments,
             BeginAllocateMany(n, k, a)
      PROVE  IInv' /\ Stays
  BY <1>3, <1>4, BeginAllocateStep DEF BeginAllocateMany
<1>5. CASE AllocateNext
  BY <1>5, AllocateNextStep, SparedStays
<1>6. CASE AllocateManyFails
  BY <1>3, <1>6, AllocateManyFailsStep DEF AllocateManyFails
<1>7. CASE RollbackNext
  BY <1>7, RollbackStep, SameHeaderStays
<1>8. CASE RollbackDone
  BY <1>3, <1>8, IdleBatch DEF RollbackDone
<1>9. ASSUME NEW ptrs \in PointerArrays, BeginDeallocateMany(ptrs) PROVE IInv' /\ Stays
  BY <1>3, <1>9, BeginDeallocateStep DEF BeginDeallocateMany
<1>10. CASE DeallocateNext
  BY <1>10, DeallocateNextStep, SameHeaderStays
<1>11. ASSUME NEW p \in live, NEW n \in Requests, NEW a \in Alignments,
              try_expand_in_block(p, n, a) \/ try_expand_into_next(p, n, a)
       PROVE  IInv' /\ Stays
  <2>1. /\ Heap' /\ HeaderTypes' /\ PayloadsSafe' /\ Spared(live \ {p})
        /\ p \in DOMAIN header' /\ header'[p].block = header[p].block
    BY <1>11, ExpandInBlock, ExpandIntoNext
  <2>2. batch' = Idle /\ live' = live
    BY <1>11 DEF try_expand_in_block, try_expand_into_next
  <2> QED
    BY <2>1, <2>2, IdleBatch, ExpandStays DEF IInv, Heap
<1>12. ASSUME Resized, live' = live, batch' = Idle PROVE IInv' /\ Stays
  <2>1. PayloadsSafe'
    BY <1>12, UsedKept DEF Resized
  <2> QED
    BY <2>1, <1>12, IdleBatch, SparedStays DEF Resized, IInv, Heap
<1>13. ASSUME NEW s \in GrowSizes, grow_tail(s) PROVE IInv' /\ Stays
  BY <1>12, <1>13, GrowTail DEF grow_tail
<1>14. ASSUME NEW s \in GrowSizes, grow_new_block(s) PROVE IInv' /\ Stays
  BY <1>12, <1>14, GrowNewBlock DEF grow_new_block
<1>15. CASE shrink_only_block
  BY <1>12, <1>15, ShrinkOnlyBlock DEF shrink_only_block
<1>16. CASE shrink_last_block
  BY <1>12, <1>16, ShrinkLastBlock DEF shrink_last_block
<1>17. CASE zero_free_memory
  BY <1>12, <1>17, ZeroFreeMemory DEF zero_free_memory
<1> QED
  BY <1>1, <1>2, <1>4, <1>5, <1>6, <1>7, <1>8, <1>9, <1>10, <1>11, <1>13, <1>14, <1>15,
     <1>16, <1>17 DEF Next

(* A step that changes nothing keeps the invariant.                        *)
LEMMA StutterStep ==
  ASSUME IInv, UNCHANGED vars
  PROVE  IInv'
BY DEF vars, IInv, HeaderTypes, PayloadsSafe, Blocks, End, BatchInv, Allocating, Deallocating

(* The invariant is inductive.                                             *)
THEOREM Invariant == Fitting => (Spec => []IInv)
<1> SUFFICES ASSUME Fitting PROVE Spec => []IInv
  OBVIOUS
<1>1. Init => IInv
  BY InitIInv
<1>2. IInv /\ [Next]_vars => IInv'
  BY NextStep, StutterStep
<1> QED
  BY <1>1, <1>2, PTL DEF Spec

----------------------------------------------------------------------------
(* What follows.                                                           *)

(* When nothing is allocated, the segment is one free block.               *)
LEMMA EmptyHeap ==
  ASSUME IInv, live = {}
  PROVE  all_memory_deallocated
<1>1. \A b \in Blocks : b \in is_free
  BY DEF IInv, PayloadsSafe
<1>2. FirstBlock \in Blocks /\ FirstBlock \in is_free
  BY <1>1 DEF IInv, HeapOf, Geometry, Blocks
<1>3. FirstBlock + size[FirstBlock] = segment_size
  <2>1. FirstBlock + size[FirstBlock] \in Blocks \cup {segment_size}
    BY <1>2, BlockFacts
  <2>2. FirstBlock + size[FirstBlock] \notin is_free
    BY <1>2 DEF IInv, HeapOf, Merged
  <2> QED
    BY <2>1, <2>2, <1>1
<1>4. \A b \in Blocks : b = FirstBlock
  <2> SUFFICES ASSUME NEW b \in Blocks, b # FirstBlock PROVE FALSE
    OBVIOUS
  <2>1. b \in Nat /\ size[b] \in Nat /\ 32 <= size[b] /\ b + size[b] <= segment_size /\ FirstBlock <= b
    BY BlockFacts
  <2>2. FirstBlock \in Nat /\ (FirstBlock < b => segment_size <= b) /\ segment_size \in Nat
    BY <1>2, <1>3, BlockFacts
  <2> QED
    BY <2>1, <2>2
<1>5. is_free = {FirstBlock}
  BY <1>2, <1>4 DEF IInv, HeapOf, FreeSpace, Blocks
<1>6. free_list = <<FirstBlock>>
  <2>1. PICK m \in Nat : m = Len(free_list) /\ free_list \in [1 .. m -> {FirstBlock}]
    BY <1>5 DEF IInv, HeapOf, FreeSpace
  <2>2. m # 0
    BY <2>1, <1>5 DEF IInv, HeapOf, FreeSpace
  <2>3. ~(m > 1)
    <3> SUFFICES ASSUME m > 1 PROVE FALSE
      OBVIOUS
    <3>1. Precedes(size, free_list[1], free_list[2])
      BY <2>1 DEF IInv, HeapOf, FreeSpace, Sorted
    <3>2. free_list[1] = FirstBlock /\ free_list[2] = FirstBlock
      BY <2>1
    <3> QED
      BY <3>1, <3>2, <1>2, BlockFacts DEF Precedes
  <2>4. m = 1
    BY <2>1, <2>2, <2>3
  <2>5. free_list \in Seq({FirstBlock}) /\ Len(free_list) = 1 /\ free_list[1] = FirstBlock
    BY <2>1, <2>4, <1>5 DEF IInv, HeapOf, FreeSpace
  <2> QED
    BY <2>5
<1>7. size[FirstBlock] = segment_size - FirstBlock
  BY <1>2, <1>3, BlockFacts
<1> QED
  BY <1>2, <1>6, <1>7 DEF all_memory_deallocated

(* The invariant implies what check_sanity tests, and the rest of HeapInv. *)
LEMMA SaneHeap ==
  ASSUME IInv
  PROVE  check_sanity /\ Tiling /\ Coalesced /\ FreeListSorted
<1>1. \A b \in Blocks :
        /\ b \in Nat /\ b % 16 = 0 /\ WellFormed(b) /\ End(b) = b + size[b]
        /\ b < segment_size /\ FirstBlock <= b
  <2> SUFFICES ASSUME NEW b \in Blocks
               PROVE  /\ b \in Nat /\ b % 16 = 0 /\ WellFormed(b) /\ End(b) = b + size[b]
                      /\ b < segment_size /\ FirstBlock <= b
    OBVIOUS
  <2>1. /\ b \in Nat /\ size[b] \in Nat /\ 32 <= size[b] /\ End(b) = b + size[b]
        /\ b + size[b] <= segment_size /\ segment_size \in Nat
        /\ b % 16 = 0 /\ size[b] % 16 = 0 /\ FirstBlock <= b
    BY BlockFacts
  <2> QED
    BY <2>1 DEF WellFormed, BlockHeaderSize, Alignment
<1>2. \A i \in 1 .. Len(free_list) : free_list[i] \in is_free /\ free_list[i] \in Blocks
  BY DEF IInv, HeapOf, FreeSpace, Blocks
<1>3. \A b \in Blocks : is_block_in_chain(b)
  BY <1>1 DEF is_block_in_chain, WalkReaches
<1>4. check_sanity
  <2>1. segment_size # 0 /\ \E b \in Blocks : End(b) = segment_size
    <3>1. last_block \in Blocks /\ last_block + size[last_block] = segment_size
      BY LastFacts
    <3> QED
      BY <3>1, <1>1, LastFacts
  <2>2. \A i \in 1 .. Len(free_list) :
          /\ free_list[i] < segment_size /\ free_list[i] % Alignment = 0
          /\ FreeAt(free_list[i]) /\ is_block_in_chain(free_list[i])
    BY <1>1, <1>2, <1>3 DEF FreeAt, Alignment
  <2>3. \A b \in Blocks : FreeAt(b) <=> is_in_free_list(b)
    <3> SUFFICES ASSUME NEW b \in Blocks PROVE FreeAt(b) <=> is_in_free_list(b)
      OBVIOUS
    <3>1. b \in is_free => \E i \in 1 .. Len(free_list) : free_list[i] = b
      BY DEF IInv, HeapOf, FreeSpace
    <3>2. (\E i \in 1 .. Len(free_list) : free_list[i] = b) => b \in is_free
      BY <1>2
    <3> QED
      BY <3>1, <3>2 DEF FreeAt, is_in_free_list
  <2> QED
    BY <2>1, <2>2, <2>3, <1>1 DEF check_sanity, Alignment
<1>5. Tiling
  <2>1. FirstBlock \in Blocks
    BY DEF IInv, HeapOf, Geometry, Blocks
  <2>2. \A b \in Blocks : End(b) \in Blocks \cup {segment_size} /\ \A c \in Blocks : b < c => End(b) <= c
    BY BlockFacts
  <2> QED
    BY <2>1, <2>2, <1>1 DEF Tiling
<1>6. Coalesced
  BY <1>1 DEF Coalesced, IInv, HeapOf, Merged, FreeSpace, Blocks
<1>7. FreeListSorted
  BY DEF FreeListSorted, IInv, HeapOf, FreeSpace, Sorted
<1> QED
  BY <1>4, <1>5, <1>6, <1>7

(* The invariant implies the types.                                        *)
LEMMA Types == ASSUME IInv PROVE TypeOK
<1>1. /\ segment_size \in Nat /\ DOMAIN size \subseteq Nat /\ size \in [DOMAIN size -> Nat]
      /\ is_free \subseteq DOMAIN size
  BY DEF IInv, HeapOf, Geometry, FreeSpace
<1>2. free_list \in Seq(DOMAIN size)
  BY SeqMonotonic DEF IInv, HeapOf, FreeSpace
<1>3. batch.op \in {"idle", "allocate", "rollback", "deallocate"}
  BY DEF IInv, BatchInv, Idle, Allocating, Deallocating
<1> QED
  BY <1>1, <1>2, <1>3 DEF TypeOK, IInv, HeaderTypes

(***************************************************************************)
(* The heap is sane between any two steps of any history of allocate,      *)
(* deallocate, their batches, try_expand, grow and shrink_to_fit: the      *)
(* blocks tile the segment, the free list holds the free blocks merged and *)
(* in order, and it is one block when everything has been given back.      *)
(***************************************************************************)
THEOREM HeapCorrect == Fitting => (Spec => []HeapInv)
<1> SUFFICES ASSUME Fitting PROVE Spec => []HeapInv
  OBVIOUS
<1>1. IInv => HeapInv
  BY EmptyHeap, SaneHeap, Types DEF HeapInv, HeapSane
<1>2. Spec => []IInv
  BY Invariant
<1> QED
  BY <1>1, <1>2, PTL

(***************************************************************************)
(* Callers never share bytes, with each other or with the bookkeeping of   *)
(* the allocator, and no block in use is lost.                             *)
(***************************************************************************)
THEOREM PayloadsCorrect == Fitting => (Spec => []PayloadsSafe)
<1> SUFFICES ASSUME Fitting PROVE Spec => []PayloadsSafe
  OBVIOUS
<1>1. IInv => PayloadsSafe
  BY DEF IInv
<1>2. Spec => []IInv
  BY Invariant
<1> QED
  BY <1>1, <1>2, PTL

(***************************************************************************)
(* While a caller holds a payload, no step moves it to another block or    *)
(* overwrites its AllocationHeader; try_expand changes that of one only.   *)
(***************************************************************************)
THEOREM PayloadsUntouched == Fitting => (Spec => PayloadsStay)
<1> SUFFICES ASSUME Fitting PROVE Spec => PayloadsStay
  OBVIOUS
<1>1. IInv /\ [Next]_vars => [Stays]_vars
  BY NextStep
<1>2. Spec => []IInv
  BY Invariant
<1>3. Spec => [][Stays]_vars
  BY <1>1, <1>2, PTL DEF Spec
<1> QED
  BY <1>3 DEF PayloadsStay, Stays

----------------------------------------------------------------------------
(* The rollback of allocate_many.                                          *)

(* The blocks in use determine the heap: its free blocks are the gaps      *)
(* between them, and the order of the list leaves no choice.               *)
LEMMA FreeDetermined ==
  ASSUME NEW seg, NEW sz, NEW fr, NEW list, HeapOf(seg, sz, fr, list),
         NEW tz, NEW gr, NEW tist, HeapOf(seg, tz, gr, tist),
         DOMAIN sz \ fr = DOMAIN tz \ gr,
         \A c \in DOMAIN sz \ fr : tz[c] = sz[c]
  PROVE  fr \subseteq gr
<1> SUFFICES ASSUME NEW f \in fr PROVE f \in gr
  OBVIOUS
<1>1. f \in DOMAIN sz /\ f # seg
  <2>1. f \in DOMAIN sz
    BY DEF HeapOf, FreeSpace
  <2>2. f \in Nat /\ sz[f] \in Nat /\ 32 <= sz[f] /\ f + sz[f] <= seg /\ seg \in Nat
    BY <2>1 DEF HeapOf, Geometry
  <2> QED
    BY <2>1, <2>2
<1>2. f \in DOMAIN tz
  <2>1. CASE f = FirstBlock
    BY <2>1 DEF HeapOf, Geometry
  <2>2. CASE f # FirstBlock
    <3>1. PICK u \in DOMAIN sz : u + sz[u] = f
      BY <2>2, <1>1 DEF HeapOf, Geometry
    <3>2. u \notin fr
      BY <3>1 DEF HeapOf, Merged
    <3>3. u \in DOMAIN tz /\ u + tz[u] = f
      BY <3>1, <3>2
    <3> QED
      BY <3>3, <1>1 DEF HeapOf, Geometry
  <2> QED
    BY <2>1, <2>2
<1> QED
  BY <1>2

(* In two tilings with the same blocks, no block of the first is larger.   *)
LEMMA SizeDetermined ==
  ASSUME NEW seg, NEW sz, NEW tz, Geometry(sz, seg), Geometry(tz, seg), DOMAIN sz = DOMAIN tz,
         NEW f \in DOMAIN sz
  PROVE  sz[f] <= tz[f]
<1>1. /\ f \in Nat /\ sz[f] \in Nat /\ tz[f] \in Nat /\ 32 <= tz[f]
      /\ f + sz[f] <= seg /\ f + tz[f] \in DOMAIN sz \cup {seg} /\ seg \in Nat
  BY DEF Geometry
<1>2. CASE f + tz[f] = seg
  BY <1>1, <1>2
<1>3. CASE f + tz[f] \in DOMAIN sz
  <2>1. PICK e \in DOMAIN sz : e = f + tz[f]
    BY <1>3
  <2>2. e \in Nat /\ f < e
    BY <2>1, <1>1
  <2>3. f + sz[f] <= e
    BY <2>2 DEF Geometry
  <2> QED
    BY <2>1, <2>2, <2>3, <1>1
<1> QED
  BY <1>1, <1>2, <1>3

(* Two lists of the same blocks agree as far as the first goes.            *)
LEMMA ListDetermined ==
  ASSUME NEW sz, DOMAIN sz \subseteq Nat, sz \in [DOMAIN sz -> Nat],
         NEW fr, NEW list, FreeSpace(sz, fr, list), NEW tist, FreeSpace(sz, fr, tist)
  PROVE  \A i \in 1 .. Len(list) : i <= Len(tist) /\ list[i] = tist[i]
<1>0. Len(list) \in Nat /\ Len(tist) \in Nat
  BY FreeLength
<1>1. PICK n \in Nat, m \in Nat : n = Len(list) /\ m = Len(tist)
  BY <1>0
<1>2. list \in [1 .. n -> fr] /\ tist \in [1 .. m -> fr] /\ fr \subseteq DOMAIN sz
  BY <1>1, FreeLength
<1>3. /\ \A i, j \in 1 .. n : i < j => Precedes(sz, list[i], list[j])
      /\ \A i, j \in 1 .. m : i < j => Precedes(sz, tist[i], tist[j])
  BY <1>1 DEF FreeSpace, Sorted
<1> DEFINE S == {i \in 1 .. n : ~(i <= m /\ list[i] = tist[i])}
<1> SUFFICES ASSUME S # {} PROVE FALSE
  BY <1>1
<1>4. PICK k \in S : \A j \in S : k <= j
  <2>1. S \in SUBSET Nat
    OBVIOUS
  <2> HIDE DEF S
  <2>2. Least(S) \in S /\ \A j \in S : Least(S) <= j
    BY <2>1, LeastExists
  <2> QED
    BY <2>2
<1>5. k \in 1 .. n /\ ~(k <= m /\ list[k] = tist[k])
  OBVIOUS
<1>6. \A j \in 1 .. n : j < k => j <= m /\ list[j] = tist[j]
  BY <1>4
<1> HIDE DEF S
<1>7. PICK x \in fr : x = list[k]
  BY <1>2, <1>5
<1>8. PICK u \in 1 .. m : tist[u] = x
  BY <1>1 DEF FreeSpace
<1>9. ~(u < k)
  <2> SUFFICES ASSUME u < k PROVE FALSE
    OBVIOUS
  <2>1. u \in 1 .. n
    BY <1>5
  <2>2. list[u] = x /\ Precedes(sz, list[u], list[k])
    BY <2>1, <1>3, <1>5, <1>6, <1>8
  <2> QED
    BY <2>2, <1>2, <1>7, PrecedesOrder
<1>10. k \in 1 .. m /\ k < u
  BY <1>5, <1>7, <1>8, <1>9
<1>11. PICK y \in fr : y = tist[k]
  BY <1>2, <1>10
<1>12. Precedes(sz, y, x) /\ y # x
  BY <1>3, <1>5, <1>7, <1>8, <1>10, <1>11
<1>13. PICK v \in 1 .. n : list[v] = y
  BY <1>1 DEF FreeSpace
<1>14. ~(v < k)
  <2> SUFFICES ASSUME v < k PROVE FALSE
    OBVIOUS
  <2>1. v \in 1 .. m /\ tist[v] = y /\ Precedes(sz, tist[v], tist[k])
    BY <1>3, <1>6, <1>10, <1>13
  <2> QED
    BY <2>1, <1>2, <1>11, PrecedesOrder
<1>15. k < v
  BY <1>5, <1>7, <1>12, <1>13, <1>14
<1>16. Precedes(sz, x, y)
  BY <1>3, <1>5, <1>7, <1>13, <1>15
<1>17. Precedes(sz, x, x)
  BY <1>2, <1>12, <1>16, PrecedesOrder
<1> QED
  BY <1>2, <1>17, PrecedesOrder

(* Two heaps with the same blocks in use are the same heap.                *)
LEMMA HeapDetermined ==
  ASSUME NEW seg, NEW sz, NEW fr, NEW list, HeapOf(seg, sz, fr, list),
         NEW tz, NEW gr, NEW tist, HeapOf(seg, tz, gr, tist),
         DOMAIN sz \ fr = DOMAIN tz \ gr,
         \A c \in DOMAIN sz \ fr : tz[c] = sz[c]
  PROVE  sz = tz /\ fr = gr /\ list = tist
<1>1. fr = gr
  <2>1. fr \subseteq gr
    BY FreeDetermined
  <2>2. \A c \in DOMAIN tz \ gr : sz[c] = tz[c]
    OBVIOUS
  <2>3. gr \subseteq fr
    BY <2>2, FreeDetermined
  <2> QED
    BY <2>1, <2>3
<1>2. DOMAIN sz = DOMAIN tz
  BY <1>1 DEF HeapOf, FreeSpace
<1>3. Geometry(sz, seg) /\ Geometry(tz, seg)
  BY DEF HeapOf
<1>4. \A c \in DOMAIN sz : sz[c] = tz[c]
  <2> SUFFICES ASSUME NEW c \in DOMAIN sz PROVE sz[c] = tz[c]
    OBVIOUS
  <2>1. sz[c] <= tz[c] /\ tz[c] <= sz[c]
    BY <1>2, <1>3, SizeDetermined
  <2>2. sz[c] \in Nat /\ tz[c] \in Nat
    BY <1>2, <1>3 DEF Geometry
  <2> QED
    BY <2>1, <2>2
<1>5. sz = tz
  <2>1. sz = [c \in DOMAIN sz |-> sz[c]] /\ tz = [c \in DOMAIN tz |-> tz[c]]
    BY <1>3 DEF Geometry
  <2> QED
    BY <2>1, <1>2, <1>4
<1>6. list = tist
  <2>1. FreeSpace(sz, fr, list) /\ FreeSpace(sz, fr, tist) /\ DOMAIN sz \subseteq Nat
          /\ sz \in [DOMAIN sz -> Nat]
    BY <1>1, <1>3, <1>5 DEF HeapOf, Geometry
  <2>2. \A i \in 1 .. Len(list) : i <= Len(tist) /\ list[i] = tist[i]
    BY <2>1, ListDetermined
  <2>3. \A i \in 1 .. Len(tist) : i <= Len(list) /\ tist[i] = list[i]
    BY <2>1, ListDetermined
  <2>4. list \in Seq(fr) /\ tist \in Seq(fr) /\ Len(list) \in Nat /\ Len(tist) \in Nat
    BY <2>1 DEF FreeSpace
  <2>5. Len(list) = Len(tist)
    <3>1. Len(list) > 0 => Len(list) <= Len(tist)
      BY <2>2, <2>4
    <3>2. Len(tist) > 0 => Len(tist) <= Len(list)
      BY <2>3, <2>4
    <3> QED
      BY <3>1, <3>2, <2>4
  <2> QED
    BY <2>2, <2>4, <2>5, SeqEqual
<1> QED
  BY <1>1, <1>5, <1>6

(***************************************************************************)
(* While allocate_many is under way, the heap before it can be restored:   *)
(* the blocks in use are those of that heap, with the sizes they had, and  *)
(* the blocks of the payloads handed out so far, which were not in use.    *)
(***************************************************************************)
RestorableTo(seg, sz, fr, list) ==
  /\ batch.before = <<seg, sz, fr, list>>
  /\ seg = segment_size
  /\ HeapOf(seg, sz, fr, list)
  /\ DOMAIN sz \ fr \subseteq Used
  /\ \A c \in DOMAIN sz \ fr : size[c] = sz[c]
  /\ \A c \in Used :
       c \in DOMAIN sz \ fr <=> \A i \in 1 .. Len(batch.out) : header[batch.out[i]].block # c

RestoreInv ==
  batch.op \in {"allocate", "rollback"} =>
    RestorableTo(batch.before[1], batch.before[2], batch.before[3], batch.before[4])

(* RestorableTo speaks of the heap that batch.before holds.                *)
LEMMA RestoreIntro ==
  ASSUME NEW seg, NEW sz, NEW fr, NEW list, RestorableTo(seg, sz, fr, list)'
  PROVE  RestoreInv'
<1>1. batch'.before = <<seg, sz, fr, list>>
  BY DEF RestorableTo
<1>2. /\ seg = batch'.before[1] /\ sz = batch'.before[2]
      /\ fr = batch'.before[3] /\ list = batch'.before[4]
  BY <1>1
<1> QED
  BY <1>2 DEF RestoreInv

(* The batch begins: nothing has been handed out.                          *)
LEMMA RestoreBegins ==
  ASSUME IInv, NEW n, NEW k, NEW a, BeginAllocateMany(n, k, a)
  PROVE  RestoreInv'
<1>1. /\ batch'.before = <<segment_size, size, is_free, free_list>> /\ batch'.out = << >>
      /\ UNCHANGED <<segment_size, size, is_free, free_list, header>>
  BY DEF BeginAllocateMany, heap
<1>2. PICK seg, sz, fr, list :
        seg = segment_size /\ sz = size /\ fr = is_free /\ list = free_list
  OBVIOUS
<1>3. Used' = DOMAIN sz \ fr
  BY <1>1, <1>2 DEF Used, Blocks
<1>4. HeapOf(seg, sz, fr, list)
  BY <1>2 DEF IInv
<1>5. 1 .. Len(batch'.out) = {}
  BY <1>1
<1>6. RestorableTo(seg, sz, fr, list)'
  BY <1>1, <1>2, <1>3, <1>4, <1>5 DEF RestorableTo
<1> QED
  BY <1>6, RestoreIntro

(* One more payload is handed out, in a block that was free.               *)
LEMMA RestoreAllocates ==
  ASSUME Fitting, IInv, RestoreInv, AllocateNext
  PROVE  RestoreInv'
<1>1. Allocating /\ batch.op = "allocate" /\ ~OutOfMemory(batch.n, batch.a)
  BY BatchForm DEF AllocateNext
<1>2. PICK n \in Requests, a \in Alignments : n = batch.n /\ a = batch.a
  BY <1>1 DEF Allocating
<1>3. PICK b \in is_free : b = ChosenBlock(n, a) /\ LayoutSize(b, n, a) <= size[b]
  BY <1>1, <1>2, ChosenFits
<1>4. PICK p : p = Payload(b, a)
  OBVIOUS
<1>5. PICK old \in Seq(live) : old = batch.out
  BY <1>1 DEF Allocating
<1>6. PICK m \in Nat : m = Len(old) /\ \A i \in 1 .. m : old[i] \in live
  BY LenProperties, ElementOfSeq
<1>7. PICK out : out = Append(old, p)
  OBVIOUS
<1>8. /\ allocate_from_block(b, n, a)
      /\ batch' = IF Len(out) = batch.count THEN Idle ELSE [batch EXCEPT !.out = out]
  BY <1>2, <1>3, <1>4, <1>5, <1>7 DEF AllocateNext
<1>9. /\ p \notin live /\ p \in Nat /\ Spared(live)
      /\ Used' = Used \cup {b} /\ \A c \in Used : size'[c] = size[c]
      /\ header'[p].block = b /\ segment_size' = segment_size
  BY <1>3, <1>4, <1>8, AllocateStep DEF Used, Blocks
<1>10. CASE Len(out) = batch.count
  BY <1>8, <1>10 DEF RestoreInv, Idle
<1>11. CASE Len(out) # batch.count
  <2>1. batch'.out = out /\ batch'.before = batch.before
    BY <1>1, <1>8, <1>11 DEF Allocating
  <2>2. PICK seg, sz, fr, list : RestorableTo(seg, sz, fr, list)
    BY <1>1 DEF RestoreInv
  <2>3. PICK kept : kept = DOMAIN sz \ fr
    OBVIOUS
  <2>4. /\ batch.before = <<seg, sz, fr, list>> /\ seg = segment_size
        /\ HeapOf(seg, sz, fr, list) /\ kept \subseteq Used
        /\ \A c \in kept : size[c] = sz[c]
        /\ \A c \in Used : c \in kept <=> \A i \in 1 .. m : header[old[i]].block # c
    BY <2>2, <2>3, <1>5, <1>6 DEF RestorableTo
  <2>5. Len(out) = m + 1 /\ out[m + 1] = p /\ \A i \in 1 .. m : out[i] = old[i]
    <3>1. old \in Seq(live \cup {p}) /\ p \in live \cup {p}
      BY <1>5, SeqMonotonic
    <3> QED
      BY <3>1, <1>6, <1>7, AppendProperties
  <2>6. header'[out[m + 1]].block = b /\ \A i \in 1 .. m : header'[out[i]].block = header[old[i]].block
    BY <2>5, <1>6, <1>9 DEF Spared
  <2>7. b \notin Used
    BY <1>3 DEF Used
  <2>8. ASSUME NEW c \in Used'
        PROVE  c \in kept <=> \A i \in 1 .. m + 1 : header'[out[i]].block # c
    <3>1. CASE c = b
      <4>1. m + 1 \in 1 .. m + 1
        BY <1>6
      <4> QED
        BY <4>1, <3>1, <2>4, <2>6, <2>7
    <3>2. CASE c # b
      <4>1. c \in Used
        BY <3>2, <1>9
      <4>2. c \in kept <=> \A i \in 1 .. m : header'[out[i]].block # c
        <5>1. c \in kept <=> \A i \in 1 .. m : header[old[i]].block # c
          BY <4>1, <2>4
        <5>2. \A i \in 1 .. m : header'[out[i]].block = header[old[i]].block
          BY <2>6
        <5> QED
          BY <5>1, <5>2
      <4>3. \A i \in 1 .. m + 1 : i \in 1 .. m \/ i = m + 1
        BY <1>6
      <4>4. \A i \in 1 .. m : i \in 1 .. m + 1
        BY <1>6
      <4> QED
        BY <4>2, <4>3, <4>4, <3>2, <2>6
    <3> QED
      BY <3>1, <3>2
  <2>9. RestorableTo(seg, sz, fr, list)'
    <3>1. kept \subseteq Used' /\ \A c \in kept : size'[c] = sz[c]
      BY <2>4, <1>9
    <3> QED
      BY <3>1, <2>1, <2>3, <2>4, <2>5, <2>8, <1>9 DEF RestorableTo
  <2> QED
    BY <2>9, RestoreIntro
<1> QED
  BY <1>10, <1>11

(* The handler frees the newest of them.                                   *)
LEMMA RestoreRollsBack ==
  ASSUME IInv, RestoreInv, RollbackNext
  PROVE  RestoreInv'
<1>1. Allocating /\ batch.op = "rollback" /\ batch.out # << >>
  BY BatchForm DEF RollbackNext
<1>2. PICK old \in Seq(live) : old = batch.out /\ Distinct(old) /\ old # << >>
  BY <1>1 DEF Allocating
<1>3. PICK m \in Nat : m = Len(old) /\ m > 0
  BY <1>2
<1>4. PICK p \in live : p = old[m]
  BY <1>3
<1>5. PICK out : out = SubSeq(old, 1, m - 1)
  OBVIOUS
<1>6. deallocate_block(header[p].block) /\ batch' = [batch EXCEPT !.out = out]
  BY <1>2, <1>3, <1>4, <1>5 DEF RollbackNext
<1>7. PICK b \in Used : b = header[p].block
  BY LiveFacts
<1>8. /\ header' = header /\ segment_size' = segment_size
      /\ Used' = Used \ {b} /\ \A c \in Used \ {b} : size'[c] = size[c]
  BY <1>6, <1>7, DeallocateHeap DEF Used, Blocks
<1>9. Len(out) = m - 1 /\ \A i \in 1 .. m - 1 : out[i] = old[i]
  BY <1>3, <1>5, SubSeqProperties
<1>10. batch'.out = out /\ batch'.before = batch.before
  BY <1>1, <1>6 DEF Allocating
<1>11. PICK seg, sz, fr, list : RestorableTo(seg, sz, fr, list)
  BY <1>1 DEF RestoreInv
<1>12. PICK kept : kept = DOMAIN sz \ fr
  OBVIOUS
<1>13. /\ batch.before = <<seg, sz, fr, list>> /\ seg = segment_size
       /\ HeapOf(seg, sz, fr, list) /\ kept \subseteq Used
       /\ \A c \in kept : size[c] = sz[c]
       /\ \A c \in Used : c \in kept <=> \A i \in 1 .. m : header[old[i]].block # c
  BY <1>2, <1>3, <1>11, <1>12 DEF RestorableTo
<1>14. b \notin kept
  BY <1>3, <1>4, <1>7, <1>13
<1>15. ASSUME NEW c \in Used'
       PROVE  c \in kept <=> \A i \in 1 .. m - 1 : header'[out[i]].block # c
  <2>1. c \in Used /\ c # b
    BY <1>8
  <2>2. c \in kept <=> \A i \in 1 .. m : header[old[i]].block # c
    BY <2>1, <1>13
  <2>3. \A i \in 1 .. m : i \in 1 .. m - 1 \/ i = m
    BY <1>3
  <2>4. \A i \in 1 .. m - 1 : i \in 1 .. m
    BY <1>3
  <2>5. \A i \in 1 .. m - 1 : header'[out[i]].block = header[old[i]].block
    BY <1>8, <1>9
  <2>6. header[old[m]].block # c
    BY <2>1, <1>4, <1>7
  <2> QED
    BY <2>2, <2>3, <2>4, <2>5, <2>6
<1>16. RestorableTo(seg, sz, fr, list)'
  <2>1. kept \subseteq Used' /\ \A c \in kept : size'[c] = sz[c]
    BY <1>8, <1>13, <1>14
  <2> QED
    BY <2>1, <1>8, <1>9, <1>10, <1>12, <1>13, <1>15 DEF RestorableTo
<1> QED
  BY <1>16, RestoreIntro

(* The failure itself changes nothing yet.                                 *)
LEMMA RestoreFails ==
  ASSUME IInv, RestoreInv, AllocateManyFails
  PROVE  RestoreInv'
<1>1. Allocating /\ batch.op = "allocate" /\ batch' = [batch EXCEPT !.op = "rollback"]
  BY BatchForm DEF AllocateManyFails
<1>2. batch'.out = batch.out /\ batch'.before = batch.before
  BY <1>1 DEF Allocating
<1>3. UNCHANGED <<segment_size, size, is_free, header>>
  BY DEF AllocateManyFails
<1>4. PICK seg, sz, fr, list : RestorableTo(seg, sz, fr, list)
  BY <1>1 DEF RestoreInv
<1>5. RestorableTo(seg, sz, fr, list)'
  BY <1>2, <1>3, <1>4 DEF RestorableTo, Used, Blocks
<1> QED
  BY <1>5, RestoreIntro

(* One step per action; most of them run only outside of a batch.          *)
LEMMA RestoreNext ==
  ASSUME Fitting, IInv, RestoreInv, [Next]_vars
  PROVE  RestoreInv'
<1>1. ASSUME batch' = Idle PROVE RestoreInv'
  BY <1>1 DEF RestoreInv, Idle
<1>2. ASSUME NEW n, NEW k, NEW a, BeginAllocateMany(n, k, a) PROVE RestoreInv'
  BY <1>2, RestoreBegins
<1>3. CASE AllocateNext
  BY <1>3, RestoreAllocates
<1>4. CASE AllocateManyFails
  BY <1>4, RestoreFails
<1>5. CASE RollbackNext
  BY <1>5, RestoreRollsBack
<1>6. ASSUME NEW ptrs, BeginDeallocateMany(ptrs) PROVE RestoreInv'
  BY <1>6 DEF BeginDeallocateMany, RestoreInv
<1>7. CASE DeallocateNext
  <2>1. Deallocating
    BY <1>7, BatchForm DEF DeallocateNext
  <2>2. batch' = Idle \/ \E r : batch' = [batch EXCEPT !.ptrs = r]
    BY <1>7 DEF DeallocateNext
  <2>3. batch' = Idle \/ batch'.op = "deallocate"
    BY <2>1, <2>2 DEF Deallocating
  <2> QED
    BY <2>3, <1>1 DEF RestoreInv
<1>8. CASE UNCHANGED vars
  BY <1>8 DEF vars, RestoreInv, RestorableTo, Used, Blocks
<1>9. ASSUME NEW p, NEW n, NEW a,
             \/ allocate(n, a) \/ deallocate(p) \/ try_expand_in_block(p, n, a)
             \/ try_expand_into_next(p, n, a) \/ grow_tail(n) \/ grow_new_block(n)
             \/ shrink_only_block \/ shrink_last_block \/ zero_free_memory \/ RollbackDone
      PROVE  RestoreInv'
  <2>1. batch' = Idle
    BY <1>9 DEF allocate, deallocate, try_expand_in_block, try_expand_into_next, grow_tail,
                grow_new_block, shrink_only_block, shrink_last_block, zero_free_memory,
                RollbackDone
  <2> QED
    BY <2>1, <1>1
<1> QED
  BY <1>2, <1>3, <1>4, <1>5, <1>6, <1>7, <1>8, <1>9 DEF Next

(* When the handler is done, the blocks in use are those of the old heap,  *)
(* so the heap is the old heap.                                            *)
LEMMA RestoredHeap ==
  ASSUME IInv, RestoreInv, RollbackDone
  PROVE  heap = batch.before
<1>1. batch.op = "rollback" /\ batch.out = << >>
  BY DEF RollbackDone
<1>2. PICK seg, sz, fr, list : RestorableTo(seg, sz, fr, list)
  BY <1>1 DEF RestoreInv
<1>3. 1 .. Len(batch.out) = {}
  BY <1>1
<1>4. /\ batch.before = <<seg, sz, fr, list>> /\ seg = segment_size
      /\ HeapOf(seg, sz, fr, list) /\ DOMAIN sz \ fr = DOMAIN size \ is_free
      /\ \A c \in DOMAIN sz \ fr : size[c] = sz[c]
  BY <1>2, <1>3 DEF RestorableTo, Used, Blocks
<1>5. HeapOf(seg, size, is_free, free_list)
  BY <1>4 DEF IInv
<1>6. sz = size /\ fr = is_free /\ list = free_list
  BY <1>4, <1>5, HeapDetermined
<1> QED
  BY <1>4, <1>6 DEF heap

(***************************************************************************)
(* An allocate_many that runs out of memory hands back the heap it found:  *)
(* the same blocks, the same sizes, the same free list in the same order,  *)
(* wherever its elements were cut from and however the frees merged.       *)
(***************************************************************************)
THEOREM RollbackRestores == Fitting => (Spec => FailedBatchRestores)
<1> SUFFICES ASSUME Fitting PROVE Spec => FailedBatchRestores
  OBVIOUS
<1>1. Init => RestoreInv
  BY DEF Init, Idle, RestoreInv
<1>2. IInv /\ RestoreInv /\ [Next]_vars => RestoreInv'
  BY RestoreNext
<1>3. Spec => []IInv
  BY Invariant
<1>4. IInv /\ RestoreInv /\ [Next]_vars => [RollbackDone => heap = batch.before]_vars
  BY RestoredHeap
<1> QED
  BY <1>1, <1>2, <1>3, <1>4, PTL DEF Spec, FailedBatchRestores
=============================================================================
