--------------------------- MODULE BlockAllocator ---------------------------
(***************************************************************************)
(* The heap of a segment: SharedMemoryBlockAllocator.                      *)
(*                                                                         *)
(* The segment is tiled by blocks.  A block starts with a BlockHeader      *)
(* (size, is_free, next_free); an allocated one also holds, right below    *)
(* the payload it hands out, an AllocationHeader that leads back from the  *)
(* payload to the block.  Free blocks are kept in a list sorted by size    *)
(* and address, so that the first block that fits is the best fit.         *)
(*                                                                         *)
(* Addresses are offsets from segment_base, which every mapping places on  *)
(* a page boundary.  Every operation runs inside the manager's write       *)
(* section (module ManagerLock), so an operation is one step; the batch    *)
(* operations are a step per element, during which nothing else runs.      *)
(* The cumulative statistics counters are left out.                        *)
(***************************************************************************)
EXTENDS Integers, Sequences, FiniteSets

CONSTANTS
  ManagerHeaderSize, (* sizeof(SharedMemoryManager)                        *)
  TotalSize,         (* the size given to initialize                       *)
  SizeModulus,       (* 2^w for a w-bit std::size_t                        *)
  Requests,          (* sizes that callers ask for                         *)
  Alignments,        (* alignments that callers ask for                    *)
  GrowSizes,         (* segment sizes that grow is called with             *)
  BatchSizes         (* element counts of allocate_many, deallocate_many   *)

Alignment == 16            (* SharedMemoryBlockAllocator::alignment        *)
BlockHeaderSize == 32      (* sizeof(BlockHeader)                          *)
AllocationHeaderSize == 16 (* sizeof(AllocationHeader)                     *)

MinFreeBlock == BlockHeaderSize + Alignment

(***************************************************************************)
(* align_up, align_down and align_up_address; the last is only used with   *)
(* the values that normalize_alignment returns.                            *)
(***************************************************************************)
AlignDown(v) == v - (v % Alignment)
AlignUp(v) == AlignDown((v + Alignment - 1) % SizeModulus)
AlignUpAddress(v, a) == (v + a - 1) - ((v + a - 1) % a)

(* The results of doubling 16; alignments above a page are not supported.  *)
NormalAlignments == {16, 32, 64, 128, 256, 512, 1024, 2048, 4096}

NormalizeAlignment(requested) ==
  CHOOSE a \in NormalAlignments :
    /\ requested <= a
    /\ \A c \in NormalAlignments : requested <= c => a <= c

FirstBlock == AlignUp(ManagerHeaderSize)

(* The constructor of the manager refuses a segment that is too small.     *)
ASSUME SegmentAssumption ==
  /\ ManagerHeaderSize \in Nat
  /\ TotalSize \in Nat
  /\ SizeModulus \in Nat
  /\ ManagerHeaderSize + Alignment < SizeModulus
  /\ FirstBlock + BlockHeaderSize <= TotalSize

ASSUME CallerAssumption ==
  /\ Requests \subseteq 1 .. SizeModulus - 1
  /\ Alignments \subseteq 1 .. 4096
  /\ GrowSizes \subseteq Nat
  /\ BatchSizes \subseteq Nat \ {0}

VARIABLES
  segment_size, (* the segment ends here                                   *)
  size,         (* BlockHeader::size of every block of the chain           *)
  is_free,      (* the blocks whose BlockHeader::is_free is set            *)
  free_list,    (* the list from free_list_head along next_free            *)
  header,       (* the AllocationHeaders in memory, by payload address,    *)
                (* those of payloads that were freed included              *)
  live,         (* the payloads that callers hold                          *)
  batch         (* the allocate_many or deallocate_many under way          *)

heap == <<segment_size, size, is_free, free_list>>
vars == <<segment_size, size, is_free, free_list, header, live, batch>>

NoBlock == -1
Blocks == DOMAIN size
End(b) == b + size[b]
Idle == [op |-> "idle"]

----------------------------------------------------------------------------
(* Walks along the chain of blocks.                                        *)

(* The condition under which a walk steps over block b.                    *)
WellFormed(b) ==
  /\ size[b] >= BlockHeaderSize
  /\ size[b] % Alignment = 0
  /\ End(b) <= segment_size

WalkReaches(target) == \A b \in Blocks : b < target => WellFormed(b)

is_block_in_chain(b) == b \in Blocks /\ b < segment_size /\ WalkReaches(b)

(* Mutant: no block has a successor.                                       *)
physical_next_never(b) == NoBlock

physical_next(b) == IF End(b) >= segment_size THEN NoBlock ELSE End(b)

physical_previous(target) ==
  IF WalkReaches(target) /\ \E b \in Blocks : End(b) = target
  THEN CHOOSE b \in Blocks : End(b) = target
  ELSE NoBlock

last_block == physical_previous(segment_size)

FreeAt(b) == b \in is_free

----------------------------------------------------------------------------
(* The free list.                                                          *)

(* Block b goes before block c in a list whose blocks have sizes sz.       *)
Precedes(sz, b, c) == sz[b] < sz[c] \/ (sz[b] = sz[c] /\ b < c)

Least(S) == CHOOSE i \in S : \A j \in S : i <= j

insert_free_block(list, sz, b) ==
  LET pos == Least({i \in 1 .. Len(list) + 1 :
                      i <= Len(list) => ~Precedes(sz, list[i], b)})
  IN  [i \in 1 .. Len(list) + 1 |->
         IF i < pos THEN list[i] ELSE IF i = pos THEN b ELSE list[i - 1]]

remove_free_block(list, b) ==
  LET found == {i \in 1 .. Len(list) : list[i] = b}
      pos == Least(found)
  IN  IF found = {} THEN list
      ELSE [i \in 1 .. Len(list) - 1 |-> IF i < pos THEN list[i] ELSE list[i + 1]]

is_in_free_list(b) == \E i \in 1 .. Len(free_list) : free_list[i] = b

----------------------------------------------------------------------------
(* Layout of an allocation of n bytes with alignment a in block b.         *)

(* Mutant: no room for the AllocationHeader.                               *)
Payload_overlapping(b, a) ==
  AlignUpAddress(b + BlockHeaderSize, NormalizeAlignment(a))

Payload(b, a) ==
  AlignUpAddress(b + BlockHeaderSize + AllocationHeaderSize, NormalizeAlignment(a))

LayoutSize(b, n, a) == AlignUp((Payload(b, a) + n - b) % SizeModulus)

(***************************************************************************)
(* AllocationHeaders outlive their allocation.  One is lost only when the  *)
(* allocator writes memory, from lo to hi - 1, that overlaps it; callers   *)
(* are taken to leave the rest of the bytes they were given as they were.  *)
(***************************************************************************)
Survivors(lo, hi) ==
  {p \in DOMAIN header : p <= lo \/ hi <= p - AllocationHeaderSize}

WriteHeader(p, b, n, kept) ==
  header' = [q \in (kept \cap Survivors(p - AllocationHeaderSize, p)) \cup {p} |->
               IF q = p THEN [block |-> b, requested_size |-> n] ELSE header[q]]

(***************************************************************************)
(* split_allocated_block: block b, of total bytes and out of the list, is  *)
(* cut down to used bytes when a free block can be made of the rest.       *)
(***************************************************************************)
SplitAllocated(b, total, used, others, list) ==
  IF total - used < MinFreeBlock
  THEN /\ size' = [c \in others |-> IF c = b THEN total ELSE size[c]]
       /\ is_free' = (is_free \cap others) \ {b}
       /\ free_list' = list
  ELSE LET rest == b + used
       IN  /\ size' = [c \in others \cup {rest} |->
                         IF c = b THEN used
                         ELSE IF c = rest THEN total - used ELSE size[c]]
           /\ is_free' = ((is_free \cap others) \ {b}) \cup {rest}
           /\ free_list' = insert_free_block(list, size', rest)

(* The headers that the BlockHeader written by that split leaves intact.   *)
KeptBySplit(b, total, used) ==
  IF total - used < MinFreeBlock THEN DOMAIN header
  ELSE Survivors(b + used, b + used + BlockHeaderSize)

----------------------------------------------------------------------------
(* allocate                                                                *)

Fits(b, n, a) == FreeAt(b) /\ size[b] >= LayoutSize(b, n, a)

FittingEntries(n, a) == {i \in 1 .. Len(free_list) : Fits(free_list[i], n, a)}

OutOfMemory(n, a) == FittingEntries(n, a) = {}

(* The block that the scan of the free list settles on.                    *)
ChosenBlock(n, a) == free_list[Least(FittingEntries(n, a))]

allocate_from_block(b, n, a) ==
  LET p == Payload(b, a)
      used == LayoutSize(b, n, a)
  IN  /\ SplitAllocated(b, size[b], used, Blocks, remove_free_block(free_list, b))
      /\ WriteHeader(p, b, n, KeptBySplit(b, size[b], used))
      /\ live' = live \cup {p}
      /\ UNCHANGED segment_size

(* A request that does not fit throws bad_alloc and leaves the heap alone. *)
allocate(n, a) ==
  /\ batch = Idle
  /\ ~OutOfMemory(n, a)
  /\ allocate_from_block(ChosenBlock(n, a), n, a)
  /\ UNCHANGED batch

----------------------------------------------------------------------------
(* deallocate                                                              *)

has_allocation_header(p) == AllocationHeaderSize <= p /\ p < segment_size

is_valid_payload(p, b) ==
  /\ has_allocation_header(p)
  /\ b < segment_size
  /\ b % Alignment = 0
  /\ is_block_in_chain(b)
  /\ b + BlockHeaderSize + AllocationHeaderSize <= p
  /\ p < End(b)
  /\ header[p].requested_size <= End(b) - p

DeallocateOutcome(p) ==
  IF ~has_allocation_header(p) \/ ~is_valid_payload(p, header[p].block)
  THEN "invalid_pointer"
  ELSE IF FreeAt(header[p].block) THEN "double_free" ELSE "freed"

(* Merge the freed block with its free neighbours and list the result.     *)
deallocate_block(b) ==
  LET next == physical_next(b)
      prev == physical_previous(b)
      absorbed == IF next # NoBlock /\ FreeAt(next) THEN {next} ELSE {}
      merged == IF prev # NoBlock /\ FreeAt(prev) THEN prev ELSE b
      end == IF absorbed = {} THEN End(b) ELSE End(next)
      gone == absorbed \cup ({b} \ {merged})
      list == IF absorbed = {} THEN free_list ELSE remove_free_block(free_list, next)
      unlisted == IF merged = b THEN list ELSE remove_free_block(list, prev)
  IN  /\ size' = [c \in Blocks \ gone |-> IF c = merged THEN end - merged ELSE size[c]]
      /\ is_free' = (is_free \ gone) \cup {merged}
      /\ free_list' = insert_free_block(unlisted, size', merged)
      /\ UNCHANGED <<segment_size, header>>

(* A pointer that is refused leaves the heap alone.                        *)
deallocate(p) ==
  /\ batch = Idle
  /\ DeallocateOutcome(p) = "freed"
  /\ deallocate_block(header[p].block)
  /\ live' = live \ {p}
  /\ UNCHANGED batch

----------------------------------------------------------------------------
(* allocate_many and deallocate_many                                       *)

BeginAllocateMany(n, count, a) ==
  /\ batch = Idle
  /\ batch' = [op |-> "allocate", n |-> n, a |-> a, count |-> count,
               out |-> << >>, before |-> heap]
  /\ UNCHANGED <<segment_size, size, is_free, free_list, header, live>>

AllocateNext ==
  /\ batch.op = "allocate"
  /\ ~OutOfMemory(batch.n, batch.a)
  /\ LET b == ChosenBlock(batch.n, batch.a)
         out == Append(batch.out, Payload(b, batch.a))
     IN  /\ allocate_from_block(b, batch.n, batch.a)
         /\ batch' = IF Len(out) = batch.count THEN Idle
                     ELSE [batch EXCEPT !.out = out]

(* Mutant: the handler skips the newest element.                           *)
AllocateManyFails_skips ==
  /\ batch.op = "allocate"
  /\ OutOfMemory(batch.n, batch.a)
  /\ batch' = [batch EXCEPT !.op = "rollback",
                            !.out = SubSeq(@, 1, Len(@) - 1)]
  /\ UNCHANGED <<segment_size, size, is_free, free_list, header, live>>

AllocateManyFails ==
  /\ batch.op = "allocate"
  /\ OutOfMemory(batch.n, batch.a)
  /\ batch' = [batch EXCEPT !.op = "rollback"]
  /\ UNCHANGED <<segment_size, size, is_free, free_list, header, live>>

(* The handler frees what was allocated, newest first.                     *)
RollbackNext ==
  /\ batch.op = "rollback"
  /\ batch.out # << >>
  /\ LET p == batch.out[Len(batch.out)]
     IN  /\ deallocate_block(header[p].block)
         /\ live' = live \ {p}
         /\ batch' = [batch EXCEPT !.out = SubSeq(batch.out, 1, Len(batch.out) - 1)]

RollbackDone ==
  /\ batch.op = "rollback"
  /\ batch.out = << >>
  /\ batch' = Idle
  /\ UNCHANGED <<segment_size, size, is_free, free_list, header, live>>

BeginDeallocateMany(ptrs) ==
  /\ batch = Idle
  /\ batch' = [op |-> "deallocate", ptrs |-> ptrs]
  /\ UNCHANGED <<segment_size, size, is_free, free_list, header, live>>

DeallocateNext ==
  /\ batch.op = "deallocate"
  /\ LET p == batch.ptrs[1]
     IN  /\ deallocate_block(header[p].block)
         /\ live' = live \ {p}
         /\ batch' = IF Len(batch.ptrs) = 1 THEN Idle
                     ELSE [batch EXCEPT !.ptrs = Tail(batch.ptrs)]

----------------------------------------------------------------------------
(* try_expand: enlarge the allocation at p without moving it.              *)

(* The block is large enough already, or too large: only the record of     *)
(* the requested size changes.                                             *)
try_expand_in_block(p, n, a) ==
  LET b == header[p].block
  IN  /\ batch = Idle
      /\ DeallocateOutcome(p) = "freed"
      /\ Payload(b, a) = p
      /\ LayoutSize(b, n, a) <= size[b]
      /\ WriteHeader(p, b, n, DOMAIN header)
      /\ UNCHANGED <<segment_size, size, is_free, free_list, live, batch>>

(* Mutant: the next block is taken whether it is free or not.              *)
try_expand_into_next_used(p, n, a) ==
  LET b == header[p].block
      used == LayoutSize(b, n, a)
      next == physical_next(b)
      combined == size[b] + size[next]
  IN  /\ batch = Idle
      /\ DeallocateOutcome(p) = "freed"
      /\ Payload(b, a) = p
      /\ used > size[b]
      /\ next # NoBlock
      /\ combined >= used
      /\ SplitAllocated(b, combined, used, Blocks \ {next},
                        remove_free_block(free_list, next))
      /\ WriteHeader(p, b, n, KeptBySplit(b, combined, used))
      /\ UNCHANGED <<segment_size, live, batch>>

try_expand_into_next(p, n, a) ==
  LET b == header[p].block
      used == LayoutSize(b, n, a)
      next == physical_next(b)
      combined == size[b] + size[next]
  IN  /\ batch = Idle
      /\ DeallocateOutcome(p) = "freed"
      /\ Payload(b, a) = p
      /\ used > size[b]
      /\ next # NoBlock
      /\ FreeAt(next)
      /\ combined >= used
      /\ SplitAllocated(b, combined, used, Blocks \ {next},
                        remove_free_block(free_list, next))
      /\ WriteHeader(p, b, n, KeptBySplit(b, combined, used))
      /\ UNCHANGED <<segment_size, live, batch>>

----------------------------------------------------------------------------
(* grow and shrink_to_fit                                                  *)

grow_tail(new_size) ==
  LET tail == physical_previous(segment_size)
  IN  /\ batch = Idle
      /\ AlignDown(new_size) > segment_size
      /\ tail # NoBlock
      /\ FreeAt(tail)
      /\ segment_size' = AlignDown(new_size)
      /\ size' = [size EXCEPT ![tail] = @ + (AlignDown(new_size) - segment_size)]
      /\ free_list' = insert_free_block(remove_free_block(free_list, tail), size', tail)
      /\ UNCHANGED <<is_free, header, live, batch>>

grow_new_block(new_size) ==
  LET tail == physical_previous(segment_size)
      extra == AlignDown(new_size) - segment_size
      new_block == segment_size
  IN  /\ batch = Idle
      /\ tail = NoBlock \/ ~FreeAt(tail)
      /\ extra >= MinFreeBlock
      /\ segment_size' = AlignDown(new_size)
      /\ size' = [c \in Blocks \cup {new_block} |-> IF c = new_block THEN extra ELSE size[c]]
      /\ is_free' = is_free \cup {new_block}
      /\ free_list' = insert_free_block(free_list, size', new_block)
      /\ header' = [p \in Survivors(new_block, new_block + BlockHeaderSize) |-> header[p]]
      /\ UNCHANGED <<live, batch>>

(* Nothing but the first block is left: it keeps the size of the smallest  *)
(* free block.                                                             *)
shrink_only_block ==
  LET last == last_block
  IN  /\ batch = Idle
      /\ last = FirstBlock
      /\ FreeAt(last)
      /\ size[last] > MinFreeBlock
      /\ segment_size' = last + MinFreeBlock
      /\ size' = [size EXCEPT ![last] = MinFreeBlock]
      /\ free_list' = insert_free_block(remove_free_block(free_list, last), size', last)
      /\ UNCHANGED <<is_free, header, live, batch>>

shrink_last_block ==
  LET last == last_block
  IN  /\ batch = Idle
      /\ last \notin {NoBlock, FirstBlock}
      /\ FreeAt(last)
      /\ segment_size' = last
      /\ size' = [c \in Blocks \ {last} |-> size[c]]
      /\ is_free' = is_free \ {last}
      /\ free_list' = remove_free_block(free_list, last)
      /\ UNCHANGED <<header, live, batch>>

(* zero_free_memory clears what lies behind the BlockHeader of a free      *)
(* block, and with it the AllocationHeaders left there.                    *)
zero_free_memory ==
  /\ batch = Idle
  /\ header' = [p \in {q \in DOMAIN header :
                         \A b \in is_free : q \in Survivors(b + BlockHeaderSize, End(b))}
                   |-> header[p]]
  /\ UNCHANGED <<segment_size, size, is_free, free_list, live, batch>>

----------------------------------------------------------------------------
initialize ==
  /\ segment_size = TotalSize
  /\ size = [b \in {FirstBlock} |-> TotalSize - FirstBlock]
  /\ is_free = {FirstBlock}
  /\ free_list = <<FirstBlock>>

Init ==
  /\ initialize
  /\ header = [p \in {} |-> [block |-> NoBlock, requested_size |-> 0]]
  /\ live = {}
  /\ batch = Idle

(* Arrays of distinct live payloads, the argument of deallocate_many.      *)
PointerArrays ==
  {ptrs \in UNION {[1 .. k -> live] : k \in BatchSizes} :
     \A i, j \in DOMAIN ptrs : ptrs[i] = ptrs[j] => i = j}

Next ==
  \/ \E n \in Requests, a \in Alignments : allocate(n, a)
  \/ \E p \in live : deallocate(p)
  \/ \E n \in Requests, k \in BatchSizes, a \in Alignments : BeginAllocateMany(n, k, a)
  \/ AllocateNext
  \/ AllocateManyFails
  \/ RollbackNext
  \/ RollbackDone
  \/ \E ptrs \in PointerArrays : BeginDeallocateMany(ptrs)
  \/ DeallocateNext
  \/ \E p \in live, n \in Requests, a \in Alignments : try_expand_in_block(p, n, a)
  \/ \E p \in live, n \in Requests, a \in Alignments : try_expand_into_next(p, n, a)
  \/ \E s \in GrowSizes : grow_tail(s)
  \/ \E s \in GrowSizes : grow_new_block(s)
  \/ shrink_only_block
  \/ shrink_last_block
  \/ zero_free_memory

Spec == Init /\ [][Next]_vars

----------------------------------------------------------------------------
(* Properties.                                                             *)

(* Every variable has its type.                                            *)
TypeOK ==
  /\ segment_size \in Nat
  /\ DOMAIN size \subseteq Nat
  /\ size \in [DOMAIN size -> Nat]
  /\ is_free \subseteq DOMAIN size
  /\ free_list \in Seq(DOMAIN size)
  /\ DOMAIN header \subseteq Nat
  /\ header \in [DOMAIN header -> [block : Nat, requested_size : Nat]]
  /\ live \subseteq Nat
  /\ batch.op \in {"idle", "allocate", "rollback", "deallocate"}

(***************************************************************************)
(* check_sanity: the blocks tile the segment, each is aligned and has a    *)
(* legal size, and the free list holds the free blocks and nothing else.   *)
(***************************************************************************)
check_sanity ==
  /\ segment_size # 0
  /\ \A i \in 1 .. Len(free_list) :
       /\ free_list[i] < segment_size
       /\ free_list[i] % Alignment = 0
       /\ FreeAt(free_list[i])
       /\ is_block_in_chain(free_list[i])
  /\ \A b \in Blocks :
       /\ b % Alignment = 0
       /\ WellFormed(b)
       /\ FreeAt(b) <=> is_in_free_list(b)
  /\ \E b \in Blocks : End(b) = segment_size

(* No byte belongs to two blocks and none is lost between two of them:     *)
(* what splitting, merging and the two resizes have to preserve.           *)
Tiling ==
  /\ FirstBlock \in Blocks
  /\ \A b \in Blocks : FirstBlock <= b /\ End(b) \in Blocks \cup {segment_size}
  /\ \A b, c \in Blocks : b < c => End(b) <= c

(* The heap is sane between and inside operations, as the recovery of an   *)
(* owner-dead mutex (check_sanity_unlocked) takes for granted.             *)
HeapSane == check_sanity /\ Tiling

(***************************************************************************)
(* Every payload a caller holds lies in a block of its own that is in use, *)
(* above both headers, with room for all the bytes asked for; and every    *)
(* block in use belongs to a caller, so nothing leaks.                     *)
(***************************************************************************)
PayloadsSafe ==
  /\ \A p \in live :
       /\ p \in DOMAIN header
       /\ LET b == header[p].block
          IN  /\ b \in Blocks \ is_free
              /\ b + BlockHeaderSize + AllocationHeaderSize <= p
              /\ p + header[p].requested_size <= End(b)
  /\ \A p, q \in live : header[p].block = header[q].block => p = q
  /\ \A b \in Blocks \ is_free : \E p \in live : header[p].block = b

(* Neighbouring free blocks have been merged, so a request fails only for  *)
(* want of a contiguous range: deallocate_block, try_expand, grow.         *)
Coalesced == \A b \in is_free : End(b) \notin is_free

(* The list is in the order that makes the first fit the best fit          *)
(* (insert_free_block), and holds no block twice.                          *)
FreeListSorted ==
  \A i, j \in 1 .. Len(free_list) :
    i < j => Precedes(size, free_list[i], free_list[j])

all_memory_deallocated ==
  /\ FirstBlock \in is_free
  /\ size[FirstBlock] = segment_size - FirstBlock
  /\ free_list = <<FirstBlock>>

(* What every step keeps of the heap: it is sane, its free space is merged *)
(* and in order, and once every payload was returned, in whatever order    *)
(* and across resizes, the segment is one free block again.                *)
HeapInv ==
  /\ TypeOK
  /\ HeapSane
  /\ Coalesced
  /\ FreeListSorted
  /\ live = {} => all_memory_deallocated

(* An allocate_many that fails hands the heap back exactly as it was.      *)
FailedBatchRestores ==
  [][RollbackDone => heap = batch.before]_vars

(***************************************************************************)
(* No step touches an allocation that it is not about: the block behind a  *)
(* payload never changes while a caller holds it, and the size recorded    *)
(* for it only in a try_expand, which changes that of no other payload.    *)
(***************************************************************************)
PayloadsStay ==
  [][/\ live \cap live' \subseteq DOMAIN header'
     /\ \A p \in live \cap live' :
          /\ header'[p].block = header[p].block
          /\ header'[p] # header[p] =>
               live' = live /\ \A q \in live \ {p} : header'[q] = header[q]]_vars
=============================================================================
