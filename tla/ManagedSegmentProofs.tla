------------------------ MODULE ManagedSegmentProofs ------------------------
(***************************************************************************)
(* Proofs about ManagedSegment for any set of processes and any sizes: of  *)
(* the manager, its blocks, the pages, the requests and the objects.       *)
(***************************************************************************)
EXTENDS ManagedSegment, TLAPS

----------------------------------------------------------------------------
(* The inductive invariant, in parts.                                      *)

(* The name leads to the newest object or nowhere.                         *)
NameInv ==
  /\ name # NoObject => name = made
  /\ name = NoObject => made < MaxObjects

(* Who has an object open has one that was made; the others map nothing.   *)
Opened(p) ==
  /\ fd[p] <= made
  /\ fd[p] = NoObject <=> pc[p] \in {"idle", "dead", "create", "reopen"}
  /\ fd[p] = NoObject => region[p] = 0

(* An object that was not made yet is empty.                               *)
FreshInv ==
  \A o \in Objects : o > made => file_size[o] = 0 /\ state[o] = "uninitialized"

(* What the creator of an object finds in it on its way.                   *)
Creating(p) ==
  /\ pc[p] = "truncate" => file_size[fd[p]] = 0
  /\ pc[p] \in {"truncate", "map", "claim"} => state[fd[p]] = "uninitialized"
  /\ pc[p] \in {"construct", "publish"} =>
       state[fd[p]] = "initializing" /\ region[p] > FirstBlock
  /\ pc[p] \in {"claim", "construct", "publish"} => region[p] = file_size[fd[p]]
  /\ pc[p] = "publish" =>
       magic[fd[p]] /\ tail[fd[p]] = FirstBlock /\ total_size[fd[p]] = region[p]

(* What those who attach to an object, or are attached to it, know of it.  *)
Attaching(p) ==
  /\ pc[p] = "attach" => region[p] \in {0, file_size[fd[p]]}
  /\ pc[p] = "attached" => attach(fd[p]) /\ total_size[fd[p]] <= region[p]

(* A published heap ends within its object, and the rest behind its last   *)
(* block is empty, a free block, or all of an empty heap.                  *)
HeapEnd(o) ==
  state[o] = "initialized" =>
    /\ magic[o]
    /\ FirstBlock <= tail[o] /\ tail[o] <= total_size[o] /\ total_size[o] <= file_size[o]
    /\ tail[o] \in {FirstBlock, total_size[o]} \/ total_size[o] - tail[o] >= MinBlock

(* A maintainer is alone, and can go back to the sizes that it found.      *)
Maintainer(p) ==
  /\ pc[p] \in Maintaining => NobodyElse(p)
  /\ pc[p] \in {"grow_manager", "grow_undo"} =>
       /\ total_size[fd[p]] = old_total[p]
       /\ state[fd[p]] = "initialized" => total_size[fd[p]] <= old_file[p]
  /\ pc[p] \in {"shrink_truncate", "shrink_undo", "shrink_regrow"} =>
       /\ attach(fd[p])
       /\ old_total[p] <= file_size[fd[p]]
       /\ total_size[fd[p]] = old_total[p] \/ CanGrow(fd[p], old_total[p])
  /\ pc[p] = "shrink_truncate" => align_file_size(total_size[fd[p]]) < file_size[fd[p]]

ProcInv(p) == Opened(p) /\ Creating(p) /\ Attaching(p) /\ Maintainer(p)

IInv ==
  /\ TypeOK
  /\ NameInv
  /\ FreshInv
  /\ SoleCreator
  /\ \A o \in Objects : HeapEnd(o)
  /\ \A p \in Procs : ProcInv(p)

----------------------------------------------------------------------------
(* Sizes.                                                                  *)

(* Rounding up to whole pages never cuts anything off.                     *)
LEMMA AlignCovers ==
  ASSUME NEW n \in Nat
  PROVE  align_file_size(n) \in Nat /\ n <= align_file_size(n)
BY SizesAssumption DEF align_file_size

----------------------------------------------------------------------------
(* The inductive invariant, one lemma per group of actions.                *)

(* Before the first create there is no object and no process inside a      *)
(* call.                                                                   *)
LEMMA InitIInv == Init => IInv
<1> USE SizesAssumption, BoundsAssumption DEF Init, Objects, NoObject, Labels
<1>1. Init => TypeOK
  BY DEF TypeOK, FileTypes, MemoryTypes, CallTypes, LocalTypes
<1>2. Init => SoleCreator
  BY DEF SoleCreator, Initializing
<1>3. Init => NameInv /\ FreshInv /\ \A o \in Objects : HeapEnd(o)
  BY DEF NameInv, FreshInv, HeapEnd
<1>4. Init => \A p \in Procs : ProcInv(p)
  BY DEF ProcInv, Opened, Creating, Attaching, Maintainer, Maintaining
<1> QED
  BY <1>1, <1>2, <1>3, <1>4 DEF IInv

(* A step of process p.                                                    *)
ProcNext(p) ==
  \/ \E s \in CreateSizes : create_only(p, s) \/ open_or_create(p, s)
  \/ open_only(p) \/ Continue(p)
  \/ \E t \in FirstBlock .. MaxFileSize : Use(p, t)
  \/ Close(p) \/ remove(p)
  \/ \E e \in ExtraSizes : grow(p, e)
  \/ shrink_to_fit(p) \/ Die(p)

(* The steps of p leave the other processes where they are.                *)
OthersStay(p) ==
  \A q \in Procs \ {p} :
    /\ pc'[q] = pc[q] /\ fd'[q] = fd[q] /\ region'[q] = region[q]
    /\ old_file'[q] = old_file[q] /\ old_total'[q] = old_total[q]

(* A step of one process writes no local variable of another.              *)
LEMMA OthersStep ==
  ASSUME TypeOK, NEW p \in Procs, ProcNext(p)
  PROVE  OthersStay(p)
<1> USE DEF TypeOK, CallTypes, LocalTypes, OthersStay, Goto, locals
<1>1. ASSUME Return(p) PROVE OthersStay(p)
  BY <1>1 DEF Return, CloseObject, ForgetLocals
<1>2. ASSUME NEW s \in CreateSizes, create_only(p, s) \/ open_or_create(p, s)
      PROVE  OthersStay(p)
  BY <1>2 DEF create_only, open_or_create, Create
<1>3. CASE CreateOrExists(p) \/ OpenOrGone(p) \/ open_only(p)
  BY <1>3 DEF CreateOrExists, Create, OpenOrGone, open_only
<1>4. CASE Truncate(p) \/ MapAndZero(p)
  BY <1>4, <1>1 DEF Truncate, MapAndZero
<1>5. CASE Claim(p) \/ Construct(p)
  BY <1>5, <1>1 DEF Claim, Construct, MarkCorrupted
<1>6. CASE Publish(p)
  BY <1>6 DEF Publish, ForgetLocals
<1>7. CASE attach_existing_with_retry(p)
  BY <1>7, <1>1 DEF attach_existing_with_retry, Again, ForgetLocals
<1>8. CASE GrowManager(p) \/ GrowUndo(p)
  BY <1>8, <1>1 DEF GrowManager, GrowUndo
<1>9. CASE ShrinkTruncate(p) \/ ShrinkUndo(p) \/ ShrinkRegrow(p)
  BY <1>9, <1>1 DEF ShrinkTruncate, ShrinkUndo, ShrinkRegrow
<1>10. CASE \E t \in FirstBlock .. MaxFileSize : Use(p, t)
  BY <1>10 DEF Use
<1>11. CASE Close(p) \/ remove(p)
  BY <1>11, <1>1 DEF Close, remove
<1>12. CASE Die(p)
  BY <1>12 DEF Die, CloseObject, ForgetLocals
<1>13. CASE \E e \in ExtraSizes : grow(p, e)
  BY <1>13 DEF grow
<1>14. CASE shrink_to_fit(p)
  BY <1>14 DEF shrink_to_fit
<1> QED
  BY <1>2, <1>3, <1>4, <1>5, <1>6, <1>7, <1>8, <1>9, <1>10, <1>11, <1>12, <1>13, <1>14
     DEF ProcNext, Continue

(* Nobody else begins anything while a process maintains the segment.      *)
LEMMA AloneStep ==
  ASSUME IInv, NEW p \in Procs, ProcNext(p), NEW q \in Procs, q # p, pc[q] \in Maintaining
  PROVE  NobodyElse(q)'
<1>1. NobodyElse(q)
  BY DEF IInv, ProcInv, Maintainer
<1>2. pc[p] \in {"idle", "dead"}
  BY <1>1 DEF NobodyElse
<1>3. pc'[p] \in {"idle", "dead"}
  <2>1. ~NoMaintenance /\ ~NobodyElse(p)
    BY DEF NoMaintenance, NobodyElse, Maintaining
  <2>2. remove(p) \/ Die(p)
    BY <1>2, <2>1
       DEF ProcNext, Continue, create_only, open_or_create, open_only, CreateOrExists, OpenOrGone,
           Truncate, MapAndZero, Claim, Construct, Publish, attach_existing_with_retry,
           GrowManager, GrowUndo, ShrinkTruncate, ShrinkUndo, ShrinkRegrow, Use, Close, grow,
           shrink_to_fit
  <2> QED
    BY <1>2, <2>2 DEF remove, Die, Goto, IInv, TypeOK, CallTypes
<1>4. OthersStay(p)
  BY OthersStep DEF IInv
<1> QED
  BY <1>1, <1>3, <1>4 DEF NobodyElse, OthersStay

(* What the invariant says of a process stays true if the process stays    *)
(* where it is, and its object, if it has one, stays as it is.             *)
SameObject(o) ==
  /\ file_size'[o] = file_size[o] /\ state'[o] = state[o] /\ magic'[o] = magic[o]
  /\ total_size'[o] = total_size[o] /\ tail'[o] = tail[o]

(* Those who attach to the object only look at its size, and those who are *)
(* attached do not mind where its last block is.                           *)
Undisturbed(q) ==
  \/ fd[q] = NoObject
  \/ SameObject(fd[q])
  \/ pc[q] = "attach" /\ (file_size'[fd[q]] = file_size[fd[q]] \/ region[q] = 0)
  \/ /\ pc[q] = "attached" /\ state'[fd[q]] = state[fd[q]]
     /\ magic'[fd[q]] = magic[fd[q]] /\ total_size'[fd[q]] = total_size[fd[q]]

(* What is known of another process survives a step that leaves the        *)
(* segment it has open undisturbed.                                        *)
LEMMA Frame ==
  ASSUME IInv, NEW p \in Procs, ProcNext(p), NEW q \in Procs, q # p,
         made \in Nat, made' \in Nat, made <= made', Undisturbed(q)
  PROVE  ProcInv(q)'
<1>1. /\ pc'[q] = pc[q] /\ fd'[q] = fd[q] /\ region'[q] = region[q]
      /\ old_file'[q] = old_file[q] /\ old_total'[q] = old_total[q]
  BY OthersStep DEF OthersStay, IInv
<1>2. ProcInv(q) /\ fd[q] \in Nat
  BY BoundsAssumption DEF IInv, TypeOK, CallTypes, Objects, NoObject
<1>3. pc[q] \in Maintaining => NobodyElse(q)'
  BY AloneStep
<1>4. Opened(q)'
  BY <1>1, <1>2 DEF ProcInv, Opened
<1>5. CASE fd[q] = NoObject
  BY <1>1, <1>2, <1>3, <1>4, <1>5
     DEF ProcInv, Opened, Creating, Attaching, Maintainer, NoObject, Maintaining
<1>6. CASE SameObject(fd[q])
  <2>1. attach(fd[q])' <=> attach(fd[q])
    BY <1>1, <1>6 DEF attach, SameObject
  <2> QED
    BY <1>1, <1>2, <1>3, <1>4, <1>6, <2>1
       DEF ProcInv, Creating, Attaching, Maintainer, CanGrow, SameObject
<1>7. CASE pc[q] = "attach" /\ (file_size'[fd[q]] = file_size[fd[q]] \/ region[q] = 0)
  BY <1>1, <1>2, <1>4, <1>7
     DEF ProcInv, Creating, Attaching, Maintainer, Maintaining
<1>8. CASE /\ pc[q] = "attached" /\ state'[fd[q]] = state[fd[q]]
           /\ magic'[fd[q]] = magic[fd[q]] /\ total_size'[fd[q]] = total_size[fd[q]]
  BY <1>1, <1>2, <1>4, <1>8
     DEF ProcInv, Creating, Attaching, Maintainer, Maintaining, attach
<1> QED
  BY <1>5, <1>6, <1>7, <1>8 DEF Undisturbed

(* An object keeps its only creator if p becomes creator of no other       *)
(* object and opens one only to attach to it, or that nobody creates.      *)
LEMMA SoleFrame ==
  ASSUME IInv, NEW p \in Procs, ProcNext(p),
         pc'[p] \in Initializing => pc[p] \in Initializing /\ fd'[p] = fd[p],
         \/ fd'[p] = NoObject
         \/ pc'[p] = "attach"
         \/ fd'[p] = fd[p] /\ pc[p] # "attach"
         \/ \A q \in Procs \ {p} : fd[q] = fd'[p] => pc[q] \notin Initializing
  PROVE  SoleCreator'
<1> SUFFICES ASSUME NEW a \in Procs, NEW b \in Procs, pc'[a] \in Initializing,
                    fd'[a] = fd'[b], a # b
             PROVE  pc'[b] = "attach"
  BY DEF SoleCreator
<1>1. OthersStay(p)
  BY OthersStep DEF IInv
<1>2. Opened(a)
  BY DEF IInv, ProcInv
<1>3. SoleCreator
  BY DEF IInv
<1>4. CASE a = p
  BY <1>1, <1>3, <1>4 DEF OthersStay, SoleCreator
<1>5. CASE b = p
  BY <1>1, <1>2, <1>3, <1>5 DEF OthersStay, SoleCreator, Opened, Initializing
<1>6. CASE a # p /\ b # p
  BY <1>1, <1>3, <1>6 DEF OthersStay, SoleCreator
<1> QED
  BY <1>4, <1>5, <1>6

----------------------------------------------------------------------------
(* Types.                                                                  *)

(* The call of p ends, or p dies.                                          *)
LEMMA LeaveTypes ==
  ASSUME TypeOK, NEW p \in Procs, NEW label \in Labels,
         Goto(p, label), CloseObject(p), ForgetLocals(p)
  PROVE  /\ pc' \in [Procs -> Labels]
         /\ fd' \in [Procs -> Objects \cup {NoObject}]
         /\ region' \in [Procs -> 0 .. MaxFileSize]
         /\ LocalTypes'
<1> USE SizesAssumption, BoundsAssumption DEF TypeOK, CallTypes, LocalTypes
<1>1. pc' \in [Procs -> Labels]
  BY DEF Goto
<1>2. fd' \in [Procs -> Objects \cup {NoObject}]
  BY DEF CloseObject
<1>3. region' \in [Procs -> 0 .. MaxFileSize]
  BY DEF CloseObject
<1>4. LocalTypes'
  BY DEF ForgetLocals
<1> QED
  BY <1>1, <1>2, <1>3, <1>4

(* Leaving a call keeps the types.                                         *)
LEMMA ReturnTypes ==
  ASSUME TypeOK, NEW p \in Procs, Return(p), deaths' = deaths
  PROVE  CallTypes' /\ LocalTypes'
BY LeaveTypes DEF Return, TypeOK, CallTypes, Labels

(* The new object is one of those that may be made.                        *)
LEMMA CreateTypes ==
  ASSUME TypeOK, NameInv, NEW p \in Procs, Create(p)
  PROVE  FileTypes' /\ MemoryTypes' /\ CallTypes'
<1>1. made \in Nat /\ made + 1 \in Objects /\ made + 1 \in 0 .. MaxObjects
  BY BoundsAssumption DEF Create, TypeOK, FileTypes, NameInv, Objects
<1>2. FileTypes'
  BY <1>1 DEF Create, TypeOK, FileTypes
<1>3. MemoryTypes'
  BY DEF Create, TypeOK, MemoryTypes, memory
<1>4. CallTypes'
  BY <1>1 DEF Create, TypeOK, CallTypes, Goto, Labels, Initializing
<1> QED
  BY <1>2, <1>3, <1>4

(* Sizes of a published heap, where the object of p is one.                *)
LEMMA SizesKnown ==
  ASSUME IInv, NEW o \in Objects
  PROVE  /\ file_size[o] \in 0 .. MaxFileSize /\ total_size[o] \in 0 .. MaxFileSize
         /\ tail[o] \in 0 .. MaxFileSize
         /\ attach(o) => /\ FirstBlock <= tail[o] /\ tail[o] <= total_size[o]
                         /\ total_size[o] <= file_size[o]
                         /\ ShrunkSize(o) \in FirstBlock .. total_size[o]
BY SizesAssumption DEF IInv, TypeOK, FileTypes, MemoryTypes, HeapEnd, attach, ShrunkSize

(* Every step of a process keeps the types.                                *)
LEMMA TypeStep ==
  ASSUME IInv, NEW p \in Procs, ProcNext(p)
  PROVE  TypeOK'
<1> USE SizesAssumption, BoundsAssumption DEF Goto, NoObject
<1>a. TypeOK /\ ProcInv(p) /\ NameInv
  BY DEF IInv
<1>b. deaths' = deaths => (Return(p) => CallTypes' /\ LocalTypes')
  BY <1>a, ReturnTypes
<1>1. ASSUME NEW s \in CreateSizes, create_only(p, s) \/ open_or_create(p, s)
      PROVE  TypeOK'
  <2>1. CASE create_only(p, s)
    BY <2>1, <1>a, CreateTypes DEF create_only, TypeOK, LocalTypes
  <2>2. CASE open_or_create(p, s)
    <3>1. FileTypes' /\ MemoryTypes'
      BY <2>2, <1>a DEF open_or_create, TypeOK, FileTypes, MemoryTypes, memory, file
    <3>2. CallTypes' /\ LocalTypes'
      BY <2>2, <1>a DEF open_or_create, TypeOK, CallTypes, LocalTypes, Labels
    <3> QED
      BY <3>1, <3>2 DEF TypeOK
  <2> QED
    BY <1>1, <2>1, <2>2
<1>2. CASE CreateOrExists(p)
  <2>1. FileTypes' /\ MemoryTypes'
    BY <1>2, <1>a, CreateTypes
       DEF CreateOrExists, TypeOK, FileTypes, MemoryTypes, memory, file
  <2>2. CallTypes'
    BY <1>2, <1>a, CreateTypes DEF CreateOrExists, TypeOK, CallTypes, Labels
  <2>3. LocalTypes'
    BY <1>2, <1>a DEF CreateOrExists, TypeOK, LocalTypes, locals
  <2> QED
    BY <2>1, <2>2, <2>3 DEF TypeOK
<1>3. CASE OpenOrGone(p) \/ open_only(p)
  <2>1. FileTypes' /\ MemoryTypes'
    BY <1>3, <1>a DEF OpenOrGone, open_only, TypeOK, FileTypes, MemoryTypes, memory, file
  <2>2. CallTypes'
    BY <1>3, <1>a DEF OpenOrGone, open_only, TypeOK, FileTypes, CallTypes, Labels
  <2>3. LocalTypes'
    BY <1>3, <1>a DEF OpenOrGone, open_only, TypeOK, LocalTypes
  <2> QED
    BY <2>1, <2>2, <2>3 DEF TypeOK
<1>4. CASE Truncate(p)
  <2>1. FileTypes' /\ MemoryTypes'
    BY <1>4, <1>a DEF Truncate, TypeOK, FileTypes, MemoryTypes, LocalTypes, memory
  <2>2. CallTypes' /\ LocalTypes'
    BY <1>4, <1>a, <1>b
       DEF Truncate, TypeOK, CallTypes, LocalTypes, locals, Labels, Initializing
  <2> QED
    BY <2>1, <2>2 DEF TypeOK
<1>5. CASE MapAndZero(p)
  <2>0. 0 \in 0 .. MaxFileSize
    OBVIOUS
  <2>1. FileTypes' /\ MemoryTypes'
    <3>1. FileTypes'
      BY <1>5, <1>a DEF MapAndZero, TypeOK, FileTypes, file
    <3>2. CASE UNCHANGED memory
      BY <3>1, <3>2, <1>a DEF TypeOK, MemoryTypes, memory
    <3>3. CASE ~UNCHANGED memory
      <4>1. /\ state' = [state EXCEPT ![fd[p]] = "uninitialized"]
            /\ magic' = [magic EXCEPT ![fd[p]] = FALSE]
            /\ total_size' = [total_size EXCEPT ![fd[p]] = 0]
            /\ tail' = [tail EXCEPT ![fd[p]] = 0]
        BY <3>3, <1>5 DEF MapAndZero
      <4> QED
        BY <3>1, <4>1, <1>a, <2>0 DEF TypeOK, MemoryTypes
    <3> QED
      BY <3>2, <3>3
  <2>2. fd[p] \in Objects /\ file_size[fd[p]] \in 0 .. MaxFileSize
    BY <1>5, <1>a DEF MapAndZero, TypeOK, FileTypes, CallTypes, ProcInv, Opened
  <2>3. CallTypes' /\ LocalTypes'
    BY <1>5, <1>a, <1>b, <2>2
       DEF MapAndZero, TypeOK, CallTypes, LocalTypes, locals, Labels, Initializing
  <2> QED
    BY <2>1, <2>3 DEF TypeOK
<1>6. CASE Claim(p)
  <2>1. FileTypes' /\ MemoryTypes'
    BY <1>6, <1>a DEF Claim, MarkCorrupted, TypeOK, FileTypes, MemoryTypes, file
  <2>2. CallTypes' /\ LocalTypes'
    BY <1>6, <1>a, <1>b
       DEF Claim, MarkCorrupted, TypeOK, CallTypes, LocalTypes, locals, Labels, Initializing
  <2> QED
    BY <2>1, <2>2 DEF TypeOK
<1>7. CASE Construct(p)
  <2>0. FirstBlock \in 0 .. MaxFileSize /\ region[p] \in 0 .. MaxFileSize
    BY <1>7, <1>a DEF Construct, ProcInv, Creating, TypeOK, CallTypes
  <2>1a. FileTypes'
    BY <1>7, <1>a DEF Construct, MarkCorrupted, TypeOK, FileTypes, file
  <2>1b. MemoryTypes'
    <3>1. CASE MarkCorrupted(p)
      BY <3>1, <1>a DEF MarkCorrupted, TypeOK, MemoryTypes
    <3>2. CASE ~MarkCorrupted(p)
      <4>1. /\ total_size' = [total_size EXCEPT ![fd[p]] = region[p]]
            /\ tail' = [tail EXCEPT ![fd[p]] = FirstBlock]
            /\ magic' = [magic EXCEPT ![fd[p]] = TRUE] /\ state' = state
        BY <3>2, <1>7 DEF Construct
      <4>2. /\ total_size' \in [Objects -> 0 .. MaxFileSize]
            /\ tail' \in [Objects -> 0 .. MaxFileSize]
        BY <4>1, <1>a, <2>0 DEF TypeOK, MemoryTypes
      <4>3. magic' \in [Objects -> BOOLEAN]
        BY <4>1, <1>a DEF TypeOK, MemoryTypes
      <4> QED
        BY <4>1, <4>2, <4>3, <1>a DEF TypeOK, MemoryTypes
    <3> QED
      BY <3>1, <3>2
  <2>1. FileTypes' /\ MemoryTypes'
    BY <2>1a, <2>1b
  <2>2. CallTypes' /\ LocalTypes'
    BY <1>7, <1>a, <1>b
       DEF Construct, MarkCorrupted, TypeOK, CallTypes, LocalTypes, locals, Labels,
           Initializing
  <2> QED
    BY <2>1, <2>2 DEF TypeOK
<1>8. CASE Publish(p)
  <2>1. FileTypes' /\ MemoryTypes'
    BY <1>8, <1>a DEF Publish, TypeOK, FileTypes, MemoryTypes, file
  <2>2. CallTypes' /\ LocalTypes'
    BY <1>8, <1>a DEF Publish, ForgetLocals, TypeOK, CallTypes, LocalTypes, Labels
  <2> QED
    BY <2>1, <2>2 DEF TypeOK
<1>9. CASE attach_existing_with_retry(p)
  <2>1. FileTypes' /\ MemoryTypes'
    BY <1>9, <1>a DEF attach_existing_with_retry, TypeOK, FileTypes, MemoryTypes, file, memory
  <2>2. fd[p] \in Objects /\ RegionOf(p) \in 0 .. MaxFileSize
    BY <1>9, <1>a
       DEF attach_existing_with_retry, TypeOK, FileTypes, CallTypes, ProcInv, Opened, RegionOf
  <2>3. deaths' = deaths
    BY <1>9 DEF attach_existing_with_retry
  <2>4. CASE Return(p)
    BY <1>b, <2>1, <2>3, <2>4 DEF TypeOK
  <2>5. CASE AttachOutcome(fd[p]) = "attached" /\ ~Return(p)
    <3>1. CallTypes' /\ LocalTypes'
      BY <1>9, <1>a, <2>2, <2>5
         DEF attach_existing_with_retry, TypeOK, CallTypes, LocalTypes, ForgetLocals, Labels
    <3> QED
      BY <2>1, <3>1 DEF TypeOK
  <2>6. CASE AttachOutcome(fd[p]) = "again" /\ ~Return(p)
    <3>1. CallTypes' /\ LocalTypes'
      BY <1>9, <1>a, <2>2, <2>6
         DEF attach_existing_with_retry, Again, TypeOK, CallTypes, LocalTypes, Labels
    <3> QED
      BY <2>1, <3>1 DEF TypeOK
  <2> QED
    BY <1>9, <2>4, <2>5, <2>6 DEF attach_existing_with_retry
<1>10. ASSUME NEW t \in FirstBlock .. MaxFileSize, Use(p, t) PROVE TypeOK'
  <2>0. t \in 0 .. MaxFileSize
    OBVIOUS
  <2>1. FileTypes' /\ MemoryTypes'
    BY <1>10, <1>a, <2>0 DEF Use, TypeOK, FileTypes, MemoryTypes, file
  <2>2. CallTypes' /\ LocalTypes'
    BY <1>10, <1>a DEF Use, TypeOK, CallTypes, LocalTypes, locals
  <2> QED
    BY <2>1, <2>2 DEF TypeOK
<1>11. CASE Close(p) \/ remove(p)
  <2>1. FileTypes' /\ MemoryTypes'
    BY <1>11, <1>a DEF Close, remove, TypeOK, FileTypes, MemoryTypes, file, memory
  <2>2. CallTypes' /\ LocalTypes'
    BY <1>11, <1>a, <1>b DEF Close, remove, TypeOK, CallTypes, LocalTypes, locals
  <2> QED
    BY <2>1, <2>2 DEF TypeOK
<1>12. CASE Die(p)
  <2>1. FileTypes' /\ MemoryTypes'
    BY <1>12, <1>a DEF Die, TypeOK, FileTypes, MemoryTypes, file, memory
  <2>2. deaths' \in 0 .. MaxDeaths
    BY <1>12, <1>a DEF Die, TypeOK, CallTypes
  <2>3. "dead" \in Labels
    BY DEF Labels
  <2>4. CallTypes' /\ LocalTypes'
    BY <1>12, <1>a, <2>2, <2>3, LeaveTypes DEF Die, CallTypes
  <2> QED
    BY <2>1, <2>4 DEF TypeOK
<1>13. ASSUME NEW e \in ExtraSizes, grow(p, e) PROVE TypeOK'
  <2>0. /\ name \in Objects /\ file_size[name] \in 0 .. MaxFileSize
        /\ total_size[name] \in 0 .. MaxFileSize
    BY <1>13, <1>a DEF grow, TypeOK, FileTypes, MemoryTypes
  <2>1. FileTypes' /\ MemoryTypes'
    BY <1>13, <1>a, <2>0 DEF grow, TypeOK, FileTypes, MemoryTypes, memory
  <2>2. CallTypes'
    BY <1>13, <1>a, <2>0 DEF grow, TypeOK, CallTypes, Labels, Maintaining
  <2>3. LocalTypes'
    BY <1>13, <1>a, <2>0 DEF grow, TypeOK, LocalTypes
  <2> QED
    BY <2>1, <2>2, <2>3 DEF TypeOK
<1>14. CASE GrowManager(p)
  <2>0. fd[p] \in Objects /\ file_size[fd[p]] \in 0 .. MaxFileSize
    BY <1>14, <1>a DEF GrowManager, TypeOK, FileTypes, CallTypes, ProcInv, Opened
  <2>1. FileTypes' /\ MemoryTypes'
    BY <1>14, <1>a, <2>0 DEF GrowManager, TypeOK, FileTypes, MemoryTypes, file
  <2>2. CallTypes' /\ LocalTypes'
    BY <1>14, <1>a, <1>b
       DEF GrowManager, TypeOK, CallTypes, LocalTypes, locals, Labels, Maintaining
  <2> QED
    BY <2>1, <2>2 DEF TypeOK
<1>15. CASE GrowUndo(p)
  <2>1. FileTypes' /\ MemoryTypes'
    BY <1>15, <1>a DEF GrowUndo, TypeOK, FileTypes, MemoryTypes, LocalTypes, memory
  <2>2. CallTypes' /\ LocalTypes'
    BY <1>15, <1>b DEF GrowUndo
  <2> QED
    BY <2>1, <2>2 DEF TypeOK
<1>16. CASE shrink_to_fit(p)
  <2>0. /\ name \in Objects /\ file_size[name] \in 0 .. MaxFileSize
        /\ total_size[name] \in 0 .. MaxFileSize /\ ShrunkSize(name) \in 0 .. MaxFileSize
    BY <1>16, <1>a, SizesKnown DEF shrink_to_fit, TypeOK, FileTypes
  <2>1. FileTypes' /\ MemoryTypes'
    BY <1>16, <1>a, <2>0 DEF shrink_to_fit, TypeOK, FileTypes, MemoryTypes, file
  <2>2. CallTypes'
    BY <1>16, <1>a, <2>0 DEF shrink_to_fit, TypeOK, CallTypes, Labels, Maintaining
  <2>3. LocalTypes'
    BY <1>16, <1>a, <2>0 DEF shrink_to_fit, TypeOK, LocalTypes
  <2> QED
    BY <2>1, <2>2, <2>3 DEF TypeOK
<1>17. CASE ShrinkTruncate(p)
  <2>0. /\ fd[p] \in Objects /\ file_size[fd[p]] \in 0 .. MaxFileSize
        /\ total_size[fd[p]] \in Nat
        /\ align_file_size(total_size[fd[p]]) < file_size[fd[p]]
    BY <1>17, <1>a
       DEF ShrinkTruncate, TypeOK, FileTypes, MemoryTypes, CallTypes, ProcInv, Opened,
           Maintainer
  <2>1. align_file_size(total_size[fd[p]]) \in 0 .. MaxFileSize
    BY <2>0, AlignCovers
  <2>2. FileTypes' /\ MemoryTypes'
    BY <1>17, <1>a, <2>1 DEF ShrinkTruncate, TypeOK, FileTypes, MemoryTypes, memory
  <2>3. CallTypes' /\ LocalTypes'
    BY <1>17, <1>a, <1>b
       DEF ShrinkTruncate, TypeOK, CallTypes, LocalTypes, locals, Labels, Maintaining
  <2> QED
    BY <2>2, <2>3 DEF TypeOK
<1>18. CASE ShrinkUndo(p)
  <2>1. FileTypes' /\ MemoryTypes'
    BY <1>18, <1>a DEF ShrinkUndo, TypeOK, FileTypes, MemoryTypes, file, memory
  <2>2. CallTypes' /\ LocalTypes'
    BY <1>18, <1>a, <1>b
       DEF ShrinkUndo, TypeOK, CallTypes, LocalTypes, locals, Labels, Maintaining
  <2> QED
    BY <2>1, <2>2 DEF TypeOK
<1>19. CASE ShrinkRegrow(p)
  <2>1. FileTypes' /\ MemoryTypes'
    BY <1>19, <1>a DEF ShrinkRegrow, TypeOK, FileTypes, MemoryTypes, LocalTypes, file
  <2>2. CallTypes' /\ LocalTypes'
    BY <1>19, <1>b DEF ShrinkRegrow
  <2> QED
    BY <2>1, <2>2 DEF TypeOK
<1> QED
  BY <1>1, <1>2, <1>3, <1>4, <1>5, <1>6, <1>7, <1>8, <1>9, <1>10, <1>11, <1>12, <1>13, <1>14,
     <1>15, <1>16, <1>17, <1>18, <1>19 DEF ProcNext, Continue

----------------------------------------------------------------------------
(* Each action keeps the invariant.                                        *)

(* The objects other than o stay as they are.                              *)
TouchesOnly(o) == \A x \in Objects \ {o} : SameObject(x)

(* A step within one object o that was made before keeps the invariant if  *)
(* it keeps it for the process and the object, and disturbs nobody.        *)
LEMMA StepWithin ==
  ASSUME IInv, NEW p \in Procs, ProcNext(p), NEW o \in Objects, o <= made,
         TouchesOnly(o), made' = made, NameInv', SoleCreator',
         SameObject(o) \/ HeapEnd(o)',
         ProcInv(p)', \A q \in Procs \ {p} : fd[q] = o => Undisturbed(q)
  PROVE  IInv'
<1>0. TypeOK /\ made \in Nat /\ o \in Nat
  BY BoundsAssumption DEF IInv, TypeOK, FileTypes, Objects
<1>1. TypeOK'
  BY TypeStep
<1>2. FreshInv'
  BY <1>0 DEF IInv, FreshInv, TouchesOnly, SameObject, Objects
<1>3. ASSUME NEW x \in Objects PROVE HeapEnd(x)'
  <2>1. HeapEnd(x)
    BY DEF IInv
  <2>2. SameObject(x) => HeapEnd(x)'
    BY <2>1 DEF SameObject, HeapEnd
  <2> QED
    BY <2>2 DEF TouchesOnly
<1>4. ASSUME NEW q \in Procs PROVE ProcInv(q)'
  <2>1. fd[q] = NoObject \/ fd[q] \in Objects
    BY <1>0 DEF TypeOK, CallTypes
  <2>2. CASE q # p
    <3>1. Undisturbed(q)
      BY <2>1, <2>2 DEF Undisturbed, TouchesOnly
    <3> QED
      BY <2>2, <3>1, <1>0, Frame
  <2> QED
    BY <2>2
<1> QED
  BY <1>1, <1>2, <1>3, <1>4 DEF IInv

(* A step that leaves every object as it is.                               *)
LEMMA QuietStep ==
  ASSUME IInv, NEW p \in Procs, ProcNext(p), UNCHANGED <<made, file_size, memory>>,
         NameInv', SoleCreator', ProcInv(p)'
  PROVE  IInv'
<1>0. TypeOK /\ made \in Nat
  BY BoundsAssumption DEF IInv, TypeOK, FileTypes
<1>1. TypeOK'
  BY TypeStep
<1>2. FreshInv'
  BY DEF IInv, FreshInv, memory
<1>3. ASSUME NEW x \in Objects PROVE HeapEnd(x)'
  BY DEF IInv, HeapEnd, memory
<1>4. ASSUME NEW q \in Procs PROVE ProcInv(q)'
  <2>1. Undisturbed(q)
    BY DEF Undisturbed, SameObject, memory
  <2> QED
    BY <2>1, <1>0, Frame
<1> QED
  BY <1>1, <1>2, <1>3, <1>4 DEF IInv

(* The call ends, or the process dies, and the objects stay as they are.   *)
LEMMA LeaveStep ==
  ASSUME IInv, NEW p \in Procs, ProcNext(p), NEW label \in {"idle", "dead"},
         Goto(p, label), CloseObject(p), UNCHANGED <<name, made, file_size, memory>>
  PROVE  IInv'
<1>0. TypeOK /\ NameInv /\ made' \in Nat
  BY BoundsAssumption DEF IInv, TypeOK, FileTypes
<1>1. pc'[p] = label /\ fd'[p] = NoObject /\ region'[p] = 0
  BY <1>0 DEF TypeOK, CallTypes, Goto, CloseObject
<1>2. ProcInv(p)'
  BY <1>0, <1>1 DEF ProcInv, Opened, Creating, Attaching, Maintainer, Maintaining, NoObject
<1>3. SoleCreator'
  BY <1>1, SoleFrame DEF Initializing
<1>4. NameInv'
  BY <1>0 DEF NameInv
<1> QED
  BY <1>2, <1>3, <1>4, QuietStep

(* shm_open by a process that does not create the object.                  *)
LEMMA OpenStep ==
  ASSUME IInv, NEW p \in Procs, ProcNext(p),
         \/ \E s \in CreateSizes : open_or_create(p, s)
         \/ OpenOrGone(p) \/ open_only(p)
         \/ CreateOrExists(p) /\ ~Create(p)
  PROVE  IInv'
<1>0. TypeOK /\ NameInv /\ made \in Nat /\ ProcInv(p)
  BY BoundsAssumption DEF IInv, TypeOK, FileTypes
<1>1. UNCHANGED <<name, made, file_size, memory>>
  BY DEF open_or_create, OpenOrGone, open_only, CreateOrExists, file, memory
<1>2. /\ region'[p] = 0
      /\ \/ pc'[p] \in {"create", "reopen"} /\ fd'[p] = NoObject
         \/ pc'[p] = "attach" /\ fd'[p] = name /\ name # NoObject
  BY <1>0
     DEF open_or_create, OpenOrGone, open_only, CreateOrExists, Goto, TypeOK, CallTypes,
         ProcInv, Opened
<1>3. ProcInv(p)'
  BY <1>0, <1>1, <1>2
     DEF NameInv, ProcInv, Opened, Creating, Attaching, Maintainer, Maintaining, NoObject
<1>4. SoleCreator'
  BY <1>2, SoleFrame DEF Initializing
<1>5. NameInv'
  BY <1>0, <1>1 DEF NameInv
<1> QED
  BY <1>1, <1>3, <1>4, <1>5, QuietStep

(* The new object is nobody else's.                                        *)
LEMMA CreateStep ==
  ASSUME IInv, NEW p \in Procs, ProcNext(p), Create(p),
         pc[p] \in {"idle", "create"}
  PROVE  IInv'
<1>0. /\ TypeOK /\ NameInv /\ FreshInv /\ made \in Nat /\ made + 1 \in Objects
      /\ fd \in [Procs -> Objects \cup {NoObject}] /\ pc \in [Procs -> Labels]
  BY BoundsAssumption DEF IInv, TypeOK, FileTypes, CallTypes, NameInv, Create, Objects
<1>1. /\ pc'[p] = "truncate" /\ fd'[p] = made + 1 /\ made' = made + 1 /\ name' = made + 1
      /\ UNCHANGED <<file_size, state, magic, total_size, tail>>
      /\ region' = region
  BY <1>0 DEF Create, Goto, memory
<1>2. TypeOK'
  BY TypeStep
<1>3. NameInv'
  BY <1>0, <1>1 DEF NameInv, NoObject
<1>4. FreshInv'
  BY <1>0, <1>1 DEF FreshInv, Objects
<1>5. ASSUME NEW q \in Procs PROVE fd[q] # made + 1
  <2>1. Opened(q)
    BY DEF IInv, ProcInv
  <2> QED
    BY <2>1, <1>0, BoundsAssumption DEF Opened, Objects, NoObject
<1>6. SoleCreator'
  <2>1. OthersStay(p)
    BY <1>0, OthersStep
  <2>2. SoleCreator
    BY DEF IInv
  <2> QED
    BY <2>1, <2>2, <1>1, <1>5 DEF SoleCreator, OthersStay
<1>7. ASSUME NEW x \in Objects PROVE HeapEnd(x)'
  BY <1>1 DEF IInv, HeapEnd
<1>8. ASSUME NEW q \in Procs PROVE ProcInv(q)'
  <2>1. CASE q = p
    <3>1. file_size[made + 1] = 0 /\ state[made + 1] = "uninitialized"
      BY <1>0 DEF FreshInv
    <3> QED
      BY <1>0, <1>1, <2>1, <3>1
         DEF ProcInv, Opened, Creating, Attaching, Maintainer, Maintaining, NoObject
  <2>2. CASE q # p
    <3>1. Undisturbed(q)
      BY <1>1 DEF Undisturbed, SameObject
    <3> QED
      BY <1>0, <1>1, <2>2, <3>1, Frame
  <2> QED
    BY <2>1, <2>2
<1> QED
  BY <1>2, <1>3, <1>4, <1>6, <1>7, <1>8 DEF IInv

(* What a creator knows of its object: it is one that was made, and others *)
(* only try to attach to it.                                               *)
LEMMA CreatorAlone ==
  ASSUME IInv, NEW p \in Procs, pc[p] \in Initializing
  PROVE  /\ fd[p] \in Objects /\ fd[p] <= made
         /\ \A q \in Procs \ {p} : fd[q] = fd[p] => pc[q] = "attach"
         /\ ProcInv(p) /\ NameInv /\ TypeOK
BY DEF IInv, SoleCreator, TypeOK, CallTypes, ProcInv, Opened, Initializing, NoObject

(* The creator sets the size of the file, or fails to.                     *)
LEMMA TruncateStep ==
  ASSUME IInv, NEW p \in Procs, ProcNext(p), Truncate(p)
  PROVE  IInv'
<1>1. CASE Return(p) /\ UNCHANGED file_size
  BY <1>1, LeaveStep DEF Truncate, Return, memory
<1>2. CASE /\ file_size' = [file_size EXCEPT ![fd[p]] = wanted[p]]
           /\ Goto(p, "map")
           /\ UNCHANGED <<fd, region, locals>>
  <2>1. pc[p] \in Initializing /\ pc[p] = "truncate"
    BY DEF Truncate, Initializing
  <2>2. /\ fd[p] \in Objects /\ fd[p] <= made
        /\ \A q \in Procs \ {p} : fd[q] = fd[p] => pc[q] = "attach"
        /\ ProcInv(p) /\ NameInv /\ TypeOK
    BY <2>1, CreatorAlone
  <2>o. PICK o \in Objects : o = fd[p]
    BY <2>2
  <2>3. pc'[p] = "map" /\ UNCHANGED <<name, made, state, magic, total_size, tail, fd, region>>
    BY <1>2, <2>2 DEF Truncate, TypeOK, CallTypes, Goto, memory
  <2>4. TouchesOnly(o)
    BY <2>o, <1>2, <2>2, <2>3 DEF TouchesOnly, SameObject, TypeOK, FileTypes
  <2>5. NameInv'
    BY <2>2, <2>3 DEF NameInv
  <2>6. SoleCreator'
    BY <2>1, <2>3, SoleFrame
  <2>7. HeapEnd(o)'
    BY <2>o, <2>1, <2>2, <2>3 DEF HeapEnd, ProcInv, Creating
  <2>8. ProcInv(p)'
    BY <2>1, <2>2, <2>3 DEF ProcInv, Opened, Creating, Attaching, Maintainer, Maintaining
  <2>9. ASSUME NEW q \in Procs \ {p}, fd[q] = o PROVE Undisturbed(q)
    <3>1. pc[q] = "attach" /\ ProcInv(q) /\ file_size[fd[q]] = 0
      BY <2>o, <2>1, <2>2, <2>9 DEF IInv, ProcInv, Creating
    <3> QED
      BY <3>1 DEF ProcInv, Attaching, Undisturbed
  <2>10. made' = made /\ o <= made
    BY <2>o, <2>2, <2>3
  <2> QED
    BY <2>4, <2>5, <2>6, <2>7, <2>8, <2>9, <2>10, StepWithin
<1> QED
  BY <1>1, <1>2 DEF Truncate

(* A step of a creator within its object, of a size that it does not       *)
(* change, keeps the invariant if it keeps it for the creator.             *)
LEMMA CreatorStep ==
  ASSUME IInv, NEW p \in Procs, ProcNext(p), pc[p] \in Initializing,
         NEW o \in Objects, o = fd[p], TouchesOnly(o), UNCHANGED <<name, made, file_size>>,
         fd'[p] \in {fd[p], NoObject}, pc'[p] \in Initializing => fd'[p] = fd[p],
         HeapEnd(o)', ProcInv(p)'
  PROVE  IInv'
<1>1. /\ o <= made
      /\ \A q \in Procs \ {p} : fd[q] = fd[p] => pc[q] = "attach"
      /\ NameInv
  BY CreatorAlone
<1>2. NameInv'
  BY <1>1 DEF NameInv
<1>3. SoleCreator'
  BY SoleFrame DEF Initializing
<1>4. \A q \in Procs \ {p} : fd[q] = o => Undisturbed(q)
  BY <1>1 DEF Undisturbed
<1> QED
  BY <1>1, <1>2, <1>3, <1>4, StepWithin

(* The segment is mapped, or mmap fails.                                   *)
LEMMA MapStep ==
  ASSUME IInv, NEW p \in Procs, ProcNext(p), MapAndZero(p)
  PROVE  IInv'
<1>1. CASE Return(p) /\ UNCHANGED memory
  BY <1>1, LeaveStep DEF MapAndZero, Return, file
<1>2. CASE /\ file_size[fd[p]] > 0
           /\ region' = [region EXCEPT ![p] = file_size[fd[p]]]
           /\ state' = [state EXCEPT ![fd[p]] = "uninitialized"]
           /\ magic' = [magic EXCEPT ![fd[p]] = FALSE]
           /\ total_size' = [total_size EXCEPT ![fd[p]] = 0]
           /\ tail' = [tail EXCEPT ![fd[p]] = 0]
           /\ Goto(p, "claim")
           /\ UNCHANGED <<fd, locals>>
  <2>1. pc[p] \in Initializing /\ pc[p] = "map"
    BY DEF MapAndZero, Initializing
  <2>2. fd[p] \in Objects /\ ProcInv(p) /\ TypeOK
    BY <2>1, CreatorAlone
  <2>o. PICK o \in Objects : o = fd[p]
    BY <2>2
  <2>3. /\ pc'[p] = "claim" /\ UNCHANGED <<name, made, file_size, fd>>
        /\ region'[p] = file_size[o] /\ state'[o] = "uninitialized"
    BY <1>2, <2>2, <2>o DEF MapAndZero, TypeOK, CallTypes, MemoryTypes, Goto, file
  <2>4. TouchesOnly(o)
    BY <1>2, <2>2, <2>3, <2>o DEF TouchesOnly, SameObject, TypeOK, MemoryTypes
  <2>5. HeapEnd(o)'
    BY <2>3 DEF HeapEnd
  <2>6. ProcInv(p)'
    BY <2>1, <2>2, <2>3, <2>o
       DEF ProcInv, Opened, Creating, Attaching, Maintainer, Maintaining, NoObject
  <2> QED
    BY <2>1, <2>3, <2>4, <2>5, <2>6, <2>o, CreatorStep
<1> QED
  BY <1>1, <1>2 DEF MapAndZero

(* The handler of initialize_new_segment leaves an object that nobody      *)
(* attaches to.                                                            *)
LEMMA CorruptedStep ==
  ASSUME IInv, NEW p \in Procs, ProcNext(p), pc[p] \in Initializing, MarkCorrupted(p),
         UNCHANGED file
  PROVE  IInv'
<1>1. fd[p] \in Objects /\ ProcInv(p) /\ TypeOK
  BY CreatorAlone
<1>o. PICK o \in Objects : o = fd[p]
  BY <1>1
<1>2. /\ pc'[p] = "idle" /\ fd'[p] = NoObject /\ region'[p] = 0
      /\ UNCHANGED <<name, made, file_size, magic, total_size, tail>>
      /\ state'[o] \in {state[o], "corrupted"}
  BY <1>1, <1>o
     DEF MarkCorrupted, Return, CloseObject, TypeOK, CallTypes, MemoryTypes, Goto, file
<1>3. TouchesOnly(o)
  BY <1>1, <1>2, <1>o DEF TouchesOnly, SameObject, MarkCorrupted, TypeOK, MemoryTypes
<1>4. HeapEnd(o)'
  BY <1>2 DEF HeapEnd, IInv
<1>5. ProcInv(p)'
  <2>1. made \in Nat
    BY <1>1, BoundsAssumption DEF TypeOK, FileTypes
  <2> QED
    BY <1>2, <2>1 DEF ProcInv, Opened, Creating, Attaching, Maintainer, Maintaining, NoObject
<1> QED
  BY <1>2, <1>3, <1>4, <1>5, <1>o, CreatorStep DEF Initializing

(* The exchange of the header state that lets one process initialize.      *)
LEMMA ClaimStep ==
  ASSUME IInv, NEW p \in Procs, ProcNext(p), Claim(p)
  PROVE  IInv'
<1>1. pc[p] \in Initializing /\ pc[p] = "claim" /\ UNCHANGED file
  BY DEF Claim, Initializing
<1>2. CASE MarkCorrupted(p)
  BY <1>1, <1>2, CorruptedStep
<1>3. CASE /\ region[p] > FirstBlock
           /\ state' = [state EXCEPT ![fd[p]] = "initializing"]
           /\ Goto(p, "construct")
           /\ UNCHANGED <<magic, total_size, tail, fd, region, locals>>
  <2>1. fd[p] \in Objects /\ ProcInv(p) /\ TypeOK
    BY <1>1, CreatorAlone
  <2>o. PICK o \in Objects : o = fd[p]
    BY <2>1
  <2>2. /\ pc'[p] = "construct" /\ UNCHANGED <<name, made, file_size, fd, region>>
        /\ state'[o] = "initializing"
    BY <1>1, <1>3, <2>1, <2>o DEF TypeOK, CallTypes, MemoryTypes, Goto, file
  <2>3. TouchesOnly(o)
    BY <1>3, <2>1, <2>2, <2>o DEF TouchesOnly, SameObject, TypeOK, MemoryTypes
  <2>4. HeapEnd(o)'
    BY <2>2 DEF HeapEnd
  <2>5. ProcInv(p)'
    BY <1>1, <1>3, <2>1, <2>2, <2>o
       DEF ProcInv, Opened, Creating, Attaching, Maintainer, Maintaining, NoObject
  <2> QED
    BY <1>1, <2>2, <2>3, <2>4, <2>5, <2>o, CreatorStep
<1> QED
  BY <1>2, <1>3 DEF Claim

(* The manager is constructed in the segment.                              *)
LEMMA ConstructStep ==
  ASSUME IInv, NEW p \in Procs, ProcNext(p), Construct(p)
  PROVE  IInv'
<1>1. pc[p] \in Initializing /\ pc[p] = "construct" /\ UNCHANGED file
  BY DEF Construct, Initializing
<1>2. CASE MarkCorrupted(p)
  BY <1>1, <1>2, CorruptedStep
<1>3. CASE /\ total_size' = [total_size EXCEPT ![fd[p]] = region[p]]
           /\ tail' = [tail EXCEPT ![fd[p]] = FirstBlock]
           /\ magic' = [magic EXCEPT ![fd[p]] = TRUE]
           /\ Goto(p, "publish")
           /\ UNCHANGED <<state, fd, region, locals>>
  <2>1. fd[p] \in Objects /\ ProcInv(p) /\ TypeOK
    BY <1>1, CreatorAlone
  <2>o. PICK o \in Objects : o = fd[p]
    BY <2>1
  <2>2. /\ pc'[p] = "publish" /\ UNCHANGED <<name, made, file_size, fd, region, state>>
        /\ total_size'[o] = region[p] /\ tail'[o] = FirstBlock /\ magic'[o]
    BY <1>1, <1>3, <2>1, <2>o DEF TypeOK, CallTypes, MemoryTypes, Goto, file
  <2>3. TouchesOnly(o)
    BY <1>3, <2>1, <2>2, <2>o DEF TouchesOnly, SameObject, TypeOK, MemoryTypes
  <2>4. HeapEnd(o)'
    BY <1>1, <2>1, <2>2, <2>o DEF HeapEnd, ProcInv, Creating
  <2>5. ProcInv(p)'
    BY <1>1, <2>1, <2>2, <2>o
       DEF ProcInv, Opened, Creating, Attaching, Maintainer, Maintaining, NoObject
  <2>6. pc'[p] \in Initializing
    BY <2>2 DEF Initializing
  <2> QED
    BY <1>1, <2>2, <2>3, <2>4, <2>5, <2>6, <2>o, CreatorStep
<1> QED
  BY <1>2, <1>3 DEF Construct

(* The initializing process publishes the segment as ready.                *)
LEMMA PublishStep ==
  ASSUME IInv, NEW p \in Procs, ProcNext(p), Publish(p)
  PROVE  IInv'
<1>1. pc[p] \in Initializing /\ pc[p] = "publish" /\ UNCHANGED file
  BY DEF Publish, Initializing
<1>2. fd[p] \in Objects /\ ProcInv(p) /\ TypeOK
  BY <1>1, CreatorAlone
<1>o. PICK o \in Objects : o = fd[p]
  BY <1>2
<1>3. /\ pc'[p] = "attached" /\ state'[o] = "initialized"
      /\ UNCHANGED <<name, made, file_size, fd, region, magic, total_size, tail>>
  BY <1>2, <1>o DEF Publish, TypeOK, CallTypes, MemoryTypes, Goto, file
<1>4. TouchesOnly(o)
  BY <1>2, <1>3, <1>o DEF Publish, TouchesOnly, SameObject, TypeOK, MemoryTypes
<1>5. /\ magic[o] /\ tail[o] = FirstBlock /\ total_size[o] = region[p]
      /\ region[p] = file_size[o] /\ region[p] > FirstBlock /\ region[p] \in Nat
  BY <1>1, <1>2, <1>o DEF ProcInv, Creating, TypeOK, CallTypes
<1>6. HeapEnd(o)'
  BY <1>3, <1>5, SizesAssumption DEF HeapEnd
<1>7. ProcInv(p)'
  BY <1>1, <1>2, <1>3, <1>5, <1>o
     DEF ProcInv, Opened, Creating, Attaching, Maintainer, Maintaining, NoObject, attach
<1>8. pc'[p] \notin Initializing
  BY <1>3 DEF Initializing
<1> QED
  BY <1>1, <1>3, <1>4, <1>6, <1>7, <1>8, <1>o, CreatorStep

(* A process looks at the state that others publish.                       *)
LEMMA AttachStep ==
  ASSUME IInv, NEW p \in Procs, ProcNext(p), attach_existing_with_retry(p)
  PROVE  IInv'
<1>1. /\ pc[p] = "attach" /\ UNCHANGED <<name, made, file_size, state, magic, total_size, tail>>
      /\ UNCHANGED <<made, file_size, memory>>
  BY DEF attach_existing_with_retry, file, memory
<1>2. CASE Return(p)
  BY <1>1, <1>2, LeaveStep DEF Return
<1>3. CASE ~Return(p)
  <2>1. /\ TypeOK /\ NameInv /\ ProcInv(p)
        /\ fd[p] \in Objects /\ file_size[fd[p]] \in Nat /\ region[p] \in Nat
    BY <1>1 DEF IInv, ProcInv, Opened, TypeOK, CallTypes, FileTypes
  <2>2. \/ /\ attach(fd[p])
           /\ region' = [region EXCEPT ![p] = RegionOf(p)]
           /\ Goto(p, "attached") /\ UNCHANGED fd
        \/ /\ pc' = pc /\ UNCHANGED fd
           /\ region' = [region EXCEPT ![p] = IF file_size[fd[p]] < MinInitialization THEN 0
                                              ELSE RegionOf(p)]
    BY <1>3 DEF attach_existing_with_retry, AttachOutcome, Again
  <2>3. \/ attach(fd[p]) /\ pc'[p] = "attached" /\ region'[p] = RegionOf(p)
        \/ pc'[p] = "attach" /\ region'[p] \in {0, RegionOf(p)}
    BY <1>1, <2>1, <2>2 DEF TypeOK, CallTypes, Goto
  <2>4. fd' = fd
    BY <2>2
  <2>5. RegionOf(p) = file_size[fd[p]]
    BY <1>1, <2>1 DEF RegionOf, ProcInv, Attaching
  <2>6. attach(fd[p]) => total_size[fd[p]] <= file_size[fd[p]]
    BY <2>1, SizesKnown
  <2>7. ProcInv(p)'
    BY <1>1, <2>1, <2>3, <2>4, <2>5, <2>6
       DEF ProcInv, Opened, Creating, Attaching, Maintainer, Maintaining, NoObject, attach
  <2>8. NameInv'
    BY <1>1, <2>1 DEF NameInv
  <2>9. SoleCreator'
    <3>1. ASSUME NEW q \in Procs, fd[q] = fd[p], pc[q] \in Initializing
          PROVE  ~attach(fd[p])
      BY <3>1 DEF IInv, ProcInv, Creating, Initializing, attach
    <3> QED
      BY <1>1, <2>3, <2>4, <3>1, SoleFrame DEF Initializing
  <2> QED
    BY <1>1, <2>7, <2>8, <2>9, QuietStep
<1> QED
  BY <1>2, <1>3

(* The users of a segment move the end of its last allocation.             *)
LEMMA UseStep ==
  ASSUME IInv, NEW p \in Procs, ProcNext(p), NEW t \in FirstBlock .. MaxFileSize, Use(p, t)
  PROVE  IInv'
<1>1. TypeOK /\ NameInv /\ ProcInv(p) /\ pc[p] = "attached"
  BY DEF IInv, Use
<1>2. PICK o \in Objects : o = fd[p]
  BY <1>1 DEF ProcInv, Opened, TypeOK, CallTypes
<1>3. /\ UNCHANGED <<name, made, file_size, state, magic, total_size, pc, fd, region>>
      /\ tail'[o] = t /\ t \in Nat /\ t <= total_size[o]
      /\ t \in {FirstBlock, total_size[o]} \/ total_size[o] - t >= MinBlock
      /\ \A x \in Objects \ {o} : tail'[x] = tail[x]
  BY <1>1, <1>2, SizesAssumption DEF Use, TypeOK, MemoryTypes, file
<1>4. TouchesOnly(o)
  BY <1>3 DEF TouchesOnly, SameObject
<1>5. HeapEnd(o)'
  BY <1>3 DEF IInv, HeapEnd
<1>6. ProcInv(p)'
  BY <1>1, <1>3 DEF ProcInv, Opened, Creating, Attaching, Maintainer, Maintaining, attach
<1>7. SoleCreator'
  BY <1>3 DEF IInv, SoleCreator
<1>8. NameInv' /\ made' = made /\ o <= made
  BY <1>1, <1>2, <1>3 DEF NameInv, ProcInv, Opened
<1>9. ASSUME NEW q \in Procs \ {p}, fd[q] = o PROVE Undisturbed(q)
  <2>1. ProcInv(q) /\ SoleCreator /\ pc[q] \in Labels
    BY <1>1 DEF IInv, TypeOK, CallTypes
  <2>2. pc[q] \notin {"idle", "dead", "create", "reopen"}
    BY <1>9, <2>1 DEF ProcInv, Opened, Objects, NoObject
  <2>3. pc[q] \notin Initializing
    BY <1>1, <1>2, <1>9, <2>1 DEF SoleCreator
  <2>4. pc[q] \notin Maintaining
    BY <1>1, <2>1 DEF ProcInv, Maintainer, NobodyElse
  <2> QED
    BY <1>3, <1>9, <2>1, <2>2, <2>3, <2>4 DEF Undisturbed, Labels
<1> QED
  BY <1>4, <1>5, <1>6, <1>7, <1>8, <1>9, StepWithin

(* The name of the segment is unlinked.                                    *)
LEMMA RemoveStep ==
  ASSUME IInv, NEW p \in Procs, ProcNext(p), remove(p)
  PROVE  IInv'
<1>1. /\ UNCHANGED <<made, file_size, memory>>
      /\ UNCHANGED <<state, magic, total_size, tail, pc, fd, region>>
  BY DEF remove, memory
<1>2. NameInv'
  BY DEF remove, NameInv
<1>3. SoleCreator'
  BY <1>1 DEF IInv, SoleCreator
<1>4. ProcInv(p)'
  BY <1>1
     DEF IInv, remove, ProcInv, Opened, Creating, Attaching, Maintainer, Maintaining, NoObject
<1> QED
  BY <1>1, <1>2, <1>3, <1>4, QuietStep

(* A step of a maintainer, who is alone with the object.                   *)
LEMMA MaintainerStep ==
  ASSUME IInv, NEW p \in Procs, ProcNext(p), NobodyElse(p), NEW o \in Objects, o <= made,
         TouchesOnly(o), UNCHANGED <<name, made>>, pc'[p] \notin Initializing,
         HeapEnd(o)', ProcInv(p)'
  PROVE  IInv'
<1>1. ASSUME NEW q \in Procs \ {p} PROVE fd[q] = NoObject /\ pc[q] \notin Initializing
  BY DEF IInv, NobodyElse, ProcInv, Opened, Initializing
<1>2. NameInv'
  BY DEF IInv, NameInv
<1>3. SoleCreator'
  BY <1>1, SoleFrame
<1>4. \A q \in Procs \ {p} : fd[q] = o => Undisturbed(q)
  BY <1>1 DEF Undisturbed
<1> QED
  BY <1>2, <1>3, <1>4, StepWithin

(* What a maintainer knows.                                                *)
LEMMA MaintainerKnows ==
  ASSUME IInv, NEW p \in Procs, pc[p] \in Maintaining
  PROVE  /\ NobodyElse(p) /\ fd[p] \in Objects /\ fd[p] <= made
         /\ TypeOK /\ ProcInv(p) /\ HeapEnd(fd[p])
BY DEF IInv, ProcInv, Opened, Maintainer, Maintaining, TypeOK, CallTypes

(* NobodyElse speaks of the others only.                                   *)
LEMMA StaysAlone ==
  ASSUME TypeOK, NEW p \in Procs, ProcNext(p), NobodyElse(p)
  PROVE  NobodyElse(p)'
BY OthersStep DEF NobodyElse, OthersStay

(* grow enlarges the file.                                                 *)
LEMMA GrowStep ==
  ASSUME IInv, NEW p \in Procs, ProcNext(p), NEW e \in ExtraSizes, grow(p, e)
  PROVE  IInv'
<1>1. TypeOK /\ NameInv /\ ProcInv(p) /\ pc[p] = "idle" /\ NobodyElse(p)
  BY DEF IInv, grow
<1>2. PICK o \in Objects : o = name
  BY <1>1 DEF grow, TypeOK, FileTypes
<1>3. /\ UNCHANGED <<name, made, state, magic, total_size, tail, region>>
      /\ pc'[p] = "grow_manager" /\ fd'[p] = o
      /\ old_file'[p] = file_size[o] /\ old_total'[p] = total_size[o]
      /\ file_size'[o] \in Nat /\ file_size'[o] > file_size[o] /\ file_size[o] \in Nat
      /\ \A x \in Objects \ {o} : file_size'[x] = file_size[x]
  BY <1>1, <1>2, SizesAssumption
     DEF grow, TypeOK, FileTypes, CallTypes, LocalTypes, Goto, memory
<1>4. o <= made /\ HeapEnd(o) /\ total_size[o] \in Nat /\ region[p] = 0
  BY <1>1, <1>2
     DEF IInv, NameInv, grow, TypeOK, FileTypes, MemoryTypes, ProcInv, Opened, Objects,
         NoObject
<1>5. TouchesOnly(o)
  BY <1>3 DEF TouchesOnly, SameObject
<1>6. HeapEnd(o)'
  BY <1>3, <1>4 DEF HeapEnd
<1>7. NobodyElse(p)'
  BY <1>1, StaysAlone
<1>8. ProcInv(p)'
  BY <1>3, <1>4, <1>7
     DEF ProcInv, Opened, Creating, Attaching, Maintainer, Maintaining, NoObject, Objects, HeapEnd
<1> QED
  BY <1>1, <1>3, <1>4, <1>5, <1>6, <1>8, MaintainerStep DEF Initializing

(* grow lets the manager extend its heap, when the extension is enough.    *)
LEMMA GrowManagerStep ==
  ASSUME IInv, NEW p \in Procs, ProcNext(p), GrowManager(p)
  PROVE  IInv'
<1>1. pc[p] \in Maintaining /\ pc[p] = "grow_manager"
  BY DEF GrowManager, Maintaining
<1>2. /\ NobodyElse(p) /\ fd[p] \in Objects /\ fd[p] <= made
      /\ TypeOK /\ ProcInv(p) /\ HeapEnd(fd[p])
  BY <1>1, MaintainerKnows
<1>3. PICK o \in Objects : o = fd[p]
  BY <1>2
<1>4. CASE /\ CanGrow(fd[p], file_size[fd[p]])
           /\ total_size' = [total_size EXCEPT ![fd[p]] = file_size[fd[p]]]
           /\ Return(p)
  <2>1. /\ UNCHANGED <<name, made, file_size, state, magic, tail>>
        /\ pc'[p] = "idle" /\ fd'[p] = NoObject /\ region'[p] = 0
        /\ total_size'[o] = file_size[o]
        /\ \A x \in Objects \ {o} : total_size'[x] = total_size[x]
    BY <1>2, <1>3, <1>4
       DEF GrowManager, TypeOK, MemoryTypes, CallTypes, Return, CloseObject, Goto, file
  <2>2. TouchesOnly(o)
    BY <2>1 DEF TouchesOnly, SameObject
  <2>3. /\ total_size[o] \in Nat /\ tail[o] \in Nat /\ file_size[o] \in Nat /\ made \in Nat
        /\ file_size[o] > total_size[o]
        /\ tail[o] < total_size[o] \/ file_size[o] - total_size[o] >= MinBlock
    BY <1>2, <1>3, <1>4, BoundsAssumption DEF TypeOK, MemoryTypes, FileTypes, CanGrow
  <2>4. HeapEnd(o)'
    BY <1>2, <1>3, <2>1, <2>3, SizesAssumption DEF HeapEnd
  <2>5. ProcInv(p)'
    BY <2>1, <2>3 DEF ProcInv, Opened, Creating, Attaching, Maintainer, Maintaining, NoObject
  <2> QED
    BY <1>2, <1>3, <2>1, <2>2, <2>4, <2>5, MaintainerStep DEF Initializing
<1>5. CASE /\ Goto(p, "grow_undo")
           /\ UNCHANGED <<total_size, fd, region, locals>>
  <2>1. /\ UNCHANGED <<name, made, file_size, state, magic, tail, total_size, fd, region>>
        /\ UNCHANGED <<old_file, old_total>>
        /\ pc'[p] = "grow_undo"
    BY <1>2, <1>5 DEF GrowManager, TypeOK, CallTypes, Goto, file, locals
  <2>2. TouchesOnly(o)
    BY <2>1 DEF TouchesOnly, SameObject
  <2>3. HeapEnd(o)'
    BY <1>2, <1>3, <2>1 DEF HeapEnd
  <2>4. NobodyElse(p)'
    BY <1>2, StaysAlone
  <2>5. ProcInv(p)'
    BY <1>1, <1>2, <2>1, <2>4
       DEF ProcInv, Opened, Creating, Attaching, Maintainer, Maintaining
  <2> QED
    BY <1>2, <1>3, <2>1, <2>2, <2>3, <2>5, MaintainerStep DEF Initializing
<1> QED
  BY <1>4, <1>5 DEF GrowManager

(* A grow that failed truncates the file back.                             *)
LEMMA GrowUndoStep ==
  ASSUME IInv, NEW p \in Procs, ProcNext(p), GrowUndo(p)
  PROVE  IInv'
<1>1. pc[p] \in Maintaining /\ pc[p] = "grow_undo"
  BY DEF GrowUndo, Maintaining
<1>2. /\ NobodyElse(p) /\ fd[p] \in Objects /\ fd[p] <= made
      /\ TypeOK /\ ProcInv(p) /\ HeapEnd(fd[p])
  BY <1>1, MaintainerKnows
<1>3. PICK o \in Objects : o = fd[p]
  BY <1>2
<1>4. /\ UNCHANGED <<name, made, state, magic, tail, total_size>>
      /\ pc'[p] = "idle" /\ fd'[p] = NoObject /\ region'[p] = 0
      /\ file_size'[o] \in {file_size[o], old_file[p]}
      /\ \A x \in Objects \ {o} : file_size'[x] = file_size[x]
  BY <1>2, <1>3
     DEF GrowUndo, TypeOK, FileTypes, CallTypes, Return, CloseObject, Goto, memory
<1>5. TouchesOnly(o)
  BY <1>4 DEF TouchesOnly, SameObject
<1>6. HeapEnd(o)'
  BY <1>1, <1>2, <1>3, <1>4 DEF HeapEnd, ProcInv, Maintainer
<1>7. ProcInv(p)'
  <2>1. made \in Nat
    BY <1>2, BoundsAssumption DEF TypeOK, FileTypes
  <2> QED
    BY <2>1, <1>4 DEF ProcInv, Opened, Creating, Attaching, Maintainer, Maintaining, NoObject
<1> QED
  BY <1>2, <1>3, <1>4, <1>5, <1>6, <1>7, MaintainerStep DEF Initializing

(* What shrink_to_fit makes of the heap, grow_to_size can undo.            *)
LEMMA ShrinkReversible ==
  ASSUME IInv, NEW o \in Objects, attach(o)
  PROVE  LET new_total == ShrunkSize(o) IN
           \/ new_total = total_size[o]
           \/ /\ total_size[o] > new_total
              /\ tail[o] < new_total \/ total_size[o] - new_total >= MinBlock
<1>1. /\ total_size[o] \in Nat /\ tail[o] \in Nat /\ HeapEnd(o) /\ state[o] = "initialized"
  BY DEF IInv, TypeOK, MemoryTypes, attach
<1> QED
  BY <1>1, SizesAssumption DEF HeapEnd, ShrunkSize

(* shrink_to_fit lets the manager give up free memory.                     *)
LEMMA ShrinkStep ==
  ASSUME IInv, NEW p \in Procs, ProcNext(p), shrink_to_fit(p)
  PROVE  IInv'
<1>1. TypeOK /\ NameInv /\ ProcInv(p) /\ pc[p] = "idle" /\ NobodyElse(p)
  BY DEF IInv, shrink_to_fit
<1>2. PICK o \in Objects : o = name
  BY <1>1 DEF shrink_to_fit, TypeOK, FileTypes
<1>3. /\ UNCHANGED <<name, made, file_size, state, magic, tail, region>>
      /\ fd'[p] = o /\ total_size'[o] = ShrunkSize(o)
      /\ pc'[p] = IF align_file_size(ShrunkSize(o)) >= file_size[o]
                  THEN "shrink_undo" ELSE "shrink_truncate"
      /\ old_file'[p] = file_size[o] /\ old_total'[p] = total_size[o]
      /\ \A x \in Objects \ {o} : total_size'[x] = total_size[x]
      /\ attach(o)
  BY <1>1, <1>2
     DEF shrink_to_fit, TypeOK, MemoryTypes, CallTypes, LocalTypes, Goto, file
<1>4. /\ o <= made /\ HeapEnd(o) /\ region[p] = 0 /\ state[o] = "initialized" /\ magic[o]
      /\ total_size[o] \in Nat /\ tail[o] \in Nat /\ file_size[o] \in Nat
  BY <1>1, <1>2, <1>3
     DEF IInv, NameInv, TypeOK, FileTypes, MemoryTypes, ProcInv, Opened, Objects, NoObject, attach
<1>5. /\ ShrunkSize(o) \in Nat /\ ShrunkSize(o) <= total_size[o]
      /\ \/ ShrunkSize(o) = total_size[o]
         \/ /\ total_size[o] > ShrunkSize(o)
            /\ tail[o] < ShrunkSize(o) \/ total_size[o] - ShrunkSize(o) >= MinBlock
  BY <1>3, SizesKnown, ShrinkReversible, SizesAssumption
<1>6. TouchesOnly(o)
  BY <1>3 DEF TouchesOnly, SameObject
<1>7. HeapEnd(o)'
  BY <1>3, <1>4, SizesAssumption DEF HeapEnd, ShrunkSize
<1>8. NobodyElse(p)'
  BY <1>1, StaysAlone
<1>9. align_file_size(ShrunkSize(o)) \in Nat
  BY <1>5, AlignCovers
<1>10. ProcInv(p)'
  <2>1. Opened(p)' /\ Creating(p)' /\ Attaching(p)'
    BY <1>3, <1>4 DEF Opened, Creating, Attaching, NoObject, Objects
  <2>2. total_size[o] <= file_size[o]
    BY <1>4 DEF HeapEnd
  <2>3. attach(fd[p])' /\ (old_total[p] <= file_size[fd[p]])'
    BY <1>3, <1>4, <2>2 DEF attach
  <2>4. (total_size[fd[p]] = old_total[p] \/ CanGrow(fd[p], old_total[p]))'
    BY <1>3, <1>4, <1>5, <2>3 DEF CanGrow
  <2>5. (pc[p] = "shrink_truncate" => align_file_size(total_size[fd[p]]) < file_size[fd[p]])'
    BY <1>3, <1>4, <1>9 DEF align_file_size
  <2>6. Maintainer(p)'
    BY <1>3, <1>8, <2>3, <2>4, <2>5 DEF Maintainer
  <2> QED
    BY <2>1, <2>6 DEF ProcInv
<1> QED
  BY <1>1, <1>3, <1>4, <1>6, <1>7, <1>10, MaintainerStep DEF Initializing

(* shrink_to_fit truncates the file, or fails to.                          *)
LEMMA ShrinkTruncateStep ==
  ASSUME IInv, NEW p \in Procs, ProcNext(p), ShrinkTruncate(p)
  PROVE  IInv'
<1>1. pc[p] \in Maintaining /\ pc[p] = "shrink_truncate"
  BY DEF ShrinkTruncate, Maintaining
<1>2. /\ NobodyElse(p) /\ fd[p] \in Objects /\ fd[p] <= made
      /\ TypeOK /\ ProcInv(p) /\ HeapEnd(fd[p])
  BY <1>1, MaintainerKnows
<1>3. PICK o \in Objects : o = fd[p]
  BY <1>2
<1>4. CASE /\ file_size' = [file_size EXCEPT ![fd[p]] = align_file_size(total_size[fd[p]])]
           /\ Return(p)
  <2>1. /\ UNCHANGED <<name, made, state, magic, tail, total_size>>
        /\ pc'[p] = "idle" /\ fd'[p] = NoObject /\ region'[p] = 0
        /\ file_size'[o] = align_file_size(total_size[o])
        /\ \A x \in Objects \ {o} : file_size'[x] = file_size[x]
    BY <1>2, <1>3, <1>4
       DEF ShrinkTruncate, TypeOK, FileTypes, CallTypes, Return, CloseObject, Goto, memory
  <2>2. TouchesOnly(o)
    BY <2>1 DEF TouchesOnly, SameObject
  <2>3. total_size[o] \in Nat /\ made \in Nat
    BY <1>2, BoundsAssumption DEF TypeOK, MemoryTypes, FileTypes
  <2>4. total_size[o] <= file_size'[o]
    BY <2>1, <2>3, AlignCovers
  <2>5. HeapEnd(o)'
    BY <1>2, <1>3, <2>1, <2>4 DEF HeapEnd
  <2>6. ProcInv(p)'
    BY <2>1, <2>3 DEF ProcInv, Opened, Creating, Attaching, Maintainer, Maintaining, NoObject
  <2> QED
    BY <1>2, <1>3, <2>1, <2>2, <2>5, <2>6, MaintainerStep DEF Initializing
<1>5. CASE /\ Goto(p, "shrink_undo")
           /\ UNCHANGED <<file_size, fd, region, locals>>
  <2>1. /\ UNCHANGED <<name, made, file_size, state, magic, tail, total_size, fd, region>>
        /\ UNCHANGED <<old_file, old_total>>
        /\ pc'[p] = "shrink_undo"
    BY <1>2, <1>5 DEF ShrinkTruncate, TypeOK, CallTypes, Goto, memory, locals
  <2>2. TouchesOnly(o)
    BY <2>1 DEF TouchesOnly, SameObject
  <2>3. HeapEnd(o)'
    BY <1>2, <1>3, <2>1 DEF HeapEnd
  <2>4. NobodyElse(p)'
    BY <1>2, StaysAlone
  <2>5. attach(fd[p])' <=> attach(fd[p])
    BY <2>1 DEF attach
  <2>6. ProcInv(p)'
    BY <1>1, <1>2, <2>1, <2>4, <2>5
       DEF ProcInv, Opened, Creating, Attaching, Maintainer, Maintaining, CanGrow
  <2> QED
    BY <1>2, <1>3, <2>1, <2>2, <2>3, <2>6, MaintainerStep DEF Initializing
<1> QED
  BY <1>4, <1>5 DEF ShrinkTruncate

(* A shrink that failed reaches the heap again, or gives up.               *)
LEMMA ShrinkUndoStep ==
  ASSUME IInv, NEW p \in Procs, ProcNext(p), ShrinkUndo(p)
  PROVE  IInv'
<1>1. pc[p] \in Maintaining /\ pc[p] = "shrink_undo"
  BY DEF ShrinkUndo, Maintaining
<1>2. /\ NobodyElse(p) /\ fd[p] \in Objects /\ fd[p] <= made
      /\ TypeOK /\ ProcInv(p) /\ HeapEnd(fd[p])
  BY <1>1, MaintainerKnows
<1>3. PICK o \in Objects : o = fd[p]
  BY <1>2
<1>4. UNCHANGED <<name, made, file_size, state, magic, tail, total_size>>
  BY DEF ShrinkUndo, file, memory
<1>5. TouchesOnly(o)
  BY <1>4 DEF TouchesOnly, SameObject
<1>6. HeapEnd(o)'
  BY <1>2, <1>3, <1>4 DEF HeapEnd
<1>7. CASE Return(p)
  <2>1. pc'[p] = "idle" /\ fd'[p] = NoObject /\ region'[p] = 0
    BY <1>2, <1>7 DEF TypeOK, CallTypes, Return, CloseObject, Goto
  <2>2. made \in Nat
    BY <1>2, BoundsAssumption DEF TypeOK, FileTypes
  <2>3. ProcInv(p)'
    BY <1>4, <2>1, <2>2
       DEF ProcInv, Opened, Creating, Attaching, Maintainer, Maintaining, NoObject
  <2> QED
    BY <1>2, <1>3, <1>4, <1>5, <1>6, <2>1, <2>3, MaintainerStep DEF Initializing
<1>8. CASE /\ Goto(p, "shrink_regrow")
           /\ UNCHANGED <<fd, region, locals>>
  <2>1. UNCHANGED <<fd, region, old_file, old_total>> /\ pc'[p] = "shrink_regrow"
    BY <1>2, <1>8 DEF TypeOK, CallTypes, Goto, locals
  <2>2. NobodyElse(p)'
    BY <1>2, StaysAlone
  <2>3. attach(fd[p])' <=> attach(fd[p])
    BY <1>4, <2>1 DEF attach
  <2>4. ProcInv(p)'
    BY <1>1, <1>2, <1>4, <2>1, <2>2, <2>3
       DEF ProcInv, Opened, Creating, Attaching, Maintainer, Maintaining, CanGrow
  <2> QED
    BY <1>2, <1>3, <1>4, <1>5, <1>6, <2>1, <2>4, MaintainerStep DEF Initializing
<1> QED
  BY <1>7, <1>8 DEF ShrinkUndo

(* The heap takes back what was cut off.                                   *)
LEMMA ShrinkRegrowStep ==
  ASSUME IInv, NEW p \in Procs, ProcNext(p), ShrinkRegrow(p)
  PROVE  IInv'
<1>1. pc[p] \in Maintaining /\ pc[p] = "shrink_regrow"
  BY DEF ShrinkRegrow, Maintaining
<1>2. /\ NobodyElse(p) /\ fd[p] \in Objects /\ fd[p] <= made
      /\ TypeOK /\ ProcInv(p) /\ HeapEnd(fd[p])
  BY <1>1, MaintainerKnows
<1>3. PICK o \in Objects : o = fd[p]
  BY <1>2
<1>4. /\ UNCHANGED <<name, made, file_size, state, magic, tail>>
      /\ pc'[p] = "idle" /\ fd'[p] = NoObject /\ region'[p] = 0
      /\ total_size'[o] = IF CanGrow(o, old_total[p]) THEN old_total[p] ELSE total_size[o]
      /\ \A x \in Objects \ {o} : total_size'[x] = total_size[x]
  BY <1>2, <1>3
     DEF ShrinkRegrow, TypeOK, MemoryTypes, CallTypes, Return, CloseObject, Goto, file
<1>5. TouchesOnly(o)
  BY <1>4 DEF TouchesOnly, SameObject
<1>6. /\ total_size[o] \in Nat /\ tail[o] \in Nat /\ old_total[p] \in Nat /\ made \in Nat
      /\ file_size[o] \in Nat
  BY <1>2, BoundsAssumption DEF TypeOK, MemoryTypes, FileTypes, LocalTypes
<1>7. HeapEnd(o)'
  <2>1. old_total[p] <= file_size[o]
    BY <1>1, <1>2, <1>3 DEF ProcInv, Maintainer
  <2> QED
    BY <1>2, <1>3, <1>4, <1>6, <2>1, SizesAssumption DEF HeapEnd, CanGrow
<1>8. ProcInv(p)'
  BY <1>4, <1>6 DEF ProcInv, Opened, Creating, Attaching, Maintainer, Maintaining, NoObject
<1> QED
  BY <1>2, <1>3, <1>4, <1>5, <1>7, <1>8, MaintainerStep DEF Initializing

----------------------------------------------------------------------------
(* The theorems.                                                           *)

(* One step per action.                                                    *)
LEMMA NextIInv == IInv /\ [Next]_vars => IInv'
<1> SUFFICES ASSUME IInv, [Next]_vars PROVE IInv'
  OBVIOUS
<1>1. CASE UNCHANGED vars
  <2>1. TypeOK' /\ NameInv' /\ FreshInv' /\ SoleCreator'
    BY <1>1
       DEF vars, IInv, TypeOK, FileTypes, MemoryTypes, CallTypes, LocalTypes, NameInv, FreshInv,
           SoleCreator
  <2>2. ASSUME NEW o \in Objects PROVE HeapEnd(o)'
    BY <1>1 DEF vars, IInv, HeapEnd
  <2>3. ASSUME NEW p \in Procs PROVE ProcInv(p)'
    <3>1. ProcInv(p)
      BY DEF IInv
    <3>2. Opened(p)' /\ Creating(p)' /\ Attaching(p)'
      BY <1>1, <3>1 DEF vars, ProcInv, Opened, Creating, Attaching, attach
    <3>3. Maintainer(p)'
      BY <1>1, <3>1 DEF vars, ProcInv, Maintainer, NobodyElse, CanGrow, attach
    <3> QED
      BY <3>2, <3>3 DEF ProcInv
  <2> QED
    BY <2>1, <2>2, <2>3 DEF IInv
<1>2. ASSUME NEW p \in Procs, ProcNext(p) PROVE IInv'
  <2>1. CASE \E s \in CreateSizes : create_only(p, s) \/ open_or_create(p, s)
    BY <1>2, <2>1, CreateStep, OpenStep DEF create_only
  <2>2. CASE CreateOrExists(p)
    BY <1>2, <2>2, CreateStep, OpenStep DEF CreateOrExists
  <2>3. CASE OpenOrGone(p) \/ open_only(p)
    BY <1>2, <2>3, OpenStep
  <2>4. CASE Close(p)
    BY <1>2, <2>4, LeaveStep DEF Close, Return, file
  <2>5. CASE Die(p)
    BY <1>2, <2>5, LeaveStep DEF Die, file
  <2>6. CASE \E t \in FirstBlock .. MaxFileSize : Use(p, t)
    BY <1>2, <2>6, UseStep
  <2>7. CASE \E e \in ExtraSizes : grow(p, e)
    BY <1>2, <2>7, GrowStep
  <2> QED
    BY <1>2, <2>1, <2>2, <2>3, <2>4, <2>5, <2>6, <2>7, TruncateStep, MapStep, ClaimStep,
       ConstructStep, PublishStep, AttachStep, RemoveStep, GrowManagerStep, GrowUndoStep,
       ShrinkStep, ShrinkTruncateStep, ShrinkUndoStep, ShrinkRegrowStep
       DEF ProcNext, Continue
<1> QED
  BY <1>1, <1>2 DEF Next, ProcNext

(* The inductive invariant holds in every state.                           *)
THEOREM Invariant == Spec => []IInv
BY InitIInv, NextIInv, PTL DEF Spec

(***************************************************************************)
(* For any sizes and any number of processes that create, open, resize,    *)
(* remove and die: every variable keeps its type, and the heap of a        *)
(* published segment ends within its object.                               *)
(***************************************************************************)
THEOREM SegmentCorrect == Spec => []SegmentInv
<1>1. IInv => SegmentInv
  BY DEF IInv, SegmentInv, FileCoversHeap, HeapEnd
<1> QED
  BY <1>1, Invariant, PTL

(***************************************************************************)
(* Whoever is attached has a completely constructed manager mapped, to the *)
(* end of its heap.                                                        *)
(***************************************************************************)
THEOREM AttachSafe == Spec => []AttachedIsUsable
<1>1. IInv => AttachedIsUsable
  BY DEF IInv, AttachedIsUsable, ProcInv, Attaching, attach
<1> QED
  BY <1>1, Invariant, PTL

(***************************************************************************)
(* The compare-and-exchange of SharedMemoryManager::create has one         *)
(* contender per object: O_EXCL hands every object to one creator.         *)
(***************************************************************************)
THEOREM OneCreator == Spec => []SoleCreator
<1>1. IInv => SoleCreator
  BY DEF IInv
<1> QED
  BY <1>1, Invariant, PTL

(***************************************************************************)
(* A grow that fails leaves the heap at its old size, and a shrink_to_fit  *)
(* that reaches the heap again gives it its old size back: what was cut    *)
(* off is always enough for grow_to_size to take back.  Where the rollback *)
(* fails or its process dies, grow_to_size could still do so.              *)
(***************************************************************************)
THEOREM FailureRestores == Spec => FailureRestoresHeap
<1>1. ASSUME IInv, [Next]_vars, NEW p \in Procs,
             pc[p] \in {"grow_undo", "shrink_undo", "shrink_regrow"}, pc'[p] \in {"idle", "dead"}
      PROVE  /\ pc[p] \in {"grow_undo", "shrink_regrow"} /\ pc'[p] = "idle" =>
                  total_size'[fd[p]] = old_total[p]
             /\ pc[p] \in {"shrink_undo", "shrink_regrow"} =>
                  \A o \in {fd[p]}, size \in {old_total[p]} : Regrowable(o, size)'
  <2>1. pc[p] \in Maintaining
    BY <1>1 DEF Maintaining
  <2>2. /\ NobodyElse(p) /\ fd[p] \in Objects /\ TypeOK /\ ProcInv(p)
    BY <1>1, <2>1, MaintainerKnows
  <2>3. PICK q \in Procs : ProcNext(q)
    BY <1>1 DEF Next, ProcNext, vars
  <2>4. q = p
    BY <1>1, <2>2, <2>3, OthersStep DEF OthersStay
  <2>5. GrowUndo(p) \/ ShrinkUndo(p) \/ ShrinkRegrow(p) \/ Die(p)
    BY <1>1, <2>2, <2>3, <2>4
       DEF ProcNext, Continue, create_only, open_or_create, open_only, CreateOrExists, OpenOrGone,
           Truncate, MapAndZero, Claim, Construct, Publish, attach_existing_with_retry,
           GrowManager, ShrinkTruncate, Use, Close, remove, grow, shrink_to_fit, Goto,
           TypeOK, CallTypes
  <2>6. PICK o \in Objects, size \in Nat : o = fd[p] /\ size = old_total[p]
    BY <2>2, BoundsAssumption DEF TypeOK, LocalTypes
  <2>7. CASE GrowUndo(p)
    BY <2>2, <2>7 DEF GrowUndo, ProcInv, Maintainer, memory
  <2>8. CASE ShrinkUndo(p) \/ Die(p)
    <3>1. UNCHANGED <<state, magic, total_size, tail>>
      BY <2>8 DEF ShrinkUndo, Die, memory
    <3>2. pc[p] \in {"shrink_undo", "shrink_regrow"} => Regrowable(o, size)
      BY <2>2, <2>6 DEF ProcInv, Maintainer, Regrowable
    <3>3. Regrowable(o, size) => Regrowable(o, size)'
      BY <3>1 DEF Regrowable, CanGrow, attach
    <3>4. pc[p] \in {"grow_undo", "shrink_regrow"} => pc'[p] # "idle"
      BY <2>2, <2>8 DEF ShrinkUndo, Die, Goto, TypeOK, CallTypes
    <3> QED
      BY <2>6, <3>2, <3>3, <3>4
  <2>9. CASE ShrinkRegrow(p)
    <3>1. total_size'[o] = size
      BY <2>2, <2>6, <2>9 DEF ShrinkRegrow, ProcInv, Maintainer, TypeOK, MemoryTypes
    <3>2. Regrowable(o, size)'
      BY <3>1 DEF Regrowable
    <3> QED
      BY <2>6, <2>9, <3>1, <3>2 DEF ShrinkRegrow
  <2> QED
    BY <2>5, <2>7, <2>8, <2>9 DEF GrowUndo
<1>2. IInv /\ [Next]_vars =>
        [\A p \in Procs : \A o \in {fd[p]}, size \in {old_total[p]} :
           /\ pc[p] \in {"grow_undo", "shrink_regrow"} /\ pc'[p] = "idle" =>
                total_size'[o] = size
           /\ pc[p] \in {"shrink_undo", "shrink_regrow"} /\ pc'[p] \in {"idle", "dead"} =>
                Regrowable(o, size)']_vars
  BY <1>1
<1> QED
  BY <1>2, Invariant, PTL DEF Spec, FailureRestoresHeap
=============================================================================
