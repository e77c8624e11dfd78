--------------------------- MODULE ManagedSegment ---------------------------
(***************************************************************************)
(* The life of a segment: ManagedSharedMemory over SharedMemoryObject.     *)
(*                                                                         *)
(* A name leads to a POSIX shared memory object.  create_only and          *)
(* open_or_create make the object, give it a size and construct the        *)
(* manager in it; open_only and open_read_only find it, possibly before    *)
(* its creator is done, and then poll the state word.  remove takes the    *)
(* name away, and those who have the object mapped keep it.  grow and      *)
(* shrink_to_fit resize the object and the heap in it in separate steps.   *)
(* A process may die at any step, and its work stays as it is.             *)
(*                                                                         *)
(* Sizes count units of which MinInitialization, FirstBlock, MinBlock and  *)
(* PageSize are multiples.  Of the heap (module BlockAllocator) only the   *)
(* place of its last block matters: tail is where the free block at the    *)
(* end begins, and equals total_size if the last block is in use.  What    *)
(* recover_abandoned_named_objects does on attaching is in NamedObjects.   *)
(***************************************************************************)
EXTENDS Integers, FiniteSets

CONSTANTS
  Procs,
  CreateSizes,       (* sizes given to create_only and open_or_create      *)
  ExtraSizes,        (* bytes that grow is asked to add                    *)
  MinInitialization, (* minimum_initialization_size()                      *)
  FirstBlock,        (* sizeof(SharedMemoryManager)                        *)
  MinBlock,          (* the smallest free block                            *)
  PageSize,
  MaxAttempts,       (* max_attempts of attach_existing_with_retry         *)
  MaxObjects,        (* bound: objects made under the name, limits remove  *)
  MaxFileSize,       (* bound: the size that grow stops at                 *)
  MaxDeaths          (* bound: how many processes die                      *)

ASSUME SizesAssumption ==
  /\ CreateSizes \subseteq 0 .. MaxFileSize
  /\ ExtraSizes \subseteq Nat \ {0}
  /\ MinInitialization \in Nat \ {0}
  /\ FirstBlock \in Nat
  /\ MinInitialization <= FirstBlock
  /\ MinBlock \in Nat \ {0}
  /\ PageSize \in Nat \ {0}
  /\ MaxFileSize \in Nat

ASSUME BoundsAssumption ==
  /\ MaxAttempts \in Nat \ {0}
  /\ MaxObjects \in Nat \ {0}
  /\ MaxDeaths \in Nat

Objects == 1 .. MaxObjects
NoObject == 0

VARIABLES
  name,       (* the object that the name leads to                         *)
  made,       (* how many objects were made under the name                 *)
  file_size,  (* st_size of every object                                   *)
  state,      (* SharedMemoryManager::initialization_state                 *)
  magic,      (* SharedMemoryManager::magic is MAGIC                       *)
  total_size, (* SharedMemoryManager::total_size                           *)
  tail,       (* where the free space at the end of the heap begins        *)
  pc,         (* where each process is                                     *)
  fd,         (* the object it has open                                    *)
  region,     (* how much of it is mapped                                  *)
  attempt,    (* the loop counter of attach_existing_with_retry            *)
  wanted,     (* the size it creates the segment with                      *)
  old_file,   (* old_size of grow, old_file_size of shrink_to_fit          *)
  old_total,  (* old_logical_size of shrink_to_fit                         *)
  deaths

memory == <<state, magic, total_size, tail>>
file == <<name, made, file_size>>
locals == <<attempt, wanted, old_file, old_total>>
vars == <<name, made, file_size, state, magic, total_size, tail, pc, fd, region,
          attempt, wanted, old_file, old_total, deaths>>

Maintaining ==
  {"grow_manager", "grow_undo", "shrink_truncate", "shrink_undo", "shrink_regrow"}
Initializing == {"truncate", "map", "claim", "construct", "publish"}
Labels == {"idle", "create", "reopen", "attach", "attached", "dead"}
            \cup Initializing \cup Maintaining

Goto(p, label) == pc' = [pc EXCEPT ![p] = label]

(* The local variables of the call are gone.                               *)
ForgetLocals(p) ==
  /\ attempt' = [attempt EXCEPT ![p] = 0]
  /\ wanted' = [wanted EXCEPT ![p] = 0]
  /\ old_file' = [old_file EXCEPT ![p] = 0]
  /\ old_total' = [old_total EXCEPT ![p] = 0]

(* The descriptor and the mapping are closed by their destructors.         *)
CloseObject(p) ==
  /\ fd' = [fd EXCEPT ![p] = NoObject]
  /\ region' = [region EXCEPT ![p] = 0]

(* The call ends with an exception or its result.                          *)
Return(p) == Goto(p, "idle") /\ CloseObject(p) /\ ForgetLocals(p)

(* The documents rule out any other use of the segment during grow and     *)
(* shrink_to_fit, until they return or their process dies.                 *)
NoMaintenance == \A p \in Procs : pc[p] \notin Maintaining
NobodyElse(p) == \A q \in Procs \ {p} : pc[q] \in {"idle", "dead"}

align_file_size(size) == ((size + PageSize - 1) \div PageSize) * PageSize

----------------------------------------------------------------------------
(* Creating                                                                *)

(* shm_open with O_CREAT | O_EXCL makes a new, empty object.               *)
Create(p) ==
  /\ name = NoObject
  /\ made' = made + 1
  /\ name' = made + 1
  /\ fd' = [fd EXCEPT ![p] = made + 1]
  /\ Goto(p, "truncate")
  /\ UNCHANGED <<file_size, memory, region, deaths>>

(* create_only gives up with EEXIST.                                       *)
create_only(p, size) ==
  /\ pc[p] = "idle"
  /\ NoMaintenance
  /\ wanted' = [wanted EXCEPT ![p] = size]
  /\ Create(p)
  /\ UNCHANGED <<attempt, old_file, old_total>>

(* open_or_create alternates between creating (EEXIST) and opening         *)
(* (ENOENT) until one of them works.                                       *)
open_or_create(p, size) ==
  /\ pc[p] = "idle"
  /\ NoMaintenance
  /\ wanted' = [wanted EXCEPT ![p] = size]
  /\ Goto(p, "create")
  /\ UNCHANGED <<file, memory, fd, region, attempt, old_file, old_total, deaths>>

(* Mutant: EEXIST is taken for success.                                    *)
CreateOrExists_reuses(p) ==
  /\ pc[p] = "create"
  /\ IF name = NoObject
     THEN Create(p)
     ELSE /\ fd' = [fd EXCEPT ![p] = name]
          /\ Goto(p, "truncate")
          /\ UNCHANGED <<file, memory, region, deaths>>
  /\ UNCHANGED locals

CreateOrExists(p) ==
  /\ pc[p] = "create"
  /\ \/ Create(p)
     \/ /\ name # NoObject
        /\ Goto(p, "reopen")
        /\ UNCHANGED <<file, memory, fd, region, deaths>>
  /\ UNCHANGED locals

OpenOrGone(p) ==
  /\ pc[p] = "reopen"
  /\ \/ /\ name # NoObject
        /\ fd' = [fd EXCEPT ![p] = name]
        /\ attempt' = [attempt EXCEPT ![p] = 0]
        /\ Goto(p, "attach")
     \/ /\ name = NoObject
        /\ Goto(p, "create")
        /\ UNCHANGED <<fd, attempt>>
  /\ UNCHANGED <<file, memory, region, wanted, old_file, old_total, deaths>>

(* truncate may fail, for want of memory say; the empty object stays.      *)
Truncate(p) ==
  /\ pc[p] = "truncate"
  /\ \/ /\ file_size' = [file_size EXCEPT ![fd[p]] = wanted[p]]
        /\ Goto(p, "map")
        /\ UNCHANGED <<fd, region, locals>>
     \/ Return(p) /\ UNCHANGED file_size
  /\ UNCHANGED <<name, made, memory, deaths>>

(* MappedRegion refuses an empty object; initialize_new_segment zeroes it. *)
MapAndZero(p) ==
  /\ pc[p] = "map"
  /\ LET o == fd[p]
     IN  \/ /\ file_size[o] = 0
            /\ Return(p)
            /\ UNCHANGED memory
         \/ /\ file_size[o] > 0
            /\ region' = [region EXCEPT ![p] = file_size[o]]
            /\ state' = [state EXCEPT ![o] = "uninitialized"]
            /\ magic' = [magic EXCEPT ![o] = FALSE]
            /\ total_size' = [total_size EXCEPT ![o] = 0]
            /\ tail' = [tail EXCEPT ![o] = 0]
            /\ Goto(p, "claim")
            /\ UNCHANGED <<fd, locals>>
  /\ UNCHANGED <<file, deaths>>

(* The handler of initialize_new_segment: it needs room for the state word.*)
MarkCorrupted(p) ==
  /\ state' = IF region[p] >= MinInitialization
              THEN [state EXCEPT ![fd[p]] = "corrupted"]
              ELSE state
  /\ Return(p)
  /\ UNCHANGED <<magic, total_size, tail>>

(* SharedMemoryManager::create up to the compare-and-exchange.             *)
Claim(p) ==
  /\ pc[p] = "claim"
  /\ \/ /\ region[p] <= FirstBlock \/ state[fd[p]] # "uninitialized"
        /\ MarkCorrupted(p)
     \/ /\ region[p] > FirstBlock
        /\ state[fd[p]] = "uninitialized"
        /\ state' = [state EXCEPT ![fd[p]] = "initializing"]
        /\ Goto(p, "construct")
        /\ UNCHANGED <<magic, total_size, tail, fd, region, locals>>
  /\ UNCHANGED <<file, deaths>>

(* The constructor of the manager; that of a mutex may throw.              *)
Construct(p) ==
  /\ pc[p] = "construct"
  /\ \/ MarkCorrupted(p)
     \/ /\ total_size' = [total_size EXCEPT ![fd[p]] = region[p]]
        /\ tail' = [tail EXCEPT ![fd[p]] = FirstBlock]
        /\ magic' = [magic EXCEPT ![fd[p]] = TRUE]
        /\ Goto(p, "publish")
        /\ UNCHANGED <<state, fd, region, locals>>
  /\ UNCHANGED <<file, deaths>>

(* Its last statement.                                                     *)
Publish(p) ==
  /\ pc[p] = "publish"
  /\ state' = [state EXCEPT ![fd[p]] = "initialized"]
  /\ Goto(p, "attached")
  /\ ForgetLocals(p)
  /\ UNCHANGED <<file, magic, total_size, tail, fd, region, deaths>>

----------------------------------------------------------------------------
(* Opening                                                                 *)

(* open_only and open_read_only; they fail if the name leads nowhere.      *)
open_only(p) ==
  /\ pc[p] = "idle"
  /\ NoMaintenance
  /\ name # NoObject
  /\ fd' = [fd EXCEPT ![p] = name]
  /\ attempt' = [attempt EXCEPT ![p] = 0]
  /\ Goto(p, "attach")
  /\ UNCHANGED <<file, memory, region, wanted, old_file, old_total, deaths>>

(* Mutant: the object is taken as it is found.                             *)
attach_unchecked(o) == file_size[o] >= MinInitialization

(* SharedMemoryManager::attach                                             *)
attach(o) == state[o] = "initialized" /\ magic[o]

(* The size and the state of the object decide over an attempt: it is used,*)
(* refused, or looked at again after 10 ms.                                *)
AttachOutcome(o) ==
  IF file_size[o] < MinInitialization THEN "again"
  ELSE IF attach(o) THEN "attached"
  ELSE IF state[o] \in {"uninitialized", "initializing"} THEN "again"
  ELSE "refused"

(* The mapping of the first attempt that finds the object sized is kept.   *)
RegionOf(p) == IF region[p] = 0 THEN file_size[fd[p]] ELSE region[p]

(* Mutant: the attempts are not counted.                                   *)
Again_forever(p) ==
  /\ region' = [region EXCEPT ![p] = IF file_size[fd[p]] < MinInitialization THEN 0
                                     ELSE RegionOf(p)]
  /\ UNCHANGED <<pc, fd, locals>>

(* Another round of the loop, or the end of it.                            *)
Again(p) ==
  \/ /\ attempt[p] + 1 < MaxAttempts
     /\ attempt' = [attempt EXCEPT ![p] = @ + 1]
     /\ region' = [region EXCEPT ![p] = IF file_size[fd[p]] < MinInitialization THEN 0
                                        ELSE RegionOf(p)]
     /\ UNCHANGED <<pc, fd, wanted, old_file, old_total>>
  \/ /\ attempt[p] + 1 = MaxAttempts
     /\ Return(p)

attach_existing_with_retry(p) ==
  /\ pc[p] = "attach"
  /\ \/ /\ AttachOutcome(fd[p]) = "attached"
        /\ region' = [region EXCEPT ![p] = RegionOf(p)]
        /\ Goto(p, "attached")
        /\ ForgetLocals(p)
        /\ UNCHANGED fd
     \/ AttachOutcome(fd[p]) = "refused" /\ Return(p)
     \/ AttachOutcome(fd[p]) = "again" /\ Again(p)
  /\ UNCHANGED <<file, memory, deaths>>

----------------------------------------------------------------------------
(* Using and leaving                                                       *)

(* Allocations and deallocations move the last block: the rest behind it   *)
(* is empty, a free block, or the one block of an empty heap.              *)
Use(p, t) ==
  /\ pc[p] = "attached"
  /\ LET o == fd[p]
     IN  /\ t \in FirstBlock .. total_size[o]
         /\ t \in {FirstBlock, total_size[o]} \/ total_size[o] - t >= MinBlock
         /\ tail' = [tail EXCEPT ![o] = t]
  /\ UNCHANGED <<file, state, magic, total_size, pc, fd, region, locals, deaths>>

Close(p) ==
  /\ pc[p] = "attached"
  /\ Return(p)
  /\ UNCHANGED <<file, memory, deaths>>

(* shm_unlink: whoever has the object open keeps it.                       *)
remove(p) ==
  /\ pc[p] = "idle"
  /\ name # NoObject
  /\ made < MaxObjects
  /\ name' = NoObject
  /\ UNCHANGED <<made, file_size, memory, pc, fd, region, locals, deaths>>

Die(p) ==
  /\ pc[p] # "dead"
  /\ deaths < MaxDeaths
  /\ deaths' = deaths + 1
  /\ Goto(p, "dead")
  /\ CloseObject(p)
  /\ ForgetLocals(p)
  /\ UNCHANGED <<file, memory>>

----------------------------------------------------------------------------
(* Resizing                                                                *)

(* SharedMemoryManager::grow_to_size: the new space extends a free tail or *)
(* is large enough for a block of its own.                                 *)
CanGrow(o, size) ==
  /\ attach(o)
  /\ size > total_size[o]
  /\ tail[o] < total_size[o] \/ size - total_size[o] >= MinBlock

(* grow first extends the object.  If that fails nothing has happened.     *)
grow(p, extra) ==
  /\ pc[p] = "idle"
  /\ NobodyElse(p)
  /\ name # NoObject
  /\ LET new_size == align_file_size(file_size[name] + extra)
     IN  /\ new_size \in file_size[name] + 1 .. MaxFileSize
         /\ file_size' = [file_size EXCEPT ![name] = new_size]
  /\ fd' = [fd EXCEPT ![p] = name]
  /\ old_file' = [old_file EXCEPT ![p] = file_size[name]]
  /\ old_total' = [old_total EXCEPT ![p] = total_size[name]]
  /\ Goto(p, "grow_manager")
  /\ UNCHANGED <<name, made, memory, region, attempt, wanted, deaths>>

(* The heap takes the new space, unless it refuses or cannot be reached:   *)
(* mapping the object and attaching to the manager may throw.              *)
GrowManager(p) ==
  /\ pc[p] = "grow_manager"
  /\ \/ /\ CanGrow(fd[p], file_size[fd[p]])
        /\ total_size' = [total_size EXCEPT ![fd[p]] = file_size[fd[p]]]
        /\ Return(p)
     \/ /\ Goto(p, "grow_undo")
        /\ UNCHANGED <<total_size, fd, region, locals>>
  /\ UNCHANGED <<file, state, magic, tail, deaths>>

(* The object gets its old size back, if the system lets it.               *)
GrowUndo(p) ==
  /\ pc[p] = "grow_undo"
  /\ file_size' \in {file_size, [file_size EXCEPT ![fd[p]] = old_file[p]]}
  /\ Return(p)
  /\ UNCHANGED <<name, made, memory, deaths>>

(* SharedMemoryBlockAllocator::shrink_to_fit; an empty heap keeps a block. *)
ShrunkSize(o) ==
  IF tail[o] = total_size[o] THEN total_size[o]
  ELSE IF tail[o] > FirstBlock THEN tail[o]
  ELSE IF total_size[o] - FirstBlock <= MinBlock THEN total_size[o]
  ELSE FirstBlock + MinBlock

(* shrink_to_fit first shrinks the heap.  The object is then cut down,     *)
(* unless it would not get smaller.                                        *)
shrink_to_fit(p) ==
  /\ pc[p] = "idle"
  /\ NobodyElse(p)
  /\ name # NoObject
  /\ attach(name)
  /\ LET new_total == ShrunkSize(name)
         new_file == align_file_size(new_total)
     IN  /\ new_total < total_size[name] \/ new_file < file_size[name]
         /\ total_size' = [total_size EXCEPT ![name] = new_total]
         /\ Goto(p, IF new_file >= file_size[name] THEN "shrink_undo" ELSE "shrink_truncate")
  /\ fd' = [fd EXCEPT ![p] = name]
  /\ old_file' = [old_file EXCEPT ![p] = file_size[name]]
  /\ old_total' = [old_total EXCEPT ![p] = total_size[name]]
  /\ UNCHANGED <<file, state, magic, tail, region, attempt, wanted, deaths>>

(* Mutant: the size is rounded down to whole pages.                        *)
ShrinkTruncate_down(p) ==
  /\ pc[p] = "shrink_truncate"
  /\ file_size' = [file_size EXCEPT ![fd[p]] = (total_size[fd[p]] \div PageSize) * PageSize]
  /\ Return(p)
  /\ UNCHANGED <<name, made, memory, deaths>>

ShrinkTruncate(p) ==
  /\ pc[p] = "shrink_truncate"
  /\ \/ /\ file_size' = [file_size EXCEPT ![fd[p]] = align_file_size(total_size[fd[p]])]
        /\ Return(p)
     \/ /\ Goto(p, "shrink_undo")
        /\ UNCHANGED <<file_size, fd, region, locals>>
  /\ UNCHANGED <<name, made, memory, deaths>>

(* The object is mapped again, to reach the heap.  If that throws, also in *)
(* the second attempt that a handler makes, the call fails with the heap   *)
(* left shrunk.                                                            *)
ShrinkUndo(p) ==
  /\ pc[p] = "shrink_undo"
  /\ \/ Return(p)
     \/ /\ attach(fd[p])
        /\ Goto(p, "shrink_regrow")
        /\ UNCHANGED <<fd, region, locals>>
  /\ UNCHANGED <<file, memory, deaths>>

(* Mutant: the heap is attached to, but not grown.                         *)
ShrinkRegrow_omitted(p) ==
  /\ pc[p] = "shrink_regrow"
  /\ Return(p)
  /\ UNCHANGED <<file, memory, deaths>>

(* The heap gets its old size back.  The code does not look at whether     *)
(* grow_to_size has done it.                                               *)
ShrinkRegrow(p) ==
  /\ pc[p] = "shrink_regrow"
  /\ total_size' = IF CanGrow(fd[p], old_total[p])
                   THEN [total_size EXCEPT ![fd[p]] = old_total[p]]
                   ELSE total_size
  /\ Return(p)
  /\ UNCHANGED <<file, state, magic, tail, deaths>>

----------------------------------------------------------------------------

Init ==
  /\ name = NoObject
  /\ made = 0
  /\ file_size = [o \in Objects |-> 0]
  /\ state = [o \in Objects |-> "uninitialized"]
  /\ magic = [o \in Objects |-> FALSE]
  /\ total_size = [o \in Objects |-> 0]
  /\ tail = [o \in Objects |-> 0]
  /\ pc = [p \in Procs |-> "idle"]
  /\ fd = [p \in Procs |-> NoObject]
  /\ region = [p \in Procs |-> 0]
  /\ attempt = [p \in Procs |-> 0]
  /\ wanted = [p \in Procs |-> 0]
  /\ old_file = [p \in Procs |-> 0]
  /\ old_total = [p \in Procs |-> 0]
  /\ deaths = 0

(* What follows in a call that was begun.                                  *)
Continue(p) ==
  \/ CreateOrExists(p) \/ OpenOrGone(p)
  \/ Truncate(p) \/ MapAndZero(p) \/ Claim(p) \/ Construct(p) \/ Publish(p)
  \/ attach_existing_with_retry(p)
  \/ GrowManager(p) \/ GrowUndo(p)
  \/ ShrinkTruncate(p) \/ ShrinkUndo(p) \/ ShrinkRegrow(p)

Next ==
  \E p \in Procs :
    \/ \E s \in CreateSizes : create_only(p, s) \/ open_or_create(p, s)
    \/ open_only(p)
    \/ Continue(p)
    \/ \E t \in FirstBlock .. MaxFileSize : Use(p, t)
    \/ Close(p)
    \/ remove(p)
    \/ \E e \in ExtraSizes : grow(p, e)
    \/ shrink_to_fit(p)
    \/ Die(p)

Spec == Init /\ [][Next]_vars

(* A live process goes on with its call.                                   *)
FairSpec == Spec /\ \A p \in Procs : WF_vars(Continue(p))

----------------------------------------------------------------------------
(* Properties                                                              *)

FileTypes ==
  /\ name \in Objects \cup {NoObject}
  /\ made \in 0 .. MaxObjects
  /\ file_size \in [Objects -> 0 .. MaxFileSize]

MemoryTypes ==
  /\ state \in [Objects -> {"uninitialized", "initializing", "initialized", "corrupted"}]
  /\ magic \in [Objects -> BOOLEAN]
  /\ total_size \in [Objects -> 0 .. MaxFileSize]
  /\ tail \in [Objects -> 0 .. MaxFileSize]

CallTypes ==
  /\ pc \in [Procs -> Labels]
  /\ fd \in [Procs -> Objects \cup {NoObject}]
  /\ region \in [Procs -> 0 .. MaxFileSize]
  /\ deaths \in 0 .. MaxDeaths

LocalTypes ==
  /\ attempt \in [Procs -> 0 .. MaxAttempts - 1]
  /\ wanted \in [Procs -> 0 .. MaxFileSize]
  /\ old_file \in [Procs -> 0 .. MaxFileSize]
  /\ old_total \in [Procs -> 0 .. MaxFileSize]

(* Every variable has its type, and every size and loop counter its range. *)
TypeOK == FileTypes /\ MemoryTypes /\ CallTypes /\ LocalTypes

(* Every byte of the heap is backed by the object: grow extends the object *)
(* first and shrink_to_fit cuts it last, so that neither a failure nor a   *)
(* death in between leaves memory that faults when it is touched.          *)
FileCoversHeap ==
  \A o \in Objects :
    state[o] = "initialized" => tail[o] <= total_size[o] /\ total_size[o] <= file_size[o]

(* What every step keeps of the objects and of the calls.                  *)
SegmentInv == TypeOK /\ FileCoversHeap

(***************************************************************************)
(* Whoever attach_existing_with_retry or a constructor lets through works  *)
(* on a manager that is completely constructed, and its mapping reaches to *)
(* the end of the heap, whatever its creator, a maintainer that died half  *)
(* way, or a remove did in the meantime.                                   *)
(***************************************************************************)
AttachedIsUsable ==
  \A p \in Procs :
    pc[p] = "attached" =>
      /\ state[fd[p]] = "initialized"
      /\ magic[fd[p]]
      /\ total_size[fd[p]] <= region[p]

(* An object has one creator, however create_only, open_or_create and      *)
(* remove interleave, and only its creator writes the state word.          *)
SoleCreator ==
  \A p, q \in Procs :
    /\ pc[p] \in Initializing
    /\ fd[p] = fd[q]
    => p = q \/ pc[q] = "attach"

(* The heap has this size, or grow_to_size would give it this size.        *)
Regrowable(o, size) == total_size[o] = size \/ CanGrow(o, size)

(***************************************************************************)
(* A grow that fails leaves the heap at the size that it found, and so     *)
(* does a shrink_to_fit that reaches the heap again: grow_to_size, whose   *)
(* result the code ignores, never refuses what was cut off.  Where the     *)
(* rollback itself fails or its process dies, the heap stays shrunk, and   *)
(* grow_to_size could still give it its old size.                          *)
(***************************************************************************)
FailureRestoresHeap ==
  [][\A p \in Procs : \A o \in {fd[p]}, size \in {old_total[p]} :
       /\ pc[p] \in {"grow_undo", "shrink_regrow"} /\ pc'[p] = "idle" =>
            total_size'[o] = size
       /\ pc[p] \in {"shrink_undo", "shrink_regrow"} /\ pc'[p] \in {"idle", "dead"} =>
            Regrowable(o, size)']_vars

(* No call hangs: neither the loop of open_or_create nor that of           *)
(* attach_existing_with_retry, whose creator may be dead, goes on forever. *)
EveryCallEnds ==
  \A p \in Procs : []<>(pc[p] \in {"idle", "attached", "dead"})
=============================================================================
