----------------------------- MODULE ManagerLock -----------------------------
(***************************************************************************)
(* How SharedMemoryManager protects its metadata.                          *)
(*                                                                         *)
(* Processes with a writable mapping enter a section under the robust      *)
(* mutex, preceded by a process-shared rwlock when the build enables       *)
(* SHM_NEXT_ENABLE_MANAGER_SHARED_MUTEX; a write section makes             *)
(* metadata_generation odd while it lasts.  Processes with a read-only     *)
(* mapping cannot lock: they read the metadata between two loads of the    *)
(* generation and retry when it was odd or has changed.                    *)
(*                                                                         *)
(* A process may die at any step.  The next one to lock the mutex checks   *)
(* the heap, and either repairs the mutex and the generation or leaves the *)
(* mutex unusable for good.                                                *)
(*                                                                         *)
(* The metadata is a set of cells, all equal between sections; a write     *)
(* section advances them one at a time, in any order, so that cells that   *)
(* differ are an operation half done.  check_sanity covers the cells of    *)
(* the heap; those of the name registry are out of its sight.              *)
(***************************************************************************)
EXTENDS Integers, FiniteSets, RobustMutex

CONSTANTS
  Procs,           (* processes with a writable mapping                    *)
  Readers,         (* processes with a read-only mapping                   *)
  Cells,           (* words of metadata                                    *)
  HeapCells,       (* those that check_sanity looks at                     *)
  Builds,          (* values of SHM_NEXT_ENABLE_MANAGER_SHARED_MUTEX       *)
  MaxAttempts,     (* max_attempts, 1024 in the code                       *)
  MaxGeneration,   (* bound: write sections start below this generation    *)
  MaxDeaths        (* bound: processes that die                            *)

ASSUME LockAssumption ==
  /\ Nobody \notin Procs
  /\ HeapCells \subseteq Cells
  /\ Builds \subseteq BOOLEAN
  /\ MaxAttempts \in Nat \ {0}
  /\ MaxGeneration \in Nat
  /\ MaxDeaths \in Nat

VARIABLES
  mutex,      (* SharedMemoryManager::mutex                                *)
  rwlock,     (* SharedMemoryManager::manager_rwlock                       *)
  generation, (* SharedMemoryManager::metadata_generation                  *)
  cells,      (* the metadata                                              *)
  pc,         (* where each process with a writable mapping is             *)
  op,         (* the section it wants or is in: "read" or "write"          *)
  todo,       (* the cells its write section has still to advance          *)
  rpc,        (* where each read-only process is                           *)
  seen_gen,   (* the generation that its current attempt started from      *)
  seen,       (* the cells that the attempt has read                       *)
  attempts,   (* attempts left in with_read_only_snapshot                  *)
  spins       (* turns left in wait_for_stable_metadata_generation         *)

lockVars == <<mutex, rwlock>>
procVars == <<pc, op, todo>>
readerVars == <<rpc, seen_gen, seen, attempts, spins>>
vars == <<mutex, rwlock, generation, cells, pc, op, todo,
          rpc, seen_gen, seen, attempts, spins>>

Odd(n) == n % 2 = 1

Goto(p, label) == pc' = [pc EXCEPT ![p] = label]

Dead == {p \in Procs : pc[p] = "dead"}

(* check_sanity_unlocked sees no half-done operation in the heap.          *)
check_sanity == \A c, d \in HeapCells : cells[c] = cells[d]

----------------------------------------------------------------------------
(* manager_rwlock: a pthread rwlock, which nobody recovers.                *)

(* All processes come from one build, with the rwlock or without.          *)
SharedMutex == rwlock.enabled

(* Mutant: a writer does not wait for the readers.                         *)
CanLockExclusive_ignores_readers == rwlock.writer = Nobody

CanLockShared == rwlock.writer = Nobody
CanLockExclusive == rwlock.writer = Nobody /\ rwlock.readers = {}

(* A call of with_manager_read_lock or with_manager_write_lock.            *)
Call(p, kind) ==
  /\ pc[p] = "idle"
  /\ kind = "write" => generation < MaxGeneration
  /\ op' = [op EXCEPT ![p] = kind]
  /\ Goto(p, IF SharedMutex THEN "lock_rw" ELSE "lock")
  /\ UNCHANGED <<lockVars, generation, cells, todo, readerVars>>

LockShared(p) ==
  /\ pc[p] = "lock_rw"
  /\ op[p] = "read"
  /\ CanLockShared
  /\ rwlock' = [rwlock EXCEPT !.readers = @ \cup {p}]
  /\ Goto(p, "read")
  /\ UNCHANGED <<mutex, generation, cells, op, todo, readerVars>>

LockExclusive(p) ==
  /\ pc[p] = "lock_rw"
  /\ op[p] = "write"
  /\ CanLockExclusive
  /\ rwlock' = [rwlock EXCEPT !.writer = p]
  /\ Goto(p, "lock")
  /\ UNCHANGED <<mutex, generation, cells, op, todo, readerVars>>

UnlockRw(p) ==
  /\ pc[p] = "unlock_rw"
  /\ rwlock' = [rwlock EXCEPT !.writer = IF rwlock.writer = p THEN Nobody ELSE rwlock.writer,
                              !.readers = rwlock.readers \ {p}]
  /\ Goto(p, "idle")
  /\ UNCHANGED <<mutex, generation, cells, op, todo, readerVars>>

(* Where a section, or an attempt to enter one, continues after the mutex. *)
AfterMutex == IF SharedMutex THEN "unlock_rw" ELSE "idle"

----------------------------------------------------------------------------
(* lock_for_manager_recovery                                               *)

Entered(p) == IF op[p] = "write" THEN "begin" ELSE "read"

LockMutex(p) ==
  /\ pc[p] = "lock"
  /\ CanLock(mutex)
  /\ LockStatus(mutex) = "acquired"
  /\ mutex' = Locked(mutex, p)
  /\ Goto(p, Entered(p))
  /\ UNCHANGED <<rwlock, generation, cells, op, todo, readerVars>>

LockOwnerDead(p) ==
  /\ pc[p] = "lock"
  /\ CanLock(mutex)
  /\ LockStatus(mutex) = "owner_dead"
  /\ mutex' = Locked(mutex, p)
  /\ Goto(p, "check")
  /\ UNCHANGED <<rwlock, generation, cells, op, todo, readerVars>>

LockNotRecoverable(p) ==
  /\ pc[p] = "lock"
  /\ CanLock(mutex)
  /\ LockStatus(mutex) = "not_recoverable"
  /\ Goto(p, AfterMutex)
  /\ UNCHANGED <<lockVars, generation, cells, op, todo, readerVars>>

(* Mutant: the call goes on after a failed check.                          *)
CheckFails_continues(p) ==
  /\ pc[p] = "check"
  /\ ~check_sanity
  /\ mutex' = Unlocked(mutex)
  /\ Goto(p, Entered(p))
  /\ UNCHANGED <<rwlock, generation, cells, op, todo, readerVars>>

(* Mutant: the error is thrown with the mutex locked.                      *)
CheckFails_keeps_mutex(p) ==
  /\ pc[p] = "check"
  /\ ~check_sanity
  /\ Goto(p, AfterMutex)
  /\ UNCHANGED <<lockVars, generation, cells, op, todo, readerVars>>

(* initialization_corrupted is thrown after the mutex was unlocked.        *)
CheckFails(p) ==
  /\ pc[p] = "check"
  /\ ~check_sanity
  /\ mutex' = Unlocked(mutex)
  /\ Goto(p, AfterMutex)
  /\ UNCHANGED <<rwlock, generation, cells, op, todo, readerVars>>

CheckPasses(p) ==
  /\ pc[p] = "check"
  /\ check_sanity
  /\ mutex' = MarkedConsistent(mutex)
  /\ Goto(p, "repair")
  /\ UNCHANGED <<rwlock, generation, cells, op, todo, readerVars>>

end_metadata_write == generation' = IF Odd(generation) THEN generation + 1 ELSE generation

(* Mutant: recovery leaves the generation odd.                             *)
RepairGeneration_omitted(p) ==
  /\ pc[p] = "repair"
  /\ Goto(p, Entered(p))
  /\ UNCHANGED <<lockVars, generation, cells, op, todo, readerVars>>

RepairGeneration(p) ==
  /\ pc[p] = "repair"
  /\ end_metadata_write
  /\ Goto(p, Entered(p))
  /\ UNCHANGED <<lockVars, cells, op, todo, readerVars>>

----------------------------------------------------------------------------
(* with_manager_write_lock_under_exclusive_rwlock                          *)

(* Mutant: write sections do not announce themselves.                      *)
begin_metadata_write_omitted == UNCHANGED generation

begin_metadata_write == generation' = IF Odd(generation) THEN generation ELSE generation + 1

BeginWrite(p) ==
  /\ pc[p] = "begin"
  /\ begin_metadata_write
  /\ todo' = [todo EXCEPT ![p] = Cells]
  /\ Goto(p, "write")
  /\ UNCHANGED <<lockVars, cells, op, readerVars>>

WriteCell(p, c) ==
  /\ pc[p] = "write"
  /\ c \in todo[p]
  /\ cells' = [cells EXCEPT ![c] = @ + 1]
  /\ todo' = [todo EXCEPT ![p] = @ \ {c}]
  /\ UNCHANGED <<lockVars, generation, pc, op, readerVars>>

(* The function returns, or throws having changed nothing: allocate_many   *)
(* and reserve_named_storage undo what they did before they rethrow.       *)
EndWrite(p) ==
  /\ pc[p] = "write"
  /\ todo[p] \in {{}, Cells}
  /\ end_metadata_write
  /\ Goto(p, "unlock")
  /\ UNCHANGED <<lockVars, cells, op, todo, readerVars>>

(* The end of a read section, under the mutex or under the rwlock.         *)
EndRead(p) ==
  /\ pc[p] = "read"
  /\ Goto(p, IF SharedMutex THEN "unlock_rw" ELSE "unlock")
  /\ UNCHANGED <<lockVars, generation, cells, op, todo, readerVars>>

Unlock(p) ==
  /\ pc[p] = "unlock"
  /\ mutex' = Unlocked(mutex)
  /\ Goto(p, AfterMutex)
  /\ UNCHANGED <<rwlock, generation, cells, op, todo, readerVars>>

(* The process dies; an rwlock that it holds stays held.                   *)
Die(p) ==
  /\ pc[p] # "dead"
  /\ Cardinality(Dead) < MaxDeaths
  /\ mutex' = OwnerDied(mutex, p)
  /\ Goto(p, "dead")
  /\ UNCHANGED <<rwlock, generation, cells, op, todo, readerVars>>

----------------------------------------------------------------------------
(* with_read_only_snapshot; for_each_named_object_read_only makes a single *)
(* attempt.                                                                *)

Unread == -1
NothingRead == [c \in Cells |-> Unread]

RGoto(r, label) == rpc' = [rpc EXCEPT ![r] = label]

StartSnapshot(r, n) ==
  /\ rpc[r] = "idle"
  /\ attempts' = [attempts EXCEPT ![r] = n]
  /\ spins' = [spins EXCEPT ![r] = MaxAttempts]
  /\ RGoto(r, "wait")
  /\ UNCHANGED <<lockVars, generation, cells, procVars, seen_gen, seen>>

(* Mutant: the loop has no bound.                                          *)
WaitStable_unbounded(r) ==
  /\ rpc[r] = "wait"
  /\ IF Odd(generation)
     THEN /\ spins' = [spins EXCEPT ![r] = IF @ < 0 THEN @ ELSE @ - 1]
          /\ UNCHANGED <<rpc, seen_gen, seen>>
     ELSE /\ seen_gen' = [seen_gen EXCEPT ![r] = generation]
          /\ seen' = [seen EXCEPT ![r] = NothingRead]
          /\ RGoto(r, "read")
          /\ UNCHANGED spins
  /\ UNCHANGED <<lockVars, generation, cells, procVars, attempts>>

(* One turn of wait_for_stable_metadata_generation.                        *)
WaitStable(r) ==
  /\ rpc[r] = "wait"
  /\ IF Odd(generation)
     THEN /\ spins' = [spins EXCEPT ![r] = @ - 1]
          /\ RGoto(r, IF spins[r] = 1 THEN "failed" ELSE "wait")
          /\ UNCHANGED <<seen_gen, seen>>
     ELSE /\ seen_gen' = [seen_gen EXCEPT ![r] = generation]
          /\ seen' = [seen EXCEPT ![r] = NothingRead]
          /\ RGoto(r, "read")
          /\ UNCHANGED spins
  /\ UNCHANGED <<lockVars, generation, cells, procVars, attempts>>

ReadCell(r, c) ==
  /\ rpc[r] = "read"
  /\ seen[r][c] = Unread
  /\ seen' = [seen EXCEPT ![r] = [@ EXCEPT ![c] = cells[c]]]
  /\ UNCHANGED <<lockVars, generation, cells, procVars, rpc, seen_gen, attempts, spins>>

(* Mutant: the generation is not loaded a second time.                     *)
Validate_unchecked(r) ==
  /\ rpc[r] = "read"
  /\ \A c \in Cells : seen[r][c] # Unread
  /\ RGoto(r, "returned")
  /\ UNCHANGED <<lockVars, generation, cells, procVars, seen_gen, seen, attempts, spins>>

(* is_metadata_generation_stable, once everything was read.                *)
Validate(r) ==
  /\ rpc[r] = "read"
  /\ \A c \in Cells : seen[r][c] # Unread
  /\ IF seen_gen[r] = generation
     THEN RGoto(r, "returned") /\ UNCHANGED <<attempts, spins>>
     ELSE /\ attempts' = [attempts EXCEPT ![r] = @ - 1]
          /\ spins' = [spins EXCEPT ![r] = MaxAttempts]
          /\ RGoto(r, IF attempts[r] = 1 THEN "failed" ELSE "wait")
  /\ UNCHANGED <<lockVars, generation, cells, procVars, seen_gen, seen>>

(* The result is used, or the error handled; then the process may ask again. *)
Finish(r) ==
  /\ rpc[r] \in {"returned", "failed"}
  /\ RGoto(r, "idle")
  /\ seen_gen' = [seen_gen EXCEPT ![r] = 0]
  /\ seen' = [seen EXCEPT ![r] = NothingRead]
  /\ attempts' = [attempts EXCEPT ![r] = 0]
  /\ spins' = [spins EXCEPT ![r] = 0]
  /\ UNCHANGED <<lockVars, generation, cells, procVars>>

----------------------------------------------------------------------------
Init ==
  /\ mutex = NewMutex
  /\ rwlock \in [enabled : Builds, writer : {Nobody}, readers : {{}}]
  /\ generation = 0
  /\ cells = [c \in Cells |-> 0]
  /\ pc = [p \in Procs |-> "idle"]
  /\ op = [p \in Procs |-> "read"]
  /\ todo = [p \in Procs |-> {}]
  /\ rpc = [r \in Readers |-> "idle"]
  /\ seen_gen = [r \in Readers |-> 0]
  /\ seen = [r \in Readers |-> NothingRead]
  /\ attempts = [r \in Readers |-> 0]
  /\ spins = [r \in Readers |-> 0]

(* The steps that a live process takes once it has made a call.            *)
Step(p) ==
  \/ LockShared(p) \/ LockExclusive(p) \/ UnlockRw(p)
  \/ LockMutex(p) \/ LockOwnerDead(p) \/ LockNotRecoverable(p)
  \/ CheckFails(p) \/ CheckPasses(p) \/ RepairGeneration(p)
  \/ BeginWrite(p) \/ EndWrite(p) \/ EndRead(p) \/ Unlock(p)
  \/ \E c \in Cells : WriteCell(p, c)

ReaderStep(r) ==
  \/ WaitStable(r) \/ Validate(r)
  \/ \E c \in Cells : ReadCell(r, c)

ProcNext(p) == Step(p) \/ Call(p, "read") \/ Call(p, "write") \/ Die(p)

ReaderNext(r) ==
  ReaderStep(r) \/ Finish(r) \/ \E n \in {1, MaxAttempts} : StartSnapshot(r, n)

Next ==
  \/ \E p \in Procs : ProcNext(p)
  \/ \E r \in Readers : ReaderNext(r)

Spec == Init /\ [][Next]_vars

(* A process that is not dead keeps running; nobody has to make a call, and *)
(* no one is served first when several wait for a lock.                     *)
Fairness ==
  /\ \A p \in Procs : WF_vars(Step(p))
  /\ \A r \in Readers : WF_vars(ReaderStep(r))

FairSpec == Spec /\ Fairness
----------------------------------------------------------------------------
(* Properties.                                                             *)

Labels == {"idle", "lock_rw", "lock", "check", "repair", "begin", "write",
           "read", "unlock", "unlock_rw", "dead"}

(* Every variable has its type.                                            *)
TypeOK ==
  /\ mutex \in [owner : Procs \cup {Nobody}, state : MutexStates]
  /\ rwlock \in [enabled : BOOLEAN, writer : Procs \cup {Nobody}, readers : SUBSET Procs]
  /\ generation \in Nat
  /\ cells \in [Cells -> Nat]
  /\ pc \in [Procs -> Labels]
  /\ op \in [Procs -> {"read", "write"}]
  /\ todo \in [Procs -> SUBSET Cells]
  /\ rpc \in [Readers -> {"idle", "wait", "read", "returned", "failed"}]
  /\ seen_gen \in [Readers -> Nat]
  /\ seen \in [Readers -> [Cells -> Nat \cup {Unread}]]
  /\ attempts \in [Readers -> 0 .. MaxAttempts]
  /\ spins \in [Readers -> 0 .. MaxAttempts]

Touches(p) == pc[p] \in {"check", "repair", "begin", "write", "read"}

(***************************************************************************)
(* While a process is in a write section, or repairs one that its owner    *)
(* did not live to finish, no other live process is in a section: the      *)
(* mutex, or the rwlock with the mutex, serialises metadata changes.       *)
(***************************************************************************)
WriterExcludesAll ==
  \A p, q \in Procs :
    p # q /\ pc[p] \in {"check", "repair", "begin", "write"} => ~Touches(q)

(***************************************************************************)
(* No section starts on the remains of another: whoever died before, the   *)
(* heap has no half-done operation in it and the generation is even again, *)
(* so that the next write section makes it odd.  lock_for_manager_recovery *)
(* lets nobody past a failed check or past the repair.                     *)
(***************************************************************************)
SectionsStartSane ==
  \A p \in Procs : pc[p] \in {"begin", "read"} => check_sanity /\ ~Odd(generation)

(***************************************************************************)
(* A manager that was given up stays closed: nobody is inside, and the     *)
(* generation stays odd, so that read-only processes get an error instead  *)
(* of a snapshot of a broken heap.                                         *)
(***************************************************************************)
GivenUpIsClosed ==
  mutex.state = "not_recoverable" =>
    /\ Odd(generation)
    /\ \A p \in Procs : ~Touches(p)

(* What a read-only process returns is the metadata at the moment of the   *)
(* second load of the generation, every cell of it (with_read_only_snapshot). *)
SnapshotExact ==
  [][\A r \in Readers :
       rpc[r] = "read" /\ rpc'[r] = "returned" => seen[r] = cells]_vars

(* No snapshot shows a half-done heap operation, whoever died and whoever  *)
(* recovered the mutex in the meantime.                                    *)
SnapshotHeapWhole ==
  \A r \in Readers :
    rpc[r] = "returned" =>
      \A c, d \in HeapCells : seen[r][c] = seen[r][d]

Waiting(p) == pc[p] \in {"lock_rw", "lock"}

(* The lock is never lost: while processes wait, some process gets in or   *)
(* is told that it cannot, even after the death of an owner.               *)
LockNeverLost ==
  (\E p \in Procs : Waiting(p)) ~>
     ((\E p \in Procs : Touches(p)) \/ (\A p \in Procs : ~Waiting(p)))

DeadHoldsRwlock == \E p \in Dead : rwlock.writer = p \/ p \in rwlock.readers

(* The lock can only be lost to a process that died with the rwlock: while *)
(* processes wait, some process gets in or is told that it cannot, even    *)
(* after the death of an owner of the mutex at any step.                   *)
OnlyRwlockLosesLock ==
  (\E p \in Procs : Waiting(p)) ~>
     \/ \E p \in Procs : Touches(p)
     \/ \A p \in Procs : ~Waiting(p)
     \/ DeadHoldsRwlock

(* A read-only process always gets an answer, however busy or dead the     *)
(* writers are: both loops give up after max_attempts.                     *)
SnapshotEnds ==
  \A r \in Readers : rpc[r] \in {"wait", "read"} ~> rpc[r] \in {"returned", "failed"}
=============================================================================
