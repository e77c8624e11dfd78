-------------------------- MODULE ManagerLockProofs --------------------------
(***************************************************************************)
(* Proofs about ManagerLock for any sets of processes, cells and read-only *)
(* processes, with and without the rwlock, and any number of deaths.       *)
(***************************************************************************)
EXTENDS ManagerLock, TLAPS

----------------------------------------------------------------------------
(* The inductive invariant, in parts.                                      *)

(* Labels at which a process owns the mutex.                               *)
Holds(p) ==
  \/ pc[p] \in {"check", "repair", "begin", "write", "unlock"}
  \/ pc[p] = "read" /\ ~SharedMutex

(* Labels of a process that has taken the rwlock exclusively.              *)
WriterPath == {"lock", "check", "repair", "begin", "write", "unlock"}

(* The mutex has an owner exactly while a live process holds it, and is    *)
(* inconsistent exactly while that process checks the heap.                *)
MutexInv ==
  /\ \A p \in Procs : Holds(p) <=> mutex.owner = p
  /\ \A p \in Procs : pc[p] = "check" => mutex.state = "inconsistent"
  /\ \A p \in Procs : Holds(p) /\ pc[p] # "check" => mutex.state = "normal"
  /\ mutex.owner = Nobody => mutex.state # "inconsistent"

(* With the rwlock, the mutex is only ever used by the process that holds  *)
(* the rwlock exclusively; if that process dies nobody comes after it.     *)
RwlockInv ==
  /\ \A p \in Procs : pc[p] \in {"lock_rw", "unlock_rw"} => SharedMutex
  /\ SharedMutex =>
       /\ \A p \in Procs : pc[p] \in WriterPath => rwlock.writer = p /\ op[p] = "write"
       /\ \A p \in Procs : pc[p] = "read" => p \in rwlock.readers
       /\ \A p \in Procs : pc[p] = "unlock_rw" =>
            (rwlock.writer = p /\ mutex = NewMutex) \/ p \in rwlock.readers
       /\ rwlock.writer # Nobody => rwlock.readers = {}
       /\ mutex # NewMutex => rwlock.writer # Nobody
       /\ mutex.state # "normal" => rwlock.writer \in Procs /\ pc[rwlock.writer] = "dead"

(* The generation is odd while metadata may be half changed.               *)
GenerationInv ==
  /\ mutex = NewMutex => ~Odd(generation)
  /\ \A p \in Procs : pc[p] \in {"begin", "read", "unlock"} => ~Odd(generation)
  /\ \A p \in Procs : pc[p] = "write" => Odd(generation)
  /\ mutex.state = "not_recoverable" => Odd(generation)

(* With an even generation the heap is whole; a write section in progress  *)
(* has advanced the cells that are not in todo.                            *)
HeapInv ==
  /\ ~Odd(generation) => check_sanity
  /\ \A p \in Procs : pc[p] = "repair" => check_sanity
  /\ \A p \in Procs : pc[p] = "write" =>
       \A c, d \in HeapCells :
         /\ c \in todo[p] /\ d \in todo[p] => cells[c] = cells[d]
         /\ c \notin todo[p] /\ d \notin todo[p] => cells[c] = cells[d]
         /\ c \notin todo[p] /\ d \in todo[p] => cells[c] = cells[d] + 1

(* A read-only process that would pass the second check has read what is   *)
(* there now.                                                              *)
SnapshotInv ==
  \A r \in Readers :
    /\ rpc[r] = "read" =>
         /\ ~Odd(seen_gen[r])
         /\ seen_gen[r] <= generation
         /\ seen_gen[r] = generation =>
              \A c \in Cells : seen[r][c] \in {Unread, cells[c]}
    /\ rpc[r] = "returned" =>
         \A c, d \in HeapCells : seen[r][c] = seen[r][d]

(* A read-only process that still tries has a try left.                    *)
RetriesInv ==
  \A r \in Readers :
    /\ rpc[r] \in {"wait", "read"} => attempts[r] >= 1
    /\ rpc[r] = "wait" => spins[r] >= 1

IInv ==
  /\ TypeOK
  /\ RetriesInv
  /\ MutexInv
  /\ RwlockInv
  /\ GenerationInv
  /\ HeapInv
  /\ SnapshotInv

----------------------------------------------------------------------------
(* Arithmetic of the generation.                                           *)

(* Adding one changes the parity of a generation.                          *)
LEMMA OddNext == \A n \in Nat : Odd(n + 1) <=> ~Odd(n)
BY DEF Odd

(* A number between two equal ones is equal to both.                       *)
LEMMA Between ==
  \A i, j, k \in Nat : i <= j /\ j <= k => i <= k /\ (i = k => i = j)
OBVIOUS

(* begin_metadata_write leaves an odd generation, end_metadata_write an    *)
(* even one, and neither moves it backwards.                               *)
LEMMA GenerationMoves ==
  ASSUME generation \in Nat
  PROVE  /\ begin_metadata_write =>
              generation' \in Nat /\ Odd(generation') /\ generation <= generation'
         /\ end_metadata_write =>
              generation' \in Nat /\ ~Odd(generation') /\ generation <= generation'
BY OddNext DEF begin_metadata_write, end_metadata_write

----------------------------------------------------------------------------
(* Types.                                                                  *)

(* A step of a process keeps the types.                                    *)
LEMMA TypeProcStep ==
  ASSUME TypeOK, NEW p \in Procs, ProcNext(p)
  PROVE  TypeOK'
<1> USE LockAssumption DEF TypeOK, lockVars, readerVars, Labels, MutexStates, Unread,
     SharedMutex
<1>1. CASE LockShared(p)
  BY <1>1 DEF LockShared, CanLockShared, Goto
<1>2. CASE LockExclusive(p)
  BY <1>2 DEF LockExclusive, CanLockExclusive, Goto
<1>3. CASE UnlockRw(p)
  BY <1>3 DEF UnlockRw, Goto
<1>4. CASE LockMutex(p)
  BY <1>4 DEF LockMutex, CanLock, LockStatus, Locked, Goto, Entered
<1>5. CASE LockOwnerDead(p)
  BY <1>5 DEF LockOwnerDead, CanLock, LockStatus, Locked, Goto
<1>6. CASE LockNotRecoverable(p)
  BY <1>6 DEF LockNotRecoverable, CanLock, LockStatus, Goto, AfterMutex
<1>7. CASE CheckFails(p)
  BY <1>7 DEF CheckFails, Unlocked, Goto, AfterMutex
<1>8. CASE CheckPasses(p)
  BY <1>8 DEF CheckPasses, MarkedConsistent, Goto
<1>9. CASE RepairGeneration(p)
  BY <1>9, GenerationMoves DEF RepairGeneration, Goto, Entered
<1>10. CASE BeginWrite(p)
  BY <1>10, GenerationMoves DEF BeginWrite, Goto
<1>11. CASE EndWrite(p)
  BY <1>11, GenerationMoves DEF EndWrite, Goto
<1>12. CASE EndRead(p)
  BY <1>12 DEF EndRead, Goto
<1>13. CASE Unlock(p)
  BY <1>13 DEF Unlock, Unlocked, Goto, AfterMutex
<1>14. CASE Die(p)
  BY <1>14 DEF Die, OwnerDied, Goto
<1>15. CASE Call(p, "read") \/ Call(p, "write")
  <2>1. op' \in [Procs -> {"read", "write"}]
    BY <1>15 DEF Call
  <2>2. pc' \in [Procs -> Labels]
    BY <1>15 DEF Call, Goto
  <2> QED
    BY <2>1, <2>2, <1>15 DEF Call
<1>16. CASE \E c \in Cells : WriteCell(p, c)
  BY <1>16 DEF WriteCell
<1> QED
  BY <1>1, <1>2, <1>3, <1>4, <1>5, <1>6, <1>7, <1>8, <1>9, <1>10, <1>11, <1>12, <1>13,
       <1>14, <1>15, <1>16 DEF ProcNext, Step

(* A snapshot starts with nothing read.                                    *)
LEMMA NothingReadType == NothingRead \in [Cells -> Nat \cup {Unread}]
BY DEF NothingRead

(* A step of a read-only process keeps the types, and never lets it try    *)
(* more often than the two loops allow.                                    *)
LEMMA TypeReaderStep ==
  ASSUME TypeOK, RetriesInv, NEW r \in Readers, ReaderNext(r)
  PROVE  TypeOK' /\ RetriesInv'
<1> USE LockAssumption DEF TypeOK, lockVars, procVars
<1>1. CASE WaitStable(r) /\ Odd(generation)
  <2>1. /\ spins' = [spins EXCEPT ![r] = spins[r] - 1]
        /\ rpc' = [rpc EXCEPT ![r] = IF spins[r] = 1 THEN "failed" ELSE "wait"]
        /\ spins[r] - 1 \in 0 .. MaxAttempts
    BY <1>1 DEF WaitStable, RGoto, RetriesInv
  <2>2. UNCHANGED <<mutex, rwlock, generation, cells, pc, op, todo, seen_gen, seen, attempts>>
    BY <1>1 DEF WaitStable
  <2>3. TypeOK'
    BY <2>1, <2>2
  <2>4. RetriesInv'
    BY <1>1, <2>1, <2>2 DEF WaitStable, RetriesInv
  <2> QED
    BY <2>3, <2>4
<1>2. CASE WaitStable(r) /\ ~Odd(generation)
  <2>1. /\ seen_gen' = [seen_gen EXCEPT ![r] = generation]
        /\ seen' = [seen EXCEPT ![r] = NothingRead]
        /\ rpc' = [rpc EXCEPT ![r] = "read"]
        /\ UNCHANGED <<mutex, rwlock, generation, cells, pc, op, todo, attempts, spins>>
    BY <1>2 DEF WaitStable, RGoto
  <2>2. TypeOK'
    BY <2>1, NothingReadType
  <2>3. RetriesInv'
    BY <1>2, <2>1 DEF WaitStable, RetriesInv
  <2> QED
    BY <2>2, <2>3
<1>3. CASE \E c \in Cells : ReadCell(r, c)
  BY <1>3 DEF ReadCell, RetriesInv
<1>4. CASE Validate(r) /\ seen_gen[r] = generation
  BY <1>4 DEF Validate, RGoto, RetriesInv
<1>5. CASE Validate(r) /\ seen_gen[r] # generation
  <2>1. /\ attempts' = [attempts EXCEPT ![r] = attempts[r] - 1]
        /\ spins' = [spins EXCEPT ![r] = MaxAttempts]
        /\ rpc' = [rpc EXCEPT ![r] = IF attempts[r] = 1 THEN "failed" ELSE "wait"]
        /\ attempts[r] - 1 \in 0 .. MaxAttempts
    BY <1>5 DEF Validate, RGoto, RetriesInv
  <2>2. UNCHANGED <<mutex, rwlock, generation, cells, pc, op, todo, seen_gen, seen>>
    BY <1>5 DEF Validate
  <2>3. TypeOK'
    BY <2>1, <2>2
  <2>4. RetriesInv'
    BY <1>5, <2>1, <2>2 DEF Validate, RetriesInv
  <2> QED
    BY <2>3, <2>4
<1>6. CASE Finish(r)
  BY <1>6, NothingReadType DEF Finish, RGoto, RetriesInv
<1>7. CASE \E n \in {1, MaxAttempts} : StartSnapshot(r, n)
  BY <1>7 DEF StartSnapshot, RGoto, RetriesInv
<1> QED
  BY <1>1, <1>2, <1>3, <1>4, <1>5, <1>6, <1>7 DEF ReaderNext, ReaderStep

----------------------------------------------------------------------------
(* The mutex and the rwlock.                                               *)

(* The mutex is owned by whoever is in a section under it, and its state   *)
(* tells how the last owner left it.                                       *)
LEMMA MutexStep ==
  ASSUME TypeOK, MutexInv, RwlockInv, NEW p \in Procs, ProcNext(p)
  PROVE  MutexInv'
<1> USE LockAssumption DEF TypeOK, MutexInv, Holds, lockVars, MutexStates, Labels,
     NewMutex, SharedMutex
<1>1. CASE LockShared(p)
  BY <1>1 DEF LockShared, CanLockShared, Goto, RwlockInv
<1>2. CASE LockExclusive(p)
  BY <1>2 DEF LockExclusive, CanLockExclusive, Goto
<1>3. CASE UnlockRw(p)
  BY <1>3 DEF UnlockRw, Goto
<1>4. CASE LockMutex(p)
  BY <1>4 DEF LockMutex, CanLock, LockStatus, Locked, Goto, Entered, RwlockInv,
       WriterPath
<1>5. CASE LockOwnerDead(p)
  BY <1>5 DEF LockOwnerDead, CanLock, LockStatus, Locked, Goto
<1>6. CASE LockNotRecoverable(p)
  BY <1>6 DEF LockNotRecoverable, CanLock, LockStatus, Goto, AfterMutex
<1>7. CASE CheckFails(p)
  BY <1>7 DEF CheckFails, Unlocked, Goto, AfterMutex
<1>8. CASE CheckPasses(p)
  BY <1>8 DEF CheckPasses, MarkedConsistent, Goto
<1>9. CASE RepairGeneration(p)
  BY <1>9 DEF RepairGeneration, Goto, Entered, RwlockInv, WriterPath
<1>10. CASE BeginWrite(p)
  BY <1>10 DEF BeginWrite, Goto
<1>11. CASE EndWrite(p)
  BY <1>11 DEF EndWrite, Goto
<1>12. CASE EndRead(p)
  BY <1>12 DEF EndRead, Goto
<1>13. CASE Unlock(p)
  BY <1>13 DEF Unlock, Unlocked, Goto, AfterMutex
<1>14. CASE Die(p)
  BY <1>14 DEF Die, OwnerDied, Goto
<1>15. CASE Call(p, "read") \/ Call(p, "write")
  BY <1>15 DEF Call, Goto
<1>16. CASE \E c \in Cells : WriteCell(p, c)
  BY <1>16 DEF WriteCell
<1> QED
  BY <1>1, <1>2, <1>3, <1>4, <1>5, <1>6, <1>7, <1>8, <1>9, <1>10, <1>11, <1>12, <1>13,
       <1>14, <1>15, <1>16 DEF ProcNext, Step

(* The rwlock admits one writer or some readers.                           *)
LEMMA RwlockStep ==
  ASSUME TypeOK, MutexInv, RwlockInv, NEW p \in Procs, ProcNext(p)
  PROVE  RwlockInv'
<1> USE LockAssumption DEF TypeOK, MutexInv, RwlockInv, Holds, WriterPath, lockVars,
     MutexStates, Labels, NewMutex, SharedMutex
<1>1. CASE LockShared(p)
  BY <1>1 DEF LockShared, CanLockShared, Goto
<1>2. CASE LockExclusive(p)
  BY <1>2 DEF LockExclusive, CanLockExclusive, Goto
<1>3. CASE UnlockRw(p)
  BY <1>3 DEF UnlockRw, Goto
<1>4. CASE LockMutex(p)
  BY <1>4 DEF LockMutex, CanLock, LockStatus, Locked, Goto, Entered
<1>5. CASE LockOwnerDead(p)
  BY <1>5 DEF LockOwnerDead, CanLock, LockStatus, Locked, Goto
<1>6. CASE LockNotRecoverable(p)
  BY <1>6 DEF LockNotRecoverable, CanLock, LockStatus, Goto, AfterMutex
<1>7. CASE CheckFails(p)
  BY <1>7 DEF CheckFails, Unlocked, Goto, AfterMutex
<1>8. CASE CheckPasses(p)
  BY <1>8 DEF CheckPasses, MarkedConsistent, Goto
<1>9. CASE RepairGeneration(p)
  BY <1>9 DEF RepairGeneration, Goto, Entered
<1>10. CASE BeginWrite(p)
  BY <1>10 DEF BeginWrite, Goto
<1>11. CASE EndWrite(p)
  BY <1>11 DEF EndWrite, Goto
<1>12. CASE EndRead(p)
  BY <1>12 DEF EndRead, Goto
<1>13. CASE Unlock(p)
  BY <1>13 DEF Unlock, Unlocked, Goto, AfterMutex
<1>14. CASE Die(p)
  BY <1>14 DEF Die, OwnerDied, Goto
<1>15. CASE Call(p, "read") \/ Call(p, "write")
  BY <1>15 DEF Call, Goto
<1>16. CASE \E c \in Cells : WriteCell(p, c)
  BY <1>16 DEF WriteCell
<1> QED
  BY <1>1, <1>2, <1>3, <1>4, <1>5, <1>6, <1>7, <1>8, <1>9, <1>10, <1>11, <1>12, <1>13,
       <1>14, <1>15, <1>16 DEF ProcNext, Step

----------------------------------------------------------------------------
(* The generation and the heap.                                            *)

(* The generation is odd from the first change of a write section until it *)
(* is over or its remains have been checked.                               *)
LEMMA GenerationStep ==
  ASSUME IInv, NEW p \in Procs, ProcNext(p)
  PROVE  GenerationInv'
<1> USE LockAssumption DEF IInv, TypeOK, MutexInv, RwlockInv, GenerationInv, Holds,
     WriterPath, lockVars, MutexStates, Labels, NewMutex, SharedMutex
<1>1. CASE LockShared(p)
  BY <1>1 DEF LockShared, CanLockShared, Goto
<1>2. CASE LockExclusive(p)
  BY <1>2 DEF LockExclusive, CanLockExclusive, Goto
<1>3. CASE UnlockRw(p)
  BY <1>3 DEF UnlockRw, Goto
<1>4. CASE LockMutex(p)
  BY <1>4 DEF LockMutex, CanLock, LockStatus, Locked, Goto, Entered
<1>5. CASE LockOwnerDead(p)
  BY <1>5 DEF LockOwnerDead, CanLock, LockStatus, Locked, Goto
<1>6. CASE LockNotRecoverable(p)
  BY <1>6 DEF LockNotRecoverable, CanLock, LockStatus, Goto, AfterMutex
<1>7. CASE CheckFails(p)
  BY <1>7 DEF CheckFails, Unlocked, Goto, AfterMutex, HeapInv
<1>8. CASE CheckPasses(p)
  BY <1>8 DEF CheckPasses, MarkedConsistent, Goto
<1>9. CASE RepairGeneration(p)
  BY <1>9, GenerationMoves DEF RepairGeneration, Goto, Entered
<1>10. CASE BeginWrite(p)
  BY <1>10, GenerationMoves DEF BeginWrite, Goto
<1>11. CASE EndWrite(p)
  BY <1>11, GenerationMoves DEF EndWrite, Goto
<1>12. CASE EndRead(p)
  BY <1>12 DEF EndRead, Goto
<1>13. CASE Unlock(p)
  BY <1>13 DEF Unlock, Unlocked, Goto, AfterMutex
<1>14. CASE Die(p)
  BY <1>14 DEF Die, OwnerDied, Goto
<1>15. CASE Call(p, "read") \/ Call(p, "write")
  BY <1>15 DEF Call, Goto
<1>16. CASE \E c \in Cells : WriteCell(p, c)
  BY <1>16 DEF WriteCell
<1> QED
  BY <1>1, <1>2, <1>3, <1>4, <1>5, <1>6, <1>7, <1>8, <1>9, <1>10, <1>11, <1>12, <1>13,
       <1>14, <1>15, <1>16 DEF ProcNext, Step

(* The heap is whole whenever the generation is even.                      *)
LEMMA HeapStep ==
  ASSUME IInv, NEW p \in Procs, ProcNext(p)
  PROVE  HeapInv'
<1> USE LockAssumption DEF IInv, TypeOK, MutexInv, RwlockInv, GenerationInv, HeapInv,
     Holds, WriterPath, lockVars, MutexStates, Labels, NewMutex, check_sanity, SharedMutex
<1>1. CASE LockShared(p)
  BY <1>1 DEF LockShared, CanLockShared, Goto
<1>2. CASE LockExclusive(p)
  BY <1>2 DEF LockExclusive, CanLockExclusive, Goto
<1>3. CASE UnlockRw(p)
  BY <1>3 DEF UnlockRw, Goto
<1>4. CASE LockMutex(p)
  BY <1>4 DEF LockMutex, CanLock, LockStatus, Locked, Goto, Entered
<1>5. CASE LockOwnerDead(p)
  BY <1>5 DEF LockOwnerDead, CanLock, LockStatus, Locked, Goto
<1>6. CASE LockNotRecoverable(p)
  BY <1>6 DEF LockNotRecoverable, CanLock, LockStatus, Goto, AfterMutex
<1>7. CASE CheckFails(p)
  BY <1>7 DEF CheckFails, Unlocked, Goto, AfterMutex
<1>8. CASE CheckPasses(p)
  BY <1>8 DEF CheckPasses, MarkedConsistent, Goto
<1>9. CASE RepairGeneration(p)
  BY <1>9, GenerationMoves DEF RepairGeneration, Goto, Entered
<1>10. CASE BeginWrite(p)
  BY <1>10, GenerationMoves DEF BeginWrite, Goto
<1>11. CASE EndWrite(p)
  BY <1>11, GenerationMoves DEF EndWrite, Goto
<1>12. CASE EndRead(p)
  BY <1>12 DEF EndRead, Goto
<1>13. CASE Unlock(p)
  BY <1>13 DEF Unlock, Unlocked, Goto, AfterMutex
<1>14. CASE Die(p)
  BY <1>14 DEF Die, OwnerDied, Goto
<1>15. CASE Call(p, "read") \/ Call(p, "write")
  <2>1. /\ pc' = [pc EXCEPT ![p] = IF SharedMutex THEN "lock_rw" ELSE "lock"]
        /\ UNCHANGED <<generation, cells, todo>>
    BY <1>15 DEF Call, Goto
  <2> QED
    BY <2>1
<1>16. CASE \E c \in Cells : WriteCell(p, c)
  BY <1>16 DEF WriteCell
<1> QED
  BY <1>1, <1>2, <1>3, <1>4, <1>5, <1>6, <1>7, <1>8, <1>9, <1>10, <1>11, <1>12, <1>13,
       <1>14, <1>15, <1>16 DEF ProcNext, Step

(* Whatever a process changes, a read-only process that has not finished   *)
(* will find that the generation has moved.                                *)
LEMMA SnapshotProcStep ==
  ASSUME IInv, NEW p \in Procs, ProcNext(p)
  PROVE  SnapshotInv'
<1> USE LockAssumption DEF IInv, TypeOK, GenerationInv, SnapshotInv, lockVars,
     readerVars, Unread, SharedMutex
<1>1. CASE LockShared(p)
  BY <1>1 DEF LockShared, CanLockShared, Goto
<1>2. CASE LockExclusive(p)
  BY <1>2 DEF LockExclusive, CanLockExclusive, Goto
<1>3. CASE UnlockRw(p)
  BY <1>3 DEF UnlockRw, Goto
<1>4. CASE LockMutex(p)
  BY <1>4 DEF LockMutex, CanLock, LockStatus, Locked, Goto, Entered
<1>5. CASE LockOwnerDead(p)
  BY <1>5 DEF LockOwnerDead, CanLock, LockStatus, Locked, Goto
<1>6. CASE LockNotRecoverable(p)
  BY <1>6 DEF LockNotRecoverable, CanLock, LockStatus, Goto, AfterMutex
<1>7. CASE CheckFails(p)
  BY <1>7 DEF CheckFails, Unlocked, Goto, AfterMutex
<1>8. CASE CheckPasses(p)
  BY <1>8 DEF CheckPasses, MarkedConsistent, Goto
<1>9. CASE RepairGeneration(p)
  <2>1. /\ generation' \in Nat /\ generation <= generation'
        /\ UNCHANGED <<cells, rpc, seen_gen, seen>>
    BY <1>9, GenerationMoves DEF RepairGeneration
  <2>2. ASSUME NEW r \in Readers, rpc[r] = "read"
        PROVE  /\ seen_gen[r] <= generation'
               /\ seen_gen[r] = generation' => seen_gen[r] = generation
    <3>1. seen_gen[r] \in Nat /\ generation \in Nat /\ seen_gen[r] <= generation
      BY <2>2
    <3> QED
      BY <2>1, <3>1, Between
  <2> QED
    BY <2>1, <2>2
<1>10. CASE BeginWrite(p)
  BY <1>10, GenerationMoves DEF BeginWrite, Goto
<1>11. CASE EndWrite(p)
  <2>1. /\ generation' \in Nat /\ generation <= generation'
        /\ UNCHANGED <<cells, rpc, seen_gen, seen>>
    BY <1>11, GenerationMoves DEF EndWrite
  <2>2. ASSUME NEW r \in Readers, rpc[r] = "read"
        PROVE  /\ seen_gen[r] <= generation'
               /\ seen_gen[r] = generation' => seen_gen[r] = generation
    <3>1. seen_gen[r] \in Nat /\ generation \in Nat /\ seen_gen[r] <= generation
      BY <2>2
    <3> QED
      BY <2>1, <3>1, Between
  <2> QED
    BY <2>1, <2>2
<1>12. CASE EndRead(p)
  BY <1>12 DEF EndRead, Goto
<1>13. CASE Unlock(p)
  BY <1>13 DEF Unlock, Unlocked, Goto, AfterMutex
<1>14. CASE Die(p)
  BY <1>14 DEF Die, OwnerDied, Goto
<1>15. CASE Call(p, "read") \/ Call(p, "write")
  BY <1>15 DEF Call, Goto
<1>16. CASE \E c \in Cells : WriteCell(p, c)
  BY <1>16 DEF WriteCell
<1> QED
  BY <1>1, <1>2, <1>3, <1>4, <1>5, <1>6, <1>7, <1>8, <1>9, <1>10, <1>11, <1>12, <1>13,
       <1>14, <1>15, <1>16 DEF ProcNext, Step

(* An attempt starts from an even generation, reads cells one at a time,   *)
(* and ends well only if the generation is still the same.                 *)
LEMMA SnapshotReaderStep ==
  ASSUME IInv, NEW r \in Readers, ReaderNext(r)
  PROVE  SnapshotInv'
<1> USE LockAssumption DEF IInv, TypeOK, SnapshotInv, lockVars, Unread
<1>1. CASE WaitStable(r)
  <2>1. CASE Odd(generation)
    <3>1. /\ \E label \in {"failed", "wait"} : rpc' = [rpc EXCEPT ![r] = label]
          /\ UNCHANGED <<generation, cells, seen_gen, seen>>
      BY <1>1, <2>1 DEF WaitStable, RGoto
    <3> QED
      BY <3>1
  <2>2. CASE ~Odd(generation)
    <3>1. /\ rpc' = [rpc EXCEPT ![r] = "read"]
          /\ seen_gen' = [seen_gen EXCEPT ![r] = generation]
          /\ seen' = [seen EXCEPT ![r] = [c \in Cells |-> -1]]
          /\ UNCHANGED <<generation, cells>>
      BY <1>1, <2>2 DEF WaitStable, RGoto, NothingRead
    <3> QED
      BY <2>2, <3>1
  <2> QED
    BY <2>1, <2>2
<1>2. CASE \E c \in Cells : ReadCell(r, c)
  BY <1>2 DEF ReadCell
<1>3. CASE Validate(r)
  <2>1. CASE seen_gen[r] = generation
    <3>1. /\ rpc[r] = "read" /\ rpc' = [rpc EXCEPT ![r] = "returned"]
          /\ \A c \in Cells : seen[r][c] # -1
          /\ UNCHANGED <<generation, cells, seen_gen, seen>>
      BY <1>3, <2>1 DEF Validate, RGoto
    <3>2. \A c, d \in HeapCells : seen[r][c] = seen[r][d]
      BY <2>1, <3>1 DEF HeapInv, check_sanity
    <3> QED
      BY <3>1, <3>2
  <2>2. CASE seen_gen[r] # generation
    <3>1. /\ \E label \in {"failed", "wait"} : rpc' = [rpc EXCEPT ![r] = label]
          /\ UNCHANGED <<generation, cells, seen_gen, seen>>
      BY <1>3, <2>2 DEF Validate, RGoto
    <3> QED
      BY <3>1
  <2> QED
    BY <2>1, <2>2
<1>4. CASE Finish(r)
  BY <1>4 DEF Finish, RGoto
<1>5. CASE \E n \in {1, MaxAttempts} : StartSnapshot(r, n)
  BY <1>5 DEF StartSnapshot, RGoto
<1> QED
  BY <1>1, <1>2, <1>3, <1>4, <1>5 DEF ReaderNext, ReaderStep

(* Read-only processes change nothing that the processes and the locks     *)
(* depend on.                                                              *)
LEMMA ReaderLeavesRest ==
  ASSUME NEW r \in Readers, ReaderNext(r)
  PROVE  UNCHANGED <<mutex, rwlock, generation, cells, pc, op, todo>>
BY DEF ReaderNext, ReaderStep, WaitStable, ReadCell, Validate, Finish, StartSnapshot,
       lockVars, procVars

(* ... and processes change nothing of theirs.                             *)
LEMMA ProcLeavesReaders ==
  ASSUME NEW p \in Procs, ProcNext(p)
  PROVE  UNCHANGED <<rpc, seen_gen, seen, attempts, spins>>
BY DEF ProcNext, Step, LockShared, LockExclusive, UnlockRw, LockMutex, LockOwnerDead,
       LockNotRecoverable, CheckFails, CheckPasses, RepairGeneration, BeginWrite,
       EndWrite, EndRead, Unlock, WriteCell, Call, Die, readerVars

----------------------------------------------------------------------------
(* IInv is an invariant.                                                   *)

(* The initial state satisfies the invariant.                              *)
LEMMA InitIInv == Init => IInv
BY LockAssumption DEF Init, IInv, TypeOK, RetriesInv, MutexInv, RwlockInv,
     GenerationInv,
   HeapInv, SnapshotInv, Holds, WriterPath, NewMutex, NothingRead, Unread, Labels,
   MutexStates, check_sanity, Odd, SharedMutex

(* Every step keeps the invariant.                                         *)
LEMMA IInvStep == IInv /\ [Next]_vars => IInv'
<1> SUFFICES ASSUME IInv, [Next]_vars PROVE IInv'
  OBVIOUS
<1>1. CASE \E p \in Procs : ProcNext(p)
  <2>1. PICK p \in Procs : ProcNext(p)
    BY <1>1
  <2>2. TypeOK'
    BY <2>1, TypeProcStep DEF IInv
  <2>3. RetriesInv'
    BY <2>1, ProcLeavesReaders DEF IInv, RetriesInv
  <2>4. MutexInv' /\ RwlockInv'
    BY <2>1, MutexStep, RwlockStep DEF IInv
  <2>5. GenerationInv' /\ HeapInv' /\ SnapshotInv'
    BY <2>1, GenerationStep, HeapStep, SnapshotProcStep
  <2> QED
    BY <2>2, <2>3, <2>4, <2>5 DEF IInv
<1>2. CASE \E r \in Readers : ReaderNext(r)
  <2>1. PICK r \in Readers : ReaderNext(r)
    BY <1>2
  <2>2. TypeOK' /\ RetriesInv'
    BY <2>1, TypeReaderStep DEF IInv
  <2>3. MutexInv' /\ RwlockInv' /\ GenerationInv' /\ HeapInv'
    BY <2>1, ReaderLeavesRest DEF IInv, MutexInv, RwlockInv, GenerationInv, HeapInv,
       Holds, NewMutex, check_sanity, SharedMutex
  <2>4. SnapshotInv'
    BY <2>1, SnapshotReaderStep
  <2> QED
    BY <2>2, <2>3, <2>4 DEF IInv
<1>3. CASE UNCHANGED vars
  BY <1>3 DEF vars, IInv, TypeOK, RetriesInv, MutexInv, RwlockInv, GenerationInv,
       HeapInv,
     SnapshotInv, Holds, NewMutex, check_sanity, SharedMutex
<1> QED
  BY <1>1, <1>2, <1>3 DEF Next

(* IInv holds in every reachable state: the argument that the theorems     *)
(* below read their properties off.                                        *)
THEOREM Inductive == Spec => []IInv
<1>1. Init => IInv
  BY InitIInv
<1>2. IInv /\ [Next]_vars => IInv'
  BY IInvStep
<1> QED
  BY <1>1, <1>2, PTL DEF Spec

(* Every variable of the lock, the generation and the snapshots keeps its  *)
(* type; retries never go below zero.                                      *)
THEOREM TypeCorrect == Spec => []TypeOK
<1>1. IInv => TypeOK
  BY DEF IInv
<1> QED
  BY <1>1, Inductive, PTL

(* Write sections, and the repair of one, exclude every other section, in  *)
(* both builds of with_manager_write_lock and whoever dies.                *)
THEOREM MutualExclusion == Spec => []WriterExcludesAll
<1>1. IInv => WriterExcludesAll
  BY LockAssumption DEF IInv, TypeOK, MutexInv, RwlockInv, Holds, WriterPath,
     WriterExcludesAll, Touches, SharedMutex
<1> QED
  BY <1>1, Inductive, PTL

(* lock_for_manager_recovery lets nobody into a heap with a half-done      *)
(* operation in it, nor past a generation that a dead writer left odd.     *)
THEOREM NoSectionOnBrokenHeap == Spec => []SectionsStartSane
<1>1. IInv => SectionsStartSane
  BY DEF IInv, GenerationInv, HeapInv, SectionsStartSane
<1> QED
  BY <1>1, Inductive, PTL

(* Once lock_for_manager_recovery has unlocked a mutex that it did not mark *)
(* consistent, nobody is in a section and no read-only process can pass    *)
(* wait_for_stable_metadata_generation.                                    *)
THEOREM GivenUpStaysClosed == Spec => []GivenUpIsClosed
<1>1. IInv => GivenUpIsClosed
  <2> SUFFICES ASSUME IInv, mutex.state = "not_recoverable"
               PROVE  Odd(generation) /\ \A p \in Procs : ~Touches(p)
    BY DEF GivenUpIsClosed
  <2>1. Odd(generation)
    BY DEF IInv, GenerationInv
  <2>2. ASSUME NEW p \in Procs, Touches(p) PROVE FALSE
    BY <2>1, <2>2 DEF IInv, MutexInv, GenerationInv, Holds, Touches, SharedMutex
  <2> QED
    BY <2>1, <2>2
<1> QED
  BY <1>1, Inductive, PTL

(* with_read_only_snapshot returns the metadata as it is at the moment of  *)
(* the second load of the generation.                                      *)
THEOREM SnapshotsAreExact == Spec => SnapshotExact
<1>1. IInv /\ [Next]_vars =>
        [\A r \in Readers :
           rpc[r] = "read" /\ rpc'[r] = "returned" => seen[r] = cells]_vars
  <2> SUFFICES ASSUME IInv, [Next]_vars, NEW r \in Readers,
                      rpc[r] = "read", rpc'[r] = "returned"
               PROVE  seen[r] = cells
    OBVIOUS
  <2>1. Validate(r) /\ seen_gen[r] = generation
    <3>1. rpc' # rpc
      BY DEF IInv, TypeOK
    <3>2. PICK q \in Readers : ReaderNext(q)
      BY <3>1, ProcLeavesReaders DEF Next, vars
    <3>3. q = r
      BY <3>2 DEF IInv, TypeOK, ReaderNext, ReaderStep, WaitStable, ReadCell, Validate,
         Finish, StartSnapshot, RGoto
    <3> QED
      BY <3>2, <3>3 DEF IInv, TypeOK, ReaderNext, ReaderStep, WaitStable, ReadCell,
         Validate, Finish, StartSnapshot, RGoto
  <2>2. \A c \in Cells : seen[r][c] = cells[c]
    BY <2>1 DEF IInv, SnapshotInv, Validate
  <2> QED
    BY <2>2 DEF IInv, TypeOK
<1> QED
  BY <1>1, Inductive, PTL DEF Spec, SnapshotExact

(* No read-only process is given a half-done heap, whoever died in the     *)
(* middle of an operation and whoever took over the mutex.                 *)
THEOREM SnapshotsAreWhole == Spec => []SnapshotHeapWhole
<1>1. IInv => SnapshotHeapWhole
  BY DEF IInv, SnapshotInv, SnapshotHeapWhole
<1> QED
  BY <1>1, Inductive, PTL
=============================================================================
