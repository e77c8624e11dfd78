--------------------------- MODULE SemaphoreProofs ---------------------------
(***************************************************************************)
(* Proofs about Semaphore for any finite set of processes, any bound of    *)
(* the count, any number of calls, of spurious wakeups and of deaths.      *)
(***************************************************************************)
EXTENDS Semaphore, FiniteSetTheorems, TLAPS

----------------------------------------------------------------------------
(* The inductive invariant, in parts.                                      *)

(* The mutex has an owner exactly while a live process is inside; it is    *)
(* inconsistent exactly while that process is on its way to give it up.    *)
MutexInv ==
  /\ \A p \in Procs : pc[p] \in InSection <=> mutex.owner = p
  /\ mutex.owner = Nobody => mutex.state # "inconsistent"
  /\ \A p \in Procs : mutex.owner = p =>
       IF pc[p] = "abandon" \/ (pc[p] = "unlock" /\ result[p] = "EOWNERDEAD")
       THEN mutex.state = "inconsistent"
       ELSE mutex.state = "normal"

(* Where a process is agrees with the call that it makes.                  *)
CallInv ==
  \A p \in Procs :
    /\ pc[p] = "post" => call[p] = "post"
    /\ pc[p] = "notify" => call[p] = "post" /\ result[p] = "ok"
    /\ pc[p] = "try_wait" => call[p] = "try_wait"
    /\ pc[p] \in {"wait", "asleep", "woken"} => call[p] = "wait"

(* What the call of p has done to the count and not yet returned.          *)
Pending(p) ==
  IF pc[p] \in {"notify", "unlock"} /\ result[p] = "ok"
  THEN IF call[p] = "post" THEN 1 ELSE -1
  ELSE 0

(* The count is what the calls that have returned leave, and what the one  *)
(* call inside has added or taken.                                         *)
BalanceInv ==
  mutex.state = "normal" =>
    count = InitialCount + posted - granted
              + (IF mutex.owner = Nobody THEN 0 ELSE Pending(mutex.owner))

IInv == TypeOK /\ MutexInv /\ CallInv /\ BalanceInv

----------------------------------------------------------------------------
(* Lemmas about the count and about the sets of processes.                 *)

(* Taking a token does not wrap around.                                    *)
LEMMA TakeNoWrap ==
  ASSUME count \in 0 .. MaxCount, count # 0
  PROVE  (count - 1) % (MaxCount + 1) = count - 1
BY SemaphoreAssumption

(* The waiters and the notifiers are counted by natural numbers.           *)
LEMMA Counted ==
  ASSUME NEW S \in SUBSET Procs
  PROVE  IsFiniteSet(S) /\ Cardinality(S) \in Nat
BY SemaphoreAssumption, FS_Subset, FS_CardinalityType

(* A process that joins a set, or leaves it, changes its size by one.      *)
LEMMA JoinSize ==
  ASSUME NEW S \in SUBSET Procs, NEW p \in Procs, p \notin S
  PROVE  Cardinality(S \cup {p}) = Cardinality(S) + 1
BY Counted, FS_AddElement

(* A process that leaves a set of processes makes it smaller by one.       *)
LEMMA LeaveSize ==
  ASSUME NEW S \in SUBSET Procs, NEW p \in Procs, p \in S
  PROVE  Cardinality(S \ {p}) = Cardinality(S) - 1
BY Counted, FS_RemoveElement

----------------------------------------------------------------------------
(* The inductive invariant.                                                *)

(* The initial state satisfies the invariant.                              *)
LEMMA InitIInv == Init => IInv
BY SemaphoreAssumption
   DEF Init, IInv, TypeOK, MutexInv, CallInv, BalanceInv, Pending, NewMutex, MutexStates,
       Calls, InSection

(* A step keeps the types.                                                 *)
LEMMA TypeStep ==
  ASSUME TypeOK, NEW p \in Procs,
         Step(p) \/ WakeSpuriously(p) \/ Die(p) \/ \E c \in Calls : Call(p, c)
  PROVE  TypeOK'
<1> USE SemaphoreAssumption DEF TypeOK, MutexStates, InSection, ghosts, Goto, Returns
<1>1. CASE LockMutex(p)
  BY <1>1 DEF LockMutex, CanLock, LockStatus, Locked, Calls
<1>2. CASE LockOwnerDead(p)
  BY <1>2 DEF LockOwnerDead, CanLock, LockStatus, Locked
<1>3. CASE LockNotRecoverable(p)
  BY <1>3 DEF LockNotRecoverable
<1>4. CASE abandon_owner_dead_lock(p)
  BY <1>4 DEF abandon_owner_dead_lock, Unlocked
<1>5. CASE Post(p)
  BY <1>5 DEF Post
<1>6. CASE notify_one(p)
  BY <1>6 DEF notify_one, Wake
<1>7. CASE try_wait(p)
  BY <1>7, TakeNoWrap DEF try_wait, TakeToken
<1>8. CASE WaitTakes(p)
  BY <1>8, TakeNoWrap DEF WaitTakes, TakeToken
<1>9. CASE WaitSleeps(p)
  BY <1>9 DEF WaitSleeps, Unlocked
<1>10. CASE Relock(p)
  BY <1>10 DEF Relock, CanLock, LockStatus, Locked
<1>11. CASE RelockOwnerDead(p)
  BY <1>11 DEF RelockOwnerDead, CanLock, LockStatus, Locked
<1>12. CASE RelockNotRecoverable(p)
  BY <1>12 DEF RelockNotRecoverable
<1>13. CASE Unlock(p)
  BY <1>13 DEF Unlock, Unlocked
<1>14. CASE WakeSpuriously(p)
  BY <1>14 DEF WakeSpuriously
<1>15. CASE Die(p)
  BY <1>15 DEF Die, OwnerDied
<1>16. ASSUME NEW c \in Calls, Call(p, c) PROVE TypeOK'
  BY <1>16 DEF Call
<1> QED
  BY <1>1, <1>2, <1>3, <1>4, <1>5, <1>6, <1>7, <1>8, <1>9, <1>10, <1>11, <1>12, <1>13,
     <1>14, <1>15, <1>16 DEF Step

(* A step keeps the owner of the mutex, the calls and the balance.         *)
LEMMA SectionStep ==
  ASSUME IInv, NEW p \in Procs,
         Step(p) \/ WakeSpuriously(p) \/ Die(p) \/ \E c \in Calls : Call(p, c)
  PROVE  MutexInv' /\ CallInv' /\ BalanceInv'
<1> USE SemaphoreAssumption
    DEF IInv, TypeOK, MutexStates, InSection, ghosts, Goto, Returns, MutexInv, CallInv,
        BalanceInv, Pending
<1>1. CASE LockMutex(p)
  BY <1>1 DEF LockMutex, CanLock, LockStatus, Locked, Calls
<1>2. CASE LockOwnerDead(p)
  BY <1>2 DEF LockOwnerDead, CanLock, LockStatus, Locked
<1>3. CASE LockNotRecoverable(p)
  BY <1>3 DEF LockNotRecoverable, CanLock
<1>4. CASE abandon_owner_dead_lock(p)
  BY <1>4 DEF abandon_owner_dead_lock, Unlocked
<1>5. CASE Post(p)
  BY <1>5 DEF Post
<1>6. CASE notify_one(p)
  BY <1>6 DEF notify_one, Wake, Sleepers
<1>7. CASE try_wait(p)
  BY <1>7, TakeNoWrap DEF try_wait, TakeToken
<1>8. CASE WaitTakes(p)
  BY <1>8, TakeNoWrap DEF WaitTakes, TakeToken
<1>9. CASE WaitSleeps(p)
  BY <1>9 DEF WaitSleeps, Unlocked
<1>10. CASE Relock(p)
  BY <1>10 DEF Relock, CanLock, LockStatus, Locked
<1>11. CASE RelockOwnerDead(p)
  BY <1>11 DEF RelockOwnerDead, CanLock, LockStatus, Locked
<1>12. CASE RelockNotRecoverable(p)
  BY <1>12 DEF RelockNotRecoverable, CanLock
<1>13. CASE Unlock(p)
  BY <1>13 DEF Unlock, Unlocked
<1>14. CASE WakeSpuriously(p)
  BY <1>14 DEF WakeSpuriously
<1>15. CASE Die(p)
  BY <1>15 DEF Die, OwnerDied, Dead
<1>16. ASSUME NEW c \in Calls, Call(p, c) PROVE MutexInv' /\ CallInv' /\ BalanceInv'
  BY <1>16 DEF Call
<1> QED
  BY <1>1, <1>2, <1>3, <1>4, <1>5, <1>6, <1>7, <1>8, <1>9, <1>10, <1>11, <1>12, <1>13,
     <1>14, <1>15, <1>16 DEF Step

(* What no step of any process breaks.                                     *)
LEMMA NextIInv == IInv /\ [Next]_vars => IInv'
<1>1. CASE UNCHANGED vars
  BY <1>1 DEF vars, IInv, TypeOK, MutexInv, CallInv, BalanceInv, Pending
<1>2. CASE Next
  BY <1>2, TypeStep, SectionStep DEF Next, IInv
<1> QED
  BY <1>1, <1>2

(* The inductive invariant holds in every state.                           *)
THEOREM Invariant == Spec => []IInv
BY InitIInv, NextIInv, PTL DEF Spec

----------------------------------------------------------------------------
(* Tokens.                                                                 *)

(***************************************************************************)
(* Whatever the number of processes, calls and deaths: every variable      *)
(* keeps its type, the count within 0 .. MaxCount among them, and whenever *)
(* the mutex is free and usable the count is InitialCount plus the post()  *)
(* calls minus the tokens that have returned.                              *)
(***************************************************************************)
THEOREM SemaphoreCorrect == Spec => []SemaphoreInv
<1>1. IInv => SemaphoreInv
  BY SemaphoreAssumption
     DEF IInv, SemaphoreInv, TypeOK, TokensConserved, BalanceInv, NewMutex
<1> QED
  BY <1>1, Invariant, PTL

----------------------------------------------------------------------------
(* Wakeups.                                                                *)

(* Everyone who will look at the count: awake waiters and notifications.   *)
Lookers == Cardinality(Awake) + Cardinality(Notifying) + lost

(* The numbers in the balance are natural numbers.                         *)
LEMMA LookersType ==
  ASSUME TypeOK
  PROVE  /\ Cardinality(Awake) \in Nat /\ Cardinality(Notifying) \in Nat
         /\ lost \in Nat /\ Lookers \in Nat
BY Counted DEF TypeOK, Awake, Notifying, Lookers

(* A process that neither was nor becomes awake or notifying, changes      *)
(* neither set.                                                            *)
LEMMA SameLookers ==
  ASSUME TypeOK, NEW p \in Procs, NEW label, Goto(p, label),
         pc[p] \notin {"woken", "wait", "notify"},
         label \notin {"woken", "wait", "notify"}
  PROVE  Awake' = Awake /\ Notifying' = Notifying
BY DEF TypeOK, Goto, Awake, Notifying

(* A step keeps the wakeups.                                               *)
LEMMA WakeupStep ==
  ASSUME IInv, IInv', NoLostWakeup, NEW p \in Procs,
         Step(p) \/ WakeSpuriously(p) \/ Die(p) \/ \E c \in Calls : Call(p, c)
  PROVE  NoLostWakeup'
<1> SUFFICES ASSUME (mutex.state = "normal")', (Asleep # {})'
             PROVE  count' <= Lookers'
  BY DEF NoLostWakeup, Lookers
<1> USE SemaphoreAssumption DEF ghosts, Returns
<1>a. /\ Cardinality(Awake) \in Nat /\ Cardinality(Notifying) \in Nat /\ lost \in Nat
      /\ Cardinality(Awake') \in Nat /\ Cardinality(Notifying') \in Nat /\ lost' \in Nat
      /\ count \in Nat /\ count' \in Nat
  <2>1. TypeOK /\ TypeOK'
    BY DEF IInv
  <2>2. Awake' \in SUBSET Procs /\ Notifying' \in SUBSET Procs
    BY DEF Awake, Notifying
  <2> QED
    BY <2>1, <2>2, LookersType, Counted DEF TypeOK
<1>b. Awake \in SUBSET Procs /\ Notifying \in SUBSET Procs
  BY DEF Awake, Notifying
<1>c. mutex.state = "normal" /\ Asleep # {} =>
        count <= Cardinality(Awake) + Cardinality(Notifying) + lost
  BY DEF NoLostWakeup
<1>1. CASE LockMutex(p)
  <2>1. mutex.state = "normal" /\ Asleep # {} /\ count' = count /\ lost' = lost
    BY <1>1 DEF LockMutex, CanLock, LockStatus, Locked, Goto, Asleep, IInv, TypeOK, MutexInv,
        MutexStates, Calls
  <2>2. /\ Notifying' = Notifying
        /\ (Awake' = Awake \/ (p \notin Awake /\ Awake' = Awake \cup {p}))
    BY <1>1 DEF LockMutex, Goto, IInv, TypeOK, Calls, Awake, Notifying
  <2> QED
    BY <1>a, <1>b, <1>c, <2>1, <2>2, JoinSize DEF Lookers
<1>2. CASE LockOwnerDead(p) \/ RelockOwnerDead(p)
  BY <1>2
     DEF LockOwnerDead, RelockOwnerDead, CanLock, LockStatus, Locked, IInv, TypeOK, MutexStates
<1>3. CASE LockNotRecoverable(p) \/ RelockNotRecoverable(p)
  BY <1>3 DEF LockNotRecoverable, RelockNotRecoverable, LockStatus, IInv, TypeOK, MutexStates
<1>4. CASE abandon_owner_dead_lock(p)
  BY <1>4 DEF abandon_owner_dead_lock, Unlocked, IInv, TypeOK, MutexInv, InSection
<1>5. CASE Post(p)
  <2>1. mutex.state = "normal" /\ Asleep # {} /\ lost' = lost
    BY <1>5 DEF Post, Goto, Asleep, IInv, TypeOK
  <2>2. CASE count = MaxCount
    BY <1>5, <1>a, <1>c, <2>1, <2>2, SameLookers DEF Post, IInv, Lookers
  <2>3. CASE count # MaxCount
    <3>1. Awake' = Awake /\ p \notin Notifying /\ Notifying' = Notifying \cup {p}
      BY <1>5, <2>3 DEF Post, Goto, IInv, TypeOK, Awake, Notifying
    <3> QED
      BY <1>5, <1>a, <1>b, <1>c, <2>1, <2>3, <3>1, JoinSize DEF Post, Lookers
  <2> QED
    BY <2>2, <2>3
<1>6. CASE notify_one(p)
  <2>1. mutex.state = "normal" /\ Asleep # {} /\ count' = count
    BY <1>6 DEF notify_one, Wake, Goto, Asleep, Sleepers, IInv, TypeOK
  <2>2. PICK q \in Sleepers : Wake(p, q)
    BY <1>6, <2>1 DEF notify_one, Asleep, Sleepers
  <2>3. p \in Notifying /\ Notifying' = Notifying \ {p} /\ q \in Procs
    BY <1>6, <2>2 DEF notify_one, Wake, Sleepers, Notifying, IInv, TypeOK
  <2>4. Cardinality(Notifying') = Cardinality(Notifying) - 1
    BY <1>b, <2>3, LeaveSize
  <2>5. CASE pc[q] = "asleep"
    <3>1. q \notin Awake /\ Awake' = Awake \cup {q} /\ lost' = lost
      BY <1>6, <2>2, <2>3, <2>5 DEF notify_one, Wake, Awake, IInv, TypeOK
    <3> QED
      BY <1>a, <1>b, <1>c, <2>1, <2>3, <2>4, <3>1, JoinSize DEF Lookers
  <2>6. CASE pc[q] = "dead_asleep"
    <3>1. Awake' = Awake /\ lost' = lost + 1
      BY <1>6, <2>2, <2>3, <2>6 DEF notify_one, Wake, Awake, IInv, TypeOK
    <3> QED
      BY <1>a, <1>c, <2>1, <2>4, <3>1 DEF Lookers
  <2> QED
    BY <2>2, <2>5, <2>6 DEF Sleepers
<1>7. CASE try_wait(p)
  <2>1. /\ mutex.state = "normal" /\ Asleep # {}
        /\ lost' = lost /\ Awake' = Awake /\ Notifying' = Notifying
    BY <1>7 DEF try_wait, TakeToken, Goto, Asleep, Awake, Notifying, IInv, TypeOK
  <2>2. count' = count \/ count' = count - 1
    BY <1>7, TakeNoWrap DEF try_wait, TakeToken, IInv, TypeOK
  <2> QED
    BY <1>a, <1>c, <2>1, <2>2 DEF Lookers
<1>8. CASE WaitTakes(p)
  <2>1. /\ mutex.state = "normal" /\ Asleep # {} /\ lost' = lost
        /\ p \in Awake /\ Awake' = Awake \ {p} /\ Notifying' = Notifying
    BY <1>8 DEF WaitTakes, TakeToken, Goto, Asleep, Awake, Notifying, IInv, TypeOK
  <2>2. count' = count - 1
    BY <1>8, TakeNoWrap DEF WaitTakes, TakeToken, IInv, TypeOK
  <2> QED
    BY <1>a, <1>b, <1>c, <2>1, <2>2, LeaveSize DEF Lookers
<1>9. CASE WaitSleeps(p)
  BY <1>9, <1>a DEF WaitSleeps, Lookers
<1>10. CASE Relock(p)
  <2>1. mutex.state = "normal" /\ Asleep # {} /\ count' = count /\ lost' = lost
    BY <1>10
       DEF Relock, CanLock, LockStatus, Locked, Goto, Asleep, IInv, TypeOK, MutexInv, MutexStates
  <2>2. Awake' = Awake /\ Notifying' = Notifying
    BY <1>10 DEF Relock, Goto, Awake, Notifying, IInv, TypeOK
  <2> QED
    BY <1>a, <1>c, <2>1, <2>2 DEF Lookers
<1>11. CASE Unlock(p)
  <2>1. mutex.state = "normal" /\ Asleep # {} /\ count' = count /\ lost' = lost
    BY <1>11 DEF Unlock, Unlocked, Goto, Asleep, IInv, TypeOK, MutexStates
  <2> QED
    BY <1>11, <1>a, <1>c, <2>1, SameLookers DEF Unlock, IInv, Lookers
<1>12. CASE WakeSpuriously(p)
  <2>1. /\ mutex.state = "normal" /\ Asleep # {} /\ lost' = lost /\ count' = count
        /\ p \notin Awake /\ Awake' = Awake \cup {p} /\ Notifying' = Notifying
    BY <1>12 DEF WakeSpuriously, Goto, Asleep, Awake, Notifying, IInv, TypeOK
  <2> QED
    BY <1>a, <1>b, <1>c, <2>1, JoinSize DEF Lookers
<1>13. CASE Die(p)
  <2>1. /\ mutex.state = "normal" /\ Asleep # {} /\ count' = count
        /\ pc[p] \notin InSection
    BY <1>13 DEF Die, OwnerDied, Goto, Asleep, IInv, TypeOK, MutexInv
  <2>2. CASE pc[p] = "woken"
    <3>1. lost' = lost + 1 /\ p \in Awake /\ Awake' = Awake \ {p} /\ Notifying' = Notifying
      BY <1>13, <2>2 DEF Die, Goto, Awake, Notifying, IInv, TypeOK
    <3> QED
      BY <1>a, <1>b, <1>c, <2>1, <3>1, LeaveSize DEF Lookers
  <2>3. CASE pc[p] # "woken"
    <3>1. lost' = lost /\ Awake' = Awake /\ Notifying' = Notifying
      BY <1>13, <2>1, <2>3 DEF Die, Goto, Awake, Notifying, IInv, TypeOK, InSection
    <3> QED
      BY <1>a, <1>c, <2>1, <3>1 DEF Lookers
  <2> QED
    BY <2>2, <2>3
<1>14. ASSUME NEW c \in Calls, Call(p, c) PROVE count' <= Lookers'
  <2>1. mutex.state = "normal" /\ Asleep # {} /\ count' = count /\ lost' = lost
    BY <1>14 DEF Call, Goto, Asleep, IInv, TypeOK
  <2> QED
    BY <1>14, <1>a, <1>c, <2>1, SameLookers DEF Call, IInv, Lookers
<1> QED
  BY <1>1, <1>2, <1>3, <1>4, <1>5, <1>6, <1>7, <1>8, <1>9, <1>10, <1>11, <1>12, <1>13,
     <1>14 DEF Step

(***************************************************************************)
(* No wakeup is lost, for any number of processes: while the semaphore is  *)
(* usable and processes sleep, every token has an awake waiter or a        *)
(* notification on the way, unless a waiter died with its wakeup.          *)
(***************************************************************************)
THEOREM WakeupsKept == Spec => []NoLostWakeup
<1>1. Init => NoLostWakeup
  BY DEF Init, NoLostWakeup, Asleep
<1>2. IInv /\ IInv' /\ NoLostWakeup /\ [Next]_vars => NoLostWakeup'
  <2>1. CASE UNCHANGED vars
    BY <2>1 DEF vars, NoLostWakeup, Asleep, Awake, Notifying
  <2>2. CASE Next
    BY <2>2, WakeupStep DEF Next
  <2> QED
    BY <2>1, <2>2
<1> QED
  BY <1>1, <1>2, Invariant, PTL DEF Spec

----------------------------------------------------------------------------
(* Owner death.                                                            *)

(***************************************************************************)
(* Once an owner has died the semaphore never grants or takes a token      *)
(* again, for any number of processes and of deaths: whoever notices goes  *)
(* through abandon_owner_dead_lock, or through unlock with EOWNERDEAD.     *)
(***************************************************************************)
THEOREM ClosesForGood == Spec => ClosedForGood
<1>1. ASSUME IInv, mutex.state # "normal", [Next]_vars
      PROVE  mutex'.state # "normal" /\ UNCHANGED <<count, posted, granted>>
  <2> USE <1>1 DEF IInv, TypeOK, MutexInv, MutexStates, InSection, ghosts
  <2>1. CASE UNCHANGED vars
    BY <2>1 DEF vars
  <2>2. ASSUME NEW p \in Procs, Step(p)
        PROVE  mutex'.state # "normal" /\ UNCHANGED <<count, posted, granted>>
    BY <2>2
       DEF Step, LockMutex, LockOwnerDead, LockNotRecoverable, abandon_owner_dead_lock, Post,
           notify_one, try_wait, WaitTakes, WaitSleeps, Relock, RelockOwnerDead,
           RelockNotRecoverable, Unlock, Unlocked, Locked, LockStatus, CanLock
  <2>3. ASSUME NEW p \in Procs,
               WakeSpuriously(p) \/ Die(p) \/ \E c \in Calls : Call(p, c)
        PROVE  mutex'.state # "normal" /\ UNCHANGED <<count, posted, granted>>
    BY <2>3 DEF WakeSpuriously, Die, Call, OwnerDied
  <2> QED
    BY <2>1, <2>2, <2>3 DEF Next
<1> QED
  BY <1>1, Invariant, PTL DEF Spec, ClosedForGood
=============================================================================
