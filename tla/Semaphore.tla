------------------------------ MODULE Semaphore ------------------------------
(***************************************************************************)
(* InterprocessSemaphore: a count protected by an InterprocessMutex, with  *)
(* an InterprocessCondition for the processes that wait for it to become   *)
(* positive.                                                               *)
(*                                                                         *)
(* A call takes the mutex, changes the count and gives the mutex back.  A  *)
(* process may die at any step.  Who locks a mutex whose owner has died    *)
(* gives it up at once (InterprocessMutex::lock), so that the semaphore    *)
(* never works again.  A waiter takes part in this from within             *)
(* pthread_cond_wait, which releases the mutex and locks it again: an      *)
(* error there leaves wait() with the guard believing that it still owns   *)
(* the mutex.                                                              *)
(***************************************************************************)
EXTENDS Integers, FiniteSets, RobustMutex

CONSTANTS
  Procs,
  InitialCount,
  MaxCount,     (* numeric_limits<unsigned int>::max()                     *)
  MaxCalls,     (* bound: the calls that each process makes                *)
  MaxSpurious,  (* bound: wakeups that nobody asked for                    *)
  MaxDeaths     (* bound: processes that die                               *)

ASSUME SemaphoreAssumption ==
  /\ Nobody \notin Procs
  /\ IsFiniteSet(Procs)
  /\ MaxCount \in Nat \ {0}
  /\ InitialCount \in 0 .. MaxCount
  /\ {MaxCalls, MaxSpurious, MaxDeaths} \subseteq Nat

VARIABLES
  mutex,    (* InterprocessSemaphore::mutex                                *)
  count,    (* InterprocessSemaphore::count                                *)
  pc,       (* where each process is in its call                           *)
  call,     (* the call that it makes                                      *)
  result,   (* how its last call ended, or is about to end                 *)
  calls,    (* the calls that it has made                                  *)
  posted,   (* post() calls that have returned                             *)
  granted,  (* wait() and try_wait() calls that have returned with a token *)
  spurious, (* wakeups that nobody asked for, so far                       *)
  lost      (* wakeups of waiters that died before they had the mutex again *)

vars == <<mutex, count, pc, call, result, calls, posted, granted, spurious, lost>>
ghosts == <<calls, posted, granted, spurious, lost>>

Calls == {"post", "wait", "try_wait"}

Goto(p, label) == pc' = [pc EXCEPT ![p] = label]
Returns(p, r) == result' = [result EXCEPT ![p] = r]

Asleep == {p \in Procs : pc[p] = "asleep"}
Dead == {p \in Procs : pc[p] \in {"dead_asleep", "dead", "terminated"}}

(* Those the condition counts as waiting, alive or not.                    *)
Sleepers == {p \in Procs : pc[p] \in {"asleep", "dead_asleep"}}

----------------------------------------------------------------------------
(* InterprocessMutex::lock, by the guard at the start of a call            *)

Call(p, c) ==
  /\ pc[p] = "idle"
  /\ calls[p] < MaxCalls
  /\ call' = [call EXCEPT ![p] = c]
  /\ calls' = [calls EXCEPT ![p] = @ + 1]
  /\ Returns(p, "none")
  /\ Goto(p, "lock")
  /\ UNCHANGED <<mutex, count, posted, granted, spurious, lost>>

LockMutex(p) ==
  /\ pc[p] = "lock"
  /\ CanLock(mutex)
  /\ LockStatus(mutex) = "acquired"
  /\ mutex' = Locked(mutex, p)
  /\ Goto(p, call[p])
  /\ UNCHANGED <<count, call, result, ghosts>>

(* Mutant: the mutex of the dead owner is used as if nothing had happened. *)
LockOwnerDead_goes_on(p) ==
  /\ pc[p] = "lock"
  /\ CanLock(mutex)
  /\ LockStatus(mutex) = "owner_dead"
  /\ mutex' = MarkedConsistent(Locked(mutex, p))
  /\ Goto(p, call[p])
  /\ UNCHANGED <<count, call, result, ghosts>>

LockOwnerDead(p) ==
  /\ pc[p] = "lock"
  /\ CanLock(mutex)
  /\ LockStatus(mutex) = "owner_dead"
  /\ mutex' = Locked(mutex, p)
  /\ Goto(p, "abandon")
  /\ UNCHANGED <<count, call, result, ghosts>>

(* abandon_owner_dead_lock, and MutexOwnerDeadError to the caller.         *)
abandon_owner_dead_lock(p) ==
  /\ pc[p] = "abandon"
  /\ mutex' = Unlocked(mutex)
  /\ Returns(p, "owner_dead")
  /\ Goto(p, "idle")
  /\ UNCHANGED <<count, call, ghosts>>

LockNotRecoverable(p) ==
  /\ pc[p] = "lock"
  /\ CanLock(mutex)
  /\ LockStatus(mutex) = "not_recoverable"
  /\ Returns(p, "not_recoverable")
  /\ Goto(p, "idle")
  /\ UNCHANGED <<mutex, count, call, ghosts>>

----------------------------------------------------------------------------
(* The bodies of the three calls, with the mutex locked                    *)

(* post: overflow_error, or one more.                                      *)
Post(p) ==
  /\ pc[p] = "post"
  /\ IF count = MaxCount
     THEN UNCHANGED count /\ Returns(p, "overflow") /\ Goto(p, "unlock")
     ELSE count' = count + 1 /\ Returns(p, "ok") /\ Goto(p, "notify")
  /\ UNCHANGED <<mutex, call, ghosts>>

(* A sleeper wakes up; the wakeup of one that died in its sleep is lost.   *)
Wake(p, q) ==
  /\ pc' = [pc EXCEPT ![p] = "unlock", ![q] = IF @ = "asleep" THEN "woken" ELSE "dead"]
  /\ lost' = IF pc[q] = "asleep" THEN lost ELSE lost + 1

(* Mutant: the sleeper is only told when the count was zero before.        *)
notify_one_from_zero(p) ==
  /\ pc[p] = "notify"
  /\ \/ \E q \in Sleepers : count = 1 /\ Wake(p, q)
     \/ (Sleepers = {} \/ count > 1) /\ Goto(p, "unlock") /\ UNCHANGED lost
  /\ UNCHANGED <<mutex, count, call, result, calls, posted, granted, spurious>>

(* condition.notify_one: one of the sleepers wakes up, if there are any.   *)
notify_one(p) ==
  /\ pc[p] = "notify"
  /\ \/ \E q \in Sleepers : Wake(p, q)
     \/ Sleepers = {} /\ Goto(p, "unlock") /\ UNCHANGED lost
  /\ UNCHANGED <<mutex, count, call, result, calls, posted, granted, spurious>>

TakeToken(p) ==
  /\ count' = (count - 1) % (MaxCount + 1)
  /\ Returns(p, "ok")
  /\ Goto(p, "unlock")
  /\ UNCHANGED <<mutex, call, ghosts>>

try_wait(p) ==
  /\ pc[p] = "try_wait"
  /\ \/ count # 0 /\ TakeToken(p)
     \/ /\ count = 0
        /\ Returns(p, "false")
        /\ Goto(p, "unlock")
        /\ UNCHANGED <<mutex, count, call, ghosts>>

(* wait: the predicate holds.                                              *)
WaitTakes(p) ==
  /\ pc[p] = "wait"
  /\ count > 0
  /\ TakeToken(p)

(* Mutant: the mutex stays locked during the sleep.                        *)
WaitSleeps_keeps_mutex(p) ==
  /\ pc[p] = "wait"
  /\ count = 0
  /\ Goto(p, "asleep")
  /\ UNCHANGED <<mutex, count, call, result, ghosts>>

(* pthread_cond_wait, going to sleep: the mutex is released in one step    *)
(* with joining the sleepers.                                              *)
WaitSleeps(p) ==
  /\ pc[p] = "wait"
  /\ count = 0
  /\ mutex' = Unlocked(mutex)
  /\ Goto(p, "asleep")
  /\ UNCHANGED <<count, call, result, ghosts>>

(* pthread_cond_wait may return without a notification.                    *)
WakeSpuriously(p) ==
  /\ pc[p] = "asleep"
  /\ spurious < MaxSpurious
  /\ spurious' = spurious + 1
  /\ Goto(p, "woken")
  /\ UNCHANGED <<mutex, count, call, result, calls, posted, granted, lost>>

(* Mutant: the predicate is tested once, before the sleep.                 *)
Relock_untested(p) ==
  /\ pc[p] = "woken"
  /\ CanLock(mutex)
  /\ LockStatus(mutex) = "acquired"
  /\ mutex' = Locked(mutex, p)
  /\ count' = (count - 1) % (MaxCount + 1)
  /\ Returns(p, "ok")
  /\ Goto(p, "unlock")
  /\ UNCHANGED <<call, ghosts>>

(* pthread_cond_wait, once woken up: the mutex is locked again, and the    *)
(* predicate is tested again.                                              *)
Relock(p) ==
  /\ pc[p] = "woken"
  /\ CanLock(mutex)
  /\ LockStatus(mutex) = "acquired"
  /\ mutex' = Locked(mutex, p)
  /\ Goto(p, "wait")
  /\ UNCHANGED <<count, call, result, ghosts>>

(* The owner has died: pthread_cond_wait returns EOWNERDEAD with the mutex *)
(* locked.  InterprocessCondition::wait throws it as it is; the guard      *)
(* unlocks an inconsistent mutex, and nobody can lock it again.            *)
RelockOwnerDead(p) ==
  /\ pc[p] = "woken"
  /\ CanLock(mutex)
  /\ LockStatus(mutex) = "owner_dead"
  /\ mutex' = Locked(mutex, p)
  /\ Returns(p, "EOWNERDEAD")
  /\ Goto(p, "unlock")
  /\ UNCHANGED <<count, call, ghosts>>

(* The mutex was given up: pthread_cond_wait returns ENOTRECOVERABLE and   *)
(* has not locked the mutex.  The guard unlocks it all the same, unlock    *)
(* throws because of EPERM, and a destructor that throws calls terminate.  *)
RelockNotRecoverable(p) ==
  /\ pc[p] = "woken"
  /\ CanLock(mutex)
  /\ LockStatus(mutex) = "not_recoverable"
  /\ Goto(p, "terminated")
  /\ UNCHANGED <<mutex, count, call, result, ghosts>>

(* The guard's destructor, and the return of the call.                     *)
Unlock(p) ==
  /\ pc[p] = "unlock"
  /\ mutex' = Unlocked(mutex)
  /\ posted' = IF result[p] = "ok" /\ call[p] = "post" THEN posted + 1 ELSE posted
  /\ granted' = IF result[p] = "ok" /\ call[p] # "post" THEN granted + 1 ELSE granted
  /\ Goto(p, "idle")
  /\ UNCHANGED <<count, call, result, calls, spurious, lost>>

----------------------------------------------------------------------------
(* A process dies, wherever it is.  A waiter that was woken takes its      *)
(* wakeup with it, and one that sleeps remains counted by the condition.   *)
Die(p) ==
  /\ p \notin Dead
  /\ Cardinality(Dead) < MaxDeaths
  /\ mutex' = OwnerDied(mutex, p)
  /\ lost' = IF pc[p] = "woken" THEN lost + 1 ELSE lost
  /\ Goto(p, IF pc[p] = "asleep" THEN "dead_asleep" ELSE "dead")
  /\ UNCHANGED <<count, call, result, calls, posted, granted, spurious>>

Init ==
  /\ mutex = NewMutex
  /\ count = InitialCount
  /\ pc = [p \in Procs |-> "idle"]
  /\ call = [p \in Procs |-> "post"]
  /\ result = [p \in Procs |-> "none"]
  /\ calls = [p \in Procs |-> 0]
  /\ posted = 0 /\ granted = 0 /\ spurious = 0 /\ lost = 0

(* The steps that a live process takes by itself once it has made a call.  *)
Step(p) ==
  \/ LockMutex(p) \/ LockOwnerDead(p) \/ LockNotRecoverable(p)
  \/ abandon_owner_dead_lock(p)
  \/ Post(p) \/ notify_one(p) \/ try_wait(p) \/ WaitTakes(p) \/ WaitSleeps(p)
  \/ Relock(p) \/ RelockOwnerDead(p) \/ RelockNotRecoverable(p)
  \/ Unlock(p)

Next ==
  \E p \in Procs :
    Step(p) \/ WakeSpuriously(p) \/ Die(p) \/ \E c \in Calls : Call(p, c)

Spec == Init /\ [][Next]_vars

(* A live process keeps running until it sleeps or has returned.  Nobody   *)
(* has to make a call, and nobody has to wake up without a notification.   *)
FairSpec == Spec /\ \A p \in Procs : WF_vars(Step(p))

----------------------------------------------------------------------------
(* Properties                                                              *)

InSection == {"post", "notify", "try_wait", "wait", "abandon", "unlock"}

(* Every variable has its type.                                            *)
TypeOK ==
  /\ mutex \in [owner : Procs \cup {Nobody}, state : MutexStates]
  /\ count \in 0 .. MaxCount
  /\ pc \in [Procs -> InSection \cup {"idle", "lock", "asleep", "woken", "dead_asleep",
                                  "dead", "terminated"}]
  /\ call \in [Procs -> Calls]
  /\ result \in [Procs -> {"none", "ok", "false", "overflow", "owner_dead",
                           "not_recoverable", "EOWNERDEAD"}]
  /\ calls \in [Procs -> 0 .. MaxCalls]
  /\ {posted, granted, spurious, lost} \subseteq Nat

(***************************************************************************)
(* Whenever the semaphore is usable and nobody is inside, the count is     *)
(* exactly what the calls that have returned leave: no token is handed out *)
(* twice and none disappears, whichever waiter is woken, whoever takes the *)
(* token in front of it, and whoever dies.                                 *)
(***************************************************************************)
TokensConserved ==
  mutex = NewMutex => count = InitialCount + posted - granted

(* What the calls keep of the semaphore.                                   *)
SemaphoreInv == TypeOK /\ TokensConserved

(* Waiters that will test the count again before they sleep.               *)
Awake == {p \in Procs : pc[p] \in {"woken", "wait"}}
Notifying == {p \in Procs : pc[p] = "notify"}

(***************************************************************************)
(* No wakeup is lost while the semaphore is usable: when processes sleep,  *)
(* every token has an awake waiter that will look at it, or a notification *)
(* on the way.  The one exception is a waiter that died asleep or between  *)
(* its wakeup and the mutex: nobody else is woken for the token it got.    *)
(***************************************************************************)
NoLostWakeup ==
  mutex.state = "normal" /\ Asleep # {} =>
    count <= Cardinality(Awake) + Cardinality(Notifying) + lost

(* A semaphore whose mutex was given up is closed for good: no later call  *)
(* posts or takes a token.  A call that changed the count when its process *)
(* died is never taken for complete.                                       *)
ClosedForGood ==
  [][mutex.state # "normal" =>
       mutex'.state # "normal" /\ UNCHANGED <<count, posted, granted>>]_vars

(***************************************************************************)
(* In the end every call has returned, or its process sleeps for a reason: *)
(* there is no token, the semaphore is closed, or the wakeup died with the *)
(* waiter that had it.                                                     *)
(***************************************************************************)
WaitersAreServed ==
  <>[](\A p \in Procs :
         \/ p \in Dead \/ pc[p] = "idle"
         \/ pc[p] = "asleep" /\ (count = 0 \/ mutex.state # "normal" \/ lost > 0))

(***************************************************************************)
(* The death of an owner reaches the callers as an error: the first to     *)
(* notice gets InterprocessErrc::owner_dead, and nobody is terminated.     *)
(***************************************************************************)
OwnerDeathIsReported ==
  \A p \in Procs : pc[p] # "terminated" /\ result[p] # "EOWNERDEAD"
=============================================================================
