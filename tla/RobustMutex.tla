----------------------------- MODULE RobustMutex -----------------------------
(***************************************************************************)
(* InterprocessMutex: a process-shared, robust pthread mutex, as a value   *)
(* and the effect of each call on it.  The pthread library is external;    *)
(* what is modelled is the contract that the wrapper relies on.            *)
(*                                                                         *)
(*   normal           lock succeeds when nobody owns the mutex             *)
(*   owner_dead       the owner died: the next lock returns EOWNERDEAD     *)
(*   inconsistent     locked by a process that was told EOWNERDEAD         *)
(*   not_recoverable  unlocked without having been marked consistent:      *)
(*                    every later lock returns ENOTRECOVERABLE             *)
(***************************************************************************)
CONSTANT Nobody

MutexStates == {"normal", "owner_dead", "inconsistent", "not_recoverable"}

NewMutex == [owner |-> Nobody, state |-> "normal"]

Owns(m, p) == m.owner = p

(* pthread_mutex_lock blocks only while a live process owns the mutex.     *)
CanLock(m) == m.owner = Nobody

(* What lock_with_recovery_status returns or throws.                       *)
LockStatus(m) ==
  CASE m.state = "owner_dead" -> "owner_dead"
    [] m.state = "not_recoverable" -> "not_recoverable"
    [] OTHER -> "acquired"

Locked(m, p) ==
  CASE m.state = "owner_dead" -> [owner |-> p, state |-> "inconsistent"]
    [] m.state = "not_recoverable" -> m
    [] OTHER -> [owner |-> p, state |-> "normal"]

(* mark_consistent, by the owner.                                          *)
MarkedConsistent(m) == [m EXCEPT !.state = "normal"]

(* unlock, by the owner; also abandon_owner_dead_lock.                     *)
Unlocked(m) ==
  [owner |-> Nobody,
   state |-> IF m.state = "inconsistent" THEN "not_recoverable" ELSE m.state]

(* Process p dies: the kernel walks its list of robust mutexes.            *)
OwnerDied(m, p) ==
  IF m.owner = p THEN [owner |-> Nobody, state |-> "owner_dead"] ELSE m
=============================================================================
