------------------------- MODULE NamedObjectsProofs -------------------------
(***************************************************************************)
(* Proofs about NamedObjects for any sets of processes, names and header   *)
(* addresses, finite or not, with and without reuse of pids, and for any   *)
(* number of deaths.                                                       *)
(***************************************************************************)
EXTENDS NamedObjects, FiniteSetTheorems, TLAPS

----------------------------------------------------------------------------
(* The inductive invariant, in parts.                                      *)

(* Labels at which a process is inside a section of the manager.           *)
InSection == {"allocate", "link", "count", "mark_ready", "count_ready", "mark_destroying",
              "set_owner", "unlink", "uncount", "free", "scan"}

(* Labels at which the header that a process works on is in the registry.  *)
HasLinked == Between \cup {"count", "mark_ready", "count_ready", "mark_destroying",
                           "set_owner", "unlink"}

(* A process has the lock exactly inside a section, and a header exactly   *)
(* while it works on one.                                                  *)
Position(p) ==
  /\ pc[p] \in InSection <=> lock = p
  /\ mine[p] = NoHeader <=> pc[p] \in {"idle", "dead", "scan"}

(* Whether the header that p works on is in the registry.                  *)
Linkage(p) ==
  /\ pc[p] \in HasLinked => mine[p] \in linked
  /\ pc[p] \in {"allocate", "link"} =>
       mine[p] \notin linked /\ \A g \in linked : header[g].name # header[mine[p]].name
  /\ pc[p] \in {"uncount", "free"} => mine[p] \notin linked

(* What the header that p works on says of its object.                     *)
Stage(p) ==
  /\ pc[p] \in {"allocate", "link", "count"} \cup Between => header[mine[p]].owner = p
  /\ pc[p] \in {"allocate", "link", "count", "mark_ready", "set_owner", "unlink", "uncount"}
                 \cup Between => header[mine[p]].state # "ready"
  /\ pc[p] \in {"count_ready", "mark_destroying"} => header[mine[p]].state = "ready"

(* What is allocated and constructed of the object that p works on.        *)
Storage(p) ==
  /\ pc[p] = "allocate" => "object" \in blocks[mine[p]]
  /\ pc[p] = "link" => blocks[mine[p]] = Pieces
  /\ pc[p] \in {"uncount", "free"} => blocks[mine[p]] # {}
  /\ pc[p] \in {"constructed", "mark_ready", "count_ready"} => mine[p] \in built

ProcInv(p) == Position(p) /\ Linkage(p) /\ Stage(p) /\ Storage(p)

(* No two processes work on the same header.                               *)
Disjoint == \A p, q \in Pids : mine[p] = mine[q] /\ mine[p] # NoHeader => p = q

(* What is in the registry is allocated, and what is ready is constructed. *)
LinkedInv ==
  \A h \in linked : blocks[h] = Pieces /\ (header[h].state = "ready" => h \in built)

(* What a dead process left unfinished stays in the registry, not ready,   *)
(* until a recovery is about to unlink it.                                 *)
OrphanInv ==
  \A h \in orphans :
    /\ h \in linked
    /\ header[h].state # "ready"
    /\ \A p \in Pids : mine[p] = h => pc[p] = "unlink"

IInv ==
  /\ TypeOK
  /\ UniqueNames
  /\ Disjoint
  /\ LinkedInv
  /\ OrphanInv
  /\ \A p \in Pids : ProcInv(p)

(* Headers that find would return.                                         *)
Ready == {h \in linked : header[h].state = "ready"}

(* The stores to total_count and to ready_count that the process inside    *)
(* has still to make.                                                      *)
TotalDue ==
  IF lock = Nobody THEN 0
  ELSE IF pc[lock] = "count" THEN 1
  ELSE IF pc[lock] = "uncount" THEN -1 ELSE 0

ReadyDue ==
  IF lock = Nobody THEN 0
  ELSE IF pc[lock] \in {"count_ready", "mark_destroying"} THEN 1 ELSE 0

(* What is allocated is in the registry, or in the hands of the process    *)
(* inside.                                                                 *)
Accounted ==
  \A h \in Headers :
    blocks[h] # {} => h \in linked \/ \E p \in Pids : lock = p /\ mine[p] = h

(* As long as nobody has died in a section, everything is accounted for,   *)
(* and the counters are behind only by the next store.                     *)
CleanInv ==
  /\ IsFiniteSet(linked)
  /\ ~torn =>
       /\ Accounted
       /\ Cardinality(linked) = total_count + TotalDue
       /\ Cardinality(Ready) = ready_count + ReadyDue

----------------------------------------------------------------------------
(* Steps of a process, and what they leave alone.                          *)

ProcNext(p) ==
  \/ \E n \in Names, h \in Headers : Reserve(p, n, h)
  \/ \E n \in Names : Destroy(p, n)
  \/ Open(p) \/ Step(p) \/ Die(p) \/ Reuse(p)

OthersStay(p) == \A q \in Pids \ {p} : pc'[q] = pc[q] /\ mine'[q] = mine[q]

(* A step of p moves nobody else.                                          *)
LEMMA OthersStep ==
  ASSUME TypeOK, NEW p \in Pids, ProcNext(p)
  PROVE  OthersStay(p)
<1> USE DEF TypeOK, CallTypes, OthersStay, Goto, Leave, Enter, ghosts, registry
<1>1. CASE \E n \in Names, h \in Headers : Reserve(p, n, h)
  BY <1>1 DEF Reserve
<1>2. CASE \E n \in Names : Destroy(p, n)
  BY <1>2 DEF Destroy
<1>3. CASE Open(p) \/ Die(p) \/ Reuse(p)
  BY <1>3 DEF Open, Die, Reuse
<1>4. CASE AllocateRest(p) \/ AllocationFails(p) \/ Link(p) \/ Count(p)
  BY <1>4 DEF AllocateRest, AllocationFails, Link, Count
<1>5. CASE Construct(p) \/ ConstructorThrows(p) \/ ClearOwner(p) \/ MarkReady(p) \/ CountReady(p)
  BY <1>5 DEF Construct, ConstructorThrows, ClearOwner, MarkReady, CountReady
<1>6. CASE MarkDestroying(p) \/ SetOwner(p) \/ Destruct(p) \/ Release(p)
  BY <1>6 DEF MarkDestroying, SetOwner, Destruct, Release
<1>7. CASE Unlink(p) \/ Uncount(p) \/ Scan(p) \/ ScanDone(p)
  BY <1>7 DEF Unlink, Uncount, Scan, ScanDone
<1>8. CASE Free(p)
  BY <1>8 DEF Free
<1> QED
  BY <1>1, <1>2, <1>3, <1>4, <1>5, <1>6, <1>7, <1>8 DEF ProcNext, Step

(* A step keeps the types.                                                 *)
LEMMA TypeStep ==
  ASSUME IInv, NEW p \in Pids, ProcNext(p)
  PROVE  TypeOK'
<1>a. TypeOK /\ Position(p)
  BY DEF IInv, ProcInv
<1>b. pc[p] \in Labels /\ (pc[p] \notin {"idle", "dead", "scan"} => mine[p] \in Headers)
  BY <1>a DEF Position, TypeOK, CallTypes
<1> USE NamedAssumption DEF TypeOK, Goto, Leave, Enter, ghosts, registry
<1>1. ASSUME NEW n \in Names, NEW h \in Headers, Reserve(p, n, h) PROVE TypeOK'
  <2>1. RegistryTypes'
    BY <1>1, <1>a DEF Reserve, RegistryTypes, States, Pieces
  <2>2. CallTypes'
    BY <1>1, <1>a DEF Reserve, CallTypes, Labels
  <2>3. GhostTypes'
    BY <1>1, <1>a DEF Reserve, GhostTypes
  <2> QED
    BY <2>1, <2>2, <2>3
<1>2. ASSUME NEW n \in Names, Destroy(p, n) PROVE TypeOK'
  <2>1. RegistryTypes'
    BY <1>2, <1>a DEF Destroy, RegistryTypes
  <2>2. CallTypes'
    BY <1>2, <1>a DEF Destroy, CallTypes, RegistryTypes, Labels, find_ready, find_any
  <2>3. GhostTypes'
    BY <1>2, <1>a DEF Destroy, GhostTypes
  <2> QED
    BY <2>1, <2>2, <2>3
<1>3. CASE Open(p) \/ Reuse(p)
  <2>1. RegistryTypes' /\ GhostTypes'
    BY <1>3, <1>a DEF Open, Reuse, RegistryTypes, GhostTypes
  <2>2. CallTypes'
    BY <1>3, <1>a DEF Open, Reuse, CallTypes, Labels
  <2> QED
    BY <2>1, <2>2
<1>4. CASE Die(p)
  <2>1. RegistryTypes'
    BY <1>4, <1>a DEF Die, RegistryTypes
  <2>2. CallTypes'
    BY <1>4, <1>a DEF Die, CallTypes, Labels
  <2>3. GhostTypes'
    BY <1>4, <1>a DEF Die, GhostTypes, RegistryTypes
  <2> QED
    BY <2>1, <2>2, <2>3
<1>5. CASE AllocateRest(p) \/ AllocationFails(p)
  <2>1. RegistryTypes'
    BY <1>5, <1>a DEF AllocateRest, AllocationFails, RegistryTypes, Pieces
  <2>2. CallTypes' /\ GhostTypes'
    BY <1>5, <1>a DEF AllocateRest, AllocationFails, CallTypes, GhostTypes, Labels
  <2> QED
    BY <2>1, <2>2
<1>6. CASE Link(p) \/ Count(p)
  <2>1. RegistryTypes'
    BY <1>6, <1>a, <1>b DEF Link, Count, RegistryTypes
  <2>2. CallTypes' /\ GhostTypes'
    BY <1>6, <1>a DEF Link, Count, CallTypes, GhostTypes, Labels
  <2> QED
    BY <2>1, <2>2
<1>7. CASE Construct(p) \/ ConstructorThrows(p) \/ Destruct(p)
  <2>1. RegistryTypes' /\ CallTypes'
    BY <1>7, <1>a DEF Construct, ConstructorThrows, Destruct, RegistryTypes, CallTypes, Labels
  <2>2. GhostTypes'
    BY <1>7, <1>a, <1>b DEF Construct, ConstructorThrows, Destruct, GhostTypes
  <2> QED
    BY <2>1, <2>2
<1>8. CASE ClearOwner(p) \/ MarkReady(p) \/ MarkDestroying(p) \/ SetOwner(p)
  <2>1. RegistryTypes'
    BY <1>8, <1>a DEF ClearOwner, MarkReady, MarkDestroying, SetOwner, RegistryTypes, States
  <2>2. CallTypes' /\ GhostTypes'
    BY <1>8, <1>a
       DEF ClearOwner, MarkReady, MarkDestroying, SetOwner, CallTypes, GhostTypes, Labels
  <2> QED
    BY <2>1, <2>2
<1>9. CASE CountReady(p) \/ Uncount(p)
  <2>1. RegistryTypes'
    BY <1>9, <1>a DEF CountReady, Uncount, RegistryTypes
  <2>2. CallTypes' /\ GhostTypes'
    BY <1>9, <1>a DEF CountReady, Uncount, CallTypes, GhostTypes, Labels
  <2> QED
    BY <2>1, <2>2
<1>10. CASE Release(p) \/ Unlink(p)
  <2>1. RegistryTypes'
    BY <1>10, <1>a DEF Release, Unlink, RegistryTypes
  <2>2. CallTypes' /\ GhostTypes'
    BY <1>10, <1>a DEF Release, Unlink, CallTypes, GhostTypes, Labels
  <2> QED
    BY <2>1, <2>2
<1>11. CASE Free(p)
  <2>1. RegistryTypes'
    BY <1>11, <1>a DEF Free, RegistryTypes
  <2>2. CallTypes'
    BY <1>11, <1>a DEF Free, CallTypes, Labels
  <2>3. GhostTypes'
    BY <1>11, <1>a DEF Free, GhostTypes
  <2> QED
    BY <2>1, <2>2, <2>3
<1>12. CASE Scan(p) \/ ScanDone(p)
  <2>1. RegistryTypes' /\ GhostTypes'
    BY <1>12, <1>a DEF Scan, ScanDone, RegistryTypes, GhostTypes
  <2>2. CallTypes'
    BY <1>12, <1>a DEF Scan, ScanDone, CallTypes, Labels
  <2> QED
    BY <2>1, <2>2
<1> QED
  BY <1>1, <1>2, <1>3, <1>4, <1>5, <1>6, <1>7, <1>8, <1>9, <1>10, <1>11, <1>12
     DEF ProcNext, Step

----------------------------------------------------------------------------
(* What a step leaves alone.                                               *)

(* Header h and what it stands for stay as they are.                       *)
Elsewhere(h) ==
  /\ header'[h] = header[h] /\ blocks'[h] = blocks[h]
  /\ h \in linked' <=> h \in linked
  /\ h \in built' <=> h \in built

(* A step changes no header but the one its process works on.              *)
LEMMA ElsewhereStep ==
  ASSUME TypeOK, NEW p \in Pids, ProcNext(p),
         NEW g \in Headers, g # mine[p], g # mine'[p]
  PROVE  Elsewhere(g)
<1> USE DEF TypeOK, RegistryTypes, CallTypes, Elsewhere, ghosts, registry
<1>1. CASE \E n \in Names, h \in Headers : Reserve(p, n, h)
  BY <1>1 DEF Reserve
<1>2. CASE \E n \in Names : Destroy(p, n)
  BY <1>2 DEF Destroy
<1>3. CASE Open(p) \/ Die(p) \/ Reuse(p)
  BY <1>3 DEF Open, Die, Reuse
<1>4. CASE AllocateRest(p) \/ AllocationFails(p) \/ Link(p) \/ Count(p)
  BY <1>4 DEF AllocateRest, AllocationFails, Link, Count
<1>5. CASE Construct(p) \/ ConstructorThrows(p) \/ ClearOwner(p) \/ MarkReady(p) \/ CountReady(p)
  BY <1>5 DEF Construct, ConstructorThrows, ClearOwner, MarkReady, CountReady
<1>6. CASE MarkDestroying(p) \/ SetOwner(p) \/ Destruct(p) \/ Release(p)
  BY <1>6 DEF MarkDestroying, SetOwner, Destruct, Release
<1>7. CASE Unlink(p) \/ Uncount(p) \/ Scan(p) \/ ScanDone(p)
  BY <1>7 DEF Unlink, Uncount, Scan, ScanDone
<1>8. CASE Free(p)
  BY <1>8 DEF Free
<1> QED
  BY <1>1, <1>2, <1>3, <1>4, <1>5, <1>6, <1>7, <1>8 DEF ProcNext, Step

(* The lock is taken from nobody, and while it is held the others leave    *)
(* the registry alone.                                                     *)
LEMMA LockStep ==
  ASSUME TypeOK, NEW p \in Pids, Position(p), ProcNext(p), NEW q \in Pids, q # p
  PROVE  /\ lock' = q <=> lock = q
         /\ lock = q => UNCHANGED <<header, linked, blocks, total_count, ready_count>>
<1> USE NamedAssumption DEF Goto, Leave, Enter, ghosts, registry
<1>1. CASE \E n \in Names, h \in Headers : Reserve(p, n, h)
  BY <1>1 DEF Reserve
<1>2. CASE \E n \in Names : Destroy(p, n)
  BY <1>2 DEF Destroy
<1>3. CASE Open(p) \/ Die(p) \/ Reuse(p)
  BY <1>3 DEF Open, Die, Reuse
<1>4. CASE Construct(p) \/ ConstructorThrows(p) \/ Destruct(p)
  BY <1>4 DEF Construct, ConstructorThrows, Destruct
<1>5. CASE ClearOwner(p) \/ Release(p)
  BY <1>5 DEF ClearOwner, Release
<1>6. CASE pc[p] \in InSection
  <2>1. lock = p
    BY <1>6 DEF Position
  <2>2. lock' \in {p, Nobody}
    BY <1>6, <2>1
       DEF ProcNext, Step, Reserve, Destroy, Open, Die, Reuse, AllocateRest, AllocationFails, Link,
           Count, Construct, ConstructorThrows, ClearOwner, MarkReady, CountReady, MarkDestroying,
           SetOwner, Destruct, Release, Unlink, Uncount, Free, Scan, ScanDone
  <2> QED
    BY <2>1, <2>2
<1>7. CASE Step(p) /\ pc[p] \notin InSection
  <2>1. \/ Construct(p) \/ ConstructorThrows(p) \/ Destruct(p) \/ ClearOwner(p) \/ Release(p)
    BY <1>7
       DEF Step, InSection, AllocateRest, AllocationFails, Link, Count, MarkReady, CountReady,
           MarkDestroying, SetOwner, Unlink, Uncount, Free, Scan, ScanDone
  <2> QED
    BY <2>1, <1>4, <1>5
<1> QED
  BY <1>1, <1>2, <1>3, <1>6, <1>7 DEF ProcNext

(* Every header that somebody works on has something allocated.            *)
LEMMA MineAllocated ==
  ASSUME IInv, NEW q \in Pids, mine[q] # NoHeader
  PROVE  mine[q] \in Headers /\ blocks[mine[q]] # {}
<1>1. /\ TypeOK /\ LinkedInv /\ Position(q) /\ Linkage(q) /\ Storage(q)
      /\ pc[q] \in Labels /\ mine[q] \in Headers
  BY DEF IInv, ProcInv, TypeOK, CallTypes
<1>2. pc[q] \in HasLinked \cup {"allocate", "link", "uncount", "free"}
  BY <1>1 DEF Position, Labels, HasLinked, Between
<1>3. CASE pc[q] \in HasLinked
  BY <1>1, <1>3 DEF Linkage, LinkedInv, Pieces
<1>4. CASE pc[q] \in {"allocate", "link", "uncount", "free"}
  BY <1>1, <1>4 DEF Storage, Pieces
<1> QED
  BY <1>1, <1>2, <1>3, <1>4

(* Nobody comes to work on the header of another.                          *)
LEMMA DisjointStep ==
  ASSUME IInv, NEW p \in Pids, ProcNext(p)
  PROVE  Disjoint'
<1>0. TypeOK /\ Disjoint /\ OthersStay(p) /\ mine \in [Pids -> Headers \cup {NoHeader}]
  BY OthersStep DEF IInv, TypeOK, CallTypes
<1>1. SUFFICES ASSUME NEW q \in Pids, q # p, mine'[p] # NoHeader
               PROVE  mine[q] # mine'[p]
  BY <1>0 DEF Disjoint, OthersStay
<1>2. CASE mine'[p] = mine[p]
  BY <1>0, <1>1, <1>2 DEF Disjoint
<1>3. ASSUME NEW n \in Names, NEW h \in Headers, Reserve(p, n, h) PROVE mine[q] # mine'[p]
  <2>1. mine'[p] = h /\ blocks[h] = {}
    BY <1>0, <1>3 DEF Reserve
  <2> QED
    BY <2>1, <1>1, MineAllocated
<1>4. ASSUME NEW n \in Names, Destroy(p, n) PROVE mine[q] # mine'[p]
  <2>1. PICK h \in find_ready(n) : mine'[p] = h
    BY <1>0, <1>4 DEF Destroy
  <2>2. h \in linked /\ header[h].state = "ready" /\ lock = Nobody /\ h # NoHeader
    BY <1>0, <1>4, <2>1, NamedAssumption
       DEF Destroy, Enter, find_ready, find_any, TypeOK, RegistryTypes
  <2>3. ProcInv(q) /\ pc[q] \in Labels /\ lock # q
    BY <2>2, <1>0, NamedAssumption DEF IInv, TypeOK, CallTypes
  <2>4. mine[q] # NoHeader => pc[q] \in Between
    BY <2>3 DEF ProcInv, Position, Labels, InSection, Between
  <2> QED
    BY <2>1, <2>2, <2>3, <2>4 DEF ProcInv, Stage
<1>5. CASE Scan(p)
  <2>1. PICK h \in Headers : Abandoned(h) /\ mine'[p] = h
    BY <1>0, <1>5 DEF Scan
  <2>2. Position(p) /\ lock = p
    BY <1>5 DEF IInv, ProcInv, Position, Scan, InSection
  <2>3. ProcInv(q) /\ pc[q] \in Labels /\ lock # q /\ q # Nobody
    BY <2>2, <1>0, <1>1, NamedAssumption DEF IInv, TypeOK, CallTypes
  <2>4. mine[q] # NoHeader => pc[q] \in Between
    BY <2>3 DEF ProcInv, Position, Labels, InSection, Between
  <2>5. mine[q] # NoHeader => is_process_alive(header[mine[q]].owner)
    BY <2>3, <2>4 DEF ProcInv, Stage, is_process_alive, Between
  <2> QED
    BY <1>1, <2>1, <2>5 DEF Abandoned
<1>6. CASE Open(p) \/ Reuse(p)
  BY <1>6, <1>2 DEF Open, Reuse, ghosts
<1>7. CASE Die(p)
  BY <1>7, <1>0, <1>1 DEF Die
<1>8. CASE Step(p) /\ ~Scan(p)
  <2>1. mine' = mine \/ mine' = [mine EXCEPT ![p] = NoHeader]
    BY <1>8
       DEF Step, AllocateRest, AllocationFails, Link, Count, Construct, ConstructorThrows,
           ClearOwner, MarkReady, CountReady, MarkDestroying, SetOwner, Destruct, Release, Unlink,
           Uncount, Free, ScanDone
  <2> QED
    BY <2>1, <1>0, <1>1, <1>2
<1> QED
  BY <1>3, <1>4, <1>5, <1>6, <1>7, <1>8 DEF ProcNext

(* What the invariant says of the others stays true.                       *)
LEMMA Frame ==
  ASSUME IInv, NEW p \in Pids, ProcNext(p), NEW q \in Pids, q # p
  PROVE  ProcInv(q)'
<1>1. /\ TypeOK /\ Disjoint /\ Disjoint' /\ ProcInv(q) /\ Position(p)
      /\ pc'[q] = pc[q] /\ mine'[q] = mine[q] /\ mine[q] \in Headers \cup {NoHeader}
  BY OthersStep, DisjointStep DEF IInv, ProcInv, OthersStay, TypeOK, CallTypes
<1>2. /\ lock' = q <=> lock = q
      /\ lock = q => UNCHANGED <<header, linked, blocks, total_count, ready_count>>
  BY <1>1, LockStep
<1>3. Position(q)'
  BY <1>1, <1>2 DEF ProcInv, Position
<1>4. CASE mine[q] = NoHeader
  BY <1>1, <1>3, <1>4
     DEF ProcInv, Position, Linkage, Stage, Storage, HasLinked, Between
<1>5. CASE mine[q] # NoHeader
  <2>1. Elsewhere(mine[q])
    BY <1>1, <1>5, ElsewhereStep DEF Disjoint
  <2>2. Linkage(q)'
    BY <1>1, <1>2, <2>1 DEF ProcInv, Position, Linkage, Elsewhere, InSection
  <2>3. Stage(q)' /\ Storage(q)'
    BY <1>1, <2>1 DEF ProcInv, Stage, Storage, Elsewhere
  <2> QED
    BY <1>3, <2>2, <2>3 DEF ProcInv
<1> QED
  BY <1>4, <1>5

----------------------------------------------------------------------------
(* Each action keeps the invariant.                                        *)

(* A header with nothing allocated is not in the registry.                 *)
LEMMA FreeIsUnlinked ==
  ASSUME LinkedInv, NEW h, blocks[h] = {}
  PROVE  h \notin linked
BY DEF LinkedInv, Pieces

(* A step keeps what the invariant says of its own process.                *)
LEMMA OwnStep ==
  ASSUME IInv, NEW p \in Pids, ProcNext(p)
  PROVE  ProcInv(p)'
<1>0. /\ TypeOK /\ RegistryTypes /\ CallTypes /\ LinkedInv
      /\ Position(p) /\ Linkage(p) /\ Stage(p) /\ Storage(p)
      /\ (mine[p] # NoHeader => mine[p] \in Headers)
  BY DEF IInv, ProcInv, TypeOK, CallTypes
<1> USE <1>0, NamedAssumption
    DEF CallTypes, Goto, Leave, Enter, ghosts, registry, ProcInv, Position, Linkage, Stage,
        Storage, HasLinked, InSection, Between
<1>1. ASSUME NEW n \in Names, NEW h \in Headers, Reserve(p, n, h) PROVE ProcInv(p)'
  <2>1. h \notin linked
    BY <1>1, FreeIsUnlinked DEF Reserve
  <2>2. /\ pc'[p] = "allocate" /\ lock' = p /\ mine'[p] = h /\ linked' = linked
        /\ header'[h] = [name |-> n, state |-> "constructing", owner |-> p]
        /\ blocks'[h] = {"object"}
        /\ \A g \in linked : header'[g] = header[g] /\ header[g].name # n
    BY <1>1, <2>1 DEF Reserve, RegistryTypes, find_any
  <2> QED
    BY <2>1, <2>2
<1>2. ASSUME NEW n \in Names, Destroy(p, n) PROVE ProcInv(p)'
  <2>1. /\ mine'[p] \in linked /\ header[mine'[p]].state = "ready" /\ mine'[p] \in Headers
        /\ pc'[p] = "mark_destroying" /\ lock' = p /\ UNCHANGED <<linked, header>>
    BY <1>2 DEF Destroy, find_ready, find_any, RegistryTypes
  <2> QED
    BY <2>1
<1>3. CASE Open(p) \/ Die(p) \/ Reuse(p)
  BY <1>3 DEF Open, Die, Reuse
<1>4. CASE AllocateRest(p)
  BY <1>4 DEF AllocateRest, RegistryTypes, Pieces
<1>5. CASE AllocationFails(p)
  BY <1>5 DEF AllocationFails
<1>6. CASE Link(p)
  BY <1>6 DEF Link
<1>7. CASE Count(p)
  BY <1>7 DEF Count
<1>8. CASE Construct(p) \/ ConstructorThrows(p) \/ Destruct(p)
  BY <1>8 DEF Construct, ConstructorThrows, Destruct
<1>9. CASE ClearOwner(p)
  BY <1>9 DEF ClearOwner, RegistryTypes
<1>10. CASE MarkReady(p)
  BY <1>10 DEF MarkReady, RegistryTypes
<1>11. CASE CountReady(p)
  BY <1>11 DEF CountReady
<1>12. CASE MarkDestroying(p)
  BY <1>12 DEF MarkDestroying, RegistryTypes
<1>13. CASE SetOwner(p)
  BY <1>13 DEF SetOwner, RegistryTypes
<1>14. CASE Release(p)
  BY <1>14 DEF Release
<1>15. CASE Unlink(p)
  BY <1>15 DEF Unlink, LinkedInv, Pieces
<1>16. CASE Uncount(p)
  BY <1>16 DEF Uncount
<1>17. CASE Free(p)
  BY <1>17 DEF Free, RegistryTypes
<1>18. CASE Scan(p)
  BY <1>18 DEF Scan, Abandoned, RegistryTypes
<1>19. CASE ScanDone(p)
  BY <1>19 DEF ScanDone
<1> QED
  BY <1>1, <1>2, <1>3, <1>4, <1>5, <1>6, <1>7, <1>8, <1>9, <1>10, <1>11, <1>12, <1>13, <1>14,
     <1>15, <1>16, <1>17, <1>18, <1>19 DEF ProcNext, Step

(* Names are taken only after a look at every header of the registry.      *)
LEMMA NamesStep ==
  ASSUME IInv, NEW p \in Pids, ProcNext(p)
  PROVE  UniqueNames'
<1>0. TypeOK /\ RegistryTypes /\ CallTypes /\ LinkedInv /\ UniqueNames /\ Linkage(p)
  BY DEF IInv, ProcInv, TypeOK
<1> USE <1>0 DEF UniqueNames, RegistryTypes, ghosts, registry
<1>1. ASSUME NEW n \in Names, NEW h \in Headers, Reserve(p, n, h) PROVE UniqueNames'
  <2>1. h \notin linked
    BY <1>1, FreeIsUnlinked DEF Reserve
  <2> QED
    BY <1>1, <2>1 DEF Reserve
<1>2. CASE Link(p)
  BY <1>2 DEF Link, Linkage
<1>3. CASE Unlink(p)
  BY <1>3 DEF Unlink
<1>4. CASE ClearOwner(p) \/ MarkReady(p) \/ MarkDestroying(p) \/ SetOwner(p)
  <2>1. linked' = linked /\ \A h \in Headers : header'[h].name = header[h].name
    BY <1>4 DEF ClearOwner, MarkReady, MarkDestroying, SetOwner
  <2> QED
    BY <2>1
<1>5. CASE Open(p) \/ Die(p) \/ Reuse(p) \/ \E n \in Names : Destroy(p, n)
  BY <1>5 DEF Open, Die, Reuse, Destroy
<1>6. CASE UNCHANGED <<header, linked>>
  BY <1>6
<1> QED
  BY <1>1, <1>2, <1>3, <1>4, <1>5, <1>6
     DEF ProcNext, Step, AllocateRest, AllocationFails, Count, Construct, ConstructorThrows,
         CountReady, Destruct, Release, Uncount, Free, Scan, ScanDone

(* What is in the registry stays allocated, and constructed while ready.   *)
LEMMA LinkedStep ==
  ASSUME IInv, NEW p \in Pids, ProcNext(p)
  PROVE  LinkedInv'
<1>0. /\ TypeOK /\ RegistryTypes /\ CallTypes /\ LinkedInv /\ Linkage(p) /\ Stage(p) /\ Storage(p)
      /\ TypeOK' /\ linked' \subseteq Headers
  BY TypeStep DEF IInv, ProcInv, TypeOK, RegistryTypes
<1>1. SUFFICES ASSUME NEW h \in linked', h = mine[p] \/ h = mine'[p]
               PROVE  blocks'[h] = Pieces /\ (header'[h].state = "ready" => h \in built')
  <2>1. ASSUME NEW h \in linked', h # mine[p], h # mine'[p]
        PROVE  blocks'[h] = Pieces /\ (header'[h].state = "ready" => h \in built')
    BY <1>0, <2>1, ElsewhereStep DEF Elsewhere, LinkedInv
  <2> QED
    BY <2>1 DEF LinkedInv
<1> USE <1>0, <1>1
    DEF LinkedInv, RegistryTypes, CallTypes, Goto, Leave, Enter, ghosts, registry, Linkage, Stage,
        Storage, HasLinked, Between
<1>2. ASSUME NEW n \in Names, NEW g \in Headers, Reserve(p, n, g)
      PROVE  blocks'[h] = Pieces /\ (header'[h].state = "ready" => h \in built')
  <2>1. g \notin linked /\ linked' = linked
    BY <1>2 DEF Reserve, Pieces
  <2>2. h # g /\ blocks'[h] = blocks[h] /\ header'[h] = header[h] /\ built' = built
    BY <1>2, <2>1 DEF Reserve
  <2> QED
    BY <2>1, <2>2
<1>3. CASE Open(p) \/ Die(p) \/ Reuse(p) \/ \E n \in Names : Destroy(p, n)
  BY <1>3 DEF Open, Die, Reuse, Destroy
<1>4. CASE AllocateRest(p) \/ Free(p)
  BY <1>4 DEF AllocateRest, Free
<1>5. CASE Link(p)
  BY <1>5 DEF Link
<1>6. CASE Construct(p) \/ Destruct(p)
  BY <1>6 DEF Construct, Destruct
<1>7. CASE ClearOwner(p) \/ SetOwner(p)
  BY <1>7 DEF ClearOwner, SetOwner
<1>8. CASE MarkReady(p)
  BY <1>8 DEF MarkReady
<1>9. CASE MarkDestroying(p)
  BY <1>9 DEF MarkDestroying
<1>10. CASE Unlink(p)
  BY <1>10 DEF Unlink
<1>11. CASE UNCHANGED <<header, linked, blocks, built>>
  BY <1>11
<1> QED
  BY <1>2, <1>3, <1>4, <1>5, <1>6, <1>7, <1>8, <1>9, <1>10, <1>11
     DEF ProcNext, Step, AllocationFails, Count, ConstructorThrows, CountReady, Release, Uncount,
         Scan, ScanDone

(* What a dead process left unfinished is touched only by a recovery.      *)
LEMMA OrphanStep ==
  ASSUME IInv, NEW p \in Pids, ProcNext(p)
  PROVE  OrphanInv'
<1>0. /\ TypeOK /\ RegistryTypes /\ CallTypes /\ OrphanInv /\ LinkedInv /\ Disjoint
      /\ Position(p) /\ Linkage(p) /\ Stage(p)
      /\ OthersStay(p)
  BY OthersStep DEF IInv, ProcInv, TypeOK, RegistryTypes
<1> USE <1>0, NamedAssumption
    DEF OrphanInv, OthersStay, RegistryTypes, CallTypes, Goto, Leave, Enter, ghosts, registry
<1>1. ASSUME NEW n \in Names, NEW g \in Headers, Reserve(p, n, g) PROVE OrphanInv'
  <2>1. g \notin linked
    BY <1>1, FreeIsUnlinked DEF Reserve
  <2>2. mine'[p] = g /\ orphans' = orphans /\ linked' = linked
    BY <1>1 DEF Reserve
  <2>3. \A h \in linked : header'[h] = header[h]
    BY <1>1, <2>1 DEF Reserve
  <2> QED
    BY <2>1, <2>2, <2>3
<1>2. ASSUME NEW n \in Names, Destroy(p, n) PROVE OrphanInv'
  <2>1. /\ header[mine'[p]].state = "ready"
        /\ UNCHANGED <<orphans, linked, header>>
    BY <1>2 DEF Destroy, find_ready, find_any
  <2> QED
    BY <2>1
<1>3. CASE Open(p) \/ Reuse(p)
  BY <1>3 DEF Open, Reuse, Position
<1>4. CASE Die(p)
  BY <1>4 DEF Die, Disjoint
<1>5. CASE Unlink(p)
  BY <1>5 DEF Unlink
<1>6. CASE Scan(p)
  BY <1>6 DEF Scan, Abandoned
<1>7. CASE ClearOwner(p) \/ MarkReady(p) \/ MarkDestroying(p) \/ SetOwner(p)
  <2>1. /\ mine[p] \notin orphans /\ mine' = mine
        /\ UNCHANGED <<orphans, linked>>
        /\ \A h \in Headers : h # mine[p] => header'[h] = header[h]
    BY <1>7 DEF ClearOwner, MarkReady, MarkDestroying, SetOwner
  <2> QED
    BY <2>1
<1>8. CASE Link(p)
  BY <1>8 DEF Link
<1>9. CASE AllocateRest(p) \/ AllocationFails(p) \/ Count(p) \/ Construct(p)
            \/ ConstructorThrows(p)
  BY <1>9 DEF AllocateRest, AllocationFails, Count, Construct, ConstructorThrows
<1>10. CASE CountReady(p) \/ Destruct(p) \/ Release(p) \/ Uncount(p) \/ ScanDone(p)
  BY <1>10 DEF CountReady, Destruct, Release, Uncount, ScanDone
<1>11. CASE Free(p)
  BY <1>11 DEF Free
<1> QED
  BY <1>1, <1>2, <1>3, <1>4, <1>5, <1>6, <1>7, <1>8, <1>9, <1>10, <1>11 DEF ProcNext, Step

(* An empty registry satisfies the invariant.                              *)
LEMMA InitIInv == Init => IInv
<1> USE NamedAssumption DEF Init
<1>1. Init => TypeOK
  <2>1. Init => RegistryTypes
    BY DEF RegistryTypes, NoEntry, States
  <2>2. Init => CallTypes
    BY DEF CallTypes, Labels
  <2>3. Init => built \subseteq Headers /\ orphans \subseteq Headers /\ deaths \in 0 .. MaxDeaths
    BY SMT
  <2>4. Init => torn \in BOOLEAN
    BY Zenon
  <2> QED
    BY <2>1, <2>2, <2>3, <2>4 DEF TypeOK, GhostTypes
<1>2. Init => UniqueNames /\ Disjoint /\ LinkedInv /\ OrphanInv
  BY DEF UniqueNames, Disjoint, LinkedInv, OrphanInv
<1>3. Init => \A p \in Pids : ProcInv(p)
  BY DEF ProcInv, Position, Linkage, Stage, Storage, HasLinked, InSection, Between
<1> QED
  BY <1>1, <1>2, <1>3 DEF IInv

(* One step per operation of the registry.                                 *)
LEMMA NextIInv == IInv /\ [Next]_vars => IInv'
<1> SUFFICES ASSUME IInv, [Next]_vars PROVE IInv'
  OBVIOUS
<1>1. CASE UNCHANGED vars
  <2>1. TypeOK'
    BY <1>1 DEF vars, IInv, TypeOK, RegistryTypes, CallTypes, GhostTypes
  <2>2. (UniqueNames /\ Disjoint /\ LinkedInv /\ OrphanInv)'
    BY <1>1 DEF vars, IInv, UniqueNames, Disjoint, LinkedInv, OrphanInv
  <2>3. \A p \in Pids : ProcInv(p)'
    BY <1>1 DEF vars, IInv, ProcInv, Position, Linkage, Stage, Storage
  <2> QED
    BY <2>1, <2>2, <2>3 DEF IInv
<1>2. ASSUME NEW p \in Pids, ProcNext(p) PROVE IInv'
  <2>1. \A q \in Pids : ProcInv(q)'
    BY <1>2, OwnStep, Frame
  <2> QED
    BY <1>2, <2>1, TypeStep, DisjointStep, NamesStep, LinkedStep, OrphanStep DEF IInv
<1> QED
  BY <1>1, <1>2 DEF Next, ProcNext

(* The inductive invariant holds in every state.                           *)
THEOREM Invariant == Spec => []IInv
BY InitIInv, NextIInv, PTL DEF Spec

(***************************************************************************)
(* For any processes, names and deaths, wherever they strike: the registry *)
(* keeps its types, and a name never stands for two objects.               *)
(***************************************************************************)
THEOREM RegistryCorrect == Spec => []RegistryInv
<1>1. IInv => RegistryInv
  BY DEF IInv, RegistryInv
<1> QED
  BY <1>1, Invariant, PTL

(***************************************************************************)
(* The header that construct and destroy carry from one section to the     *)
(* next is still theirs: nobody else destroys, recovers or frees it.       *)
(***************************************************************************)
THEOREM PendingKept == Spec => []PendingHeaderKept
<1>1. IInv => PendingHeaderKept
  <2> SUFFICES ASSUME IInv, NEW p \in Pids, pc[p] \in Between
               PROVE  /\ mine[p] \in linked
                      /\ header[mine[p]].owner = p
                      /\ header[mine[p]].state # "ready"
                      /\ blocks[mine[p]] = Pieces
                      /\ \A q \in Pids : mine[q] = mine[p] => q = p
    BY DEF PendingHeaderKept
  <2>1. ProcInv(p) /\ LinkedInv /\ Disjoint
    BY DEF IInv
  <2>2. mine[p] # NoHeader
    BY <2>1 DEF ProcInv, Position, Between
  <2> QED
    BY <2>1, <2>2 DEF ProcInv, Linkage, Stage, LinkedInv, Disjoint, HasLinked
<1> QED
  BY <1>1, Invariant, PTL

(***************************************************************************)
(* deallocate_named_storage_unlocked never frees what is already free or   *)
(* still in the registry.                                                  *)
(***************************************************************************)
THEOREM NoDoubleFree == Spec => []FreedOnce
<1>1. IInv => FreedOnce
  BY DEF IInv, FreedOnce, ProcInv, Linkage, Storage
<1> QED
  BY <1>1, Invariant, PTL

(***************************************************************************)
(* find returns only objects that are constructed and allocated.           *)
(***************************************************************************)
THEOREM ReadyWhole == Spec => []ReadyIsWhole
<1>1. IInv => ReadyIsWhole
  BY DEF IInv, ReadyIsWhole, LinkedInv
<1> QED
  BY <1>1, Invariant, PTL

(***************************************************************************)
(* An open that has scanned the registry leaves nothing of a dead process  *)
(* in it, unless its pid belongs to a live process again.                  *)
(***************************************************************************)
THEOREM RecoveryComplete == Spec => OpenCleans
<1>1. ASSUME IInv, [Next]_vars, NEW p \in Pids, pc[p] = "scan", pc'[p] = "idle",
             NEW h \in orphans
      PROVE  is_process_alive(header[h].owner)
  <2>1. TypeOK /\ OrphanInv /\ h \in Headers
    BY <1>1 DEF IInv, TypeOK, GhostTypes
  <2>2. PICK q \in Pids : ProcNext(q)
    BY <1>1 DEF Next, ProcNext, vars
  <2>3. q = p
    BY <1>1, <2>1, <2>2, OthersStep DEF OthersStay
  <2>4. ScanDone(p)
    BY <1>1, <2>1, <2>2, <2>3
       DEF ProcNext, Step, Reserve, Destroy, Open, Die, Reuse, Enter, Goto, AllocateRest,
           AllocationFails, Link, Count, Construct, ConstructorThrows, ClearOwner, MarkReady,
           CountReady, MarkDestroying, SetOwner, Destruct, Release, Unlink, Uncount, Free, Scan,
           TypeOK, CallTypes
  <2> QED
    BY <2>1, <2>4 DEF ScanDone, Abandoned, OrphanInv
<1>2. IInv /\ [Next]_vars =>
        [\A p \in Pids :
           pc[p] = "scan" /\ pc'[p] = "idle" =>
             \A h \in orphans : is_process_alive(header[h].owner)]_vars
  BY <1>1
<1> QED
  BY <1>2, Invariant, PTL DEF Spec, OpenCleans

----------------------------------------------------------------------------
(* The counters and the storage.                                           *)

(* A process that is not in a section leaves the books as they are.        *)
LEMMA CleanOutside ==
  ASSUME IInv, CleanInv, NEW p \in Pids, ProcNext(p), lock # p, lock' = lock,
         ~torn' => ~torn,
         UNCHANGED <<header, linked, blocks, total_count, ready_count>>
  PROVE  CleanInv'
<1>1. OthersStay(p) /\ (lock # Nobody => lock \in Pids)
  BY OthersStep DEF IInv, TypeOK, CallTypes
<1>2. TotalDue' = TotalDue /\ ReadyDue' = ReadyDue
  BY <1>1 DEF TotalDue, ReadyDue, OthersStay
<1>3. Ready' = Ready
  BY DEF Ready
<1>4. Accounted => Accounted'
  BY <1>1 DEF Accounted, OthersStay
<1>5. torn' \in BOOLEAN
  BY TypeStep DEF TypeOK, GhostTypes
<1> QED
  BY <1>2, <1>3, <1>4, <1>5 DEF CleanInv

(* Nor does entering a section, or a step in it, that changes neither the  *)
(* headers nor the counters.                                               *)
LEMMA ReadyKept ==
  ASSUME linked' = linked, \A h \in linked : header'[h].state = header[h].state
  PROVE  Ready' = Ready
BY DEF Ready

(* An element that joins a finite set, or leaves it, changes its size by   *)
(* one.                                                                    *)
LEMMA JoinSize ==
  ASSUME NEW S, IsFiniteSet(S), NEW x, x \notin S
  PROVE  /\ IsFiniteSet(S \cup {x}) /\ Cardinality(S) \in Nat
         /\ Cardinality(S \cup {x}) = Cardinality(S) + 1
BY FS_AddElement, FS_CardinalityType

(* Taking an element out of a finite set makes it smaller by one.          *)
LEMMA LeaveSize ==
  ASSUME NEW S, IsFiniteSet(S), NEW x \in S
  PROVE  /\ IsFiniteSet(S \ {x}) /\ Cardinality(S) \in Nat
         /\ Cardinality(S) > 0 /\ Cardinality(S \ {x}) = Cardinality(S) - 1
<1>1. IsFiniteSet(S \ {x}) /\ Cardinality(S \ {x}) = Cardinality(S) - 1
  BY FS_RemoveElement
<1>2. Cardinality(S) \in Nat /\ Cardinality(S \ {x}) \in Nat
  BY <1>1, FS_CardinalityType
<1> QED
  BY <1>1, <1>2

(* The ready headers are finitely many.                                    *)
LEMMA ReadyFinite ==
  ASSUME IsFiniteSet(linked)
  PROVE  IsFiniteSet(Ready) /\ Cardinality(Ready) \in Nat /\ Cardinality(linked) \in Nat
<1>1. Ready \subseteq linked
  BY DEF Ready
<1> QED
  BY <1>1, FS_Subset, FS_CardinalityType

(* Books that are right before a step are right after it, if the step      *)
(* changes the sizes and the counters alike.                               *)
LEMMA CleanStep ==
  ASSUME IInv, CleanInv, NEW p \in Pids, ProcNext(p)
  PROVE  CleanInv'
<1>0. /\ TypeOK /\ RegistryTypes /\ CallTypes /\ LinkedInv /\ IsFiniteSet(linked)
      /\ Position(p) /\ Linkage(p) /\ Stage(p)
      /\ p # Nobody /\ IsFiniteSet(Ready) /\ Cardinality(Ready) \in Nat
      /\ Cardinality(linked) \in Nat /\ total_count \in Nat /\ ready_count \in Nat
  BY ReadyFinite, NamedAssumption DEF IInv, ProcInv, TypeOK, RegistryTypes, CleanInv
<1> USE <1>0 DEF CallTypes, Goto, Leave, Enter, ghosts, registry
<1>1. CASE Construct(p) \/ ConstructorThrows(p) \/ Destruct(p) \/ Reuse(p)
  <2>1. lock # p
    BY <1>1 DEF Construct, ConstructorThrows, Destruct, Reuse, Position, InSection
  <2>2. /\ lock' = lock /\ torn' = torn
        /\ UNCHANGED <<header, linked, blocks, total_count, ready_count>>
    BY <1>1 DEF Construct, ConstructorThrows, Destruct, Reuse
  <2> QED
    BY <2>1, <2>2, CleanOutside
<1>2. CASE Die(p)
  <2>1. CASE lock = p
    BY <1>2, <2>1 DEF Die, CleanInv
  <2>2. CASE lock # p
    <3>1. lock' = lock /\ UNCHANGED <<header, linked, blocks, total_count, ready_count>>
      BY <1>2, <2>2 DEF Die
    <3>2. ~torn' => ~torn
      BY <1>2, Zenon DEF Die
    <3> QED
      BY <3>1, <3>2, <2>2, CleanOutside
  <2> QED
    BY <2>1, <2>2
<1>3. ASSUME NEW n \in Names, NEW h \in Headers, Reserve(p, n, h) PROVE CleanInv'
  <2>1. h \notin linked
    BY <1>3, FreeIsUnlinked DEF Reserve
  <2>2. /\ lock = Nobody /\ lock' = p /\ pc'[p] = "allocate" /\ mine'[p] = h
        /\ UNCHANGED <<linked, total_count, ready_count, torn>>
        /\ \A g \in Headers \ {h} : header'[g] = header[g] /\ blocks'[g] = blocks[g]
    BY <1>3 DEF Reserve, RegistryTypes
  <2>3. Ready' = Ready
    BY <2>1, <2>2, ReadyKept DEF RegistryTypes
  <2>4. Accounted => Accounted'
    BY <2>2, NamedAssumption DEF Accounted
  <2> QED
    BY <2>2, <2>3, <2>4 DEF CleanInv, TotalDue, ReadyDue
<1>4. ASSUME NEW n \in Names, Destroy(p, n) PROVE CleanInv'
  <2>1. /\ lock = Nobody /\ lock' = p /\ pc'[p] = "mark_destroying"
        /\ UNCHANGED <<header, blocks, linked, total_count, torn>>
        /\ ready_count' = (IF ready_count > 0 THEN ready_count - 1 ELSE 0)
        /\ Ready # {}
    BY <1>4 DEF Destroy, find_ready, find_any, Ready
  <2>2. Cardinality(Ready) > 0
    BY <2>1, LeaveSize
  <2>3. Ready' = Ready
    BY <2>1 DEF Ready
  <2>4. Accounted => Accounted'
    BY <2>1, NamedAssumption DEF Accounted
  <2> QED
    BY <2>1, <2>2, <2>3, <2>4 DEF CleanInv, TotalDue, ReadyDue
<1>5. CASE Open(p) \/ Release(p)
  <2>1. /\ lock = Nobody /\ lock' = p /\ pc'[p] \in {"scan", "unlink"}
        /\ UNCHANGED <<header, blocks, linked, total_count, ready_count, torn>>
    BY <1>5 DEF Open, Release
  <2>2. Ready' = Ready
    BY <2>1 DEF Ready
  <2>3. Accounted => Accounted'
    BY <2>1, NamedAssumption DEF Accounted
  <2> QED
    BY <2>1, <2>2, <2>3 DEF CleanInv, TotalDue, ReadyDue
<1>6. CASE ClearOwner(p)
  <2>1. /\ lock = Nobody /\ lock' = p /\ pc'[p] = "mark_ready"
        /\ UNCHANGED <<blocks, linked, total_count, ready_count, torn>>
        /\ \A g \in Headers : header'[g].state = header[g].state
    BY <1>6 DEF ClearOwner, RegistryTypes
  <2>2. Ready' = Ready
    BY <2>1, ReadyKept DEF RegistryTypes
  <2>3. Accounted => Accounted'
    BY <2>1, NamedAssumption DEF Accounted
  <2> QED
    BY <2>1, <2>2, <2>3 DEF CleanInv, TotalDue, ReadyDue
<1>7. CASE AllocateRest(p) \/ AllocationFails(p)
  <2>1. /\ lock = p /\ lock' = p /\ pc[p] = "allocate" /\ mine' = mine
        /\ pc'[p] \in {"allocate", "link", "free"}
        /\ UNCHANGED <<header, linked, total_count, ready_count, torn>>
        /\ \A g \in Headers : g # mine[p] => blocks'[g] = blocks[g]
    BY <1>7 DEF AllocateRest, AllocationFails, RegistryTypes, Position, InSection
  <2>2. Ready' = Ready
    BY <2>1 DEF Ready
  <2>3. Accounted => Accounted'
    BY <2>1 DEF Accounted
  <2> QED
    BY <2>1, <2>2, <2>3 DEF CleanInv, TotalDue, ReadyDue
<1>8. CASE Link(p)
  <2>1. /\ lock = p /\ lock' = p /\ pc[p] = "link" /\ pc'[p] = "count" /\ mine' = mine
        /\ mine[p] \notin linked /\ linked' = linked \cup {mine[p]}
        /\ header[mine[p]].state # "ready"
        /\ UNCHANGED <<header, blocks, total_count, ready_count, torn>>
    BY <1>8 DEF Link, Position, InSection, Linkage, Stage
  <2>2. Ready' = Ready
    BY <2>1 DEF Ready
  <2>3. Accounted => Accounted'
    BY <2>1 DEF Accounted
  <2>4. IsFiniteSet(linked') /\ Cardinality(linked') = Cardinality(linked) + 1
    BY <2>1, JoinSize
  <2> QED
    BY <2>1, <2>2, <2>3, <2>4 DEF CleanInv, TotalDue, ReadyDue
<1>9. CASE Count(p)
  <2>1. /\ lock = p /\ lock' = Nobody /\ pc[p] = "count" /\ mine[p] \in linked
        /\ total_count' = total_count + 1
        /\ UNCHANGED <<header, blocks, linked, ready_count, torn>>
    BY <1>9 DEF Count, Position, InSection, Linkage, HasLinked
  <2>2. Ready' = Ready
    BY <2>1 DEF Ready
  <2>3. Accounted => Accounted'
    BY <2>1 DEF Accounted
  <2> QED
    BY <2>1, <2>2, <2>3 DEF CleanInv, TotalDue, ReadyDue
<1>10. CASE MarkReady(p)
  <2>1. /\ lock = p /\ lock' = p /\ pc[p] = "mark_ready" /\ pc'[p] = "count_ready"
        /\ mine[p] \in linked /\ header[mine[p]].state # "ready" /\ mine' = mine
        /\ header'[mine[p]].state = "ready"
        /\ \A g \in Headers : g # mine[p] => header'[g] = header[g]
        /\ UNCHANGED <<blocks, linked, total_count, ready_count, torn>>
    BY <1>10 DEF MarkReady, RegistryTypes, Position, InSection, Linkage, HasLinked, Stage
  <2>2. Ready' = Ready \cup {mine[p]} /\ mine[p] \notin Ready
    BY <2>1 DEF Ready, RegistryTypes
  <2>3. Cardinality(Ready') = Cardinality(Ready) + 1
    BY <2>2, JoinSize
  <2>4. Accounted => Accounted'
    BY <2>1 DEF Accounted
  <2> QED
    BY <2>1, <2>3, <2>4 DEF CleanInv, TotalDue, ReadyDue
<1>11. CASE CountReady(p)
  <2>1. /\ lock = p /\ lock' = Nobody /\ pc[p] = "count_ready" /\ mine[p] \in linked
        /\ ready_count' = ready_count + 1
        /\ UNCHANGED <<header, blocks, linked, total_count, torn>>
    BY <1>11 DEF CountReady, Position, InSection, Linkage, HasLinked
  <2>2. Ready' = Ready
    BY <2>1 DEF Ready
  <2>3. Accounted => Accounted'
    BY <2>1 DEF Accounted
  <2> QED
    BY <2>1, <2>2, <2>3 DEF CleanInv, TotalDue, ReadyDue
<1>12. CASE MarkDestroying(p)
  <2>1. /\ lock = p /\ lock' = p /\ pc[p] = "mark_destroying" /\ pc'[p] = "set_owner"
        /\ mine[p] \in linked /\ header[mine[p]].state = "ready" /\ mine' = mine
        /\ header'[mine[p]].state = "destroying"
        /\ \A g \in Headers : g # mine[p] => header'[g] = header[g]
        /\ UNCHANGED <<blocks, linked, total_count, ready_count, torn>>
    BY <1>12 DEF MarkDestroying, RegistryTypes, Position, InSection, Linkage, HasLinked, Stage
  <2>2. Ready' = Ready \ {mine[p]} /\ mine[p] \in Ready
    BY <2>1 DEF Ready, RegistryTypes
  <2>3. Cardinality(Ready') = Cardinality(Ready) - 1
    BY <2>2, LeaveSize
  <2>4. Accounted => Accounted'
    BY <2>1 DEF Accounted
  <2> QED
    BY <2>1, <2>3, <2>4 DEF CleanInv, TotalDue, ReadyDue
<1>13. CASE SetOwner(p)
  <2>1. /\ lock = p /\ lock' = Nobody /\ pc[p] = "set_owner" /\ mine[p] \in linked
        /\ \A g \in Headers : header'[g].state = header[g].state
        /\ UNCHANGED <<blocks, linked, total_count, ready_count, torn>>
    BY <1>13 DEF SetOwner, RegistryTypes, Position, InSection, Linkage, HasLinked
  <2>2. Ready' = Ready
    BY <2>1, ReadyKept DEF RegistryTypes
  <2>3. Accounted => Accounted'
    BY <2>1 DEF Accounted
  <2> QED
    BY <2>1, <2>2, <2>3 DEF CleanInv, TotalDue, ReadyDue
<1>14. CASE Unlink(p)
  <2>1. /\ lock = p /\ lock' = p /\ pc[p] = "unlink" /\ mine[p] \in linked /\ mine' = mine
        /\ pc'[p] = "uncount" /\ linked' = linked \ {mine[p]}
        /\ header[mine[p]].state # "ready"
        /\ UNCHANGED <<header, blocks, total_count, ready_count, torn>>
    BY <1>14 DEF Unlink, Position, InSection, Linkage, HasLinked, Stage
  <2>2. Ready' = Ready
    BY <2>1 DEF Ready
  <2>3. Accounted => Accounted'
    BY <2>1 DEF Accounted
  <2>4. IsFiniteSet(linked') /\ Cardinality(linked') = Cardinality(linked) - 1
    BY <2>1, LeaveSize
  <2> QED
    BY <2>1, <2>2, <2>3, <2>4 DEF CleanInv, TotalDue, ReadyDue
<1>15. CASE Uncount(p)
  <2>1. /\ lock = p /\ lock' = p /\ pc[p] = "uncount" /\ pc'[p] = "free" /\ mine' = mine
        /\ ready_count' = ready_count
        /\ total_count' = (IF total_count > 0 THEN total_count - 1 ELSE 0)
        /\ UNCHANGED <<header, blocks, linked, torn>>
    BY <1>15 DEF Uncount, Position, InSection, Stage
  <2>2. Ready' = Ready
    BY <2>1 DEF Ready
  <2>3. Accounted => Accounted'
    BY <2>1 DEF Accounted
  <2> QED
    BY <2>1, <2>2, <2>3 DEF CleanInv, TotalDue, ReadyDue
<1>16. CASE Free(p)
  <2>1. /\ lock = p /\ pc[p] = "free"
        /\ UNCHANGED <<header, linked, total_count, ready_count, torn>>
        /\ \A g \in Headers : g # mine[p] => blocks'[g] = blocks[g]
        /\ \/ lock' = p /\ pc'[p] = "free" /\ mine' = mine
           \/ lock' = p /\ pc'[p] = "scan" /\ blocks'[mine[p]] = {}
           \/ lock' = Nobody /\ blocks'[mine[p]] = {}
    BY <1>16 DEF Free, RegistryTypes, Position, InSection
  <2>2. Ready' = Ready
    BY <2>1 DEF Ready
  <2>3. Accounted => Accounted'
    BY <2>1 DEF Accounted
  <2> QED
    BY <2>1, <2>2, <2>3 DEF CleanInv, TotalDue, ReadyDue
<1>17. CASE Scan(p) \/ ScanDone(p)
  <2>1. /\ lock = p /\ pc[p] = "scan" /\ mine[p] = NoHeader
        /\ UNCHANGED <<header, blocks, linked, total_count, ready_count, torn>>
        /\ (lock' = p /\ pc'[p] = "unlink") \/ lock' = Nobody
    BY <1>17 DEF Scan, ScanDone, Position, InSection
  <2>2. Ready' = Ready
    BY <2>1 DEF Ready
  <2>3. Accounted => Accounted'
    BY <2>1, NamedAssumption DEF Accounted
  <2> QED
    BY <2>1, <2>2, <2>3 DEF CleanInv, TotalDue, ReadyDue
<1> QED
  BY <1>1, <1>2, <1>3, <1>4, <1>5, <1>6, <1>7, <1>8, <1>9, <1>10, <1>11, <1>12, <1>13, <1>14,
     <1>15, <1>16, <1>17 DEF ProcNext, Step

(***************************************************************************)
(* Deaths outside of the sections, however many, leave total_count and     *)
(* ready_count right and every allocation within reach of the registry.    *)
(***************************************************************************)
THEOREM CleanUnlessTorn == Spec => []UntornIsClean
<1>1. Init => CleanInv
  <2>1. Init => Ready = {} /\ linked = {}
    BY DEF Init, Ready
  <2> QED
    BY <2>1, FS_EmptySet DEF Init, CleanInv, Accounted, TotalDue, ReadyDue
<1>2. IInv /\ CleanInv /\ [Next]_vars => CleanInv'
  <2>1. CASE UNCHANGED vars
    BY <2>1 DEF vars, CleanInv, Accounted, TotalDue, ReadyDue, Ready
  <2>2. CASE Next
    BY <2>2, CleanStep DEF Next, ProcNext
  <2> QED
    BY <2>1, <2>2
<1>3. IInv /\ CleanInv => UntornIsClean
  <2> SUFFICES ASSUME IInv, CleanInv, ~torn, lock = Nobody
               PROVE  /\ total_count = Cardinality(linked)
                      /\ ready_count = Cardinality(Ready)
                      /\ \A h \in Headers : blocks[h] # {} => h \in linked
    BY DEF UntornIsClean, CountsMatch, StorageReachable, Ready
  <2> QED
    BY NamedAssumption
       DEF IInv, TypeOK, RegistryTypes, CleanInv, Accounted, TotalDue, ReadyDue
<1> QED
  BY <1>1, <1>2, <1>3, Invariant, PTL DEF Spec
=============================================================================
