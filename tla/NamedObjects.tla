---------------------------- MODULE NamedObjects ----------------------------
(***************************************************************************)
(* Named objects: SharedMemoryManager::construct, destroy, find and        *)
(* recover_abandoned_named_objects over the NamedObjectRegistry.           *)
(*                                                                         *)
(* A header takes its name under the manager's lock in state constructing; *)
(* the constructor of the object then runs without the lock, and a second  *)
(* section makes the header ready.  Destroying is the mirror image.  The   *)
(* pid in the header tells an object under construction from one that its  *)
(* maker did not live to finish; the next process to open the segment      *)
(* removes the latter.                                                     *)
(*                                                                         *)
(* Sections are taken apart into their stores, because a process may die   *)
(* between two of them.  The lock is the one of module ManagerLock: it     *)
(* excludes, and a death inside a section passes it on, the heap being     *)
(* sane after each call of the allocator.  A header and the two blocks it  *)
(* points to are one identity; how the 64 buckets chain headers is left    *)
(* out, and a call that finds the name taken, absent or of another type    *)
(* changes nothing.                                                        *)
(***************************************************************************)
EXTENDS Integers, FiniteSets

CONSTANTS
  Pids,     (* processes, by pid                                           *)
  Names,    (* names of objects                                            *)
  Headers,  (* addresses at which a header can be allocated                *)
  Nobody,   (* pid 0                                                       *)
  NoHeader, (* nullptr                                                     *)
  PidReuse, (* the system hands the pid of a dead process out again        *)
  MaxDeaths (* bound: how often a process dies                             *)

ASSUME NamedAssumption ==
  /\ Nobody \notin Pids
  /\ NoHeader \notin Headers
  /\ PidReuse \in BOOLEAN
  /\ MaxDeaths \in Nat

VARIABLES
  lock,        (* the process inside a section of the manager              *)
  header,      (* NamedObjectHeader at each address                        *)
  linked,      (* the headers in the buckets of the registry               *)
  blocks,      (* which of a header's three allocations are allocated      *)
  total_count, (* NamedObjectRegistry::total_count                         *)
  ready_count, (* NamedObjectRegistry::ready_count                         *)
  pc,          (* where each process is                                    *)
  mine,        (* the header it works on                                   *)
  opening,     (* it is in recover_abandoned_named_objects                 *)
  built,       (* ghost: headers whose object is fully constructed         *)
  orphans,     (* ghost: unready headers whose maker died                  *)
  deaths,      (* how many deaths there were                               *)
  torn         (* ghost: a process died inside a section                   *)

registry == <<header, linked, total_count, ready_count>>
ghosts == <<built, orphans, deaths, torn>>
vars == <<lock, header, linked, blocks, total_count, ready_count, pc, mine,
          opening, built, orphans, deaths, torn>>

Pieces == {"object", "header", "name"}
States == {"constructing", "ready", "destroying"}

NoEntry == [name |-> "none", state |-> "constructing", owner |-> Nobody]

Goto(p, label) == pc' = [pc EXCEPT ![p] = label]

(* A section ends: the lock is free again.                                 *)
Leave(p, label) == lock' = Nobody /\ Goto(p, label)

Enter(p, from) == pc[p] = from /\ lock = Nobody /\ lock' = p

(* Mutant: only ready objects count as holders of their name.              *)
find_any_ready_only(n) ==
  {h \in linked : header[h].name = n /\ header[h].state = "ready"}

find_any(n) == {h \in linked : header[h].name = n}

(* Mutant: the state of the object is not looked at.                       *)
find_ready_any_state(n) == find_any(n)

find_ready(n) == {h \in find_any(n) : header[h].state = "ready"}

(* Mutant: an error of kill is taken for the death of the process.         *)
is_process_alive_never(pid) == FALSE

(* kill(pid, 0): pid 0 stands for no process.                              *)
is_process_alive(pid) == pid # Nobody /\ pc[pid] # "dead"

----------------------------------------------------------------------------
(* reserve_named_storage                                                   *)

(* The name is free.  The three allocations follow, the object's first.    *)
Reserve(p, n, h) ==
  /\ Enter(p, "idle")
  /\ find_any(n) = {}
  /\ blocks[h] = {}
  /\ mine' = [mine EXCEPT ![p] = h]
  /\ header' = [header EXCEPT ![h] = [name |-> n, state |-> "constructing", owner |-> p]]
  /\ blocks' = [blocks EXCEPT ![h] = {"object"}]
  /\ Goto(p, "allocate")
  /\ UNCHANGED <<linked, total_count, ready_count, opening, ghosts>>

AllocateRest(p) ==
  /\ pc[p] = "allocate"
  /\ LET h == mine[p]
     IN  \/ /\ "header" \notin blocks[h]
            /\ blocks' = [blocks EXCEPT ![h] = @ \cup {"header"}]
            /\ Goto(p, "allocate")
         \/ /\ "header" \in blocks[h]
            /\ blocks' = [blocks EXCEPT ![h] = @ \cup {"name"}]
            /\ Goto(p, "link")
  /\ UNCHANGED <<lock, registry, mine, opening, ghosts>>

(* Mutant: the exception leaves the section at once.                       *)
AllocationFails_leaks(p) ==
  /\ pc[p] = "allocate"
  /\ mine' = [mine EXCEPT ![p] = NoHeader]
  /\ Leave(p, "idle")
  /\ UNCHANGED <<registry, blocks, opening, ghosts>>

(* bad_alloc: what was allocated is freed before it is rethrown.           *)
AllocationFails(p) ==
  /\ pc[p] = "allocate"
  /\ Goto(p, "free")
  /\ UNCHANGED <<lock, registry, blocks, mine, opening, ghosts>>

(* NamedObjectRegistry::insert, as its two stores.                         *)
Link(p) ==
  /\ pc[p] = "link"
  /\ linked' = linked \cup {mine[p]}
  /\ Goto(p, "count")
  /\ UNCHANGED <<lock, header, blocks, total_count, ready_count, mine, opening, ghosts>>

Count(p) ==
  /\ pc[p] = "count"
  /\ total_count' = total_count + 1
  /\ Leave(p, "construct")
  /\ UNCHANGED <<header, linked, blocks, ready_count, mine, opening, ghosts>>

----------------------------------------------------------------------------
(* construct, find_or_construct, construct_array                           *)

(* The constructor runs outside of any section.                            *)
Construct(p) ==
  /\ pc[p] = "construct"
  /\ built' = built \cup {mine[p]}
  /\ Goto(p, "constructed")
  /\ UNCHANGED <<lock, registry, blocks, mine, opening, orphans, deaths, torn>>

ConstructorThrows(p) ==
  /\ pc[p] = "construct"
  /\ Goto(p, "release")
  /\ UNCHANGED <<lock, registry, blocks, mine, opening, ghosts>>

(* mark_named_object_ready                                                 *)
ClearOwner(p) ==
  /\ Enter(p, "constructed")
  /\ header' = [header EXCEPT ![mine[p]].owner = Nobody]
  /\ Goto(p, "mark_ready")
  /\ UNCHANGED <<linked, blocks, total_count, ready_count, mine, opening, ghosts>>

MarkReady(p) ==
  /\ pc[p] = "mark_ready"
  /\ header' = [header EXCEPT ![mine[p]].state = "ready"]
  /\ Goto(p, "count_ready")
  /\ UNCHANGED <<lock, linked, blocks, total_count, ready_count, mine, opening, ghosts>>

CountReady(p) ==
  /\ pc[p] = "count_ready"
  /\ ready_count' = ready_count + 1
  /\ mine' = [mine EXCEPT ![p] = NoHeader]
  /\ Leave(p, "idle")
  /\ UNCHANGED <<header, linked, blocks, total_count, opening, ghosts>>

----------------------------------------------------------------------------
(* destroy and destroy_ptr: the two find the same header                   *)

(* mark_not_ready, first store.                                            *)
Destroy(p, n) ==
  /\ Enter(p, "idle")
  /\ \E h \in find_ready(n) : mine' = [mine EXCEPT ![p] = h]
  /\ ready_count' = IF ready_count > 0 THEN ready_count - 1 ELSE 0
  /\ Goto(p, "mark_destroying")
  /\ UNCHANGED <<header, linked, blocks, total_count, opening, ghosts>>

(* Mutant: the object stays ready while it is destroyed.                   *)
MarkDestroying_omitted(p) ==
  /\ pc[p] = "mark_destroying"
  /\ Goto(p, "set_owner")
  /\ UNCHANGED <<lock, registry, blocks, mine, opening, ghosts>>

MarkDestroying(p) ==
  /\ pc[p] = "mark_destroying"
  /\ header' = [header EXCEPT ![mine[p]].state = "destroying"]
  /\ Goto(p, "set_owner")
  /\ UNCHANGED <<lock, linked, blocks, total_count, ready_count, mine, opening, ghosts>>

SetOwner(p) ==
  /\ pc[p] = "set_owner"
  /\ header' = [header EXCEPT ![mine[p]].owner = p]
  /\ Leave(p, "destruct")
  /\ UNCHANGED <<linked, blocks, total_count, ready_count, mine, opening, ghosts>>

(* destroy_constructed_range, outside of any section.                      *)
Destruct(p) ==
  /\ pc[p] = "destruct"
  /\ built' = built \ {mine[p]}
  /\ Goto(p, "release")
  /\ UNCHANGED <<lock, registry, blocks, mine, opening, orphans, deaths, torn>>

----------------------------------------------------------------------------
(* deallocate_named_storage_unlocked, reached from release_failed_construction, *)
(* destroy_reserved_object and recover_abandoned_named_objects              *)

Release(p) ==
  /\ Enter(p, "release")
  /\ Goto(p, "unlink")
  /\ UNCHANGED <<registry, blocks, mine, opening, ghosts>>

(* NamedObjectRegistry::unlink: out of the chain, then the counts.         *)
Unlink(p) ==
  /\ pc[p] = "unlink"
  /\ linked' = linked \ {mine[p]}
  /\ orphans' = orphans \ {mine[p]}
  /\ Goto(p, IF mine[p] \in linked THEN "uncount" ELSE "free")
  /\ UNCHANGED <<lock, header, blocks, total_count, ready_count, mine, opening,
                 built, deaths, torn>>

Uncount(p) ==
  /\ pc[p] = "uncount"
  /\ ready_count' = IF header[mine[p]].state = "ready" /\ ready_count > 0
                    THEN ready_count - 1 ELSE ready_count
  /\ total_count' = IF total_count > 0 THEN total_count - 1 ELSE 0
  /\ Goto(p, "free")
  /\ UNCHANGED <<lock, header, linked, blocks, mine, opening, ghosts>>

(* The name, the header and the object are freed, in this order.           *)
NextToFree(h) ==
  IF "name" \in blocks[h] THEN "name"
  ELSE IF "header" \in blocks[h] THEN "header" ELSE "object"

Free(p) ==
  LET h == mine[p]
  IN  /\ pc[p] = "free"
      /\ blocks' = [blocks EXCEPT ![h] = @ \ {NextToFree(h)}]
      /\ IF blocks'[h] # {}
         THEN UNCHANGED <<lock, pc, mine, built>>
         ELSE /\ mine' = [mine EXCEPT ![p] = NoHeader]
              /\ built' = built \ {h}
              /\ IF opening[p]
                 THEN Goto(p, "scan") /\ UNCHANGED lock
                 ELSE Leave(p, "idle")
      /\ UNCHANGED <<registry, opening, orphans, deaths, torn>>

----------------------------------------------------------------------------
(* recover_abandoned_named_objects, called when the segment is opened      *)

Open(p) ==
  /\ Enter(p, "idle")
  /\ opening' = [opening EXCEPT ![p] = TRUE]
  /\ Goto(p, "scan")
  /\ UNCHANGED <<registry, blocks, mine, ghosts>>

(* Mutant: objects under destruction are not looked for.                   *)
Abandoned_constructing_only(h) ==
  /\ h \in linked
  /\ header[h].state = "constructing"
  /\ ~is_process_alive(header[h].owner)

Abandoned(h) ==
  /\ h \in linked
  /\ header[h].state # "ready"
  /\ ~is_process_alive(header[h].owner)

Scan(p) ==
  /\ pc[p] = "scan"
  /\ \E h \in Headers :
       /\ Abandoned(h)
       /\ mine' = [mine EXCEPT ![p] = h]
  /\ Goto(p, "unlink")
  /\ UNCHANGED <<lock, registry, blocks, opening, ghosts>>

ScanDone(p) ==
  /\ pc[p] = "scan"
  /\ \A h \in Headers : ~Abandoned(h)
  /\ opening' = [opening EXCEPT ![p] = FALSE]
  /\ Leave(p, "idle")
  /\ UNCHANGED <<registry, blocks, mine, ghosts>>

----------------------------------------------------------------------------
(* Death, and the system giving the pid to a new process.                  *)

(* Sections run from the acquisition of the lock to its release, so a      *)
(* process that dies with the lock has left a section half done.           *)
Die(p) ==
  /\ pc[p] # "dead"
  /\ deaths < MaxDeaths
  /\ deaths' = deaths + 1
  /\ torn' = (torn \/ lock = p)
  /\ lock' = IF lock = p THEN Nobody ELSE lock
  /\ orphans' = orphans \cup {h \in linked : h = mine[p] /\ header[h].state # "ready"}
  /\ opening' = [opening EXCEPT ![p] = FALSE]
  /\ mine' = [mine EXCEPT ![p] = NoHeader]
  /\ Goto(p, "dead")
  /\ UNCHANGED <<registry, blocks, built>>

Reuse(p) ==
  /\ PidReuse
  /\ pc[p] = "dead"
  /\ Goto(p, "idle")
  /\ UNCHANGED <<lock, registry, blocks, mine, opening, ghosts>>

----------------------------------------------------------------------------
Init ==
  /\ lock = Nobody
  /\ header = [h \in Headers |-> NoEntry]
  /\ linked = {}
  /\ blocks = [h \in Headers |-> {}]
  /\ total_count = 0
  /\ ready_count = 0
  /\ pc = [p \in Pids |-> "idle"]
  /\ mine = [p \in Pids |-> NoHeader]
  /\ opening = [p \in Pids |-> FALSE]
  /\ built = {}
  /\ orphans = {}
  /\ deaths = 0
  /\ torn = FALSE

(* The steps of a call that has begun.                                     *)
Step(p) ==
  \/ AllocateRest(p) \/ AllocationFails(p) \/ Link(p) \/ Count(p)
  \/ Construct(p) \/ ConstructorThrows(p)
  \/ ClearOwner(p) \/ MarkReady(p) \/ CountReady(p)
  \/ MarkDestroying(p) \/ SetOwner(p) \/ Destruct(p)
  \/ Release(p) \/ Unlink(p) \/ Uncount(p) \/ Free(p)
  \/ Scan(p) \/ ScanDone(p)

Next ==
  \E p \in Pids :
    \/ \E n \in Names, h \in Headers : Reserve(p, n, h)
    \/ \E n \in Names : Destroy(p, n)
    \/ Open(p)
    \/ Step(p)
    \/ Die(p)
    \/ Reuse(p)

Spec == Init /\ [][Next]_vars

----------------------------------------------------------------------------
(* Properties.                                                             *)

Labels == {"idle", "allocate", "link", "count", "construct", "constructed",
           "mark_ready", "count_ready", "mark_destroying", "set_owner",
           "destruct", "release", "unlink", "uncount", "free", "scan", "dead"}

RegistryTypes ==
  /\ header \in [Headers -> [name : Names \cup {"none"}, state : States,
                             owner : Pids \cup {Nobody}]]
  /\ linked \subseteq Headers
  /\ blocks \in [Headers -> SUBSET Pieces]
  /\ total_count \in Nat
  /\ ready_count \in Nat

CallTypes ==
  /\ lock \in Pids \cup {Nobody}
  /\ pc \in [Pids -> Labels]
  /\ mine \in [Pids -> Headers \cup {NoHeader}]
  /\ opening \in [Pids -> BOOLEAN]

GhostTypes ==
  /\ built \subseteq Headers
  /\ orphans \subseteq Headers
  /\ deaths \in 0 .. MaxDeaths
  /\ torn \in BOOLEAN

(* Every variable has its type.                                            *)
TypeOK == RegistryTypes /\ CallTypes /\ GhostTypes

(* A name stands for one object, also while that object is under           *)
(* construction or destruction: reserve_named_storage looks for any state. *)
UniqueNames ==
  \A g, h \in linked : header[g].name = header[h].name => g = h

(* What the registry is at every step.                                     *)
RegistryInv == TypeOK /\ UniqueNames

(* Labels between the two sections of a call.                              *)
Between == {"construct", "constructed", "destruct", "release"}

(***************************************************************************)
(* Between its two sections a live process keeps its header: nobody        *)
(* recovers it, destroys it or works on it, so the pointer that construct  *)
(* and destroy carry from one section to the next is not stale.            *)
(***************************************************************************)
PendingHeaderKept ==
  \A p \in Pids :
    pc[p] \in Between =>
      /\ mine[p] \in linked
      /\ header[mine[p]].owner = p
      /\ header[mine[p]].state # "ready"
      /\ blocks[mine[p]] = Pieces
      /\ \A q \in Pids : mine[q] = mine[p] => q = p

(* Nothing is freed twice, and nothing that the registry still lists, by   *)
(* the two destroyers, the failed constructor and the recovery.            *)
FreedOnce ==
  \A p \in Pids :
    pc[p] = "free" => blocks[mine[p]] # {} /\ mine[p] \notin linked

(* find returns only objects whose constructor has completed and whose     *)
(* destructor has not begun, with their memory intact.                     *)
ReadyIsWhole ==
  \A h \in linked :
    header[h].state = "ready" => h \in built /\ blocks[h] = Pieces

(* The counters agree with the headers that they count.                    *)
CountsMatch ==
  lock = Nobody =>
    /\ total_count = Cardinality(linked)
    /\ ready_count = Cardinality({h \in linked : header[h].state = "ready"})

(* Every block of a named object can be reached from the registry, so that *)
(* recovery or a destroy can still give it back.                           *)
StorageReachable == lock = Nobody => \A h \in Headers : blocks[h] # {} => h \in linked

(* The same of the objects that a death left in state destroying, whatever *)
(* step of destroy it hit.                                                 *)
DestroyingReachable ==
  lock = Nobody =>
    \A h \in Headers : blocks[h] # {} /\ header[h].state = "destroying" => h \in linked

(* Deaths outside of the sections, however many and in whatever the maker  *)
(* was doing, leave the counters right and leak nothing.                   *)
UntornIsClean == ~torn => CountsMatch /\ StorageReachable

(* When an open has scanned the registry, nothing that a dead process left *)
(* unfinished is in it, whatever step the death hit and however often the  *)
(* recovery itself was cut short before; unless the system has given the   *)
(* pid to another process: is_process_alive cannot tell the two apart.     *)
OpenCleans ==
  [][\A p \in Pids :
       pc[p] = "scan" /\ pc'[p] = "idle" =>
         \A h \in orphans : is_process_alive(header[h].owner)]_vars
=============================================================================
