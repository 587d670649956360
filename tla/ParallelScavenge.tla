-------------------------- MODULE ParallelScavenge --------------------------
(***************************************************************************)
(* Scavenger::ParallelScavenge and the ParallelScavengerTasks it runs,     *)
(* from runtime/vm/heap/scavenger.cc: the live objects of new space are    *)
(* copied to to-space or promoted to old space, by workers that race for   *)
(* the same objects, at a safepoint.  Concurrent marking may be going on.  *)
(*                                                                         *)
(* An object is its original in from-space; place says where its forwarded *)
(* copy is, and updated which of the slots of the copy (or of a root, or   *)
(* of an old object) have been written.  Objects have one size, a page     *)
(* holds PageSize of them.                                                 *)
(***************************************************************************)
EXTENDS WorkSharing, Sequences

CONSTANTS Young,    \* the objects in from-space
          Old,      \* the objects of old space in the store buffer
          Root,     \* the other root slices, a sequence
          Starts,   \* a heap and the value of defined(DEBUG).  A heap has
                    \*   kind, ptr and key as in MarkingSpec; survivor, the
                    \*   candidates for promotion; marking; pages and old,
                    \*   the room in to-space and in old space
          PageSize

ASSUME PageAssumption == PageSize \in Nat \ {0}

Holder == Young \cup Old \cup {Root[s] : s \in DOMAIN Root}
NoOne == 0
ASSUME HolderAssumption == Holder \subseteq Nat \ {NoOne}

VARIABLES
  heap, debug,
  place,          \* of an object: "from", "to" or "old"
  by,             \* the worker that forwarded it
  updated,        \* the slots that have been updated, by their target
  remembered,     \* the old objects in the new store buffer
  blocks_,        \* the old objects still in the old one
  pushed,         \* promoted objects pushed on the marking stack
  cleared,        \* weak objects that were cleared
  root_slices_started_,
  pages,          \* the pages to-space may still allocate
  room,           \* the room in the tail_ page of a worker
  old_room,       \* the room in old space
  copied,         \* the objects a worker copied, in the order of its pages
  resolved_top_,  \* how many of them are resolved
  scanned,        \* the same, in ProcessToSpace's local variable
  holder,         \* the object whose slots a worker visits,
  scan,           \* and the targets of those that are left
  alloc,          \* what a worker has copied and not installed, a sequence
  visiting_old_object_,
  promise,        \* the promoted object to push on the marking stack, a set
  delayed_,
  pending,        \* what ProcessWeakProperties has to look at
  more_to_scavenge,
  abort_

heapVars == <<heap, debug, place, by, updated, remembered, blocks_, pushed, cleared,
              root_slices_started_>>
spaceVars == <<pages, room, old_room, copied>>
scanVars == <<resolved_top_, scanned, holder, scan, alloc, visiting_old_object_, promise>>
weakVars == <<delayed_, pending, more_to_scavenge, abort_>>
vars == <<pc, shareVars, heapVars, spaceVars, scanVars, weakVars>>

Is(o, kind) == heap.kind[o] = kind
M == INSTANCE MarkingSpec
       WITH Obj <- Young, live <- {}, marked <- {}, done <- FALSE

All(x) == [w \in Worker |-> x]

Init ==
  /\ ShareInit
  /\ \E start \in Starts : heap = start[1] /\ debug = start[2]
  /\ place = [o \in Young |-> "from"]
  /\ by = [o \in Young |-> NoOne]
  /\ updated = [h \in Holder |-> {}]
  /\ remembered = {}
  /\ blocks_ = Old
  /\ pushed = {} /\ cleared = {}
  /\ root_slices_started_ = 0
  /\ pages = heap.pages /\ old_room = heap.old
  /\ room = All(0) /\ copied = All(<<>>)
  /\ resolved_top_ = All(0) /\ scanned = All(0)
  /\ holder = All(NoOne) /\ scan = All({}) /\ alloc = All(<<>>)
  /\ visiting_old_object_ = All(NoOne)
  /\ promise = All({}) /\ delayed_ = All({}) /\ pending = All({})
  /\ more_to_scavenge = All(FALSE)
  /\ abort_ = FALSE
  /\ stack = {} /\ local_input_ = All({}) /\ local_output_ = All({})
  /\ pc = [w \in Worker |-> IF w = Main THEN "launch" ELSE "none"]

-----------------------------------------------------------------------------
(* ParallelScavenge starts the helpers, then takes part.                   *)
Launch(w) ==
  /\ pc[Main] = "launch"
  /\ \A v \in Worker : v < w => pc[v] # "none"
  /\ pc[w] \in {"none", "launch"}
  /\ Goto(w, IF w = Main THEN "start" ELSE "queued")
  /\ UNCHANGED <<shareVars, heapVars, spaceVars, scanVars, weakVars>>

Enter(w) ==
  /\ pc[w] = "queued"
  /\ TryEnter(w, "start", "release")
  /\ UNCHANGED <<arrived, num_busy, asleep, blockVars, heapVars, spaceVars, scanVars,
                 weakVars>>

Start(w) ==
  /\ pc[w] = "start"
  /\ num_busy' = num_busy + 1
  /\ Goto(w, "roots")
  /\ UNCHANGED <<barrier, arrived, asleep, blockVars, heapVars, spaceVars, scanVars,
                 weakVars>>

-----------------------------------------------------------------------------
(* ScavengePointer.                                                        *)

Forwarded(o) == place[o] # "from"

(* Mutant: an old object is not remembered for what it refers to.          *)
RemembersNothing(w, where) == {}

(* UpdateStoreBuffer: the old object being visited, when the slot now      *)
(* holds a new object.                                                     *)
Remembers(w, where) ==
  IF where = "to" THEN {visiting_old_object_[w]} \ {NoOne} ELSE {}

(* Mutant: a promoted object is marked only when the marker gets to it.    *)
NotMarkedYet == FALSE

(* OldAndNotMarkedBit::update(!is_marking): a promoted object is marked    *)
(* before its forwarding pointer is installed.                             *)
MarkedWhenPromoted == heap.marking

(* What a concurrent marker may push on the marking stack when it reads    *)
(* the slot that w has just updated, in an old object.                     *)
MarkerPushes(w, t, where) ==
  IF heap.marking /\ where = "old" /\ visiting_old_object_[w] # NoOne /\ ~MarkedWhenPromoted
  THEN {t} ELSE {}

UpdateSlot(w, t, where) ==
  /\ \E S \in SUBSET MarkerPushes(w, t, where) : pushed' = pushed \cup S
  /\ updated' = [updated EXCEPT ![holder[w]] = @ \cup {t}]
  /\ scan' = [scan EXCEPT ![w] = @ \ {t}]
  /\ remembered' = remembered \cup Remembers(w, where)

(* The target has been forwarded: use its new location.                    *)
FollowForwarding(w) ==
  /\ alloc[w] = <<>>
  /\ \E t \in scan[w] : Forwarded(t) /\ UpdateSlot(w, t, place[t])
  /\ UNCHANGED <<pc, shareVars, spaceVars, weakVars, heap, debug, place, by, blocks_,
                 cleared, root_slices_started_, resolved_top_, scanned, holder, alloc,
                 visiting_old_object_, promise>>

(* TryAllocateCopy succeeds.                                               *)
CanCopy(w) == room[w] > 0 \/ pages > 0

CopyRoom(w) ==
  IF room[w] > 0
  THEN room' = [room EXCEPT ![w] = @ - 1] /\ UNCHANGED pages
  ELSE room' = [room EXCEPT ![w] = PageSize - 1] /\ pages' = pages - 1

Candidate(t) == t \in heap.survivor
CanPromote == old_room > 0
CopiesFirst(w, t) == ~Candidate(t) /\ CanCopy(w)

(* ScavengeObject, up to the copy: the header was read and is not a        *)
(* forwarding one.  A promoted object goes on promoted_list_ at once.      *)
CopyObject(w) ==
  /\ alloc[w] = <<>>
  /\ \E t \in scan[w] :
       /\ ~Forwarded(t)
       /\ \/ /\ CopiesFirst(w, t) \/ (~CanPromote /\ CanCopy(w))
             /\ CopyRoom(w)
             /\ alloc' = [alloc EXCEPT ![w] = <<t, "to">>]
             /\ UNCHANGED <<old_room, blockVars, asleep>>
          \/ /\ ~CopiesFirst(w, t)
             /\ CanPromote
             /\ old_room' = old_room - 1
             /\ Push(w, <<t, w>>)
             /\ alloc' = [alloc EXCEPT ![w] = <<t, "old">>]
             /\ UNCHANGED <<pages, room>>
  /\ UNCHANGED <<pc, barrier, arrived, num_busy, heapVars, weakVars, copied,
                 resolved_top_, scanned, holder, scan, visiting_old_object_, promise>>

(* Mutant: the forwarding header is stored without a compare-and-swap.     *)
StoreForwarding(t) == TRUE

(* InstallForwardingPointer: the compare-and-swap succeeds.                *)
Installs(t) == ~Forwarded(t)

(* The loser gives the room in to-space back; in old space it leaves a     *)
(* free list element, and the entry on promoted_list_.                     *)
InstallForwardingPointer(w) ==
  /\ alloc[w] # <<>>
  /\ LET t == alloc[w][1]
         where == alloc[w][2]
     IN  /\ IF Installs(t)
            THEN /\ place' = [place EXCEPT ![t] = where]
                 /\ by' = [by EXCEPT ![t] = w]
                 /\ copied' = IF where = "to"
                              THEN [copied EXCEPT ![w] = Append(@, t)]
                              ELSE copied
                 /\ UNCHANGED room
            ELSE /\ room' = IF where = "to" THEN [room EXCEPT ![w] = @ + 1] ELSE room
                 /\ UNCHANGED <<place, by, copied>>
         /\ UpdateSlot(w, t, place'[t])
  /\ alloc' = [alloc EXCEPT ![w] = <<>>]
  /\ UNCHANGED <<pc, shareVars, weakVars, heap, debug, blocks_, cleared,
                 root_slices_started_, pages, old_room, resolved_top_, scanned, holder, visiting_old_object_, promise>>

(* Where setjmp returns to after AbortScavenge: ProcessRoots and           *)
(* ProcessSurvivors have a LongJumpScope, ProcessWeakProperties has none.  *)
JumpTarget(l) ==
  CASE l \in {"roots", "store_buffer"} -> "to_space"
    [] l \in {"to_space", "promoted"}  -> "idle"
    [] l = "weak"                      -> "no_scope"

(* AbortScavenge: neither space has room.  What the worker was doing is    *)
(* lost with its local variables; visiting_old_object_ stays.              *)
AbortScavenge(w) ==
  /\ alloc[w] = <<>>
  /\ \E t \in scan[w] : ~Forwarded(t)
  /\ ~CanCopy(w) /\ ~CanPromote
  /\ abort_' = TRUE
  /\ scan' = [scan EXCEPT ![w] = {}]
  /\ scanned' = [scanned EXCEPT ![w] = resolved_top_[w]]
  /\ promise' = [promise EXCEPT ![w] = {}]
  /\ pending' = [pending EXCEPT ![w] = {}]
  /\ Goto(w, JumpTarget(pc[w]))
  /\ UNCHANGED <<shareVars, heapVars, spaceVars, resolved_top_, holder, alloc,
                 visiting_old_object_, delayed_, more_to_scavenge>>

-----------------------------------------------------------------------------
(* ProcessRoots and ProcessSurvivors.                                      *)

(* What a worker does next, once it has visited the slots it is at.        *)
At(w, l) == pc[w] = l /\ scan[w] = {} /\ alloc[w] = <<>>

Visit(w, h, S) ==
  /\ holder' = [holder EXCEPT ![w] = h]
  /\ scan' = [scan EXCEPT ![w] = S]

VisitingOldObject(w, h) == visiting_old_object_' = [visiting_old_object_ EXCEPT ![w] = h]

(* IterateRoots takes a slice, the last is kStoreBuffer.                   *)
IterateRoots(w) ==
  /\ At(w, "roots")
  /\ root_slices_started_' = root_slices_started_ + 1
  /\ LET slice == root_slices_started_ + 1
     IN  \/ /\ slice \in DOMAIN Root
            /\ Visit(w, Root[slice], heap.ptr[Root[slice]])
            /\ UNCHANGED pc
         \/ /\ slice \notin DOMAIN Root
            /\ Goto(w, IF slice = Len(Root) + 1 THEN "store_buffer" ELSE "to_space")
            /\ UNCHANGED <<holder, scan>>
  /\ UNCHANGED <<shareVars, spaceVars, weakVars, heap, debug, place, by, updated, remembered,
                 blocks_, pushed, cleared, resolved_top_, scanned, alloc,
                 visiting_old_object_, promise>>

(* IterateStoreBuffers: each object is no longer remembered and all its    *)
(* slots are visited, weak ones as well.                                   *)
IterateStoreBuffers(w) ==
  /\ At(w, "store_buffer")
  /\ \/ \E x \in blocks_ :
          /\ blocks_' = blocks_ \ {x}
          /\ VisitingOldObject(w, x)
          /\ Visit(w, x, M!AllPtrs(heap, x))
          /\ UNCHANGED pc
     \/ /\ blocks_ = {}
        /\ VisitingOldObject(w, NoOne)
        /\ Goto(w, "roots")
        /\ UNCHANGED <<blocks_, holder, scan>>
  /\ UNCHANGED <<shareVars, spaceVars, weakVars, heap, debug, place, by, updated, remembered,
                 pushed, cleared, root_slices_started_, resolved_top_, scanned, alloc,
                 promise>>

(* A weak property or reference whose key or target is not forwarded yet.  *)
Undecided(o) ==
  (Is(o, "property") \/ Is(o, "reference")) /\ ~Forwarded(heap.key[o])

(* Mutant: a weak object is visited like any other.                        *)
EverySlot(o) == M!AllPtrs(heap, o)

(* The slots ProcessCopied visits.                                         *)
CopiedSlots(o) ==
  CASE Undecided(o) /\ Is(o, "property") -> {}
    [] Undecided(o) /\ Is(o, "reference") -> heap.ptr[o]
    [] OTHER -> M!AllPtrs(heap, o)

(* ProcessToSpace: the next copied object, or the end of the list.  The    *)
(* page's resolved_top_ is written when its last object was processed.     *)
ProcessToSpace(w) ==
  /\ At(w, "to_space")
  /\ \/ /\ scanned[w] < Len(copied[w])
        /\ LET o == copied[w][scanned[w] + 1]
           IN  /\ delayed_' = [delayed_ EXCEPT ![w] = @ \cup {x \in {o} : Undecided(x)}]
               /\ Visit(w, o, CopiedSlots(o))
        /\ scanned' = [scanned EXCEPT ![w] = @ + 1]
        /\ resolved_top_' = IF scanned[w] % PageSize = 0
                            THEN [resolved_top_ EXCEPT ![w] = scanned[w]]
                            ELSE resolved_top_
        /\ UNCHANGED pc
     \/ /\ scanned[w] = Len(copied[w])
        /\ resolved_top_' = [resolved_top_ EXCEPT ![w] = scanned[w]]
        /\ Goto(w, "promoted")
        /\ UNCHANGED <<delayed_, holder, scan, scanned>>
  /\ UNCHANGED <<shareVars, heapVars, spaceVars, alloc, visiting_old_object_, promise,
                 pending, more_to_scavenge, abort_>>

(* HasWork().                                                              *)
MoreWork(w) == ~abort_ /\ (resolved_top_[w] < Len(copied[w]) \/ HasWork(w))

(* An entry of promoted_list_ that is an object, not a free list element.  *)
IsPromoted(e) == place[e[1]] = "old" /\ by[e[1]] = e[2]

(* Mutant: the promoted object is pushed before its slots are visited.     *)
PushedEarly(o) == {o}

(* What a promoted object adds to the marking stack when it is popped:     *)
(* nothing, it is pushed once its slots have been forwarded.               *)
PushedFirst(o) == {}

(* ProcessPromotedList, and the end of ProcessSurvivors's loop.            *)
ProcessPromotedList(w) ==
  /\ At(w, "promoted")
  /\ \/ /\ promise[w] # {}
        /\ pushed' = pushed \cup promise[w]
        /\ promise' = [promise EXCEPT ![w] = {}]
        /\ UNCHANGED <<pc, blockVars, holder, scan, visiting_old_object_>>
     \/ /\ promise[w] = {}
        /\ \E e \in Young \X Worker :
             /\ Pop(w, e)
             /\ VisitingOldObject(w, e[1])
             /\ IF IsPromoted(e)
                THEN /\ Visit(w, e[1], M!AllPtrs(heap, e[1]))
                     /\ promise' = [promise EXCEPT ![w] =
                                      IF heap.marking THEN {e[1]} ELSE {}]
                     /\ pushed' = pushed \cup PushedFirst(e[1])
                ELSE UNCHANGED <<holder, scan, promise, pushed>>
        /\ UNCHANGED pc
     \/ /\ promise[w] = {}
        /\ ~HasWork(w)
        /\ VisitingOldObject(w, NoOne)
        /\ Goto(w, IF MoreWork(w) THEN "to_space" ELSE "idle")
        /\ UNCHANGED <<blockVars, holder, scan, promise, pushed>>
  /\ UNCHANGED <<barrier, arrived, num_busy, asleep, spaceVars, weakVars, heap, debug, place, by,
                 updated, remembered, blocks_, cleared, root_slices_started_,
                 resolved_top_, scanned, alloc>>

-----------------------------------------------------------------------------
(* RunEnteredIsolateGroup: stopping together, and the weak properties.     *)

Idle(w) ==
  /\ pc[w] = "idle"
  /\ WaitForWork(w, "to_space", "stopped")
  /\ UNCHANGED <<barrier, arrived, heapVars, spaceVars, scanVars, weakVars>>

Wake(w) ==
  /\ pc[w] = "waiting"
  /\ WaitForWorkWake(w, "to_space", "stopped")
  /\ UNCHANGED <<barrier, arrived, heapVars, spaceVars, scanVars, weakVars>>

SyncAt(w, l, next) ==
  /\ pc[w] = l
  /\ Sync(w, next)
  /\ UNCHANGED <<num_busy, asleep, blockVars, heapVars, spaceVars, scanVars, weakVars>>

(* Mutant: the second barrier of a DEBUG build is left out.                *)
NoCheckedSync == "start_weak"

(* Where a DEBUG build goes after ASSERT(num_busy_->load() == 0).          *)
CheckedSync == "checked"

Check(w) ==
  /\ pc[w] = "check"
  /\ Goto(w, CheckedSync)
  /\ UNCHANGED <<shareVars, heapVars, spaceVars, scanVars, weakVars>>

StartWeak(w) ==
  /\ pc[w] = "start_weak"
  /\ LET properties == IF abort_ THEN {} ELSE {o \in delayed_[w] : Is(o, "property")}
     IN  /\ pending' = [pending EXCEPT ![w] = properties]
         /\ delayed_' = [delayed_ EXCEPT ![w] = @ \ properties]
  /\ Goto(w, "weak")
  /\ UNCHANGED <<shareVars, heapVars, spaceVars, scanVars, more_to_scavenge, abort_>>

(* ProcessWeakProperties: one property.  At the end of the list HasWork    *)
(* says whether there is more to scavenge, and num_busy tells the others.  *)
ProcessWeakProperties(w) ==
  /\ At(w, "weak")
  /\ \/ \E o \in pending[w] :
          /\ pending' = [pending EXCEPT ![w] = @ \ {o}]
          /\ IF Undecided(o)
             THEN /\ delayed_' = [delayed_ EXCEPT ![w] = @ \cup {o}]
                  /\ UNCHANGED <<holder, scan>>
             ELSE /\ Visit(w, o, M!AllPtrs(heap, o))
                  /\ UNCHANGED delayed_
          /\ UNCHANGED <<pc, num_busy, more_to_scavenge>>
     \/ /\ pending[w] = {}
        /\ more_to_scavenge' = [more_to_scavenge EXCEPT ![w] = MoreWork(w)]
        /\ num_busy' = num_busy + IF MoreWork(w) THEN 1 ELSE 0
        /\ Goto(w, "announced")
        /\ UNCHANGED <<holder, scan, delayed_, pending>>
  /\ UNCHANGED <<barrier, arrived, asleep, blockVars, heapVars, spaceVars, abort_,
                 resolved_top_, scanned, alloc, visiting_old_object_, promise>>

(* Mutant: a worker without work of its own is done.                       *)
JoinsNobody(w) == FALSE

(* All scavengers continue as long as any single one has work to do.       *)
Joins(w) == ~more_to_scavenge[w] /\ num_busy > 0

Decide(w) ==
  /\ pc[w] = "decide"
  /\ num_busy' = num_busy + IF Joins(w) THEN 1 ELSE 0
  /\ more_to_scavenge' = [more_to_scavenge EXCEPT ![w] = @ \/ Joins(w)]
  /\ Goto(w, "decided")
  /\ UNCHANGED <<barrier, arrived, asleep, blockVars, heapVars, spaceVars, scanVars,
                 delayed_, pending, abort_>>

(* Finalize: MournWeakProperties and MournOrUpdateWeakReferences, unless   *)
(* the scavenge was aborted.                                               *)
Finalize(w) ==
  /\ pc[w] = "finalize"
  /\ IF abort_
     THEN UNCHANGED <<cleared, updated, delayed_>>
     ELSE /\ cleared' = cleared \cup {o \in delayed_[w] : Is(o, "property") \/ Undecided(o)}
          /\ updated' = [h \in Holder |->
                           IF h \in delayed_[w] /\ Is(h, "reference") /\ ~Undecided(h)
                           THEN updated[h] \cup {heap.key[h]} ELSE updated[h]]
          /\ delayed_' = [delayed_ EXCEPT ![w] = {}]
  /\ Goto(w, "end")
  /\ UNCHANGED <<shareVars, spaceVars, scanVars, heap, debug, place, by, remembered, blocks_,
                 pushed, root_slices_started_, pending, more_to_scavenge, abort_>>

Leave(w) ==
  /\ pc[w] = "release"
  /\ Release(w, IF w = Main THEN "finish" ELSE "gone")
  /\ UNCHANGED <<arrived, num_busy, asleep, blockVars, heapVars, spaceVars, scanVars,
                 weakVars>>

(* ParallelScavenge goes on: the visitors' work is finalized, or abandoned *)
(* after an abort; what ReverseScavenge then undoes is left out.           *)
Finish ==
  /\ pc[Main] = "finish"
  /\ Goto(Main, IF abort_ THEN "reverse" ELSE "done")
  /\ UNCHANGED <<shareVars, heapVars, spaceVars, scanVars, weakVars>>

-----------------------------------------------------------------------------
WorkerStep(w) ==
  \/ Start(w)
  \/ FollowForwarding(w) \/ CopyObject(w) \/ InstallForwardingPointer(w)
  \/ AbortScavenge(w)
  \/ IterateRoots(w) \/ IterateStoreBuffers(w)
  \/ ProcessToSpace(w) \/ ProcessPromotedList(w)
  \/ Idle(w) \/ Wake(w)
  \/ SyncAt(w, "stopped", IF debug THEN "check" ELSE "start_weak")
  \/ Check(w) \/ SyncAt(w, "checked", "start_weak")
  \/ StartWeak(w) \/ ProcessWeakProperties(w)
  \/ SyncAt(w, "announced", "decide")
  \/ Decide(w)
  \/ SyncAt(w, "decided", IF more_to_scavenge[w] THEN "to_space" ELSE "finalize")
  \/ Finalize(w)
  \/ SyncAt(w, "end", "release")
  \/ Leave(w)

Wakeup == SpuriousWakeup /\ UNCHANGED <<heapVars, spaceVars, scanVars, weakVars>>

Next ==
  \/ \E w \in Worker : Launch(w) \/ Enter(w) \/ WorkerStep(w)
  \/ Finish
  \/ Wakeup

Spec == Init /\ [][Next]_vars

(* As in ParallelMark, no helper need ever start.                          *)
FairSpec ==
  /\ Spec
  /\ \A w \in Worker : WF_vars(Launch(w)) /\ WF_vars(WorkerStep(w))
  /\ WF_vars(Finish)

-----------------------------------------------------------------------------
(* Properties.                                                             *)

(* The type invariant.                                                     *)
TypeOK ==
  /\ <<heap, debug>> \in Starts
  /\ place \in [Young -> {"from", "to", "old"}]
  /\ by \in [Young -> Worker \cup {NoOne}]
  /\ updated \in [Holder -> SUBSET Young]
  /\ remembered \subseteq Old \cup Young
  /\ blocks_ \subseteq Old /\ pushed \subseteq Young /\ cleared \subseteq Young
  /\ stack \subseteq SUBSET (Young \X Worker) /\ {} \notin stack
  /\ pages \in Nat /\ old_room \in Nat /\ num_busy \in 0..NumTasks
  /\ barrier.remaining \in 1..NumTasks /\ barrier.ref_count \in 0..NumTasks
  /\ \A w \in Worker :
       /\ room[w] \in 0..PageSize
       /\ resolved_top_[w] \in 0..scanned[w] /\ scanned[w] \in 0..Len(copied[w])
       /\ scan[w] \subseteq Young /\ delayed_[w] \cup pending[w] \subseteq Young
       /\ local_input_[w] \cup local_output_[w] \subseteq Young \X Worker

Promoted == {o \in Young : place[o] = "old"}

(* The objects a scavenge must keep: what the roots and the old objects    *)
(* hold, and what these hold; a promoted weak object holds everything.     *)
Reachable ==
  {o \in Young : \A S \in SUBSET Young :
      /\ \A h \in Holder \ Young : M!AllPtrs(heap, h) \subseteq S
      /\ \A x \in S :
           /\ (Is(x, "property") => heap.key[x] \in S) => heap.ptr[x] \subseteq S
           /\ x \in Promoted => M!AllPtrs(heap, x) \subseteq S
      => o \in S}

(* An object has one copy, although several workers may have copied it at  *)
(* the same time: the pages of a worker hold what it has forwarded.  When  *)
(* the scavenge is done the forwarded objects are exactly the reachable    *)
(* ones, whichever worker reached them first, and no promoted object is    *)
(* left unvisited in a block (FinalizePromotion and                        *)
(* ASSERT(promotion_stack_.IsEmpty())).  And nobody has rushed ahead when  *)
(* a DEBUG build asserts that num_busy is 0 (scavenger.cc:629).            *)
ReachableSurvive ==
  /\ TypeOK
  /\ \A w \in Worker : pc[w] = "check" => num_busy = 0
  /\ \A w \in Worker :
       LET own == {o \in Young : place[o] = "to" /\ by[o] = w}
       IN  /\ Len(copied[w]) = Cardinality(own)
           /\ own = {copied[w][i] : i \in DOMAIN copied[w]}
  /\ pc[Main] = "done" =>
       /\ {o \in Young : Forwarded(o)} = Reachable
       /\ stack = {} /\ \A w \in Worker : local_input_[w] \cup local_output_[w] = {}

(* When the scavenge is done no slot that may still be read refers to      *)
(* from-space, which Epilogue deletes: each was updated, or belongs to a   *)
(* weak object whose key or target is dead and which was cleared.          *)
NoPointerToFromSpace ==
  pc[Main] = "done" =>
    /\ \A h \in Holder : h \notin Young \/ Forwarded(h) =>
         \/ updated[h] = M!AllPtrs(heap, h)
         \/ h \in cleared /\ (Is(h, "reference") => heap.ptr[h] \subseteq updated[h])
    /\ \A o \in cleared : ~Forwarded(heap.key[o])

(* VerifyStoreBuffers: when the scavenge is done an old object, a promoted *)
(* one as well, is remembered if it refers to a new object, and only then. *)
RememberedExactly ==
  pc[Main] = "done" =>
    remembered = {x \in Old \cup Promoted :
                    \E t \in M!AllPtrs(heap, x) : place[t] = "to"}

(* "We push it to the mark stack after forwarding its slots": while the    *)
(* concurrent marker runs it never gets a promoted object with a slot that *)
(* still refers to from-space, from the scavenger or because it found the  *)
(* object unmarked in an updated slot, and in the end it gets them all.    *)
PromiseKept ==
  /\ \A o \in pushed : updated[o] = M!AllPtrs(heap, o)
  /\ pc[Main] = "done" /\ heap.marking => pushed = Promoted

(* A scavenge ends, or aborts, whatever helpers take part.                 *)
EndsOrAborts == <>(pc[Main] = "done" \/ abort_)

(* DEBUG_ASSERT(thread->TopErrorHandlerIsSetJump()) of LongJumpScope::Jump *)
(* (longjump.cc:37): a worker that aborts the scavenge is in one of the    *)
(* scopes that ProcessRoots and ProcessSurvivors set up.                   *)
AbortsInScope == \A w \in Worker : pc[w] # "no_scope"
=============================================================================
