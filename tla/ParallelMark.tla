---------------------------- MODULE ParallelMark ----------------------------
(***************************************************************************)
(* GCMarker::MarkObjects with FLAG_marker_tasks > 0 and the                *)
(* ParallelMarkTasks it runs, from runtime/vm/heap/marker.cc: the end of   *)
(* every mark-sweep, at a safepoint, with or without concurrent marking    *)
(* before it.  The main thread is the last worker; a helper runs when the  *)
(* thread pool gets to it, maybe after the others have left it behind.     *)
(*                                                                         *)
(* One step reads or marks through one pointer.  Objects in new space are  *)
(* left alone by the marker and their pages are root slices; here such an  *)
(* object is one that is marked from the start.                            *)
(***************************************************************************)
EXTENDS WorkSharing, Sequences

CONSTANTS Obj,       \* the objects
          Heaps,     \* heaps, as MarkingSpec describes them
          WeakSlots, \* what IterateWeakRoots looks at: one object per slice
          Builds     \* the values of defined(DEBUG)

VARIABLES
  heap, debug,
  live,                  \* what MarkingSpec says of the heap
  marked,
  deferred,              \* the deferred marking stack
  local_deferred,        \* the local blocks of deferred_work_list_
  delayed_,              \* the weak objects a visitor has delayed
  global_list_,
  scan,                  \* the pointers a worker has still to visit
  acquire,               \* the object ProcessDeferredMarking visits, as a set
  pending,               \* what ProcessPendingWeakProperties has to look at
  more_to_mark,
  root_slices_started_,
  weak_slices_started_,
  slots,                 \* the objects still in the weak slots
  cleared                \* the weak objects that were cleared

heapVars == <<heap, debug, live>>
workVars == <<marked, deferred, local_deferred, delayed_, global_list_, scan,
              acquire, pending, more_to_mark>>
sliceVars == <<root_slices_started_, weak_slices_started_, slots, cleared>>
vars == <<pc, shareVars, heapVars, workVars, sliceVars>>

None == [w \in Worker |-> {}]

Is(o, kind) == heap.kind[o] = kind
M == INSTANCE MarkingSpec WITH done <- pc[Main] = "done"

ASSUME HeapsAssumption ==
  \A h \in Heaps : M!WellFormed(h) /\ DOMAIN h.delayed = 1..NumTasks + 1
ASSUME SlotsAssumption == WeakSlots \in Seq(SUBSET Obj)
ASSUME BuildsAssumption == Builds \subseteq BOOLEAN

Init ==
  /\ ShareInit
  /\ heap \in Heaps
  /\ debug \in Builds
  /\ live = M!Live(heap)
  /\ marked = heap.marked
  /\ stack = {heap.gray} \ {{}}
  /\ local_input_ = None
  /\ local_output_ = None
  /\ deferred = {}
  /\ local_deferred = [w \in Worker |-> IF w = 1 THEN heap.deferred ELSE {}]
  /\ delayed_ = [w \in Worker |-> heap.delayed[w]]
  /\ global_list_ = heap.delayed[NumTasks + 1]
  /\ scan = None
  /\ acquire = None
  /\ pending = None
  /\ more_to_mark = [w \in Worker |-> FALSE]
  /\ root_slices_started_ = 0
  /\ weak_slices_started_ = 0
  /\ slots = WeakSlots
  /\ cleared = {}
  /\ pc = [w \in Worker |-> IF w = Main THEN "launch" ELSE "none"]

-----------------------------------------------------------------------------
(* MarkObjects, the main thread: flush each visitor, then start its task.  *)

(* Mutant: the deferred marking stack's local blocks stay where they are.  *)
FlushNoDeferred(w) == UNCHANGED <<deferred, local_deferred>>

(* deferred_work_list_.Flush().                                            *)
FlushDeferred(w) ==
  /\ deferred' = deferred \cup local_deferred[w]
  /\ local_deferred' = [local_deferred EXCEPT ![w] = {}]

(* Mutant: the list is copied, not moved.                                  *)
KeepsList(list) == list

(* delayed_.FlushInto(global_list) leaves the visitor's own list empty.    *)
FlushedList(list) == {}

(* The visitors' local blocks are empty: concurrent marking ended with     *)
(* DrainMarkingStack.                                                      *)
Launch(w) ==
  /\ pc[Main] = "launch"
  /\ \A v \in Worker : v < w => pc[v] # "none"
  /\ pc[w] \in {"none", "launch"}
  /\ FlushDeferred(w)
  /\ IF w = Main
     THEN /\ delayed_' = [delayed_ EXCEPT ![w] = global_list_ \cup @]
          /\ global_list_' = {}
          /\ Goto(w, "start")
     ELSE /\ global_list_' = global_list_ \cup delayed_[w]
          /\ delayed_' = [delayed_ EXCEPT ![w] = FlushedList(@)]
          /\ Goto(w, "queued")
  /\ UNCHANGED <<shareVars, heapVars, sliceVars, marked, scan, acquire, pending,
                 more_to_mark>>

(* ParallelMarkTask::Run.                                                  *)
Enter(w) ==
  /\ pc[w] = "queued"
  /\ TryEnter(w, "start", "release")
  /\ UNCHANGED <<arrived, num_busy, asleep, blockVars, heapVars, workVars, sliceVars>>

Start(w) ==
  /\ pc[w] = "start"
  /\ num_busy' = num_busy + 1
  /\ Goto(w, "roots")
  /\ UNCHANGED <<barrier, arrived, asleep, blockVars, heapVars, workVars, sliceVars>>

-----------------------------------------------------------------------------
(* Visiting pointers.                                                      *)

IsMarked(o) == o \in marked

(* MarkObject(o), for one of the pointers w visits.                        *)
MarkObject(w) ==
  /\ \E o \in scan[w] :
       /\ scan' = [scan EXCEPT ![w] = @ \ {o}]
       /\ \/ /\ IsMarked(o)
             /\ UNCHANGED <<marked, local_deferred, blockVars, asleep>>
          \/ /\ ~IsMarked(o)
             /\ Is(o, "code")
             /\ local_deferred' = [local_deferred EXCEPT ![w] = @ \cup {o}]
             /\ UNCHANGED <<marked, blockVars, asleep>>
          \/ /\ ~IsMarked(o)
             /\ ~Is(o, "code")
             /\ marked' = marked \cup {o}
             /\ Push(w, o)
             /\ UNCHANGED local_deferred
  /\ UNCHANGED <<pc, barrier, arrived, num_busy, heapVars, sliceVars, deferred,
                 delayed_, global_list_, acquire, pending, more_to_mark>>

(* What a worker does next, once it has visited the pointers it is at.     *)
At(w, l) == pc[w] = l /\ scan[w] = {}

Visit(w, S) == scan' = [scan EXCEPT ![w] = S]

IterateRoots(w) ==
  /\ At(w, "roots")
  /\ root_slices_started_' = root_slices_started_ + 1
  /\ IF root_slices_started_ + 1 \in DOMAIN heap.roots
     THEN /\ Visit(w, heap.roots[root_slices_started_ + 1])
          /\ UNCHANGED pc
     ELSE /\ Goto(w, "deferred")
          /\ UNCHANGED scan
  /\ UNCHANGED <<shareVars, heapVars, marked, deferred, local_deferred, delayed_,
                 global_list_, acquire, pending, more_to_mark,
                 weak_slices_started_, slots, cleared>>

(* Mutant: an object found marked is not visited again.                    *)
DeferredPtrsOnce(o) == IF IsMarked(o) THEN {} ELSE M!AllPtrs(heap, o)

(* VisitPointersNonvirtual: a weak object has no special case here.        *)
DeferredPtrs(o) == M!AllPtrs(heap, o)

(* ProcessWeakProperty, ProcessWeakReference, ProcessFinalizerEntry: the   *)
(* objects that are put on a delayed list.                                 *)
Delays(o) ==
  \/ Is(o, "entry")
  \/ Is(o, "property") /\ ~IsMarked(heap.key[o])
  \/ Is(o, "reference") /\ ~IsMarked(heap.key[o])

(* Mutant: a weak object is delayed by this scan too.                      *)
RescanDelays(w) ==
  delayed_' = [delayed_ EXCEPT ![w] = @ \cup {o \in acquire'[w] \ acquire[w] : Delays(o)}]

(* By the absence of a special case the scan leaves the delayed lists      *)
(* alone.                                                                  *)
Rescans(w) == UNCHANGED delayed_

(* ProcessDeferredMarking: one object of the local block, or else of a     *)
(* block of the stack, is visited and then marked.                         *)
ProcessDeferredMarking(w, l, next) ==
  /\ At(w, l)
  /\ \/ /\ acquire[w] # {}
        /\ marked' = marked \cup acquire[w]
        /\ acquire' = [acquire EXCEPT ![w] = {}]
        /\ UNCHANGED <<pc, scan, deferred, local_deferred>>
     \/ /\ acquire[w] = {}
        /\ \E o \in IF local_deferred[w] # {} THEN local_deferred[w] ELSE deferred :
             /\ local_deferred' = [local_deferred EXCEPT ![w] = @ \ {o}]
             /\ deferred' = IF local_deferred[w] # {} THEN deferred ELSE deferred \ {o}
             /\ Visit(w, DeferredPtrs(o))
             /\ acquire' = [acquire EXCEPT ![w] = {o}]
        /\ UNCHANGED <<pc, marked>>
     \/ /\ acquire[w] \cup local_deferred[w] \cup deferred = {}
        /\ Goto(w, next)
        /\ UNCHANGED <<marked, scan, acquire, deferred, local_deferred>>
  /\ Rescans(w)
  /\ UNCHANGED <<shareVars, heapVars, sliceVars, global_list_, pending, more_to_mark>>

-----------------------------------------------------------------------------
(* Draining the marking stack.                                             *)

(* The pointers that ProcessMarkingStack visits in an object.              *)
ProcessedPtrs(o) ==
  CASE Is(o, "property") -> IF IsMarked(heap.key[o]) THEN M!AllPtrs(heap, o) ELSE {}
    [] OTHER             -> heap.ptr[o]

(* ProcessPendingWeakProperties releases the list and walks it.            *)
BeginPending(w) ==
  /\ pending' = [pending EXCEPT ![w] = {o \in delayed_[w] : Is(o, "property")}]
  /\ delayed_' = [delayed_ EXCEPT ![w] = {o \in @ : ~Is(o, "property")}]
  /\ more_to_mark' = [more_to_mark EXCEPT ![w] = FALSE]

(* ProcessMarkingStack, at "first" and "again" before, at "drain" in the   *)
(* inner loop: pop an object and process it; when there is none look at    *)
(* the weak properties, or stop.                                           *)
ProcessMarkingStack(w) ==
  /\ \E l \in {"first", "drain", "again"} : At(w, l)
  /\ \/ \E o \in Obj :
          /\ Pop(w, o)
          /\ Visit(w, ProcessedPtrs(o))
          /\ delayed_' = [delayed_ EXCEPT ![w] = @ \cup {x \in {o} : Delays(x)}]
          /\ Goto(w, "drain")
          /\ UNCHANGED <<pending, more_to_mark>>
     \/ /\ ~HasWork(w)
        /\ IF pc[w] = "again"
           THEN /\ Goto(w, "idle")
                /\ UNCHANGED <<delayed_, pending, more_to_mark>>
           ELSE /\ BeginPending(w)
                /\ Goto(w, IF pc[w] = "first" THEN "first_weak" ELSE "weak")
        /\ UNCHANGED <<blockVars, scan>>
  /\ UNCHANGED <<barrier, arrived, num_busy, asleep, heapVars, sliceVars, marked,
                 deferred, local_deferred, global_list_, acquire>>

(* more_to_mark = true.                                                    *)
MakesMore(o) == \E v \in heap.ptr[o] : ~IsMarked(v)

(* ProcessPendingWeakProperties: one property, or the end of the list.     *)
ProcessPendingWeakProperties(w, l, more, none) ==
  /\ At(w, l)
  /\ \/ \E o \in pending[w] :
          /\ pending' = [pending EXCEPT ![w] = @ \ {o}]
          /\ IF IsMarked(heap.key[o])
             THEN /\ more_to_mark' = [more_to_mark EXCEPT ![w] = @ \/ MakesMore(o)]
                  /\ Visit(w, M!AllPtrs(heap, o))
                  /\ UNCHANGED delayed_
             ELSE /\ delayed_' = [delayed_ EXCEPT ![w] = @ \cup {o}]
                  /\ UNCHANGED <<more_to_mark, scan>>
          /\ UNCHANGED pc
     \/ /\ pending[w] = {}
        /\ Goto(w, IF more_to_mark[w] THEN more ELSE none)
        /\ UNCHANGED <<delayed_, scan, pending, more_to_mark>>
  /\ UNCHANGED <<shareVars, heapVars, sliceVars, marked, deferred, local_deferred,
                 global_list_, acquire>>

-----------------------------------------------------------------------------
(* RunEnteredIsolateGroup: stopping together.                              *)

Idle(w) ==
  /\ pc[w] = "idle"
  /\ WaitForWork(w, "first", "stopped")
  /\ UNCHANGED <<barrier, arrived, heapVars, workVars, sliceVars>>

Wake(w) ==
  /\ pc[w] = "waiting"
  /\ WaitForWorkWake(w, "first", "stopped")
  /\ UNCHANGED <<barrier, arrived, heapVars, workVars, sliceVars>>

SyncAt(w, l, next) ==
  /\ pc[w] = l
  /\ Sync(w, next)
  /\ UNCHANGED <<num_busy, asleep, blockVars, heapVars, workVars, sliceVars>>

(* Mutant: the second barrier of a DEBUG build is left out.                *)
NoCheckedSync == "begin_pending"

(* Where a DEBUG build goes after ASSERT(num_busy_->load() == 0).          *)
CheckedSync == "checked"

Check(w) ==
  /\ pc[w] = "check"
  /\ Goto(w, CheckedSync)
  /\ UNCHANGED <<shareVars, heapVars, workVars, sliceVars>>

StartPending(w) ==
  /\ pc[w] = "begin_pending"
  /\ BeginPending(w)
  /\ Goto(w, "pending")
  /\ UNCHANGED <<shareVars, heapVars, sliceVars, marked, deferred, local_deferred,
                 global_list_, scan, acquire>>

(* We have more work to do. Notify others.                                 *)
Announce(w) ==
  /\ pc[w] = "announce"
  /\ num_busy' = num_busy + 1
  /\ Goto(w, "announced")
  /\ UNCHANGED <<barrier, arrived, asleep, blockVars, heapVars, workVars, sliceVars>>

(* Mutant: the second of the two barriers is left out.                     *)
OneBarrier(w) == IF more_to_mark'[w] THEN "first" ELSE "deferred2"

AfterDecision(w) == "decided"

(* Mutant: a worker that joins does not say so.                            *)
JoinQuietly(joins) == 0

(* num_busy_->fetch_add(1u), of a worker that joins the others.            *)
JoinCount(joins) == IF joins THEN 1 ELSE 0

(* All markers continue as long as any single one has work to do.          *)
Decide(w) ==
  /\ pc[w] = "decide"
  /\ LET joins == ~more_to_mark[w] /\ num_busy > 0
     IN  /\ num_busy' = num_busy + JoinCount(joins)
         /\ more_to_mark' = [more_to_mark EXCEPT ![w] = @ \/ joins]
  /\ Goto(w, AfterDecision(w))
  /\ UNCHANGED <<barrier, arrived, asleep, blockVars, heapVars, sliceVars, marked,
                 deferred, local_deferred, delayed_, global_list_, scan, acquire,
                 pending>>

-----------------------------------------------------------------------------
(* Phase 3 and the end.                                                    *)

Dead(o) == ~IsMarked(heap.key[o])

(* MournWeakProperties and MournWeakReferences: the lists are the worker's *)
(* own and no object is marked any more.                                   *)
Mourn(w) ==
  /\ At(w, "mourn")
  /\ LET mine == {o \in delayed_[w] : ~Is(o, "entry")}
     IN  /\ cleared' = cleared \cup
              {o \in mine : Is(o, "property") \/ Dead(o)}
         /\ delayed_' = [delayed_ EXCEPT ![w] = @ \ mine]
  /\ Goto(w, "weak_roots")
  /\ UNCHANGED <<shareVars, heapVars, marked, deferred, local_deferred, global_list_,
                 scan, acquire, pending, more_to_mark, root_slices_started_,
                 weak_slices_started_, slots>>

(* Mutant: the main thread does not wait for the others at the end.        *)
MainLeaves(w) == IF w = Main THEN "release" ELSE "end"

(* Run and MarkObjects: Sync, then Release.                                *)
LastSync(w) == "end"

(* Each of the weak slices drops what is not marked.                       *)
IterateWeakRoots(w) ==
  /\ At(w, "weak_roots")
  /\ weak_slices_started_' = weak_slices_started_ + 1
  /\ IF weak_slices_started_ + 1 \in DOMAIN slots
     THEN /\ slots' = [slots EXCEPT ![weak_slices_started_ + 1] = @ \cap marked]
          /\ UNCHANGED pc
     ELSE /\ Goto(w, LastSync(w))
          /\ UNCHANGED slots
  /\ UNCHANGED <<shareVars, heapVars, workVars, root_slices_started_, cleared>>

Leave(w) ==
  /\ pc[w] = "release"
  /\ Release(w, IF w = Main THEN "finalize" ELSE "gone")
  /\ UNCHANGED <<arrived, num_busy, asleep, blockVars, heapVars, workVars, sliceVars>>

(* FinalizeMarking of every visitor, with MournFinalized; the visitors and *)
(* num_busy, a local variable of MarkObjects, are gone after it.           *)
FinalizeMarking ==
  /\ pc[Main] = "finalize"
  /\ LET entries == UNION {delayed_[w] : w \in Worker}
     IN  cleared' = cleared \cup {o \in entries : Dead(o)}
  /\ delayed_' = None
  /\ Goto(Main, "done")
  /\ UNCHANGED <<shareVars, heapVars, marked, deferred, local_deferred, global_list_,
                 scan, acquire, pending, more_to_mark, root_slices_started_,
                 weak_slices_started_, slots>>

-----------------------------------------------------------------------------
WorkerStep(w) ==
  \/ Start(w)
  \/ MarkObject(w)
  \/ IterateRoots(w)
  \/ ProcessDeferredMarking(w, "deferred", "first")
  \/ ProcessMarkingStack(w)
  \/ ProcessPendingWeakProperties(w, "first_weak", "again", "idle")
  \/ ProcessPendingWeakProperties(w, "weak", "again", "again")
  \/ Idle(w)
  \/ Wake(w)
  \/ SyncAt(w, "stopped", IF debug THEN "check" ELSE "begin_pending")
  \/ Check(w)
  \/ SyncAt(w, "checked", "begin_pending")
  \/ StartPending(w)
  \/ ProcessPendingWeakProperties(w, "pending", "announce", "announced")
  \/ Announce(w)
  \/ SyncAt(w, "announced", "decide")
  \/ Decide(w)
  \/ SyncAt(w, "decided", IF more_to_mark[w] THEN "first" ELSE "deferred2")
  \/ ProcessDeferredMarking(w, "deferred2", "marked")
  \/ SyncAt(w, "marked", "mourn")
  \/ Mourn(w)
  \/ IterateWeakRoots(w)
  \/ SyncAt(w, "end", "release")
  \/ Leave(w)

Wakeup == SpuriousWakeup /\ UNCHANGED <<heapVars, workVars, sliceVars>>

Next ==
  \/ \E w \in Worker : Launch(w) \/ Enter(w) \/ WorkerStep(w)
  \/ FinalizeMarking
  \/ Wakeup

Spec == Init /\ [][Next]_vars

(* The main thread and a helper that has entered the barrier run on.  That *)
(* the thread pool ever starts a helper is not assumed: Enter is not fair. *)
FairSpec ==
  /\ Spec
  /\ \A w \in Worker : WF_vars(Launch(w)) /\ WF_vars(WorkerStep(w))
  /\ WF_vars(FinalizeMarking)

-----------------------------------------------------------------------------
(* Properties.                                                             *)

(* The type invariant.                                                     *)
TypeOK ==
  /\ heap \in Heaps /\ debug \in Builds /\ live \subseteq Obj
  /\ marked \subseteq Obj /\ deferred \subseteq Obj /\ global_list_ \subseteq Obj
  /\ stack \subseteq SUBSET Obj /\ {} \notin stack
  /\ \A w \in Worker :
       /\ local_input_[w] \subseteq Obj /\ local_output_[w] \subseteq Obj
       /\ local_deferred[w] \subseteq Obj /\ delayed_[w] \subseteq Obj
       /\ scan[w] \subseteq Obj /\ pending[w] \subseteq Obj
       /\ more_to_mark[w] \in BOOLEAN
       /\ arrived[w] \in -1..barrier.generation
  /\ barrier.participating \in 1..NumTasks /\ barrier.remaining \in 1..NumTasks
  /\ barrier.ref_count \in 0..NumTasks
  /\ num_busy \in 0..NumTasks
  /\ asleep \subseteq Worker

(* The workers num_busy counts: those that mark, and those that have said  *)
(* that they will.                                                         *)
Busy(w) ==
  \/ pc[w] \in {"roots", "deferred", "first", "first_weak", "drain", "weak", "again",
                "idle"}
  \/ pc[w] \in {"announced", "decide", "decided"} /\ more_to_mark[w]

(* num_busy is the number of the workers that are busy, at every step of   *)
(* every worker, so that fetch_sub(1) == 1 in WaitForWork names the last;  *)
(* and it is 0 at the ASSERT(num_busy_->load() == 0) of a DEBUG build      *)
(* (marker.cc:714), where no marker may rush ahead of another.             *)
NumBusyIsExact ==
  /\ TypeOK
  /\ num_busy = Cardinality({w \in Worker : Busy(w)})
  /\ \A w \in Worker : pc[w] = "check" => num_busy = 0

(* A weak object is on one delayed list only: it is delayed by the worker  *)
(* that pops it from the marking stack and not by ProcessDeferredMarking,  *)
(* as the comment there says (marker.cc:262).                              *)
DelayedOnce ==
  \A o \in Obj :
    Cardinality({w \in Worker : o \in delayed_[w] \cup pending[w]})
      + Cardinality({global_list_} \cap {S \in SUBSET Obj : o \in S}) <= 1

(* The workers stop together.  When MarkObjects goes on after the last     *)
(* barrier nothing is left on a stack or in a local block, of a visitor    *)
(* that never ran either (BlockWorkList::Finalize), and no helper is at a  *)
(* step that uses num_busy or a visitor, which belong to MarkObjects: one  *)
(* that starts late uses the barrier only.                                 *)
WorkersStopTogether ==
  /\ pc[Main] = "finalize" =>
       /\ stack = {} /\ deferred = {} /\ global_list_ = {}
       /\ \A w \in Worker :
            local_input_[w] \cup local_output_[w] \cup local_deferred[w] = {}
  /\ pc[Main] \in {"finalize", "done"} =>
       \A w \in Helper : pc[w] \in {"queued", "release", "gone"}
                          \/ (pc[w] = "end" /\ arrived[w] # -1)

(* No worker stops while a property it has delayed has a key that some     *)
(* worker marked (RELEASE_ASSERT(!key->IsMarked()), MournWeakProperties).  *)
(* At the end the weak objects that were cleared are the live ones whose   *)
(* key, target or value is dead, and a weak slot is empty exactly when its *)
(* object is dead.                                                         *)
WeakObjectsCleared ==
  /\ \A w \in Worker : pc[w] = "mourn" =>
       \A o \in delayed_[w] : Is(o, "property") => Dead(o)
  /\ pc[Main] = "done" =>
       /\ cleared = {o \in live : M!Weak(heap, o) /\ heap.key[o] \notin live}
       /\ \A s \in DOMAIN slots : slots[s] = WeakSlots[s] \cap live

(* Parallel marking implements MarkingSpec: no dead object is ever marked, *)
(* the marking ends, and then every live object is marked, whatever        *)
(* helpers take part and whenever they come.                               *)
Implements == M!Spec
=============================================================================
