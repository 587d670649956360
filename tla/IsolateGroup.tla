---------------------------- MODULE IsolateGroup ----------------------------
(***************************************************************************)
(* The life of the isolates of one group, from Isolate.spawn to the end of *)
(* the group (runtime/vm/isolate.cc, runtime/lib/isolate.cc, dart.cc), and *)
(* what they do to each other on the way: mutator slots, isolates_lock_    *)
(* and program_lock(), safepoint operations, RunWithStoppedMutators,       *)
(* finalizing a class and registering its static field in the field table  *)
(* of every isolate, the background compiler, and the tasks that shutting  *)
(* the group down waits for: those of its thread pool and of the garbage   *)
(* collector.                                                              *)
(*                                                                         *)
(* A safepoint operation is its owner: it begins when every other thread   *)
(* is where it checks in, and until it ends no other thread of the group   *)
(* moves except inside a blocking call.  Safepoint has the protocol.       *)
(***************************************************************************)
EXTENDS SafepointRwLock, MutatorSlots

CONSTANTS Main,          \* the first isolate
          MaySpawn,      \* the isolates whose program spawns others
          Compiler,      \* the thread of the background compiler
          IdleWorker,    \* the worker of the group's pool that went idle last
          MayFail,       \* the isolates whose creation may fail
          Calls,         \* what the program of a thread asks for
          Starts         \* the isolates that have come and gone, and a bound
                         \* on how much the programs ask for from then on

ASSUME GroupAssumption ==
  /\ IsFiniteSet(Mutator) /\ Main \in Mutator
  /\ Compiler \notin Mutator /\ IdleWorker \notin Mutator \cup {Compiler}
  /\ Thread = Mutator \cup {Compiler, IdleWorker} /\ Nobody \notin Thread
  /\ Lock = {"isolates", "program"}
  /\ MaySpawn \subseteq Mutator /\ Starts \subseteq (SUBSET (Mutator \ {Main})) \X Nat

VARIABLES
  pc,
  owner,               \* of the safepoint operation in progress
  isolates_, isolate_count_,
  parent, spawn_count_,
  failed,              \* isolates InitIsolate gives up
  cls,                 \* how far the one class is finalized
  top_,                \* fields in initial_field_table
  table,               \* fields in an isolate's field table, or not ready
  running_, done_, disabled_depth_,
  function_queue,      \* how many functions are in it
  bg_asleep,           \* threads in Wait on the compiler's monitor_
  group,               \* "up", "shutdown", "joined" or "down"
  tasks_,              \* whether the collector has a task for the group
  shutting_down_,      \* of the VM's thread pool
  ops                  \* how much the programs may still ask for

progVars == <<cls, top_, table>>
bgVars == <<running_, done_, function_queue, disabled_depth_, bg_asleep>>
lifeVars == <<isolates_, isolate_count_, parent, spawn_count_, failed>>
endVars == <<group, tasks_, shutting_down_>>
vars == <<pc, owner, lifeVars, endVars, progVars, bgVars, ops, lockVars, slotVars>>

NotReady == -1

Init ==
  /\ LockInit /\ SlotsInit(1)
  /\ \E start \in Starts :
       /\ pc = [t \in Thread |-> IF t = Main THEN "run" ELSE IF t \in start[1] THEN "dead"
                                ELSE IF t \in Mutator THEN "none" ELSE "idle"]
       /\ ops = start[2]
  /\ owner = Nobody
  /\ isolates_ = {Main} /\ isolate_count_ = 1
  /\ parent = [i \in Mutator |-> Nobody] /\ spawn_count_ = [i \in Mutator |-> 0]
  /\ failed = {}
  /\ cls = "declared" /\ top_ = 0
  /\ table = [i \in Mutator |-> IF i = Main THEN 0 ELSE NotReady]
  /\ running_ = FALSE /\ done_ = TRUE /\ function_queue = 0
  /\ disabled_depth_ = 0 /\ bg_asleep = {}
  /\ group = "up" /\ tasks_ = FALSE /\ shutting_down_ = FALSE

(* Threads without a Thread of the group.                                  *)
Detached(t) ==
  pc[t] \in {"none", "spawned", "left", "enter", "leaving", "exiting", "uncount",
             "uncounting", "gave_up", "failed_spawn", "stop_group", "dead", "idle", "posted",
             "bg_exited"}

(* Mutant: a thread that waits for a lock waits where it is.               *)
BlocksInVM(t) ==
  \/ Detached(t) \/ t \in bg_asleep
  \/ ~Blocked(t) /\ pc[t] \in {"run", "ready", "wait_spawns", "asleep_spawns",
                               "stop_request", "gc_request", "grow_request",
                               "idle_request"}

(* Where an attached thread has checked in, or does before it goes on.     *)
AtSafepoint(t) ==
  \/ Detached(t) \/ Blocked(t) \/ t \in bg_asleep
  \/ pc[t] \in {"run", "ready", "wait_spawns", "asleep_spawns",
                "stop_request", "gc_request", "grow_request", "idle_request"}

(* Mutant: a thread that got its lock does not wait for an operation.      *)
MovesWithLock(t) == Detached(t) \/ owner \in {Nobody, t} \/ want[t] = Acquired

(* t is not held up by the operation of another thread.                    *)
Moves(t) == Detached(t) \/ owner \in {Nobody, t}

Goto(t, label) == pc' = [pc EXCEPT ![t] = label]

IsMutatorThread(t) == t \in Mutator

Operation(t, call) == call \in Calls[t] /\ ops > 0 /\ ops' = ops - 1

-----------------------------------------------------------------------------
(* The places where a thread takes a lock, which, how, and where it is     *)
(* once it has it.                                                         *)

Takes(lock, kind, then) == [lock |-> lock, kind |-> kind, then |-> then]

(* Mutant: the new isolate's field table is set up under the wrong lock.   *)
CloneLocksIsolates == "isolates"

(* The lock under which a new isolate's field table is set up.             *)
CloneLock == "program"

LockAt ==
  [init |-> Takes("isolates", "write", "registering"),
   initialize |-> Takes(CloneLock, "read", "cloning"),
   stop |-> Takes("isolates", "read", "stop_check"),
   stop_both |-> Takes("isolates", "read", "stop_count"),
   allocate |-> Takes("program", "write", "allocating"),
   finalize |-> Takes("program", "write", "finalizing"),
   field |-> Takes("isolates", "read", "field_locked"),
   field_grow |-> Takes("isolates", "read", "grow_request"),
   unregister |-> Takes("isolates", "write", "unregistering"),
   uncount |-> Takes("isolates", "write", "uncounting")]

RequestAt(t) == [lock |-> LockAt[pc[t]].lock, kind |-> LockAt[pc[t]].kind]

EnterLock(t) ==
  /\ pc[t] \in DOMAIN LockAt
  /\ \/ Moves(t) /\ TryEnter(t, RequestAt(t)) /\ Goto(t, LockAt[pc[t]].then)
     \/ Moves(t) /\ Block(t, RequestAt(t)) /\ UNCHANGED pc
     \/ EnterBlocked(t) /\ UNCHANGED pc
     \/ Moves(t) /\ Unblock(t) /\ Goto(t, LockAt[pc[t]].then)
  /\ UNCHANGED <<owner, lifeVars, endVars, progVars, bgVars, ops, slotVars>>

-----------------------------------------------------------------------------
(* Safepoint operations: SafepointOperationScope.                          *)

During == [stop_request |-> "stopped", gc_request |-> "gc", grow_request |-> "growing",
           idle_request |-> "idle_gc"]

Begin(t) ==
  /\ pc[t] \in DOMAIN During /\ owner = Nobody
  /\ \A u \in Thread \ {t} : AtSafepoint(u)
  /\ owner' = t
  /\ Goto(t, During[pc[t]])
  /\ UNCHANGED <<lifeVars, endVars, progVars, bgVars, ops, lockVars, slotVars>>

-----------------------------------------------------------------------------
(* Entering and leaving: Isolate::ScheduleThread and UnscheduleThread.     *)

(* SpawnIsolateTask: the parent counts it, the pool runs it.               *)
Spawn(i, child) ==
  /\ i \in MaySpawn /\ pc[i] = "run" /\ Moves(i) /\ pc[child] = "none"
  /\ Goto(child, "spawned")
  /\ parent' = [parent EXCEPT ![child] = i]
  /\ spawn_count_' = [spawn_count_ EXCEPT ![i] = @ + 1]
  /\ UNCHANGED <<owner, isolates_, isolate_count_, failed, endVars, progVars, bgVars, ops,
                 lockVars, slotVars>>

(* IncreaseMutatorCount, of a new isolate or of one that has work again.   *)
IncreaseMutatorCount(i) ==
  /\ pc[i] \in {"spawned", "left"}
  /\ IF pc[i] = "left" /\ queued[i] = "no" THEN Operation(i, "enter") ELSE UNCHANGED ops
  /\ \/ TakeSlot(i) /\ Goto(i, "enter")
     \/ Queue(i) /\ UNCHANGED pc
  /\ UNCHANGED <<owner, lifeVars, endVars, progVars, bgVars, lockVars>>

SlotWakeup(i) ==
  /\ SpuriousWakeup(i)
  /\ UNCHANGED <<pc, owner, lifeVars, endVars, progVars, bgVars, ops, lockVars>>

(* ScheduleThreadLocked waits for an operation in progress.  (An isolate   *)
(* is entered by one thread at a time: Dart_EnterIsolate stops the process *)
(* otherwise.)                                                             *)
ScheduleThread(i) ==
  /\ pc[i] = "enter" /\ owner = Nobody
  /\ Goto(i, IF i \in isolates_ THEN "run" ELSE "init")
  /\ UNCHANGED <<owner, lifeVars, endVars, progVars, bgVars, ops, lockVars, slotVars>>

(* ExitIsolate, when a task of the message handler has ended.  The slot is *)
(* given up after threads_lock.                                            *)
ExitIsolate(i) ==
  /\ pc[i] = "run" /\ Moves(i) /\ "leave" \in Calls[i]
  /\ Goto(i, "leaving")
  /\ UNCHANGED <<owner, lifeVars, endVars, progVars, bgVars, ops, lockVars, slotVars>>

DecreaseMutatorCount(i) ==
  /\ pc[i] \in {"leaving", "exiting"}
  /\ ReleaseSlot
  /\ Goto(i, IF pc[i] = "leaving" THEN "left" ELSE "uncount")
  /\ UNCHANGED <<owner, lifeVars, endVars, progVars, bgVars, ops, lockVars>>

-----------------------------------------------------------------------------
(* Creation: CreateWithinExistingIsolateGroup.                             *)

RegisterIsolate(i) ==
  /\ pc[i] = "registering" /\ Moves(i)
  /\ isolates_' = isolates_ \cup {i}
  /\ isolate_count_' = isolate_count_ + 1
  /\ LeaveWrite(i, "isolates")
  /\ Goto(i, "registered")
  /\ UNCHANGED <<owner, parent, spawn_count_, failed, endVars, progVars, bgVars, ops, slotVars>>

(* Creation is disabled when the VM shuts down: the isolate is cleaned up. *)
TryMarkIsolateReady(i) ==
  /\ pc[i] = "registered" /\ Moves(i)
  /\ \/ Goto(i, "initialize") /\ UNCHANGED failed
     \/ i \in MayFail /\ Goto(i, "unregister") /\ failed' = failed \cup {i}
  /\ UNCHANGED <<owner, isolates_, isolate_count_, parent, spawn_count_, endVars, progVars,
                 bgVars, ops, lockVars, slotVars>>

(* InitializeIsolate: Clone, MarkReadyToUse; then the thread is in native. *)
InitializeIsolate(i) ==
  /\ pc[i] = "cloning" /\ Moves(i)
  /\ table' = [table EXCEPT ![i] = top_]
  /\ LeaveRead(i, CloneLock)
  /\ Goto(i, "ready")
  /\ UNCHANGED <<owner, lifeVars, endVars, cls, top_, bgVars, ops, slotVars>>

(* Mutant: a parent is told of its last spawn only if it has others.       *)
NotifyIfMore(p) == pc[p] = "asleep_spawns" /\ spawn_count_[p] > 1

Notified(p) == pc[p] = "asleep_spawns"

(* DecrementSpawnCount, when the isolate is there, or has been given up.   *)
DecrementSpawnCount(i) ==
  LET p == parent[i]
      after == IF pc[i] = "ready" THEN "run" ELSE "failed_spawn"
  IN  /\ pc[i] \in {"ready", "gave_up"}
      /\ spawn_count_' = [spawn_count_ EXCEPT ![p] = @ - 1]
      /\ pc' = IF Notified(p) THEN [pc EXCEPT ![i] = after, ![p] = "wait_spawns"]
                              ELSE [pc EXCEPT ![i] = after]
      /\ UNCHANGED <<owner, isolates_, isolate_count_, parent, failed, endVars, progVars, bgVars,
                     ops, lockVars, slotVars>>

(* The task of an isolate that was given up enters the group once more, as *)
(* a helper, to delete its message.                                        *)
FailedSpawn(i) ==
  /\ \/ pc[i] = "failed_spawn" /\ owner = Nobody /\ Goto(i, "failing")
     \/ pc[i] = "failing" /\ Moves(i) /\ Goto(i, "dead")
  /\ UNCHANGED <<owner, lifeVars, endVars, progVars, bgVars, ops, lockVars, slotVars>>

-----------------------------------------------------------------------------
(* The end: Dart_ShutdownIsolate, Isolate::LowLevelCleanup.                *)

ShutdownIsolate(i) ==
  /\ i \in Mutator /\ pc[i] = "run" /\ Moves(i)
  /\ Goto(i, "wait_spawns")
  /\ UNCHANGED <<owner, lifeVars, endVars, progVars, bgVars, ops, lockVars, slotVars>>

(* Mutant: the spawns of an isolate may outlive it.                        *)
NeverWaits(i) == FALSE

MustWait(i) == spawn_count_[i] > 0

WaitForOutstandingSpawns(i) ==
  /\ pc[i] = "wait_spawns" /\ Moves(i)
  /\ Goto(i, IF MustWait(i) THEN "asleep_spawns" ELSE "unregister")
  /\ UNCHANGED <<owner, lifeVars, endVars, progVars, bgVars, ops, lockVars, slotVars>>

(* UnregisterIsolate; ExitIsolate, then the isolate is deleted.            *)
UnregisterIsolate(i) ==
  /\ pc[i] = "unregistering" /\ Moves(i)
  /\ isolates_' = isolates_ \ {i}
  /\ LeaveWrite(i, "isolates")
  /\ Goto(i, "unregistered")
  /\ UNCHANGED <<owner, isolate_count_, parent, spawn_count_, failed, endVars, progVars, bgVars,
                 ops, slotVars>>

DeleteIsolate(i) ==
  /\ pc[i] = "unregistered" /\ Moves(i)
  /\ table' = [table EXCEPT ![i] = NotReady]
  /\ Goto(i, "exiting")
  /\ UNCHANGED <<owner, lifeVars, endVars, cls, top_, bgVars, ops, lockVars, slotVars>>

(* UnregisterIsolateDecrementCount: whoever makes it 0 ends the group.     *)
UnregisterIsolateDecrementCount(i) ==
  /\ pc[i] = "uncounting"
  /\ isolate_count_' = isolate_count_ - 1
  /\ LeaveWrite(i, "isolates")
  /\ Goto(i, IF isolate_count_ = 1 THEN "stop_group" ELSE IF i \in failed THEN "gave_up" ELSE "dead")
  /\ UNCHANGED <<owner, isolates_, parent, spawn_count_, failed, endVars, progVars, bgVars, ops,
                 slotVars>>

-----------------------------------------------------------------------------
(* RunWithStoppedMutatorsCallable.                                         *)

RunWithStoppedMutators(t) ==
  /\ pc[t] = "run" /\ Moves(t) /\ Operation(t, "stop")
  /\ Goto(t, "stop")
  /\ UNCHANGED <<owner, lifeVars, endVars, progVars, bgVars, lockVars, slotVars>>

(* Mutant: any thread that finds one isolate runs alone.                   *)
AnyThread(t) == TRUE

MayBeAlone(t) == IsMutatorThread(t)

(* With isolates_lock_ read; ContainsOnlyOneIsolate reads it once more.    *)
StopCheck(t) ==
  /\ pc[t] = "stop_check" /\ Moves(t)
  /\ IF MayBeAlone(t)
     THEN Goto(t, "stop_both") /\ UNCHANGED lockVars
     ELSE Goto(t, "stop_request") /\ LeaveRead(t, "isolates")
  /\ UNCHANGED <<owner, lifeVars, endVars, progVars, bgVars, ops, slotVars>>

OnlyOneIsolate == isolate_count_ \in {0, 1}

ContainsOnlyOneIsolate(t) ==
  /\ pc[t] = "stop_count" /\ Moves(t)
  /\ LeaveRead(t, "isolates")
  /\ Goto(t, IF OnlyOneIsolate THEN "single" ELSE "stop_unlock")
  /\ UNCHANGED <<owner, lifeVars, endVars, progVars, bgVars, ops, slotVars>>

StopUnlock(t) ==
  /\ pc[t] = "stop_unlock" /\ Moves(t)
  /\ LeaveRead(t, "isolates")
  /\ Goto(t, "stop_request")
  /\ UNCHANGED <<owner, lifeVars, endVars, progVars, bgVars, ops, slotVars>>

(* single_current_mutator may allocate, and so collect garbage.            *)
CollectGarbage(t) ==
  /\ pc[t] = "single" /\ Moves(t) /\ Operation(t, "collect")
  /\ Goto(t, "gc_request")
  /\ UNCHANGED <<owner, lifeVars, endVars, progVars, bgVars, lockVars, slotVars>>

EndCollection(t) ==
  /\ pc[t] = "gc"
  /\ owner' = Nobody
  /\ Goto(t, "single")
  /\ UNCHANGED <<lifeVars, endVars, progVars, bgVars, ops, lockVars, slotVars>>

(* Mutant: a nested call takes isolates_lock_ like any other.              *)
NestedLocks(t) == "stop"

(* Where a RunWithStoppedMutators inside otherwise() goes: at a safepoint  *)
(* it calls its function at once.                                          *)
NestedStop(t) == "stopped"

RunNested(t) ==
  /\ pc[t] = "stopped" /\ Operation(t, "stop")
  /\ Goto(t, NestedStop(t))
  /\ UNCHANGED <<owner, lifeVars, endVars, progVars, bgVars, lockVars, slotVars>>

EndStopped(t) ==
  /\ \/ pc[t] = "single" /\ Moves(t) /\ LeaveRead(t, "isolates") /\ UNCHANGED owner
     \/ pc[t] = "stopped" /\ owner' = Nobody /\ UNCHANGED lockVars
  /\ Goto(t, "run")
  /\ UNCHANGED <<lifeVars, endVars, progVars, bgVars, ops, slotVars>>

-----------------------------------------------------------------------------
(* Finalizing a class: Class::EnsureIsAllocateFinalized, EnsureIsFinalized *)
(* and, for its static field, IsolateGroup::RegisterStaticField.           *)

EnsureIsAllocateFinalized(t) ==
  /\ pc[t] = "run" /\ Moves(t) /\ cls # "allocate_finalized" /\ Operation(t, "finalize")
  /\ Goto(t, "allocate")
  /\ UNCHANGED <<owner, lifeVars, endVars, progVars, bgVars, lockVars, slotVars>>

(* Mutant: what was read before the lock was taken is not read again.      *)
SeenBefore == "declared"

(* What is read with the write lock in hand: another thread may have been  *)
(* faster.                                                                 *)
Reread == cls

Allocating(t) ==
  /\ pc[t] = "allocating" /\ Moves(t)
  /\ \/ /\ Reread = "allocate_finalized"
        /\ LeaveWrite(t, "program") /\ Goto(t, "run")
     \/ /\ Reread = "finalized"
        /\ Goto(t, "allocate_class") /\ UNCHANGED lockVars
     \/ /\ Reread = "declared"
        /\ Goto(t, "finalize") /\ UNCHANGED lockVars
  /\ UNCHANGED <<owner, lifeVars, endVars, progVars, bgVars, ops, slotVars>>

(* FinalizeClass loads the class: its static field goes to                 *)
(* initial_field_table, which may have to grow.  When the declaration does *)
(* not load, the error unwinds both lockers.                               *)
Finalizing(t) ==
  /\ pc[t] = "finalizing" /\ Moves(t)
  /\ \/ /\ top_' = top_ + 1 /\ UNCHANGED lockVars
        /\ \E then \in {"field", "field_grow"} : Goto(t, then)
     \/ LeaveWrite(t, "program") /\ Goto(t, "load_failed") /\ UNCHANGED top_
  /\ UNCHANGED <<owner, lifeVars, endVars, cls, table, bgVars, ops, slotVars>>

(* Register in the field table of every isolate that IsReadyToUse.         *)
Extended ==
  [i \in Mutator |-> IF i \in isolates_ /\ table[i] # NotReady THEN table[i] + 1 ELSE table[i]]

(* Without growth under isolates_lock_, with growth in an operation.       *)
RegisterStaticField(t) ==
  /\ \/ pc[t] = "field_locked" /\ Moves(t) /\ UNCHANGED owner
     \/ pc[t] = "growing" /\ owner' = Nobody
  /\ table' = Extended
  /\ LeaveRead(t, "isolates")
  /\ Goto(t, "finalized")
  /\ UNCHANGED <<lifeVars, endVars, cls, top_, bgVars, ops, slotVars>>

EndFinalize(t) ==
  /\ \/ pc[t] = "finalized" /\ cls' = "finalized" /\ Goto(t, "allocate_class")
     \/ pc[t] = "allocate_class" /\ cls' = "allocate_finalized" /\ Goto(t, "run")
     \/ pc[t] = "load_failed" /\ UNCHANGED cls /\ Goto(t, "run")
  /\ Moves(t)
  /\ LeaveWrite(t, "program")
  /\ UNCHANGED <<owner, lifeVars, endVars, top_, table, bgVars, ops, slotVars>>

-----------------------------------------------------------------------------
(* The background compiler.                                                *)

(* Whether the VM's thread pool takes a task: until Dart::Cleanup.         *)
Accepts == ~shutting_down_

(* A function that is queued already is left where it is.                  *)
EnqueueCompilation(i) ==
  /\ i \in Mutator /\ pc[i] = "run" /\ Moves(i) /\ disabled_depth_ = 0 /\ Operation(i, "enqueue")
  /\ IF ~running_ /\ done_ /\ ~Accepts
     THEN UNCHANGED <<pc, running_, done_, function_queue, bg_asleep>>
     ELSE /\ running_' = TRUE
          /\ IF ~running_ /\ done_
             THEN done_' = FALSE /\ Goto(Compiler, "posted")
             ELSE UNCHANGED <<done_, pc>>
          /\ \/ function_queue' = function_queue + 1 /\ bg_asleep' = {}
             \/ function_queue > 0 /\ UNCHANGED <<function_queue, bg_asleep>>
  /\ UNCHANGED <<owner, lifeVars, endVars, progVars, disabled_depth_, lockVars, slotVars>>

(* BackgroundCompiler::Run takes a function, compiles it, may put it back. *)
EnterIsolateGroupAsHelper ==
  /\ pc[Compiler] = "posted" /\ owner = Nobody
  /\ Goto(Compiler, "bg_take")
  /\ UNCHANGED <<owner, lifeVars, endVars, progVars, bgVars, ops, lockVars, slotVars>>

TakeFunction ==
  /\ pc[Compiler] = "bg_take" /\ Moves(Compiler)
  /\ IF running_ /\ function_queue > 0
     THEN function_queue' = function_queue - 1 /\ Goto(Compiler, "run")
     ELSE Goto(Compiler, "bg_exited") /\ UNCHANGED function_queue
  /\ UNCHANGED <<owner, lifeVars, endVars, progVars, running_, done_, disabled_depth_, bg_asleep, ops,
                 lockVars, slotVars>>

EndCompile ==
  /\ pc[Compiler] = "run" /\ Moves(Compiler)
  /\ \/ UNCHANGED <<function_queue, ops>>
     \/ running_ /\ Operation(Compiler, "enqueue") /\ function_queue' = function_queue + 1
  /\ Goto(Compiler, "bg_exited")
  /\ UNCHANGED <<owner, lifeVars, endVars, progVars, running_, done_, disabled_depth_, bg_asleep,
                 lockVars, slotVars>>

RescheduleOrDone ==
  /\ pc[Compiler] = "bg_exited"
  /\ IF running_ /\ function_queue > 0 /\ Accepts
     THEN Goto(Compiler, "posted") /\ UNCHANGED <<running_, done_, bg_asleep>>
     ELSE /\ running_' = FALSE /\ done_' = TRUE /\ bg_asleep' = {}
          /\ Goto(Compiler, "idle")
  /\ UNCHANGED <<owner, lifeVars, endVars, progVars, function_queue, disabled_depth_, ops, lockVars,
                 slotVars>>

(* Mutant: what is queued stays queued.                                    *)
QueueKept == function_queue

QueueCleared == 0

Disable(i) ==
  /\ i \in Mutator /\ pc[i] = "run" /\ Moves(i) /\ Operation(i, "disable")
  /\ disabled_depth_' = disabled_depth_ + 1
  /\ IF done_
     THEN Goto(i, "disabled") /\ UNCHANGED <<running_, function_queue>>
     ELSE running_' = FALSE /\ function_queue' = QueueCleared /\ Goto(i, "disabling")
  /\ UNCHANGED <<owner, lifeVars, endVars, progVars, done_, bg_asleep, lockVars, slotVars>>

(* The wait of StopLocked, for Disable and for the end of the group.       *)
StopWait(t) ==
  /\ pc[t] \in {"disabling", "group_stopping"} /\ t \notin bg_asleep /\ Moves(t)
  /\ IF done_
     THEN Goto(t, IF pc[t] = "disabling" THEN "disabled" ELSE "group_stopped") /\ UNCHANGED bg_asleep
     ELSE bg_asleep' = bg_asleep \cup {t} /\ UNCHANGED pc
  /\ UNCHANGED <<owner, lifeVars, endVars, progVars, running_, done_, function_queue, disabled_depth_,
                 ops, lockVars, slotVars>>

Enable(i) ==
  /\ pc[i] = "disabled" /\ Moves(i)
  /\ disabled_depth_' = disabled_depth_ - 1
  /\ Goto(i, "run")
  /\ UNCHANGED <<owner, lifeVars, endVars, progVars, running_, done_, function_queue, bg_asleep, ops,
                 lockVars, slotVars>>

(* The last isolate enters as a helper, stops the compiler and leaves.     *)
StopGroup(i) ==
  /\ pc[i] = "stop_group" /\ owner = Nobody
  /\ running_' = FALSE /\ function_queue' = QueueCleared
  /\ Goto(i, "group_stopping")
  /\ UNCHANGED <<owner, lifeVars, endVars, progVars, done_, disabled_depth_, bg_asleep, ops, lockVars,
                 slotVars>>

(* It shuts the group down itself, unless it is a worker of the group's    *)
(* pool, as all but Main are: then it leaves that to the VM's pool.        *)
ShutdownGroup(i) ==
  /\ pc[i] = "group_stopped" /\ Moves(i)
  /\ group' = IF i = Main \/ Accepts THEN "shutdown" ELSE group
  /\ Goto(i, IF i \in failed THEN "gave_up" ELSE "dead")
  /\ UNCHANGED <<owner, lifeVars, tasks_, shutting_down_, progVars, bgVars, ops, lockVars, slotVars>>

-----------------------------------------------------------------------------
(* The end of the group: the tasks of its pool and of the collector.       *)

Workers == Mutator \ {Main}

(* MutatorThreadPool::OnEnterIdleLocked: when no task of the pool runs,    *)
(* the worker that went idle last notifies the heap: it may start marking. *)
NotifyIdle ==
  /\ pc[IdleWorker] = "idle" /\ group \in {"up", "shutdown"} /\ owner = Nobody
  /\ \A i \in Workers : pc[i] \in {"none", "left", "dead"} /\ queued[i] = "no"
  /\ \E i \in Workers : pc[i] # "none"
  /\ Operation(IdleWorker, "notify")
  /\ Goto(IdleWorker, "idle_request")
  /\ UNCHANGED <<owner, lifeVars, endVars, progVars, bgVars, lockVars, slotVars>>

EndNotifyIdle ==
  /\ \/ /\ pc[IdleWorker] = "idle_gc" /\ owner' = Nobody
        /\ Goto(IdleWorker, "notified") /\ tasks_' \in {tasks_, TRUE}
     \/ /\ pc[IdleWorker] = "notified" /\ Moves(IdleWorker)
        /\ Goto(IdleWorker, "idle") /\ UNCHANGED <<owner, tasks_>>
  /\ UNCHANGED <<lifeVars, group, shutting_down_, progVars, bgVars, ops, lockVars, slotVars>>

(* ConcurrentMarkTask comes to its end.                                    *)
EndTask ==
  /\ tasks_ /\ tasks_' = FALSE
  /\ UNCHANGED <<pc, owner, lifeVars, group, shutting_down_, progVars, bgVars, ops, lockVars,
                 slotVars>>

(* ThreadPool::Shutdown of the group's pool joins its workers.             *)
PoolIdle == pc[IdleWorker] = "idle" /\ \A i \in Workers : pc[i] \in {"none", "dead"}

(* Mutant: the workers of the pool are not joined.                         *)
WithoutJoin == [shutdown |-> TRUE, joined |-> ~tasks_]

(* Mutant: the collector's tasks are waited for before the join.           *)
CollectorFirst == [shutdown |-> ~tasks_, joined |-> PoolIdle]

(* What IsolateGroup::Shutdown waits for, in its order.                    *)
JoinFirst == [shutdown |-> PoolIdle, joined |-> ~tasks_]

(* IsolateGroup::Shutdown; UnregisterIsolateGroup and delete.              *)
Shutdown ==
  /\ group \in {"shutdown", "joined"} /\ JoinFirst[group]
  /\ group' = IF group = "shutdown" THEN "joined" ELSE "down"
  /\ UNCHANGED <<pc, owner, lifeVars, tasks_, shutting_down_, progVars, bgVars, ops, lockVars,
                 slotVars>>

(* Mutant: Dart::Cleanup does not wait for the groups.                     *)
CleansUpAtOnce == TRUE

(* WaitForIsolateShutdown: HasOnlyVMIsolateGroup.                          *)
OnlyVMIsolateGroup == group = "down"

(* Dart::Cleanup shuts the VM's pool down.                                 *)
Cleanup ==
  /\ OnlyVMIsolateGroup /\ Accepts
  /\ shutting_down_' = TRUE
  /\ UNCHANGED <<pc, owner, lifeVars, group, tasks_, progVars, bgVars, ops, lockVars, slotVars>>

-----------------------------------------------------------------------------
Creates(i) ==
  RegisterIsolate(i) \/ TryMarkIsolateReady(i) \/ InitializeIsolate(i) \/ DecrementSpawnCount(i)
  \/ FailedSpawn(i)

Ends(i) ==
  \/ WaitForOutstandingSpawns(i) \/ UnregisterIsolate(i) \/ DeleteIsolate(i)
  \/ UnregisterIsolateDecrementCount(i) \/ StopGroup(i) \/ ShutdownGroup(i)

Stops(t) ==
  StopCheck(t) \/ ContainsOnlyOneIsolate(t) \/ StopUnlock(t) \/ EndCollection(t) \/ EndStopped(t)

Finalizes(t) ==
  Allocating(t) \/ Finalizing(t) \/ RegisterStaticField(t) \/ EndFinalize(t)

Compiles ==
  EnterIsolateGroupAsHelper \/ TakeFunction \/ EndCompile \/ RescheduleOrDone

(* What the programs ask for.                                              *)
Asks(t) ==
  \/ t \in Mutator /\ \E child \in Mutator : Spawn(t, child)
  \/ RunWithStoppedMutators(t) \/ CollectGarbage(t) \/ RunNested(t)
  \/ EnsureIsAllocateFinalized(t)
  \/ EnqueueCompilation(t) \/ Disable(t) \/ ShutdownIsolate(t)

(* What a thread that has begun something does next.                       *)
Continues(t) ==
  \/ EnterLock(t) \/ Begin(t) \/ Stops(t) \/ Finalizes(t) \/ StopWait(t)
  \/ t \in Mutator /\ (Creates(t) \/ Ends(t) \/ Enable(t) \/ ScheduleThread(t)
                        \/ DecreaseMutatorCount(t) \/ IncreaseMutatorCount(t))

Next ==
  \/ \E t \in Thread : Asks(t) \/ Continues(t)
  \/ \E i \in Mutator : ExitIsolate(i) \/ SlotWakeup(i)
  \/ Compiles \/ NotifyIdle \/ EndNotifyIdle \/ EndTask \/ Shutdown \/ Cleanup

Spec == Init /\ [][Next]_vars

(* The operating system runs every thread, and a task of a program ends:   *)
(* an isolate does not run for ever without going back to its event loop.  *)
(* The pool's other work, the idle notification, the collector's tasks and *)
(* the end of the group, is not put off for ever either.                   *)
FairSpec ==
  /\ Spec
  /\ \A i \in Mutator : WF_vars(Continues(i) \/ ExitIsolate(i))
  /\ WF_vars(Continues(Compiler) \/ Compiles)
  /\ WF_vars(Continues(IdleWorker) \/ EndNotifyIdle \/ EndTask \/ Shutdown)

-----------------------------------------------------------------------------
(* Where threads can be.                                                   *)

(* In RunWithStoppedMutators, and in EnsureIsAllocateFinalized.            *)
StopLoc == {"stop", "stop_check", "stop_both", "stop_count", "stop_unlock", "single",
            "gc_request", "gc", "stop_request", "stopped"}

FieldLoc == {"field", "field_grow", "field_locked", "grow_request", "growing"}

FinalLoc == {"finalize", "finalizing", "finalized", "allocate_class", "load_failed"} \cup FieldLoc

ClassLoc == {"allocate", "allocating"} \cup FinalLoc

(* Before RegisterIsolate and after UnregisterIsolate.                     *)
NewLoc == {"none", "spawned", "init", "registering"}

CreateLoc == {"registered", "initialize", "cloning"}

LeaveLoc == {"unregister", "unregistering"}

CountedLoc == {"unregistered", "exiting", "uncount", "uncounting"}

EndLoc == {"stop_group", "group_stopping", "group_stopped"}

OutLoc == NewLoc \cup CountedLoc \cup EndLoc \cup {"gave_up", "failed_spawn", "failing", "dead"}

RunLoc == {"ready", "run", "left", "leaving", "wait_spawns", "asleep_spawns",
           "disabling", "disabled"} \cup StopLoc \cup ClassLoc

MutatorLoc == OutLoc \cup CreateLoc \cup LeaveLoc \cup RunLoc \cup {"enter"}

CompilerLoc == {"idle", "posted", "bg_take", "bg_exited", "run", "stop", "stop_check",
                "stop_request", "stopped"} \cup ClassLoc

IdleLoc == {"idle", "idle_request", "idle_gc", "notified"}

Loc == MutatorLoc \cup CompilerLoc \cup IdleLoc

-----------------------------------------------------------------------------
(* Properties.                                                             *)

(* The type invariant.                                                     *)
TypeOK ==
  /\ pc \in [Thread -> Loc] /\ owner \in Thread \cup {Nobody}
  /\ isolates_ \subseteq Mutator /\ isolate_count_ \in 0..Cardinality(Mutator)
  /\ spawn_count_ \in [Mutator -> Nat] /\ failed \subseteq Mutator
  /\ top_ \in Nat /\ table \in [Mutator -> Nat \cup {NotReady}]
  /\ active_mutators_ \in 0..MaxActiveMutators
  /\ disabled_depth_ \in Nat /\ bg_asleep \subseteq Thread /\ function_queue \in Nat
  /\ group \in {"up", "shutdown", "joined", "down"}
  /\ want \in [Thread -> Request \cup {Nothing, Acquired}] /\ sleeping \subseteq Thread
  /\ state_ \in [Lock -> Int] /\ writer_id_ \in [Lock -> Thread \cup {Nobody}]

(* While a thread runs as the only mutator, or in an operation of its own, *)
(* no other isolate can run Dart code (RunWithStoppedMutators), and nobody *)
(* is in the middle of a change of isolates_, which an operation walks     *)
(* without the lock (ForEachIsolate at a safepoint).                       *)
StoppedMutators ==
  /\ \A t \in Thread : pc[t] \in {"single", "stopped", "gc"}
       => \A u \in Mutator \ {t} : pc[u] = "run" => owner = t
  /\ owner # Nobody => \A u \in Thread \ {owner} : pc[u] \notin {"registering", "unregistering"}

(* The entries of readers_ids_: one for each time a thread has read.       *)
Entries(l) == UNION {{t} \X (1 .. readers_ids_[l][t]) : t \in Thread}

(* Nobody waits without need.  state_ is what the entries of the threads   *)
(* make it, as the assertions of LeaveRead and LeaveWrite say, and nobody  *)
(* sleeps on a lock that is free for it.  A reader that reads again never  *)
(* waits, since a waiting writer is not served first, nor does the owner   *)
(* of an operation, as whoever has the lock may be held up by that         *)
(* operation (the assertion of EnterRead).  And while a mutator sleeps the *)
(* free slots are not more than the mutators that were woken.              *)
WaitersAreServed ==
  /\ TypeOK
  /\ \A l \in Lock :
       \/ state_[l] >= 0 /\ writer_id_[l] = Nobody
          /\ state_[l] = Cardinality(Entries(l))
       \/ state_[l] < 0 /\ writer_id_[l] \in Thread
          /\ \A t \in Thread : readers_ids_[l][t] = 0
  /\ \A t \in sleeping : ~FreeFor(want[t])
  /\ \A t \in Thread : want[t].lock \in Lock => readers_ids_[want[t].lock][t] = 0
  /\ owner # Nobody => ~Blocked(owner)
  /\ LET In(s) == Cardinality({i \in Mutator : queued[i] = s})
     IN  In("asleep") > 0 => MaxActiveMutators - active_mutators_ <= In("woken")

(* Outside of RegisterStaticField every field table that is ready has      *)
(* every static field, an isolate that runs has its table, and a class is  *)
(* finalized once, however many threads need it at a time.                 *)
FieldTablesAgree ==
  /\ top_ <= 1
  /\ \A i \in isolates_ :
       /\ pc[i] = "run" => table[i] # NotReady
       /\ table[i] # NotReady /\ writer_id_["program"] = Nobody => table[i] = top_

(* The compiler's queue is empty or served, also when compilation has just *)
(* been disabled: the assertion of EnqueueCompilation.  A pool that no     *)
(* longer takes tasks would leave it unserved, but Dart::Cleanup waits for *)
(* the end of the groups first.                                            *)
QueueIsServed ==
  function_queue > 0 => running_ /\ ~done_ /\ pc[Compiler] # "idle"

(* The group ends with its last isolate: IsolateGroup::Shutdown begins     *)
(* when no isolate is left and no compilation is in progress, and it       *)
(* deletes the group when no thread is in it or on its way there, not even *)
(* one that deletes what is left of a failed spawn, nor a collector's task.*)
GroupOutlivesItsIsolates ==
  /\ group # "up" => isolate_count_ = 0 /\ pc[Compiler] = "idle"
  /\ group = "down" => ~tasks_ /\ \A t \in Thread : pc[t] \in {"none", "dead", "idle"}

(* Isolate.spawn comes to its end: no parent waits for its spawns for      *)
(* ever, the isolate is there or given up.                                 *)
SpawnsComplete == []<>(\A i \in Mutator : spawn_count_[i] = 0)

(* What is begun is ended: whoever takes a lock, stops the mutators,       *)
(* finalizes a class, disables the compiler, enters or shuts down, gets    *)
(* there, and the last isolate takes the group with it.                    *)
OperationsComplete ==
  []<>(/\ \A t \in Thread : pc[t] \in {"none", "run", "left", "dead", "idle"}
       /\ \A i \in Mutator : queued[i] = "no"
       /\ isolate_count_ = 0 => group = "down")
=============================================================================
