# TLA+ models of the Dart VM's concurrency

The Dart SDK is a large repository: a virtual machine in C++ (`runtime/`), the
core libraries (`sdk/`), and compilers, an analyzer and tools written in Dart
(`pkg/`).  Most of it is sequential.  What is hard to test is the part of the
VM where threads meet: how isolates are created and scheduled, how they
exchange messages, how the VM stops all of them, how its collectors share their
work, and how all of that is shut down.  This directory
models that part.  All paths below are relative to `src/runtime/vm/` unless
they begin with `runtime`, `pkg` or `sdk`.

## 1. Inventory

### The parts and their state

| Part | Code | State | Operations |
|---|---|---|---|
| Safepoints | `heap/safepoint.{h,cc}` | per level (GC, GC+deopt): `owner_`, `operation_count_`, `num_threads_not_parked_` | `SafepointThreads`, `ResumeThreads`, `EnterSafepoint*`, `ExitSafepoint*`, `BlockForSafepoint` |
| Thread state | `thread.{h,cc}`, `thread_registry.cc` | the atomic word `safepoint_state_`, execution state, safepoint level, the active list | transitions between generated, VM, native and blocked code; entering and leaving a group |
| Thread pool | `thread_pool.{h,cc}` | lists of idle, running and dead workers, `tasks_`, `max_pool_size_`, shutdown flags | `RunImpl`, `WorkerLoop`, `MarkCurrentWorkerAs(Un)Blocked`, `Shutdown` |
| Message handler | `message_handler.{h,cc}` | two queues, `pool_`, `task_running_`, pause flags, `delete_me_` | `PostMessage`, `HandleMessages`, `TaskCallback`, `PauseAndHandleAllMessages`, `RequestDeletion` |
| Message queues | `message.{h,cc}` | a linked list | `Enqueue` with a splice, `Dequeue`, `Clear` |
| Isolate messages | `isolate.cc` | resume capabilities, sticky error | `HandleMessage`, `HandleLibMessage`, error to status |
| Port map | `port.{h,cc}` | `ports_`, each handler's `ports_` and `live_ports_` | `CreatePort`, `SetPortState`, `ClosePort(s)`, `PostMessage`, `Cleanup` |
| Port set | `port_set.h` | an open-addressing hash table with tombstones | `Insert`, `Delete`, `TryLookup`, `Contains`, `Rebalance` |
| Native ports | `native_api_impl.cc`, `native_message_handler.cc` | a handler owned by the port map | `Dart_NewNativePort`, `Dart_CloseNativePort` |
| Isolate group | `isolate.cc`, `dart.cc`, `runtime/lib/isolate.cc` | `isolates_`, `isolate_count_`, `spawn_count_` | spawn, register, initialize, shut down, `RunWithStoppedMutators` |
| Mutator slots | `isolate.cc` | `active_mutators_`, `waiting_mutators_` | `IncreaseMutatorCount`, `DecreaseMutatorCount` |
| Reader-writer locks | `lockers.{h,cc}` | `state_`, `writer_id_`, `readers_ids_` | enter and leave, waiting at a safepoint |
| Class finalization | `object.cc`, `field_table.cc` | state of a class, field tables | `EnsureIsFinalized`, `RegisterStaticField` |
| Background compiler | `compiler/jit/compiler.cc` | queue, `running_`, `done_`, `disabled_depth_` | `EnqueueCompilation`, `Run`, `Stop`, `Disable`, `Enable` |
| Work sharing | `heap/pointer_block.{h,cc}`, `thread_barrier.h` | stacks of blocks, busy count, barrier | push, pop, `WaitForWork`, `Sync`, `TryEnter`, `Release` |
| Parallel marker | `heap/marker.cc` | mark bits, marking stacks, delayed weak objects | `MarkObjects`, `ParallelMarkTask` |
| Parallel scavenger | `heap/scavenger.cc` | forwarding pointers, promotion stack, store buffer | `ParallelScavenge`, `ParallelScavengerTask` |
| Old space | `heap/heap.cc`, `heap/pages.cc`, `heap/sweeper.cc`, `heap/marker.cc` | phase, `tasks()`, `marker_`, page lists | collections, concurrent marking and sweeping, heap iteration |
| Free lists, compactor | `heap/freelist.cc`, `heap/compactor.cc` | memory | allocation, sliding |
| Reload, service, debugger, profiler | `isolate_reload.cc`, `service.cc`, ... | program structure, observers | requests |
| Snapshots, compilers | `app_snapshot.cc`, `compiler/` | object graphs | sequential transformations |
| I/O | `runtime/bin/` | mostly the kernel's | epoll, kqueue, IOCP |
| Libraries and tools | `sdk/lib`, `pkg/` | | sequential Dart |

### How they interact

A message is posted through the port map, which finds the handler of the port
under `PortMap::mutex_` and calls `MessageHandler::PostMessage` while it holds
it.  The handler puts the message in one of two queues: events, and out-of-band
control messages, which are handled first.  If the handler has a pool and no
task it asks the thread pool to run one.  The task handles messages until there
are none, and it decides whether the isolate is paused, goes idle or exits.  A
thread that runs Dart code also handles control messages at interrupt checks,
and may block for messages (`PauseAndHandleAllMessages`).

Every thread that runs an isolate or helps the GC belongs to the isolate group
and has a state word.  A thread that wants to collect garbage, deoptimize code
or reload opens a safepoint operation.  It asks all others to park, waits until
they have, runs, and lets them go.  Parking and leaving are one
compare-exchange on the state word unless a request is pending.  The locks of
the group wait at a safepoint, for the same reason.

The collectors run in safepoint operations.  A scavenge and the end of a
marking are shared by the thread that owns the operation and helper tasks of
the thread pool, which come when they come.  Concurrent marking and sweeping go
on outside of safepoints, as tasks that `PageSpace` counts; whoever needs the
heap at rest waits until there are none.

### What is hard, and what should hold

`PROJECT.json` lists the hazards, each at the line where it bites.  In short:
lock-free fast paths that race with requests; condition variables whose
notification may reach nobody; flags that are read under one lock and written
under another; state that is re-read after a monitor was released and taken
again; calls that re-enter through the messages they handle; two threads that
decide which of them deletes an object; and shutdown at any moment.

The memory model is not modelled: an atomic operation is one step.  What the
acquire and release orders in the code guarantee is taken as given.

## 2. Modules

Each component has a specification `X.tla`, a module `MCX.tla` that EXTENDS it
for TLC (symmetry sets), and one or more `.cfg` files.  Variables that are
fields of the code keep its names, with the trailing underscore.  Definitions
marked as mutants are plausible mistakes in the definition that follows them;
they are used by nothing and exist to show that a property can be violated.

### Safepoint

State: for each thread its place `pc`, its safepoint level, and the bits of
`safepoint_state_` (`at`, `req`, `blocked`, `bypass`); for each level its
handler's `owner`, `count` and `notParked`; the active list; who holds
`threads_lock` between steps (`lock`, `todo`) and who waits where.

Actions: one per step that the code takes without releasing a lock.  The loops
of `SafepointThreads` and `ResumeThreads` that visit the active list take one
step per thread, because the other threads take only their own `thread_lock`
or no lock at all and so move in between.  `EnterSafepoint` and `ExitSafepoint`
have the compare-exchange path and the locked path.  A thread may enter or
leave the group, go from generated to VM code and back, block, go native, make
runtime calls that cannot deoptimize (their level is GC only), and open nested
operations.  A wait may end spuriously.

Left out: the unwind bit, which only sends threads through the slow path, and
memory orders.

### ThreadPool

State: the lists of workers as sets (their counts are the sizes of the sets),
where each worker's thread is, the queue `tasks_`, and the thread in `Shutdown`.
`pool_monitor_` is free between steps except where the code takes
`exit_monitor_` inside it (`holder`).

Actions: `RunImpl`, the steps of `WorkerLoop` between two waits, the death of a
worker with the joining of those that died before it, the two `Mark...`
operations, and `Shutdown`.  A task may leave its isolate (become blocked) and
enter it again.  `MutatorThreadPool::OnEnterIdleLocked` releases the monitor to
notify the heap that the isolate group is idle; whether it does so is a choice.
A wait may time out or end spuriously at any time.

### MessageHandler

The handler of one isolate: its two queues, flags, the task on the pool, and
`frames`, the stack of `HandleMessages` calls and waits of the thread that runs
the isolate.  The isolate may run on a pool or on the embedder's own thread,
which calls `HandleNextMessage`, `HandleOOBMessages` and
`PauseAndHandleAllMessages` directly, until it calls `Run`, if it ever does.
The pause flags the isolate starts with are a choice of `Init`.

A message is its kind: an event; an isolate-library request to pause, resume
or kill; the VM's own kill; a ping that is to be answered before the next event
(`before`) or as an event (`late`); a service request that resumes the isolate,
sets the pause-at-exit flag, or evaluates an expression.  What Dart code does
with an event is a choice: it returns, fails, closes the last port, waits for
messages, or is interrupted.

Left out: `start_callback_`, for which every caller outside the tests passes
NULL; several resume capabilities at once (one stands for all); and
`AcquiredQueues`, used by the debugger.

### PortMap

Ports, the handlers they refer to, and the lives of these handlers.  An isolate
owns its handler and closes its ports before it deletes it; a native handler is
owned by the map, has one port, and is deleted by whichever of `ClosePort` and
its own task comes last.  `mutex_` is held over several steps only in
`ClosePort`, between the decrement of `live_ports_` and the removal of the
entry, because a task reads `live_ports_` without `mutex_`.  The messages of a
native handler are counted.

The callers' contract is part of the model.  A port that was just created
becomes live or a control port; a live port may become inactive and live again
(`SetPortState` does not check this).  `Cleanup` is called when the isolates
are gone, the pool has run its tasks and no thread is in the API.

### PortSet and PortSetSpec

`PortSet` is the hash table, slot by slot: linear probing, the markers for free
and deleted slots, and rehashing.  Its operations are atomic, since `PortMap`
calls them under its mutex.  `PortSetSpec` is a set of ports with insertion,
deletion and a query; `PortSet` implements it with the ports in the table as
the refinement mapping.  `AllocatePort` is part of `Insert`.

### WorkSharing, ParallelMark and MarkingSpec

`WorkSharing` is what the two parallel collectors have in common: blocks on a
shared stack and in the local input and output of each worker, the counter
`num_busy`, the wait for work, and the barrier with its three counters and its
generation.  A block is a set, so that the order of objects is left open.

`ParallelMark` is `GCMarker::MarkObjects` with its helper tasks: roots by
slices, marking through one pointer at a time, the deferred stack, weak
properties that wait for their keys, the loop that ends when no worker has
found anything, the clearing of weak references, properties, finalizer entries
and weak slots, and the last barrier.  `Init` is a stop-the-world marking or
what concurrent marking leaves behind: marked and grey objects, deferred ones,
and lists of delayed objects in the visitors.  Deferred objects may be weak
ones: `Thread::RestoreWriteBarrierInvariant` defers every live instance of a
Dart class.  They are scanned again, but not delayed again (`Rescans`).  The
additional barrier of a DEBUG build is a choice.  `MarkingSpec` says what marking is for: it marks
live objects only, and ends when all of them are marked.  Its `Live` is the
least set closed under pointers, and under weak properties whose key is in it.

### ParallelScavenge

`Scavenger::ParallelScavenge` and its tasks, on top of `WorkSharing`.  Each
object is copied, its forwarding pointer installed by one compare-exchange, and
the copy given back by who loses.  State: where each object is, which slots
have been updated, the old and the new store buffer, the room in to-space (by
pages) and in old space, the objects each worker has copied and how far it has
resolved them, delayed weak objects, and `abort_`.  A worker that finds no room
jumps out of what it visits.  The check of `num_busy` in a DEBUG build, with
its second barrier, is a choice made at the start.  While concurrent marking is
going on the marker may come across a promoted object as soon as a slot points
to it (`MarkerPushes`); the mark bit that is set before the forwarding pointer
keeps it from pushing the object (`MarkedWhenPromoted`).

### OldSpace

The functions of `PageSpace`, `Heap` and the marker that decide who may do what
to old space when.  State: `phase`, `tasks()`, `concurrent_marker_tasks()`,
`marker_`, the lists of pages, the tasks, who waits on `tasks_lock`, and for
each thread the list of calls it is in (`todo`).  Operations: scavenges, full
collections with and without compaction, allocation with its sequence of
attempts, incremental marking, idle notifications, heap iterations, the marking
switch of a hot reload, and the shutdown of the group.  What a threshold or a
deadline decides is a choice.  A GC safepoint is its `owner`: that no other
thread moves meanwhile is what `OperationsAreExclusive` says of `Safepoint`.
That `--use_compactor` turns every full collection into one with compaction
(`heap.cc:491`) is left out: both kinds are among the choices anyway.

### SafepointRwLock, MutatorSlots and IsolateGroup

`SafepointRwLock` and `MutatorSlots` are the lock and the monitor; they have
operators for each operation and no specification of their own.
`IsolateGroup` composes them: isolates are spawned, wait for a slot, register
under `isolates_lock_`, copy the initial field table under `program_lock()`,
run, stop the mutators, collect garbage, finalize a class, register its static
field, feed or disable the background compiler, leave and come back, and shut
down.  Creation may fail; then the task of the spawn tells its parent, which
may go on and end the group, and enters the group once more to delete what is
left of the message (`FailedSpawn`).  Loading the declaration of the class may
fail, which unwinds both lockers (`load_failed`).  As in `OldSpace` a safepoint
operation is its owner; a thread blocked on a lock may still get it during the
operation, but goes on only afterwards.

The last isolate ends the group: it stops the compiler and calls
`IsolateGroup::Shutdown`, or posts that to the VM's pool if it runs on a worker
of the group's own pool (`ShutdownGroup`; `Main` runs on a thread of the
embedder).  `Shutdown` joins the group's pool and then waits for the tasks of
the collector.  The last worker of the pool to go idle may run an idle
notification until it is joined, which may start marking (`NotifyIdle`).
`Dart::Cleanup` shuts the VM's pool down when the group is gone.  That pool
then refuses tasks, and the background compiler has branches for that: they are
in the model, and the order of `Dart::Cleanup` is why they are not taken.

Three branches of the code are left out.  `Isolate::ScheduleThread` returns
with the slot in hand when the isolate has a mutator already; every caller
excludes it (`Dart_EnterIsolate` stops the process then).  Without a long jump
base an error of `EnsureIsFinalized` is followed by `AllocateFinalizeClass`,
which asserts that the class is finalized.  And errors after the static field
was registered (the values of an enum) leave the class finalized, as success
does.

## 3. Model checking

The instances are small.  Sizes were chosen so that the hard cases occur: each
property is violated by at least one mutant of the code in the same instance.

| Run | Instance | What it shows |
|---|---|---|
| `safepoint` | 2 threads, 3 operations, both levels, fair | operations exclude mutators; check-ins are counted exactly; operations run and parked threads resume |
| `thread_pool` | 3 workers, 3 tasks, maximal size 1, 2 or none, fair | no task is lost, duplicated or stalled; workers are joined once; `Shutdown` returns with everything done |
| `message_handler` | 3 messages of 9 kinds, 3 nested calls, fair | no message missed or out of order; shutdown is final; the VM's kill ends the isolate; events are handled |
| `port_map` | 1 isolate with 2 ports, 2 native ports, 2 messages each, fair | handlers are deleted once, not used afterwards, and in the end |
| `port_set` | 6 colliding ids, capacity 4 growing to 8 | counters exact, searches end, the table implements the set |
| `parallel_mark` | 3 workers, 7 objects, 4 heaps, both builds, fair | marking implements `MarkingSpec`; the workers stop together; weak objects are cleared exactly |
| `parallel_scavenge` | 3 workers, 5 young objects, 3 heaps of a release and 1 of a DEBUG build, fair | exactly the reachable objects survive; no pointer into from-space is left; store buffer and marking stack get what they must |
| `old_space` | 2 threads, 2 markers, 2 root slices, 2 pages, 2 operations, fair | phases, tasks and pages are as the code asserts; every wait ends |
| `isolate_group` | 2 slots; 3 isolates with 2 operations, or 4 with none; the compiler, an idle worker, fair | mutators are stopped; no lock or slot is waited for in vain; field tables agree; the compiler's queue is served; nothing outlives the group; everything begun is ended |
| `message_handler_error`, `scavenge_scope`, `isolate_group_spawn` | small | expected violations, section 5 |

A property is often a conjunction of what belongs together, with the type
invariant of its module in one of them.  Each has at least one mutant.

Bounds:

* `MaxOps` bounds how often an operation scope is opened.  Three are enough for
  an operation at each level to wait for a running one, and for a nested one.
* `MaxMessages` bounds the messages posted in a behaviour.  Three allow a
  control message before and after an event, with any interleaving.
* `MaxDepth` bounds `frames`.  Three are the task's `HandleMessages`, a wait
  inside its Dart code, and a `HandleMessages` inside the wait.
  That a wait is notified (`NoMissedMessage`) holds with these and without
  `evaluate` messages, that is as long as waits are not nested; see section 5.
* The port set begins with capacity 4 where the code has 8, so that the table
  is filled, flushed and grown within few steps; the code's arithmetic does not
  depend on the initial capacity beyond its being a multiple of 4.
* `MaxQueue` stops the posting of messages to a native handler, not their
  handling.

* `MaxOps` of `OldSpace` bounds the operations begun, and `ops` of
  `IsolateGroup` those still to come.  One operation is a whole collection with
  all its waits, so that two of them, the tasks they leave behind and the
  shutdown meet at any step; in `IsolateGroup` spawning, leaving and shutting
  down come on top.  `Starts` has a group in which one isolate has come and
  gone, with two operations to come, and one in which two isolates can wait for
  the two slots at the same time.
* The heaps of the parallel collectors are given, not enumerated: each is made
  for a case (a chain of weak properties, a finish after concurrent marking,
  weak objects that are deferred, objects reached by two workers, an object
  found late, no room), and all interleavings of three
  workers are explored on it.  `BlockSize` is 1, so that work is shared as often
  as it can be.

Deadlock is checked for the safepoints, the pool and the port set.  The others
do stop: the isolate, group or heap is gone, the collection is over, `Cleanup`
has been called, or what is bounded is used up.

### Fairness

* Safepoint: a thread inside the handler's code takes its next step and ends
  its nested operations (WF); generated code polls (SF: it does so at every
  function entry and loop iteration, and other actions of the same thread may
  disable the poll for a moment); runtime calls that cannot deoptimize end
  (SF); waits for locks in the blocked state end (WF).  Native code need not
  return, and no wait is ever ended by a spurious wakeup.
* ThreadPool: threads are scheduled (WF), tasks return (SF, since a task may
  leave and enter its isolate repeatedly), a blocked task continues (WF).
  The wait inside the idle hook times out (WF).  This is needed: a worker that
  enters the hook after `Shutdown` has notified everybody is woken by nothing
  else.  The time it waits is `idle_expiry - now` (`isolate.cc:302`); the
  assumption leaves out the case that this is exactly 0, which `WaitMicros`
  takes for no timeout.  The workers' other wait need not time out, because
  `--worker_timeout_millis` may be 0.
* MessageHandler: the task takes its next step, and the thread that runs Dart
  code checks for interrupts (WF).  Dart code may never return; only
  `EventsHandled` has its return as a hypothesis.
* PortMap: tasks and threads inside `ClosePort` take their next step (WF).
* ParallelMark and ParallelScavenge: the workers that have started take their
  next step (WF).  No helper need ever start: the pool may be busy.
* OldSpace: threads and tasks take their next step (WF), since the pool runs
  what it accepts (`AcceptedTasksRun`).  No operation need be begun.
* IsolateGroup: what is begun goes on (WF), and an isolate does not run for
  ever without going back to its event loop, if it may leave.  The pool's other
  work, the idle notification, the tasks of the collector and
  `IsolateGroup::Shutdown` once what it waits for has ended, is not put off for
  ever (one WF for all of it).  An isolate need not shut down, and a wait is never ended by a
  spurious wakeup.

## 4. Proofs

TLC explores one small instance; the theorems hold for every number of
threads, workers, tasks, handlers, ports and messages, every heap and every
bound that the assumptions admit.  Each rests on an inductive invariant, called
`IInv` in its module.

| Module | Theorem | Statement |
|---|---|---|
| `SafepointProofs` | `Invariance` | `Spec => []IInv` |
| | `TypeCorrect` | `Spec => []TypeOK`; in particular no counter drops below zero |
| | `MutatorExclusion` | `Spec => []OperationExcludesMutators` |
| | `OperationExclusion` | `Spec => []OneOperationAtATime` |
| | `CheckInsAreCounted` | `Spec => []NotParkedIsExact` |
| | `RequestsAreOwned` | `Spec => []RequestsHaveAnOwner` |
| | `Exclusion` | `Spec => []OperationsAreExclusive`: mutators and other operations are excluded |
| | `ExactCheckIns` | `Spec => []CheckInsAreExact`: types, counters and requests together |
| `ThreadPoolProofs` | `TasksRunOnce` | `Spec => []EachTaskRunsOnce` |
| | `WakeupsAreNotLost` | `Spec => []NoLostWakeup` |
| | `DeadWorkersJoinedByOne` | `Spec => []JoinedByOne` |
| `MessageHandlerProofs` | `HandlerInvariant` | `Spec => []IInv` |
| | `NothingAfterShutdown` | `Spec => ShutdownIsFinal`, an action property |
| | `HandledInOrder` | `Spec => []MessagesInOrder` |
| | `EndedTaskHasServed` | `Spec => [](OneTask /\ Served)`, whatever is posted |
| | `NoMessageIsMissed` | `Spec => []NoMissedMessage` if `"evaluate"` is not posted |
| `PortMapProofs` | `PortMapInvariant` | `Spec => []IInv` |
| | `MapAndHandlersAgree` | `Spec => []HandlersAgree` |
| | `HandlersUsedWhileAlive` | `Spec => []NoUseAfterDelete` |
| `ParallelMarkProofs` | `WorkersKeepTogether` | `Spec => []BarrierInv` |
| | `MarkingInvariant` | `Spec => []IInv` |
| | `BusyCountIsExact` | `Spec => []NumBusyIsExact` |
| | `StopsTogether` | `Spec => []WorkersStopTogether` |
| | `WeakObjectsDelayedOnce` | `Spec => []DelayedOnce` |
| | `ClearsWeakObjects` | `Spec => []WeakObjectsCleared` |
| | `MarksWhatIsLive` | `Spec => M!Safety`: the refinement of `MarkingSpec` |

`ParallelMarkSteps` holds the invariants of its component and the lemmas about
steps that need no theory of finite sets.

### Assumptions

The sets of threads, workers, tasks, handlers and ports are finite where the
proof counts them, and `NoThread`, `None` and the like are none of their
members.  Bounds are natural numbers.  Beyond that:

* `MaxDepth` and `MaxMessages` of `MessageHandler` are at least 1: without a
  frame no message can be handled.
* `HeapsAssumption` of `ParallelMark`: each heap is `WellFormed`.  This is the
  state in which concurrent marking leaves the heap.  A marked object is on a
  marking stack, deferred, or processed; what a processed object holds is
  marked, deferred or a root, except that a weak object may have been delayed
  instead, by one visitor; `Instructions` hold no pointers and are nobody's key.
  A marking that begins from nothing (no marked objects) satisfies it
  trivially.  TLC evaluates the assumption on the heaps of the run.
* `SlotsAssumption`, `BuildsAssumption`: types only.

### Safepoint

That all others are parked while an operation runs is not inductive.  The owner
begins when a counter reaches zero, so the counter must be known to be exact.
It is exact because a thread is counted when its request bit is set and it is
not at a safepoint, and uncounted when it parks; so one must know which threads
have the bit in the middle of the loop that sets it, and that nobody else's
operation has cleared it.  The inductive invariant `IInv` is the conjunction of

* `TypeOK`;
* `LocInv`: what a thread's place says about its state word and level (a thread
  that executes is at no safepoint, and so on);
* `OwnerInv`: `owner_` and `operation_count_` of a level against the place of
  the owner, including the GC level that a deopt operation takes after its own;
* `RequestsHaveAnOwner` and `RequestInv`: a request bit belongs to the
  operation in progress at its level, and during the loops exactly the threads
  already visited (`SafepointThreads`) or not yet visited (`ResumeThreads`)
  have it;
* `NotParkedIsExact`;
* `ParkedInv`: after its wait an operation has nobody left to wait for.

The proof has one lemma per action: first the steps of threads that own no
level, then those of the owner, then the steps that change a counter, where the
set counted gains or loses one thread.

### ThreadPool

The lists of the pool are sets of workers, so that what must be known is which
worker is in which: `LocInv` ties the lists and `pool_monitor_` to the place of
each worker, `JoinInv` says that a dead worker is in exactly one of
`dead_workers_`, the list of a worker that joins, and the list of `Shutdown`.
`NoLostWakeup` itself is nearly inductive.  What it lacks is `SizeInv`: in a
pool of bounded size fewer workers are blocked than the pool may have, because
`MarkCurrentWorkerAsBlocked` raises the size.  Hence a task that is left in the
queue because the pool is full is left to a worker that is not blocked.

### MessageHandler

The calls of the thread that runs the isolate form a stack, and an invariant
must speak of all of it: `StackOK` says that the first frame is the call of the
task or of the embedder, that each frame below the top is in Dart code, and
that waits handle control messages only.  `Placed` and `Paused` tie the task,
its flags and the two pauses to the first frame.  `Dying` says that after the
VM's kill the top frame carries the status "shutdown" until the stack is empty;
`ShutdownIsFinal` follows, since a frame in that state takes no message.

`MessagesInOrder` needs an invariant of its own (`Ordered`), on top of `IInv`:
the events in `queue_` are the numbers after the last one dequeued; the delayed
control messages stand before them and in their order; and the control
messages still in `oob_queue_`, and the one that is being delayed, are later than
those delayed already.  `taken` is bounded because a message that is posted
passes through each queue at most once.

`NoMissedMessage` needs `Waits`: the thread that waits has set
`paused_for_messages_`, so that a post notifies it.  Waits that are nested in
one another break it (section 5).  They need a control message that runs Dart
code, which is `evaluate`, and the theorem excludes just that.  The part of
`NoMissedMessage` that speaks of ended tasks does not depend on it and is
`EndedTaskHasServed`.

### PortMap

`Owned` says which handler a port belongs to and that `live_ports_` is the
number of its live ports, less the one that a `ClosePort` in progress has
already subtracted.  `NativeLife` follows one native handler: as long as its
port is in the map nobody deletes it; once `ClosePort` has removed it, either
`ClosePort` found no task and deletes it, or `delete_me_` is set and the task
that was there deletes it.  That no task can be started in the second case is
what keeps the two apart: a task is started by a post, and a post needs the
port.

### ParallelMark

The proof has three layers.

`BarrierInv` is about the barrier alone.  The difficulty is that a worker that
waits in a barrier which the others have completed is late: its place says it
is before the barrier, while the others are after it.  `Now(w)` is the place
where the worker counts as being, past the barrier it has been released from.
With it all workers are always in the same section of the code (`Together`),
the barrier moves them at once, and its counters count those that take part
(`CountInv`).  `BusyInv` has `num_busy`.

`TraceInv` is about objects: what is found is live (`Sound`); a marked object is
gray, held for deferred marking, or settled, which means that all it holds is
found, or that it is a weak object on a list or cleared (`Traced`); an object
is in one block and on one delayed list at most.  It is preserved by every step
whatever the place, which keeps it apart from

`PlaceInv`: in which sections a worker may have work left; that somebody will
look at the marking stack as long as it is not empty; and, in the rounds that
decide whether to go on, that either some worker has found more or the keys of
all delayed properties are still unmarked (`Judged`).  When the workers stop,
`Judged` says that what was found is closed under pointers and under weak
properties, hence contains the least such set, which is `Live` (`Complete`).

`MarksWhatIsLive` is the refinement without fairness: the initial states are
initial states of `MarkingSpec`, and each step marks one live object, ends, or
stutters.  That marking ends is left to TLC (`Implements`).

### Only model-checked

* Liveness, in all modules: liveness under fairness is beyond the prover.
* `PortSet` and its refinement: probing and rehashing are recursive, and what
  they compute needs an induction over data.
* `ParallelScavenge`, `OldSpace` and `IsolateGroup`: no proofs yet (section 7).

## 5. Findings

Three runs show that the code does not do what it says:

* `ErrorIsFinal` (`message_handler.cc:422`): "The isolate exits when it
  encounters an error".  An isolate that failed and was paused at its exit is
  resumed by a new task, which does not know of the failure; it handles the
  remaining events and stays alive while it has live ports.
* `AbortsInScope` (`heap/scavenger.cc:637`): `LongJumpScope::Jump` asserts that
  a scope is set up.  A worker that finds no room for the value of a weak
  property aborts the scavenge from `ProcessWeakProperties`, outside of the
  scopes of `ProcessRoots` and `ProcessSurvivors`.
* `SpawnsComplete` (`isolate.cc:3758`): isolates that wait for their
  outstanding spawns keep their mutator slots.  When they hold all of them the
  spawned isolates wait for slots, and nobody goes on.

Met while modelling, and shown by no run:

* A wait for messages nested in another one, through a control message that
  runs Dart code, clears `paused_for_messages_` (`message_handler.cc:336`).
  The outer wait is then not notified of later messages, although
  `PauseAndHandleAllMessages` "blocks the thread on a condition variable until
  a message arrives" (`message_handler.h:72`).
* "All pending messages will be dropped" (`port.h:42`), but
  `MessageHandler::ClosePort` only traces, and a native handler with a task
  handles them.
* The markers of the port set "cannot be used as actual ports" (`port.cc:57`),
  but `continue` in a do-while loop goes to its condition (`port.cc:61`), so
  that the marker 3 for deleted slots can be allocated.
* After an abort out of `ProcessPromotedList` a scavenger worker calls
  `WaitForWork` with a local block that is not empty, against the assertion in
  `heap/pointer_block.h:210`; a release build with enough blocks may swap them
  among the workers for ever.  `EndsOrAborts` therefore says nothing of what
  follows an abort.

## 6. Not modelled

* Mutexes, monitors and atomic operations: the platform's, taken as given.
* Concurrent marking against mutators: the write barrier, its elimination for
  fresh objects, and the memory order of marking.  `ParallelMark` starts from
  what it leaves behind, `OldSpace` has the life of its tasks.
* The parallel collectors: a marking without tasks, the serial scavenger,
  finalizer entries in a scavenge, remembered cards, weak tables, `ReverseScavenge`
  after an abort, and the growth of new space.
* The compactor and free lists: arithmetic on addresses, page by page, under a
  lock or at a safepoint.
* Old space: image and executable pages, the reservation for out of memory.
* Isolate groups: isolates with a group of their own, the list of groups, and
  the steps of `Dart::Init` and `Dart::Cleanup` other than the shutdown of the
  VM's pool after that of the group.  A spawn that fails before it begins, for
  want of an initialize callback, and one whose callback fails, are an isolate
  that is not spawned and one that shuts down at once.
* `RwLock`: `SafepointRwLock` without nesting and without safepoints.
* The clock: `isolate.cc:302`, see Fairness.
* Hot reload beyond its marking switch: one transaction over the program.
* Snapshots, compilers, analyzer, tools: sequential transformations of large
  data.
* Service, debugger, profiler, event handlers: dominated by I/O and formats;
  the service requests that change a message handler are in `MessageHandler`.
* Core libraries in Dart: above the VM.

## 7. Plan

Done: `Safepoint`, `ThreadPool`, `MessageHandler`, `PortMap` and `ParallelMark`
with proofs; `PortSet`, `ParallelScavenge`, `IsolateGroup` and `OldSpace` with
TLC.  Next, in the order of importance:

1. Proofs of the invariants of `IsolateGroup`, of `TasksAreExact` of `OldSpace`
   and of the safety of `ParallelScavenge`, whose barrier and `num_busy` are
   those of `ParallelMark`.
2. `Safepoint` implements the abstract safepoint, an owner and nobody else,
   that `OldSpace` and `IsolateGroup` use.
3. Concurrent marking with a mutator's write barrier: no live object is missed
   when `ParallelMark` begins.
4. `PortMap` with `ThreadPool`: posting to native ports during `Dart::Cleanup`,
   and tasks that the pool refuses.
