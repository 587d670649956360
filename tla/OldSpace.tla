------------------------------ MODULE OldSpace ------------------------------
(***************************************************************************)
(* The phases and tasks of old space: PageSpace of runtime/vm/heap/        *)
(* pages.cc, the functions of heap.cc that drive it, the concurrent marker *)
(* tasks of marker.cc and the concurrent sweeper of sweeper.cc.            *)
(*                                                                         *)
(* A GC safepoint is the thread that owns it: no other thread moves        *)
(* meanwhile, and it begins when every other thread is where it checks in  *)
(* (module Safepoint models how).  What marking does to objects is the     *)
(* subject of module ParallelMark; here it is a step.  What thresholds,    *)
(* deadlines and free lists decide is left open.  A thread's control is    *)
(* the list of what it still has to do, the innermost call first.          *)
(***************************************************************************)
EXTENDS Integers, Sequences, FiniteSets

CONSTANTS Thread,
          NumMarkers,   \* FLAG_marker_tasks
          RootSlices,   \* root_slices_count_
          Large,        \* large pages
          Regular,      \* the other pages
          Calls,        \* the operations each thread is called for
          MaxOps        \* bound: operations begun

ASSUME MarkersAssumption == NumMarkers \in Nat \ {0}
ASSUME SlicesAssumption == RootSlices \in Nat \ {0}
ASSUME PagesAssumption == Large \cap Regular = {}

Marker == 1..NumMarkers
NoThread == "none"
Sweeper == "sweeper"
Group == "group"      \* the thread in IsolateGroup::Shutdown
Nothing == "nothing"

VARIABLES
  todo,                      \* [at, what]: where a thread is, and on what terms
  owner, depth,              \* the GC safepoint: its owner, how often entered
  phase, tasks, concurrent_marker_tasks,
  marker_,                   \* marker_ != NULL
  enable_concurrent_mark_,
  waiting,                   \* who is in Wait on tasks_lock
  mark,                      \* where each ConcurrentMarkTask is
  sweep,                     \* where the ConcurrentSweeperTask is
  root_slices_started_, root_slices_finished_,
  large_pages_, sweep_large_, pages_, sweep_regular_,
  hand,                      \* the page a thread or the sweeper is sweeping
  down,                      \* how far IsolateGroup::Shutdown is
  ops

spVars == <<owner, depth>>
taskVars == <<phase, tasks, concurrent_marker_tasks, marker_>>
markVars == <<mark, root_slices_started_, root_slices_finished_>>
pageVars == <<large_pages_, sweep_large_, pages_, sweep_regular_, hand>>
restVars == <<enable_concurrent_mark_, down, ops>>
vars == <<todo, spVars, taskVars, waiting, markVars, sweep, pageVars, restVars>>

Init ==
  /\ todo = [t \in Thread |-> <<>>]
  /\ owner = NoThread /\ depth = 0
  /\ phase = "done" /\ tasks = 0 /\ concurrent_marker_tasks = 0
  /\ marker_ = FALSE
  /\ enable_concurrent_mark_ = TRUE
  /\ waiting = {}
  /\ mark = [m \in Marker |-> "none"]
  /\ sweep = "none"
  /\ root_slices_started_ = 0 /\ root_slices_finished_ = 0
  /\ large_pages_ = Large /\ sweep_large_ = {}
  /\ pages_ = Regular /\ sweep_regular_ = {}
  /\ hand = [a \in Thread \cup {Sweeper} |-> Nothing]
  /\ down = "up"
  /\ ops = 0

-----------------------------------------------------------------------------
(* Control.                                                                *)

Item(l, w) == [at |-> l, what |-> w]
pc(t) == IF todo[t] = <<>> THEN "idle" ELSE Head(todo[t]).at
What(t) == Head(todo[t]).what

(* t is at l, neither waiting nor held up by another thread's safepoint.   *)
At(t, l) == pc(t) = l /\ owner \in {NoThread, t} /\ t \notin waiting

(* What t is at leads to these items; the empty list is a return.          *)
Do(t, items) == todo' = [todo EXCEPT ![t] = items \o Tail(@)]
Return(t) == Do(t, <<>>)

Wait(t) == waiting' = waiting \cup {t} /\ UNCHANGED todo

(* Mutant: the end of a task wakes nobody.                                 *)
WakesNobody == waiting

(* The threads that still wait after NotifyAll.                            *)
NotifyAll == {}

(* Mutants: a thread checks in between its test of marker_ and its use, or *)
(* between its wait for the markers and what it does thereafter.           *)
ChecksInToMark(t) == pc(t) \notin {"release", "disable"}
ChecksInToReload(t) == pc(t) \notin {"dispatch", "incremental", "release"}

(* A thread checks in when it begins a safepoint operation or waits.  From *)
(* the test of the phase to its use there is no such place.                *)
ChecksIn(t) == pc(t) \notin {"dispatch", "incremental", "release", "disable"}

(* GcSafepointOperationScope; the scopes of one thread nest.               *)
EnterSafepoint(t) ==
  /\ owner = NoThread => \A u \in Thread \ {t} : ChecksIn(u)
  /\ owner' = t
  /\ depth' = depth + 1

Exit(t) ==
  /\ At(t, "exit")
  /\ depth' = depth - 1
  /\ owner' = IF depth = 1 THEN NoThread ELSE owner
  /\ Return(t)
  /\ UNCHANGED <<taskVars, waiting, markVars, sweep, pageVars, restVars>>

InScope(t, l) ==
  Do(t, <<Item(l, What(t)), Item("exit", "scope")>>)

-----------------------------------------------------------------------------
(* What a thread may be called to do.                                      *)

CollectMostGarbage == <<Item("scavenge", "full"), Item("collect", "sweep")>>

CollectAllGarbage(how) ==
  <<Item("scavenge", "full"), Item("all", "marking"), Item("collect", how),
    Item("wait_sweeper", "tasks")>>

AllocateOld ==
  <<Item("try", "control"), Item("wait_sweeper", "tasks"), Item("try", "control")>>
  \o CollectMostGarbage
  \o <<Item("try", "control"), Item("wait_sweeper", "tasks"), Item("try", "control"),
       Item("try", "force")>>
  \o CollectAllGarbage("compact")
  \o <<Item("wait_sweeper", "tasks"), Item("try", "force"), Item("wait_sweeper", "tasks"),
       Item("release", "oom")>>

Reload ==
  <<Item("wait_markers", "all"), Item("disable", "reload"), Item("reloading", "reload")>>

(* One reload at a time.                                                   *)
Reloading == \E t \in Thread : \E i \in DOMAIN todo[t] : todo[t][i].what = "reload"

Operation ==
  [allocate |-> AllocateOld,
   collect_all |-> CollectAllGarbage("sweep"),
   scavenge |-> <<Item("scavenge", "new_space")>>,
   iterate |-> <<Item("iterate", "heap")>>,
   idle |-> <<Item("notify_idle", "idle"), Item("mark_idle", "idle")>>,
   reload |-> Reload]

Begin(t) ==
  /\ At(t, "idle") /\ down = "up"
  /\ ops < MaxOps
  /\ ops' = ops + 1
  /\ \E o \in Calls[t] :
       /\ o = "reload" => enable_concurrent_mark_ /\ ~Reloading
       /\ todo' = [todo EXCEPT ![t] = Operation[o]]
  /\ UNCHANGED <<spVars, taskVars, waiting, markVars, sweep, pageVars,
                 enable_concurrent_mark_, down>>

-----------------------------------------------------------------------------
(* heap.cc.                                                                *)

(* CollectNewSpaceGarbage.                                                 *)
CollectNewSpaceGarbage(t) ==
  /\ At(t, "scavenge")
  /\ EnterSafepoint(t)
  /\ InScope(t, "cards")
  /\ UNCHANGED <<taskVars, waiting, markVars, sweep, pageVars, restVars>>

(* Mutant: the scavenger does not wait for the sweeper.                    *)
NeverSweepingLarge == FALSE

SweepingLarge == phase = "sweeping_large"

(* VisitRememberedCards waits until the sweeper has done with the large    *)
(* pages, then ("walk") visits those in the list.                          *)
VisitRememberedCards(t) ==
  /\ At(t, "cards")
  /\ IF SweepingLarge
     THEN Wait(t)
     ELSE Do(t, <<Item("walk", What(t))>>) /\ UNCHANGED waiting
  /\ UNCHANGED <<spVars, taskVars, markVars, sweep, pageVars, restVars>>

(* The end of CollectNewSpaceGarbage: ReachedHardThreshold, or             *)
(* CheckConcurrentMarking with size 0.                                     *)
AfterScavenge(t) ==
  /\ At(t, "walk")
  /\ \/ What(t) = "full" /\ Return(t)
     \/ What(t) = "new_space" /\ \/ Do(t, <<Item("collect", "sweep")>>)
                                 \/ Do(t, <<Item("check", "no_size")>>)
  /\ UNCHANGED <<spVars, taskVars, waiting, markVars, sweep, pageVars, restVars>>

(* CheckConcurrentMarking reads the phase under tasks_lock and acts on it  *)
(* after it has released the lock: what it read is in the item.            *)
CheckConcurrentMarking(t) ==
  /\ At(t, "check")
  /\ \/ /\ phase = "marking" /\ What(t) = "no_size"
        /\ Return(t)
     \/ /\ phase \in {"sweeping_large", "sweeping_regular"}
        /\ Return(t)
     \/ /\ \/ phase = "marking" /\ What(t) = "size"
           \/ phase \in {"awaiting_finalization", "done"}
        /\ Do(t, <<Item("dispatch", phase)>>)
  /\ UNCHANGED <<spVars, taskVars, waiting, markVars, sweep, pageVars, restVars>>

(* IncrementalMarkWithSizeBudget and IncrementalMarkWithTimeBudget test    *)
(* marker_ without a lock, and then mark with it.                          *)
IncrementalMarkWithBudget(t) ==
  Do(t, IF marker_ THEN <<Item("incremental", "budget")>> ELSE <<>>)

Dispatch(t) ==
  /\ At(t, "dispatch")
  /\ CASE What(t) = "marking" -> IncrementalMarkWithBudget(t)
       [] What(t) = "awaiting_finalization" -> Do(t, <<Item("collect", "finalize")>>)
       [] What(t) = "done" ->
            \/ Return(t)                        \* ReachedSoftThreshold is false
            \/ Do(t, <<Item("start", "start")>>)
            \/ Do(t, <<Item("scavenge", "full"), Item("start", "start")>>)
  /\ UNCHANGED <<spVars, taskVars, waiting, markVars, sweep, pageVars, restVars>>

IncrementalMark(t) ==
  /\ At(t, "incremental")
  /\ Return(t)
  /\ UNCHANGED <<spVars, taskVars, waiting, markVars, sweep, pageVars, restVars>>

(* CollectOldSpaceGarbage gives up a finalization another thread has done. *)
LostRace(t) == What(t) = "finalize" /\ phase # "awaiting_finalization"

CollectOldSpaceGarbage(t) ==
  /\ At(t, "collect")
  /\ EnterSafepoint(t)
  /\ IF LostRace(t) THEN Do(t, <<Item("exit", "scope")>>) ELSE InScope(t, "begin")
  /\ UNCHANGED <<taskVars, waiting, markVars, sweep, pageVars, restVars>>

StartConcurrentMarking(t) ==
  /\ At(t, "start")
  /\ EnterSafepoint(t)
  /\ InScope(t, "begin")
  /\ UNCHANGED <<taskVars, waiting, markVars, sweep, pageVars, restVars>>

(* CollectAllGarbage finishes the marking under way first.                 *)
FinishMarking(t) ==
  /\ At(t, "all")
  /\ Do(t, IF marker_ THEN <<Item("collect", "sweep")>> ELSE <<>>)
  /\ UNCHANGED <<spVars, taskVars, waiting, markVars, sweep, pageVars, restVars>>

(* NotifyIdle: a scavenge or none, and then at most one of the old space   *)
(* collections; after the safepoint, FLAG_mark_when_idle.                  *)
NotifyIdle(t) ==
  /\ At(t, "notify_idle")
  /\ EnterSafepoint(t)
  /\ \/ InScope(t, "idle_old")
     \/ Do(t, <<Item("scavenge", "full"), Item("idle_old", "idle"), Item("exit", "scope")>>)
  /\ UNCHANGED <<taskVars, waiting, markVars, sweep, pageVars, restVars>>

IdleOldSpace(t) ==
  /\ At(t, "idle_old")
  /\ \/ Return(t)
     \/ tasks = 0 /\ Do(t, <<Item("collect", "compact")>>)
     \/ Do(t, <<Item("collect", "sweep")>>)
     \/ phase = "awaiting_finalization" /\ Do(t, <<Item("collect", "finalize")>>)
     \/ phase = "done" /\ Do(t, <<Item("start", "start")>>)
  /\ UNCHANGED <<spVars, taskVars, waiting, markVars, sweep, pageVars, restVars>>

MarkWhenIdle(t) ==
  /\ At(t, "mark_idle")
  /\ Return(t) \/ IncrementalMarkWithBudget(t)
  /\ UNCHANGED <<spVars, taskVars, waiting, markVars, sweep, pageVars, restVars>>
(* WaitForMarkerTasks and WaitForSweeperTasks.                             *)
WaitForMarkerTasks(t) ==
  /\ At(t, "wait_markers")
  /\ \/ /\ phase = "marking"
        /\ Wait(t)
     \/ /\ phase = "awaiting_finalization"
        /\ Do(t, <<Item("collect", "finalize"), Head(todo[t])>>)
        /\ UNCHANGED waiting
     \/ /\ phase \notin {"marking", "awaiting_finalization"}
        /\ Return(t)
        /\ UNCHANGED waiting
  /\ UNCHANGED <<spVars, taskVars, markVars, sweep, pageVars, restVars>>

WaitUntilNoTasks(t) ==
  IF tasks > 0 THEN Wait(t) ELSE Return(t) /\ UNCHANGED waiting

WaitForSweeperTasks(t) ==
  /\ At(t, "wait_sweeper")
  /\ WaitUntilNoTasks(t)
  /\ UNCHANGED <<spVars, taskVars, markVars, sweep, pageVars, restVars>>

(* TryAllocate: from a free list; or from a fresh page, and then under     *)
(* control CheckConcurrentMarking comes first; or not at all.  Who has     *)
(* succeeded leaves AllocateOld.                                           *)
Placed == large_pages_ \cup sweep_large_ \cup pages_ \cup sweep_regular_
          \cup {hand[a] : a \in DOMAIN hand}

TryAllocate(t) ==
  /\ At(t, "try")
  /\ \/ Return(t) /\ UNCHANGED pageVars
     \/ todo' = [todo EXCEPT ![t] = <<>>] /\ UNCHANGED pageVars
     \/ /\ What(t) = "control"
        /\ Do(t, <<Item("check", "size"), Item("try", "checked")>>)
        /\ UNCHANGED pageVars
     \/ /\ What(t) \in {"checked", "force"}
        /\ \/ \E p \in Large \ Placed : large_pages_' = large_pages_ \cup {p} /\ UNCHANGED pages_
           \/ \E p \in Regular \ Placed : pages_' = pages_ \cup {p} /\ UNCHANGED large_pages_
        /\ todo' = [todo EXCEPT ![t] = <<>>]
        /\ UNCHANGED <<sweep_large_, sweep_regular_, hand>>
  /\ UNCHANGED <<spVars, taskVars, waiting, markVars, sweep, restVars>>

(* TryReleaseReservation asserts that nobody sweeps.                       *)
TryReleaseReservation(t) ==
  /\ At(t, "release")
  /\ Return(t)
  /\ UNCHANGED <<spVars, taskVars, waiting, markVars, sweep, pageVars, restVars>>

(* HeapIterationScope: its constructor, and its destructor at "iterating". *)
HeapIterationScope(t) ==
  /\ At(t, "iterate")
  /\ EnterSafepoint(t)
  /\ InScope(t, "quiesce")
  /\ UNCHANGED <<taskVars, waiting, markVars, sweep, pageVars, restVars>>

(* Mutant: it is enough that no task is left.                              *)
NoTaskLeft == tasks = 0

Quiet == tasks = 0 /\ phase = "done"

Quiesce(t) ==
  /\ At(t, "quiesce")
  /\ \/ /\ ~Quiet
        /\ Do(t, <<Item("assist", "tasks"), Item("finalize", "scope"), Item("join", "tasks"),
                   Head(todo[t])>>)
        /\ UNCHANGED tasks
     \/ /\ Quiet
        /\ Do(t, <<Item("iterating", "heap")>>)
        /\ tasks' = 1
  /\ UNCHANGED <<spVars, phase, concurrent_marker_tasks, marker_, waiting, markVars, sweep,
                 pageVars, restVars>>

QuiesceFinalize(t) ==
  /\ At(t, "finalize")
  /\ Do(t, IF phase = "awaiting_finalization" THEN <<Item("collect", "finalize")>> ELSE <<>>)
  /\ UNCHANGED <<spVars, taskVars, waiting, markVars, sweep, pageVars, restVars>>

QuiesceJoin(t) ==
  /\ At(t, "join")
  /\ WaitUntilNoTasks(t)
  /\ UNCHANGED <<spVars, taskVars, markVars, sweep, pageVars, restVars>>

Iterated(t) ==
  /\ At(t, "iterating")
  /\ tasks' = 0
  /\ waiting' = NotifyAll
  /\ Return(t)
  /\ UNCHANGED <<spVars, phase, concurrent_marker_tasks, marker_, markVars, sweep, pageVars,
                 restVars>>

(* A reload turns concurrent marking off and later on again.               *)
DisableConcurrentMark(t) ==
  /\ At(t, "disable")
  /\ enable_concurrent_mark_' = FALSE
  /\ Return(t)
  /\ UNCHANGED <<spVars, taskVars, waiting, markVars, sweep, pageVars, down, ops>>

EnableConcurrentMark(t) ==
  /\ At(t, "reloading")
  /\ enable_concurrent_mark_' = TRUE
  /\ Return(t)
  /\ UNCHANGED <<spVars, taskVars, waiting, markVars, sweep, pageVars, down, ops>>
-----------------------------------------------------------------------------
(* pages.cc.                                                               *)

(* CollectGarbage.  Concurrent marking is not started when it is disabled  *)
(* or already under way.                                                   *)
CollectGarbage(t) ==
  /\ At(t, "begin")
  /\ IF What(t) = "start" /\ (~enable_concurrent_mark_
                               \/ phase \in {"marking", "awaiting_finalization"})
     THEN Return(t)
     ELSE Do(t, <<Item("assist", "tasks"), Item("driver", What(t))>>)
  /\ UNCHANGED <<spVars, taskVars, waiting, markVars, sweep, pageVars, restVars>>

AssistTasks(t) ==
  /\ At(t, "assist")
  /\ Do(t, (IF phase = "marking" THEN <<Item("assist_mark", "unlimited")>> ELSE <<>>)
           \o <<Item("assist_sweep", "tasks")>>)
  /\ UNCHANGED <<spVars, taskVars, waiting, markVars, sweep, pageVars, restVars>>

IncrementalMarkWithUnlimitedBudget(t) ==
  /\ At(t, "assist_mark")
  /\ Return(t)
  /\ UNCHANGED <<spVars, taskVars, waiting, markVars, sweep, pageVars, restVars>>

AssistSweep(t) ==
  /\ At(t, "assist_sweep")
  /\ Do(t, IF phase \in {"sweeping_large", "sweeping_regular"}
           THEN <<Item("sweep_regular", "assist"), Item("sweep_large", "assist")>>
           ELSE <<>>)
  /\ UNCHANGED <<spVars, taskVars, waiting, markVars, sweep, pageVars, restVars>>

(* Mutant: the page stays in the list while it is swept.                   *)
StaysListed(list, p) == list

Unlisted(list, p) == list \ {p}

(* An actor's next step in SweepLarge: take a page, or return it to the    *)
(* list, or deallocate it.                                                 *)
SweepLarge(a) ==
  /\ \/ \E p \in sweep_large_ : /\ hand[a] = Nothing
                                /\ hand' = [hand EXCEPT ![a] = p]
                                /\ sweep_large_' = Unlisted(sweep_large_, p)
                                /\ UNCHANGED large_pages_
     \/ /\ hand[a] # Nothing
        /\ hand' = [hand EXCEPT ![a] = Nothing]
        /\ large_pages_' \in {large_pages_, large_pages_ \cup {hand[a]}}
        /\ UNCHANGED sweep_large_
  /\ UNCHANGED <<pages_, sweep_regular_>>

Sweep(a) ==
  /\ \/ \E p \in sweep_regular_ : /\ hand[a] = Nothing
                                  /\ hand' = [hand EXCEPT ![a] = p]
                                  /\ sweep_regular_' = Unlisted(sweep_regular_, p)
                                  /\ UNCHANGED pages_
     \/ /\ hand[a] # Nothing
        /\ hand' = [hand EXCEPT ![a] = Nothing]
        /\ pages_' \in {pages_, pages_ \cup {hand[a]}}
        /\ UNCHANGED sweep_regular_
  /\ UNCHANGED <<large_pages_, sweep_large_>>

(* Mutant: the list is empty, and that is all that is asked.               *)
NoneListed(a, list) == list = {}

(* An actor has nothing left to sweep.                                     *)
Swept(a, list) == hand[a] = Nothing /\ list = {}

ThreadSweepLarge(t) ==
  /\ At(t, "sweep_large")
  /\ \/ SweepLarge(t) /\ UNCHANGED todo
     \/ Swept(t, sweep_large_) /\ Return(t) /\ UNCHANGED pageVars
  /\ UNCHANGED <<spVars, taskVars, waiting, markVars, sweep, restVars>>

ThreadSweep(t) ==
  /\ At(t, "sweep_regular")
  /\ \/ Sweep(t) /\ UNCHANGED todo
     \/ Swept(t, sweep_regular_) /\ Return(t) /\ UNCHANGED pageVars
  /\ UNCHANGED <<spVars, taskVars, waiting, markVars, sweep, restVars>>

(* Mutant: the driver waits for the markers only.                          *)
MarkersLeft == concurrent_marker_tasks > 0

TasksLeft == tasks > 0

(* The driver waits for the tasks and counts itself as one.                *)
BecomeDriver(t) ==
  /\ At(t, "driver")
  /\ IF TasksLeft
     THEN Wait(t) /\ UNCHANGED tasks
     ELSE /\ tasks' = 1
          /\ Do(t, <<Item("helper", What(t)), Item("driver_end", "gc")>>)
          /\ UNCHANGED waiting
  /\ UNCHANGED <<spVars, phase, concurrent_marker_tasks, marker_, markVars, sweep, pageVars,
                 restVars>>

DriverEnd(t) ==
  /\ At(t, "driver_end")
  /\ tasks' = tasks - 1
  /\ waiting' = NotifyAll
  /\ Return(t)
  /\ UNCHANGED <<spVars, phase, concurrent_marker_tasks, marker_, markVars, sweep, pageVars,
                 restVars>>

(* CollectGarbageHelper of a full collection: MarkObjects, then the pages  *)
(* go to the lists of the sweepers, except the ones to be compacted.  The  *)
(* sweeper is concurrent, or it is the driver.                             *)
MarkAndSweep(t) ==
  /\ At(t, "helper") /\ What(t) # "start"
  /\ marker_' = FALSE
  /\ sweep_large_' = large_pages_ /\ large_pages_' = {}
  /\ IF What(t) = "compact"
     THEN UNCHANGED <<pages_, sweep_regular_>>
     ELSE sweep_regular_' = pages_ /\ pages_' = {}
  /\ \/ /\ What(t) = "compact"
        /\ Do(t, <<Item("sweep_large", "driver"), Item("set_done", "compact")>>)
        /\ UNCHANGED <<phase, tasks, sweep>>
     \/ /\ What(t) # "compact"
        /\ Do(t, <<Item("sweep_large", "driver"), Item("sweep_regular", "driver"),
                   Item("set_done", "sweep")>>)
        /\ UNCHANGED <<phase, tasks, sweep>>
     \/ /\ What(t) # "compact"
        /\ phase' = "sweeping_large" /\ tasks' = tasks + 1 /\ sweep' = "large"
        /\ Return(t)
  /\ UNCHANGED <<spVars, concurrent_marker_tasks, waiting, markVars, hand, restVars>>

SetDone(t) ==
  /\ At(t, "set_done")
  /\ phase' = "done"
  /\ Return(t)
  /\ UNCHANGED <<spVars, tasks, concurrent_marker_tasks, marker_, waiting, markVars, sweep,
                 pageVars, restVars>>
-----------------------------------------------------------------------------
(* marker.cc: StartConcurrentMark and ConcurrentMarkTask.  The driver      *)
(* takes root slices for the last task before it starts that one, and      *)
(* leaves when every slice is finished.                                    *)

(* Mutant: only the first task is counted in advance.                      *)
OneInAdvance == 1

(* All tasks are counted before the first is started.                      *)
CountedInAdvance == NumMarkers

StartConcurrentMark(t) ==
  /\ At(t, "helper") /\ What(t) = "start"
  /\ marker_' = TRUE
  /\ phase' = "marking"
  /\ tasks' = tasks + CountedInAdvance
  /\ concurrent_marker_tasks' = concurrent_marker_tasks + CountedInAdvance
  /\ root_slices_started_' = 0 /\ root_slices_finished_' = 0
  /\ mark' = [m \in Marker |-> IF m < NumMarkers THEN "roots" ELSE "none"]
  /\ Do(t, <<Item("roots", "driver"), Item("join_roots", "driver")>>)
  /\ UNCHANGED <<spVars, waiting, sweep, pageVars, restVars>>

(* IterateRoots of a driver.                                               *)
DriverTakesSlice(t) ==
  /\ At(t, "roots")
  /\ root_slices_started_' = root_slices_started_ + 1
  /\ IF root_slices_started_ < RootSlices
     THEN Do(t, <<Item("slice", "driver"), Head(todo[t])>>) /\ UNCHANGED mark
     ELSE Return(t) /\ mark' = [mark EXCEPT ![NumMarkers] = "roots"]
  /\ UNCHANGED <<spVars, taskVars, waiting, root_slices_finished_, sweep, pageVars, restVars>>

DriverFinishesSlice(t) ==
  /\ At(t, "slice")
  /\ root_slices_finished_' = root_slices_finished_ + 1
  /\ Return(t)
  /\ UNCHANGED <<spVars, taskVars, waiting, mark, root_slices_started_, sweep, pageVars, restVars>>

(* Mutant: the driver leaves when every slice is taken.                    *)
RootsTaken == root_slices_started_ >= RootSlices

RootsFinished == root_slices_finished_ = RootSlices

JoinRoots(t) ==
  /\ At(t, "join_roots")
  /\ RootsFinished
  /\ Return(t)
  /\ UNCHANGED <<spVars, taskVars, waiting, markVars, sweep, pageVars, restVars>>

(* A task's IterateRoots, DrainMarkingStack and end.                       *)
MarkerTakesSlice(m) ==
  /\ mark[m] = "roots"
  /\ root_slices_started_' = root_slices_started_ + 1
  /\ mark' = [mark EXCEPT ![m] = IF root_slices_started_ < RootSlices THEN "slice" ELSE "drain"]
  /\ UNCHANGED <<todo, spVars, taskVars, waiting, root_slices_finished_, sweep, pageVars, restVars>>

MarkerFinishesSlice(m) ==
  /\ mark[m] = "slice"
  /\ root_slices_finished_' = root_slices_finished_ + 1
  /\ mark' = [mark EXCEPT ![m] = "roots"]
  /\ UNCHANGED <<todo, spVars, taskVars, waiting, root_slices_started_, sweep, pageVars, restVars>>

(* Mutant: every task takes itself for the last.                           *)
AnyMarker == TRUE

LastMarker == concurrent_marker_tasks = 1

MarkerEnds(m) ==
  /\ mark[m] = "drain"
  /\ mark' = [mark EXCEPT ![m] = "none"]
  /\ tasks' = tasks - 1
  /\ concurrent_marker_tasks' = concurrent_marker_tasks - 1
  /\ phase' = IF LastMarker THEN "awaiting_finalization" ELSE phase
  /\ waiting' = NotifyAll
  /\ UNCHANGED <<todo, spVars, marker_, root_slices_started_, root_slices_finished_, sweep,
                 pageVars, restVars>>

-----------------------------------------------------------------------------
(* sweeper.cc: ConcurrentSweeperTask.                                      *)

SweeperSweepsLarge ==
  /\ sweep = "large"
  /\ \/ /\ SweepLarge(Sweeper)
        /\ UNCHANGED <<phase, waiting, sweep>>
     \/ /\ Swept(Sweeper, sweep_large_)
        /\ sweep' = "regular"
        /\ phase' = "sweeping_regular"
        /\ waiting' = NotifyAll
        /\ UNCHANGED pageVars
  /\ UNCHANGED <<todo, spVars, tasks, concurrent_marker_tasks, marker_, markVars, restVars>>

SweeperSweeps ==
  /\ sweep = "regular"
  /\ \/ /\ Sweep(Sweeper)
        /\ UNCHANGED <<phase, tasks, waiting, sweep>>
     \/ /\ Swept(Sweeper, sweep_regular_)
        /\ sweep' = "none"
        /\ tasks' = tasks - 1
        /\ phase' = "done"
        /\ waiting' = NotifyAll
        /\ UNCHANGED pageVars
  /\ UNCHANGED <<todo, spVars, concurrent_marker_tasks, marker_, markVars, restVars>>

-----------------------------------------------------------------------------
(* IsolateGroup::Shutdown, after its pool has joined the threads, and      *)
(* AbandonMarkingForShutdown; ~PageSpace follows.                          *)

(* Mutant: the marker is left to the destructor.                           *)
KeepsMarker == marker_

AbandonMarkingForShutdown == FALSE

Shutdown ==
  /\ down = "up"
  /\ \A t \in Thread : pc(t) = "idle"
  /\ down' = "joining"
  /\ UNCHANGED <<todo, spVars, taskVars, waiting, markVars, sweep, pageVars,
                 enable_concurrent_mark_, ops>>

ShutdownJoin ==
  /\ down = "joining" /\ Group \notin waiting
  /\ IF tasks > 0
     THEN waiting' = waiting \cup {Group} /\ UNCHANGED <<marker_, down>>
     ELSE marker_' = AbandonMarkingForShutdown /\ down' = "deleted" /\ UNCHANGED waiting
  /\ UNCHANGED <<todo, spVars, phase, tasks, concurrent_marker_tasks, markVars, sweep, pageVars,
                 enable_concurrent_mark_, ops>>

-----------------------------------------------------------------------------
ThreadStep(t) ==
  \/ Exit(t) \/ CollectNewSpaceGarbage(t) \/ VisitRememberedCards(t) \/ AfterScavenge(t)
  \/ CheckConcurrentMarking(t) \/ Dispatch(t) \/ IncrementalMark(t)
  \/ CollectOldSpaceGarbage(t) \/ StartConcurrentMarking(t) \/ FinishMarking(t)
  \/ NotifyIdle(t) \/ IdleOldSpace(t) \/ MarkWhenIdle(t)
  \/ WaitForMarkerTasks(t) \/ WaitForSweeperTasks(t)
  \/ TryAllocate(t) \/ TryReleaseReservation(t)
  \/ HeapIterationScope(t) \/ Quiesce(t) \/ QuiesceFinalize(t) \/ QuiesceJoin(t) \/ Iterated(t)
  \/ DisableConcurrentMark(t) \/ EnableConcurrentMark(t)
  \/ CollectGarbage(t) \/ AssistTasks(t) \/ IncrementalMarkWithUnlimitedBudget(t)
  \/ AssistSweep(t) \/ ThreadSweepLarge(t) \/ ThreadSweep(t)
  \/ BecomeDriver(t) \/ DriverEnd(t) \/ MarkAndSweep(t) \/ SetDone(t)
  \/ StartConcurrentMark(t) \/ DriverTakesSlice(t) \/ DriverFinishesSlice(t) \/ JoinRoots(t)

MarkerStep(m) == MarkerTakesSlice(m) \/ MarkerFinishesSlice(m) \/ MarkerEnds(m)

SweeperStep == SweeperSweepsLarge \/ SweeperSweeps

Next ==
  \/ \E t \in Thread : Begin(t) \/ ThreadStep(t)
  \/ \E m \in Marker : MarkerStep(m)
  \/ SweeperStep
  \/ Shutdown \/ ShutdownJoin

Spec == Init /\ [][Next]_vars

(* The thread pool runs every task it is given (AcceptedTasksRun of module *)
(* ThreadPool) and the operating system runs every thread.  That new       *)
(* operations are begun is not assumed.                                    *)
FairSpec ==
  /\ Spec
  /\ \A t \in Thread : WF_vars(ThreadStep(t))
  /\ \A m \in Marker : WF_vars(MarkerStep(m))
  /\ WF_vars(SweeperStep)
  /\ WF_vars(ShutdownJoin)
-----------------------------------------------------------------------------
(* Properties.                                                             *)

Phase == {"done", "marking", "awaiting_finalization", "sweeping_large", "sweeping_regular"}

(* The type invariant.                                                     *)
TypeOK ==
  /\ \A t \in Thread : \A i \in DOMAIN todo[t] : DOMAIN todo[t][i] = {"at", "what"}
  /\ owner \in Thread \cup {NoThread} /\ depth \in Nat
  /\ phase \in Phase
  /\ tasks \in Nat /\ concurrent_marker_tasks \in 0..NumMarkers
  /\ marker_ \in BOOLEAN /\ enable_concurrent_mark_ \in BOOLEAN
  /\ waiting \subseteq Thread \cup {Group}
  /\ mark \in [Marker -> {"none", "roots", "slice", "drain"}]
  /\ sweep \in {"none", "large", "regular"}
  /\ root_slices_started_ \in Nat /\ root_slices_finished_ \in 0..RootSlices
  /\ large_pages_ \subseteq Large /\ sweep_large_ \subseteq Large
  /\ pages_ \subseteq Regular /\ sweep_regular_ \subseteq Regular
  /\ hand \in [Thread \cup {Sweeper} -> Large \cup Regular \cup {Nothing}]
  /\ down \in {"up", "joining", "deleted"}
  /\ ops \in 0..MaxOps

InUse(m) == mark[m] # "none"

(* Which phase is found where.  What the code asserts: a driver finds      *)
(* marker_ exactly when a marking awaits finalization and starts a new one *)
(* only when all is done (CollectGarbageHelper), a task finds the phase it *)
(* was started in (ConcurrentMarkTask::Run, ConcurrentSweeperTask::Run),   *)
(* and nobody sweeps when the reservation is released                      *)
(* (TryReleaseReservation).  And what it relies on: mutators run during a  *)
(* marking only when every root slice has been visited; a heap iteration   *)
(* is alone; no marking is under way during a reload, which turned it off  *)
(* after it had waited for the markers, without a lock in between.         *)
PhasesAsAsserted ==
  /\ \A t \in Thread :
       /\ pc(t) = "helper" => phase = IF marker_ THEN "awaiting_finalization" ELSE "done"
       /\ pc(t) = "helper" /\ What(t) = "start" => phase = "done"
       /\ pc(t) = "release" => phase \notin {"sweeping_large", "sweeping_regular"}
       /\ pc(t) = "iterating" => tasks = 1 /\ phase = "done" /\ owner = t
       /\ pc(t) = "reloading" => phase \notin {"marking", "awaiting_finalization"}
  /\ \A m \in Marker : InUse(m) => phase = "marking"
  /\ sweep = "large" => phase = "sweeping_large"
  /\ sweep = "regular" => phase = "sweeping_regular"
  /\ phase = "marking" /\ owner = NoThread => root_slices_finished_ = RootSlices

(* tasks() counts exactly the drivers, the heap iterations and the tasks   *)
(* that have not ended, among them the last marker, which the driver has   *)
(* counted before it starts it: who finds 0 under tasks_lock finds nobody. *)
TasksAreExact ==
  LET Drives(t) == \E i \in DOMAIN todo[t] : todo[t][i].at \in {"driver_end", "iterating"}
      Unstarted == {t \in Thread : \E i \in DOMAIN todo[t] : todo[t][i].at = "roots"}
  IN  /\ TypeOK
      /\ tasks = Cardinality({t \in Thread : Drives(t)})
              + Cardinality({m \in Marker : InUse(m)})
              + Cardinality(Unstarted) + (IF sweep = "none" THEN 0 ELSE 1)

(* Every page is where it must be.  It is in one list or in one hand, so   *)
(* that it is swept by one, once.  While the heap is marked to the end or  *)
(* iterated over it is in its list.  A scavenge visits the cards of every  *)
(* large page there is: when it walks the list nobody, assistant or        *)
(* sweeper, holds a large page back.                                       *)
PagesInPlace ==
  /\ large_pages_ \cap sweep_large_ = {} /\ pages_ \cap sweep_regular_ = {}
  /\ \A a \in DOMAIN hand :
       hand[a] \notin large_pages_ \cup sweep_large_ \cup pages_ \cup sweep_regular_
  /\ \A a, b \in DOMAIN hand : a # b /\ hand[a] = hand[b] => hand[a] = Nothing
  /\ (\E t \in Thread : pc(t) \in {"helper", "iterating"})
     => /\ sweep_large_ = {} /\ sweep_regular_ = {}
        /\ \A a \in DOMAIN hand : hand[a] = Nothing
  /\ (\E t \in Thread : pc(t) = "walk")
     => sweep_large_ = {} /\ \A a \in DOMAIN hand : hand[a] \notin Large

(* marker_ outlives its users: whoever marks incrementally, or assists, or *)
(* runs a marker task does so before anyone takes marker_ to finalize.  It *)
(* does not outlive the heap, which is deleted when no task uses it: the   *)
(* AssistTasks of ~PageSpace has nothing to assist.                        *)
MarkerOutlivesItsUsers ==
  /\ (\/ \E t \in Thread : pc(t) \in {"incremental", "assist_mark"}
      \/ \E m \in Marker : InUse(m))
     => marker_ /\ down # "deleted" /\ \A t \in Thread : pc(t) # "helper"
  /\ down = "deleted" => /\ tasks = 0 /\ ~marker_ /\ sweep = "none"
                         /\ phase \in {"done", "awaiting_finalization"}

(* Every operation ends, the shutdown of the group too: no thread waits    *)
(* for ever for tasks, for a phase or for the other threads, while it      *)
(* holds the safepoint or not.                                             *)
OperationsEnd ==
  /\ \A t \in Thread : pc(t) # "idle" ~> pc(t) = "idle"
  /\ down = "joining" ~> down = "deleted"
=============================================================================
