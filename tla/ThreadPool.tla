----------------------------- MODULE ThreadPool -----------------------------
(***************************************************************************)
(* The worker threads of runtime/vm/thread_pool.cc, with the idle hook     *)
(* that MutatorThreadPool (runtime/vm/isolate.cc) puts into it.            *)
(*                                                                         *)
(* pool_monitor_ protects the lists.  A section of code that runs under it *)
(* without waiting is one action, except the last one of a worker's life,  *)
(* which takes exit_monitor_ while it holds pool_monitor_ (`holder').      *)
(* count_idle_, count_running_ and pending_tasks_ change only together     *)
(* with idle_workers_, running_workers_ and tasks_, and are represented by *)
(* the sizes of those.  The order of a list of workers is never used, so   *)
(* it is a set; tasks_ is a queue.                                         *)
(***************************************************************************)
EXTENDS Integers, Sequences, FiniteSets

CONSTANTS Worker,       \* names for Worker objects; a deleted one is reused
          NoWorker,
          Task,         \* the tasks that may be submitted, each one once
          MaxPoolSizes  \* values of the constructor's max_pool_size; 0 is
                        \* unbounded

ASSUME WorkerAssumption == IsFiniteSet(Worker) /\ NoWorker \notin Worker
ASSUME SizeAssumption == MaxPoolSizes \subseteq Nat

VARIABLES
  loc,               \* where each worker's thread is
  job,               \* the task each worker runs, when it runs one
  is_blocked_,
  idle_workers_,
  running_workers_,
  dead_workers_,
  joining,           \* dead_workers_to_join of each worker
  tasks_,
  max_pool_size_,
  shutting_down_,
  all_workers_dead_,
  holder,            \* the worker that holds pool_monitor_ between two steps
  shutdown,          \* where the thread that calls Shutdown is
  shutdownJoining,   \* its dead_workers_to_join
  offered,           \* the tasks that RunImpl has seen
  accepted,          \* those for which it returned true
  done               \* those that have run

lists == <<idle_workers_, running_workers_, dead_workers_, joining>>
exitVars == <<all_workers_dead_, holder, shutdown, shutdownJoining>>
taskVars == <<tasks_, job, offered, accepted, done>>
sizeVars == <<max_pool_size_, is_blocked_>>
vars == <<loc, lists, exitVars, taskVars, sizeVars, shutting_down_>>

-----------------------------------------------------------------------------
(* Where a worker may be.                                                  *)
(*   free          no such Worker object                                   *)
(*   created       in idle_workers_, StartThread not called yet            *)
(*   loop          at the head of WorkerLoop's outer loop                  *)
(*   run           in task->Run(), pool_monitor_ released                  *)
(*   notify_idle   in NotifyIdle(), pool_monitor_ released                 *)
(*   idle_wait     in OnEnterIdleLocked's WaitMicros, and how it returned: *)
(*   idle_woken, idle_timed_out                                            *)
(*   asleep        in WorkerLoop's WaitMicros, and how it returned:        *)
(*   woken, timed_out                                                      *)
(*   last          the last worker, about to take exit_monitor_            *)
(*   join          in JoinDeadWorkersLocked                                *)
(*   exited        the thread has ended and can be joined                  *)
Waiting == {"asleep", "idle_wait"}
Returned == {"woken", "timed_out"}
IdleReturned == {"notify_idle", "idle_woken", "idle_timed_out"}
IdleLoc == {"created", "loop"} \cup Waiting \cup Returned \cup IdleReturned
DeadLoc == {"last", "join", "exited"}
Loc == {"free", "run"} \cup IdleLoc \cup DeadLoc

(* Where the thread in Shutdown may be.                                    *)
(*   none, done    not in it                                               *)
(*   check         about to take exit_monitor_, or back from its Wait      *)
(*   unset         holds exit_monitor_, has read all_workers_dead_ = false *)
(*   wait          waits on exit_monitor_                                  *)
(*   obtain        out of the loop                                         *)
(*   join          in JoinDeadWorkersLocked                                *)
ShutdownLoc == {"none", "check", "unset", "wait", "obtain", "join", "done"}

count_idle_ == Cardinality(idle_workers_)
count_running_ == Cardinality(running_workers_)
pending_tasks_ == Len(tasks_)

(* MonitorLocker ml(&pool_monitor_) can be taken.                          *)
PoolMonitorFree == holder = NoWorker

(* What a wait returns when the waiter is notified, or when it times out.  *)
Notified(l) == IF l = "asleep" THEN "woken" ELSE "idle_woken"
TimedOut(l) == IF l = "asleep" THEN "timed_out" ELSE "idle_timed_out"

Waiters == {w \in Worker : loc[w] \in Waiting}

-----------------------------------------------------------------------------
Init ==
  /\ loc = [w \in Worker |-> "free"]
  /\ job = [w \in Worker |-> {}]
  /\ is_blocked_ = [w \in Worker |-> FALSE]
  /\ idle_workers_ = {}
  /\ running_workers_ = {}
  /\ dead_workers_ = {}
  /\ joining = [w \in Worker |-> {}]
  /\ tasks_ = <<>>
  /\ max_pool_size_ \in MaxPoolSizes
  /\ shutting_down_ = FALSE
  /\ all_workers_dead_ = FALSE
  /\ holder = NoWorker
  /\ shutdown = "none"
  /\ shutdownJoining = {}
  /\ offered = {}
  /\ accepted = {}
  /\ done = {}

-----------------------------------------------------------------------------
(* Submitting a task.                                                      *)

(* new Worker(this), appended to idle_workers_.                            *)
NewIdleWorker(w) ==
  /\ loc[w] = "free"
  /\ loc' = [loc EXCEPT ![w] = "created"]
  /\ idle_workers_' = idle_workers_ \cup {w}
  /\ UNCHANGED <<running_workers_, dead_workers_, joining>>

(* Mutant: nobody is notified.                                             *)
NotifyNobody == UNCHANGED <<loc, lists>>

(* ml->Notify(): one waiter of pool_monitor_ returns, if there is one.     *)
NotifyOne ==
  /\ \/ Waiters = {} /\ UNCHANGED loc
     \/ \E w \in Waiters : loc' = [loc EXCEPT ![w] = Notified(loc[w])]
  /\ UNCHANGED lists

PoolIsFull ==
  max_pool_size_ > 0 /\ count_idle_ + count_running_ >= max_pool_size_

(* Mutant: any idle worker will do, however many tasks wait.               *)
EnoughIdleForOne == count_idle_ > 0

EnoughIdle == count_idle_ >= pending_tasks_ + 1

ScheduleTaskLocked(t) ==
  /\ tasks_' = Append(tasks_, t)
  /\ \/ EnoughIdle /\ NotifyOne
     \/ /\ ~EnoughIdle
        /\ PoolIsFull
        /\ IF idle_workers_ # {} THEN NotifyOne ELSE UNCHANGED <<loc, lists>>
     \/ /\ ~EnoughIdle
        /\ ~PoolIsFull
        /\ \E w \in Worker : NewIdleWorker(w)

RunImpl(t) ==
  /\ PoolMonitorFree
  /\ t \notin offered
  /\ offered' = offered \cup {t}
  /\ \/ shutting_down_ /\ UNCHANGED <<loc, lists, tasks_, accepted>>
     \/ /\ ~shutting_down_
        /\ accepted' = accepted \cup {t}
        /\ ScheduleTaskLocked(t)
  /\ UNCHANGED <<job, done, exitVars, sizeVars, shutting_down_>>

(* Mutant: the thread is not started when the pool is shutting down.       *)
StartThreadUnlessShutdown(w) ==
  /\ loc[w] = "created"
  /\ ~shutting_down_
  /\ loc' = [loc EXCEPT ![w] = "loop"]
  /\ UNCHANGED <<lists, exitVars, taskVars, sizeVars, shutting_down_>>

(* The new thread enters Worker::Main.  Whoever made the Worker calls this *)
(* after it has released pool_monitor_.                                    *)
StartThread(w) ==
  /\ loc[w] = "created"
  /\ loc' = [loc EXCEPT ![w] = "loop"]
  /\ UNCHANGED <<lists, exitVars, taskVars, sizeVars, shutting_down_>>

-----------------------------------------------------------------------------
(* A task may leave its isolate and enter it again.                        *)

(* Mutants: nobody takes the tasks that wait; the size is decremented in   *)
(* an unbounded pool too.                                                  *)
NeedsWorkerNever == FALSE
ShrunkAlways == max_pool_size_ - 1

NeedsWorker == max_pool_size_ > 0 /\ idle_workers_ = {} /\ pending_tasks_ > 0
Shrunk == IF max_pool_size_ > 0 THEN max_pool_size_ - 1 ELSE 0

MarkCurrentWorkerAsBlocked(w) ==
  /\ PoolMonitorFree
  /\ loc[w] = "run"
  /\ ~is_blocked_[w]
  /\ is_blocked_' = [is_blocked_ EXCEPT ![w] = TRUE]
  /\ max_pool_size_' = IF max_pool_size_ > 0 THEN max_pool_size_ + 1 ELSE 0
  /\ IF NeedsWorker
     THEN \E n \in Worker : NewIdleWorker(n)
     ELSE UNCHANGED <<loc, lists>>
  /\ UNCHANGED <<exitVars, taskVars, shutting_down_>>

MarkCurrentWorkerAsUnBlocked(w) ==
  /\ PoolMonitorFree
  /\ loc[w] = "run"
  /\ is_blocked_[w]
  /\ is_blocked_' = [is_blocked_ EXCEPT ![w] = FALSE]
  /\ max_pool_size_' = Shrunk
  /\ UNCHANGED <<loc, lists, exitVars, taskVars, shutting_down_>>

-----------------------------------------------------------------------------
(* The worker's loop.  The operators below describe the rest of a section  *)
(* under pool_monitor_; `idle' and `running' are the lists as the section  *)
(* has left them so far.                                                   *)

ReleaseAt(w, l, idle, running) ==
  /\ loc' = [loc EXCEPT ![w] = l]
  /\ idle_workers_' = idle
  /\ running_workers_' = running
  /\ UNCHANGED <<dead_workers_, joining, all_workers_dead_, holder>>

(* Mutants: the running workers are not considered; dead_workers_ is       *)
(* copied and not emptied.                                                 *)
IsLastIdle(w, idle, running) == shutting_down_ /\ idle = {w}
ToBeJoinedLaterAll(w) == dead_workers_ \cup {w}

IsLast(w, idle, running) == shutting_down_ /\ running = {} /\ idle = {w}
ToBeJoinedLater(w) == {w}

(* ObtainDeadWorkersLocked and IdleToDeadLocked, up to exit_monitor_.      *)
Die(w, idle, running) ==
  LET last == IsLast(w, idle, running) IN
  /\ joining' = [joining EXCEPT ![w] = dead_workers_]
  /\ dead_workers_' = ToBeJoinedLater(w)
  /\ idle_workers_' = idle \ {w}
  /\ running_workers_' = running
  /\ all_workers_dead_' = (all_workers_dead_ \/ last)
  /\ holder' = IF last THEN w ELSE NoWorker
  /\ loc' = [loc EXCEPT ![w] = IF last THEN "last" ELSE "join"]

(* From the test of shutting_down_ to the first WaitMicros.                *)
DieOrSleep(w, idle, running) ==
  IF shutting_down_ THEN Die(w, idle, running)
                    ELSE ReleaseAt(w, "asleep", idle, running)

(* MutatorThreadPool::OnEnterIdleLocked, up to where it returns or leaves  *)
(* the monitor.  The flag, the state of the isolate group and the clock    *)
(* decide; the base class returns at once.                                 *)
OnEnterIdleLocked(w, idle, running) ==
  \/ DieOrSleep(w, idle, running)
  \/ ReleaseAt(w, "notify_idle", idle, running)
  \/ ReleaseAt(w, "idle_wait", idle, running)

NoTasks(w, idle, running) ==
  \/ running = {} /\ OnEnterIdleLocked(w, idle, running)
  \/ running # {} /\ DieOrSleep(w, idle, running)

(* Mutant: the task stays in the queue while it runs.                      *)
TakeTaskPeek(w, idle, running) ==
  /\ ReleaseAt(w, "run", idle, running)
  /\ job' = [job EXCEPT ![w] = {Head(tasks_)}]
  /\ UNCHANGED tasks_

TakeTask(w, idle, running) ==
  /\ ReleaseAt(w, "run", idle, running)
  /\ job' = [job EXCEPT ![w] = {Head(tasks_)}]
  /\ tasks_' = Tail(tasks_)

WorkerLoop(w) ==
  /\ PoolMonitorFree
  /\ loc[w] = "loop"
  /\ \/ /\ tasks_ # <<>>
        /\ TakeTask(w, idle_workers_ \ {w}, running_workers_ \cup {w})
     \/ /\ tasks_ = <<>>
        /\ NoTasks(w, idle_workers_, running_workers_)
        /\ UNCHANGED <<job, tasks_>>
  /\ UNCHANGED <<done, offered, accepted, shutdown, shutdownJoining,
                 sizeVars, shutting_down_>>

(* task->Run() returns; a task that left its isolate is back in it.        *)
TaskReturns(w) ==
  /\ PoolMonitorFree
  /\ loc[w] = "run"
  /\ ~is_blocked_[w]
  /\ done' = done \cup job[w]
  /\ \/ /\ tasks_ # <<>>
        /\ TakeTask(w, idle_workers_, running_workers_)
     \/ /\ tasks_ = <<>>
        /\ NoTasks(w, idle_workers_ \cup {w}, running_workers_ \ {w})
        /\ job' = [job EXCEPT ![w] = {}]
        /\ UNCHANGED tasks_
  /\ UNCHANGED <<offered, accepted, shutdown, shutdownJoining,
                 sizeVars, shutting_down_>>

(* The worker is back in OnEnterIdleLocked with pool_monitor_ held.  After *)
(* a timeout with nothing to do it may still call NotifyIdle.              *)
IdleHookReturns(w) ==
  /\ PoolMonitorFree
  /\ loc[w] \in IdleReturned
  /\ \/ /\ loc[w] = "idle_timed_out"
        /\ tasks_ = <<>>
        /\ ~shutting_down_
        /\ ReleaseAt(w, "notify_idle", idle_workers_, running_workers_)
     \/ /\ tasks_ # <<>>
        /\ ReleaseAt(w, "loop", idle_workers_, running_workers_)
     \/ /\ tasks_ = <<>>
        /\ DieOrSleep(w, idle_workers_, running_workers_)
  /\ UNCHANGED <<taskVars, shutdown, shutdownJoining, sizeVars,
                 shutting_down_>>

(* WaitMicros in the inner loop has returned.                              *)
WaitReturns(w) ==
  /\ PoolMonitorFree
  /\ loc[w] \in Returned
  /\ \/ /\ tasks_ # <<>>
        /\ ReleaseAt(w, "loop", idle_workers_, running_workers_)
     \/ /\ tasks_ = <<>>
        /\ shutting_down_ \/ loc[w] = "timed_out"
        /\ Die(w, idle_workers_, running_workers_)
     \/ /\ tasks_ = <<>>
        /\ ~shutting_down_ /\ loc[w] = "woken"
        /\ ReleaseAt(w, "asleep", idle_workers_, running_workers_)
  /\ UNCHANGED <<taskVars, shutdown, shutdownJoining, sizeVars,
                 shutting_down_>>

(* A wait ends by itself: the time is over, or there is no reason.         *)
WaitEnds(w) ==
  /\ loc[w] \in Waiting
  /\ \E l \in {Notified(loc[w]), TimedOut(loc[w])} :
       loc' = [loc EXCEPT ![w] = l]
  /\ UNCHANGED <<lists, exitVars, taskVars, sizeVars, shutting_down_>>

(* Mutant: the notification does not take exit_monitor_.                   *)
ExitMonitorIgnored == TRUE

ExitMonitorFree == shutdown # "unset"

(* eml.Notify() under exit_monitor_, and the release of pool_monitor_.     *)
NotifyExit(w) ==
  /\ loc[w] = "last"
  /\ ExitMonitorFree
  /\ shutdown' = IF shutdown = "wait" THEN "check" ELSE shutdown
  /\ holder' = NoWorker
  /\ loc' = [loc EXCEPT ![w] = "join"]
  /\ UNCHANGED <<lists, all_workers_dead_, shutdownJoining, taskVars,
                 sizeVars, shutting_down_>>

(* OSThread::Join and delete, in JoinDeadWorkersLocked.                    *)
JoinDeadWorker(w) ==
  /\ loc[w] = "join"
  /\ \E d \in joining[w] :
       /\ loc[d] = "exited"
       /\ loc' = [loc EXCEPT ![d] = "free"]
       /\ joining' = [joining EXCEPT ![w] = @ \ {d}]
  /\ UNCHANGED <<idle_workers_, running_workers_, dead_workers_, exitVars,
                 taskVars, sizeVars, shutting_down_>>

ExitThread(w) ==
  /\ loc[w] = "join"
  /\ joining[w] = {}
  /\ loc' = [loc EXCEPT ![w] = "exited"]
  /\ UNCHANGED <<lists, exitVars, taskVars, sizeVars, shutting_down_>>

-----------------------------------------------------------------------------
(* Shutdown, which the destructor calls once more.                         *)

Shutdown ==
  /\ PoolMonitorFree
  /\ shutdown \in {"none", "done"}
  /\ shutting_down_' = TRUE
  /\ \/ /\ running_workers_ = {} /\ idle_workers_ = {}
        /\ all_workers_dead_' = TRUE
        /\ UNCHANGED loc
     \/ /\ running_workers_ # {} \/ idle_workers_ # {}
        /\ loc' = [w \in Worker |->
                     IF w \in Waiters THEN Notified(loc[w]) ELSE loc[w]]
        /\ UNCHANGED all_workers_dead_
  /\ shutdown' = "check"
  /\ UNCHANGED <<lists, holder, shutdownJoining, taskVars, sizeVars>>

ShutdownCheck ==
  /\ shutdown = "check"
  /\ shutdown' = IF all_workers_dead_ THEN "obtain" ELSE "unset"
  /\ UNCHANGED <<loc, lists, all_workers_dead_, holder, shutdownJoining,
                 taskVars, sizeVars, shutting_down_>>

ShutdownWait ==
  /\ shutdown = "unset"
  /\ shutdown' = "wait"
  /\ UNCHANGED <<loc, lists, all_workers_dead_, holder, shutdownJoining,
                 taskVars, sizeVars, shutting_down_>>

ShutdownSpuriousWakeup ==
  /\ shutdown = "wait"
  /\ shutdown' = "check"
  /\ UNCHANGED <<loc, lists, all_workers_dead_, holder, shutdownJoining,
                 taskVars, sizeVars, shutting_down_>>

(* Mutant: the workers that died last are not joined.                      *)
ShutdownObtainNone ==
  /\ PoolMonitorFree
  /\ shutdown = "obtain"
  /\ shutdown' = "join"
  /\ UNCHANGED <<loc, lists, all_workers_dead_, holder, shutdownJoining,
                 taskVars, sizeVars, shutting_down_>>

ShutdownObtain ==
  /\ PoolMonitorFree
  /\ shutdown = "obtain"
  /\ shutdown' = "join"
  /\ shutdownJoining' = dead_workers_
  /\ dead_workers_' = {}
  /\ UNCHANGED <<loc, idle_workers_, running_workers_, joining,
                 all_workers_dead_, holder, taskVars, sizeVars,
                 shutting_down_>>

ShutdownJoin ==
  /\ shutdown = "join"
  /\ \/ \E d \in shutdownJoining :
          /\ loc[d] = "exited"
          /\ loc' = [loc EXCEPT ![d] = "free"]
          /\ shutdownJoining' = shutdownJoining \ {d}
          /\ UNCHANGED shutdown
     \/ /\ shutdownJoining = {}
        /\ shutdown' = "done"
        /\ UNCHANGED <<loc, shutdownJoining>>
  /\ UNCHANGED <<lists, all_workers_dead_, holder, taskVars, sizeVars,
                 shutting_down_>>

-----------------------------------------------------------------------------
WorkerStep(w) ==
  \/ StartThread(w)
  \/ WorkerLoop(w)
  \/ TaskReturns(w)
  \/ IdleHookReturns(w)
  \/ WaitReturns(w)
  \/ NotifyExit(w)
  \/ JoinDeadWorker(w)
  \/ ExitThread(w)

ShutdownStep ==
  ShutdownCheck \/ ShutdownWait \/ ShutdownObtain \/ ShutdownJoin

Next ==
  \/ \E t \in Task : RunImpl(t)
  \/ \E w \in Worker : \/ WorkerStep(w)
                       \/ MarkCurrentWorkerAsBlocked(w)
                       \/ MarkCurrentWorkerAsUnBlocked(w)
                       \/ WaitEnds(w)
  \/ Shutdown
  \/ ShutdownStep
  \/ ShutdownSpuriousWakeup

Spec == Init /\ [][Next]_vars

(* The scheduler runs every thread that can run; tasks return, and a task  *)
(* that has left its isolate enters it again.  The wait in the idle hook   *)
(* has a deadline (idle_expiry is later than now) and ends; the other one  *)
(* need not end by itself, because --worker_timeout_millis may be 0.       *)
Fairness ==
  /\ \A w \in Worker : /\ WF_vars(WorkerStep(w))
                       /\ SF_vars(TaskReturns(w))
                       /\ WF_vars(MarkCurrentWorkerAsUnBlocked(w))
                       /\ WF_vars(loc[w] = "idle_wait" /\ WaitEnds(w))
  /\ WF_vars(ShutdownStep)

FairSpec == Spec /\ Fairness

-----------------------------------------------------------------------------
(* Properties.                                                             *)

(* Every variable stays in its range.                                      *)
TypeOK ==
  /\ loc \in [Worker -> Loc]
  /\ job \in [Worker -> SUBSET Task]
  /\ is_blocked_ \in [Worker -> BOOLEAN]
  /\ idle_workers_ \in SUBSET Worker
  /\ running_workers_ \in SUBSET Worker
  /\ dead_workers_ \in SUBSET Worker
  /\ joining \in [Worker -> SUBSET Worker]
  /\ tasks_ \in Seq(Task)
  /\ max_pool_size_ \in Nat
  /\ shutting_down_ \in BOOLEAN
  /\ all_workers_dead_ \in BOOLEAN
  /\ holder \in Worker \cup {NoWorker}
  /\ shutdown \in ShutdownLoc
  /\ shutdownJoining \in SUBSET Worker
  /\ offered \in SUBSET Task
  /\ accepted \in SUBSET Task
  /\ done \in SUBSET Task

(* The idle workers that will look at tasks_ without being notified.       *)
Awake == {w \in idle_workers_ : loc[w] \notin Waiting}

(* A task that waits has a worker to come.  ScheduleTaskLocked never       *)
(* relies on a notification that nobody receives: either every idle worker *)
(* is on its way to tasks_, or as many are as there are tasks in it.  In a *)
(* pool without a maximal size the latter holds always, so that no task    *)
(* waits for another one to return; and tasks in native code do not stop a *)
(* pool of bounded size: some worker is on its way, or runs a task that    *)
(* has not left its isolate (MarkCurrentWorkerAsBlocked).                  *)
NoLostWakeup ==
  /\ Awake = idle_workers_ \/ Cardinality(Awake) >= pending_tasks_
  /\ max_pool_size_ = 0 => Cardinality(Awake) >= pending_tasks_
  /\ tasks_ # <<>> => \/ Awake # {}
                      \/ \E w \in running_workers_ : ~is_blocked_[w]

Queued == {tasks_[i] : i \in DOMAIN tasks_}

(* Every task that RunImpl accepted is at one place: in tasks_, with one   *)
(* worker, or done.                                                        *)
EachTaskRunsOnce ==
  /\ TypeOK
  /\ \A i, j \in DOMAIN tasks_ : tasks_[i] = tasks_[j] => i = j
  /\ \A v, w \in Worker : v # w => job[v] \cap job[w] = {}
  /\ \A w \in Worker : job[w] \cap (Queued \cup done) = {}
  /\ Queued \cap done = {}
  /\ accepted = Queued \cup done \cup UNION {job[w] : w \in Worker}

(* A worker whose thread ends is joined by exactly one other thread: it is *)
(* in dead_workers_ or in one list of workers to join.  No worker is idle  *)
(* or runs when all_workers_dead_ is set (the assertions of Shutdown).     *)
JoinedByOne ==
  /\ all_workers_dead_ => idle_workers_ = {} /\ running_workers_ = {}
  /\ \A d \in Worker :
       LET joiners == {w \in Worker : d \in joining[w]} IN
       IF loc[d] \in DeadLoc
       THEN \/ d \in dead_workers_ /\ joiners = {} /\ d \notin shutdownJoining
            \/ /\ d \notin dead_workers_
               /\ \/ d \in shutdownJoining /\ joiners = {}
                  \/ /\ d \notin shutdownJoining
                     /\ \E w \in Worker : joiners = {w}
       ELSE d \notin dead_workers_ \cup shutdownJoining /\ joiners = {}

(* Every task that was accepted runs.                                      *)
AcceptedTasksRun == \A t \in Task : t \in accepted ~> t \in done

(* Shutdown returns, and then all accepted tasks have run and no Worker is *)
(* left, so that the pool can be deleted.                                  *)
ShutdownReturns ==
  shutdown = "check" ~> /\ shutdown = "done"
                        /\ \A w \in Worker : loc[w] = "free"
                        /\ tasks_ = <<>> /\ done = accepted
=============================================================================
