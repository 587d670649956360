-------------------------- MODULE ThreadPoolProofs --------------------------
(***************************************************************************)
(* Proofs about ThreadPool, for every set of workers and of tasks and for  *)
(* every maximal pool size.  IInv is the inductive invariant; each action  *)
(* has a lemma for each part of it that the action can disturb.            *)
(***************************************************************************)
EXTENDS ThreadPool, FiniteSetTheorems, SequenceTheorems, TLAPS

-----------------------------------------------------------------------------
(* The inductive invariant.                                                *)

(* Where a worker is determines its lists, its fields and who holds        *)
(* pool_monitor_ for it.                                                   *)
LocAt(w) ==
  /\ w \in idle_workers_ <=> loc[w] \in IdleLoc
  /\ w \in running_workers_ <=> loc[w] = "run"
  /\ loc[w] # "run" => job[w] = {} /\ ~is_blocked_[w]
  /\ joining[w] # {} => loc[w] \in {"last", "join"}
  /\ holder = w <=> loc[w] = "last"

LocInv == \A w \in Worker : LocAt(w)

(* The workers that still have to be joined are the dead ones, each one in *)
(* one list only.                                                          *)
JoinAt(d) ==
  /\ loc[d] \in DeadLoc <=> \/ d \in dead_workers_
                            \/ d \in shutdownJoining
                            \/ \E w \in Worker : d \in joining[w]
  /\ d \in dead_workers_ =>
       d \notin shutdownJoining /\ \A w \in Worker : d \notin joining[w]
  /\ d \in shutdownJoining => \A w \in Worker : d \notin joining[w]
  /\ \A v, w \in Worker : d \in joining[v] /\ d \in joining[w] => v = w

JoinInv ==
  /\ \A d \in Worker : JoinAt(d)
  /\ shutdownJoining # {} => shutdown = "join"
  /\ all_workers_dead_ =>
       shutting_down_ /\ idle_workers_ = {} /\ running_workers_ = {}

Blocked == {w \in Worker : is_blocked_[w]}

(* A bounded pool always has room for a worker that is not blocked.        *)
SizeInv == max_pool_size_ > 0 => Cardinality(Blocked) < max_pool_size_

TaskInv == EachTaskRunsOnce /\ accepted \subseteq offered

IInv == LocInv /\ JoinInv /\ SizeInv /\ TaskInv /\ NoLostWakeup

-----------------------------------------------------------------------------
(* What the sections of the code do to the locations and to the lists.     *)

LEMMA LocTypes ==
    /\ Notified("asleep") = "woken" /\ Notified("idle_wait") = "idle_woken"
    /\ \A l \in Waiting : Notified(l) \in IdleLoc /\ TimedOut(l) \in IdleLoc
    /\ \A l \in Waiting : Notified(l) \notin Waiting /\ TimedOut(l) \notin Waiting
    /\ IdleLoc \subseteq Loc /\ DeadLoc \subseteq Loc
    /\ "run" \in Loc /\ "free" \in Loc
    /\ IdleLoc \cap DeadLoc = {}
    /\ "run" \notin IdleLoc \cup DeadLoc /\ "free" \notin IdleLoc \cup DeadLoc
    /\ Waiting \subseteq IdleLoc
BY DEF Notified, TimedOut, IdleLoc, DeadLoc, Loc, Waiting, Returned, IdleReturned

\* A step that moves idle workers between idle places, or one worker between
\* two dead places, keeps the lists right.
LEMMA IdleMove ==
    ASSUME TypeOK, LocInv, JoinInv, NEW S \in SUBSET idle_workers_,
           loc' \in [Worker -> Loc],
           \A w \in S : loc'[w] \in IdleLoc,
           \A w \in Worker \ S : loc'[w] = loc[w],
           UNCHANGED <<lists, job, is_blocked_, holder, shutdownJoining>>,
           shutdownJoining # {} => shutdown' = "join",
           all_workers_dead_' => /\ shutting_down_' /\ idle_workers_' = {}
                                 /\ running_workers_' = {}
    PROVE  LocInv' /\ JoinInv'
<1>1. ASSUME NEW w \in Worker PROVE LocAt(w)'
  BY LocTypes DEF LocInv, LocAt, lists, DeadLoc
<1>2. ASSUME NEW d \in Worker PROVE JoinAt(d)'
  <2>1. loc'[d] \in DeadLoc <=> loc[d] \in DeadLoc
    BY LocTypes DEF LocInv, LocAt
  <2> QED BY <2>1 DEF JoinInv, JoinAt, lists
<1> QED BY <1>1, <1>2 DEF LocInv, JoinInv, lists

LEMMA SameLists ==
    ASSUME LocInv, JoinInv,
           UNCHANGED <<loc, lists, job, is_blocked_, exitVars, shutting_down_>>
    PROVE  LocInv' /\ JoinInv'
BY DEF LocInv, LocAt, JoinInv, JoinAt, lists, exitVars

LEMMA ReleaseKeepsLists ==
    ASSUME TypeOK, LocInv, JoinInv, NEW w \in Worker, NEW l \in IdleLoc \cup {"run"},
           NEW idle, NEW running,
           loc[w] \in IdleLoc \cup {"run"},
           ReleaseAt(w, l, idle, running),
           l = "run" => idle = idle_workers_ \ {w} /\ running = running_workers_ \cup {w},
           l # "run" => idle = idle_workers_ \cup {w} /\ running = running_workers_ \ {w},
           job' \in [Worker -> SUBSET Task], l # "run" => job'[w] = {},
           \A v \in Worker \ {w} : job'[v] = job[v],
           ~is_blocked_[w],
           UNCHANGED <<is_blocked_, shutdown, shutdownJoining, shutting_down_>>
    PROVE  LocInv' /\ JoinInv'
<1> USE DEF ReleaseAt
<1>1. ASSUME NEW v \in Worker PROVE LocAt(v)'
  BY LocTypes DEF LocInv, LocAt, DeadLoc, TypeOK
<1>2. ASSUME NEW d \in Worker PROVE JoinAt(d)'
  <2>1. loc'[d] \in DeadLoc <=> loc[d] \in DeadLoc
    BY LocTypes DEF TypeOK
  <2> QED BY <2>1 DEF JoinInv, JoinAt
<1>3. ~all_workers_dead_
  BY DEF JoinInv, LocInv, LocAt
<1> QED BY <1>1, <1>2, <1>3 DEF LocInv, JoinInv

LEMMA DieKeepsLists ==
    ASSUME TypeOK, LocInv, JoinInv, NEW w \in Worker, PoolMonitorFree,
           loc[w] \in IdleLoc \cup {"run"},
           Die(w, idle_workers_ \cup {w}, running_workers_ \ {w}),
           job' \in [Worker -> SUBSET Task], job'[w] = {},
           \A v \in Worker \ {w} : job'[v] = job[v],
           ~is_blocked_[w],
           UNCHANGED <<is_blocked_, shutdown, shutdownJoining, shutting_down_>>
    PROVE  LocInv' /\ JoinInv'
<1> DEFINE last == IsLast(w, idle_workers_ \cup {w}, running_workers_ \ {w})
<1>0. /\ loc' = [loc EXCEPT ![w] = IF last THEN "last" ELSE "join"]
      /\ holder' = IF last THEN w ELSE NoWorker
      /\ all_workers_dead_' = (all_workers_dead_ \/ last)
      /\ joining' = [joining EXCEPT ![w] = dead_workers_]
      /\ dead_workers_' = {w}
      /\ idle_workers_' = idle_workers_ \ {w}
      /\ running_workers_' = running_workers_ \ {w}
  BY DEF Die, ToBeJoinedLater
<1>4. last => shutting_down_ /\ idle_workers_' = {} /\ running_workers_' = {}
  BY <1>0 DEF IsLast
<1> HIDE DEF last
<1>1. ASSUME NEW v \in Worker PROVE LocAt(v)'
  BY <1>0, LocTypes, WorkerAssumption DEF LocInv, LocAt, DeadLoc, TypeOK, PoolMonitorFree
<1>2. ASSUME NEW d \in Worker PROVE JoinAt(d)'
  <2>1. loc'[d] \in DeadLoc <=> d = w \/ loc[d] \in DeadLoc
    BY <1>0, LocTypes DEF TypeOK, DeadLoc
  <2>2. joining[w] = {} BY LocTypes DEF LocInv, LocAt, DeadLoc
  <2>3. loc[w] \notin DeadLoc BY LocTypes
  <2> QED BY <1>0, <2>1, <2>2, <2>3 DEF JoinInv, JoinAt, TypeOK
<1>3. ~all_workers_dead_
  BY DEF JoinInv, LocInv, LocAt
<1> QED BY <1>0, <1>1, <1>2, <1>3, <1>4, Zenon DEF LocInv, JoinInv

LEMMA NewWorkerKeepsLists ==
    ASSUME TypeOK, LocInv, JoinInv, NEW w \in Worker, NewIdleWorker(w),
           ~all_workers_dead_, is_blocked_' \in [Worker -> BOOLEAN],
           \A v \in Worker : loc[v] # "run" => is_blocked_'[v] = is_blocked_[v],
           UNCHANGED <<exitVars, job, shutting_down_>>
    PROVE  LocInv' /\ JoinInv'
<1> USE DEF NewIdleWorker, exitVars
<1>1. ASSUME NEW v \in Worker PROVE LocAt(v)'
  BY LocTypes DEF LocInv, LocAt, TypeOK, IdleLoc
<1>2. ASSUME NEW d \in Worker PROVE JoinAt(d)'
  <2>1. loc'[d] \in DeadLoc <=> loc[d] \in DeadLoc
    BY LocTypes DEF TypeOK, DeadLoc
  <2> QED BY <2>1 DEF JoinInv, JoinAt
<1> QED BY <1>1, <1>2 DEF LocInv, JoinInv

LEMMA NotifyKeepsLists ==
    ASSUME TypeOK, LocInv, JoinInv, NotifyOne,
           UNCHANGED <<exitVars, job, is_blocked_, shutting_down_>>
    PROVE  LocInv' /\ JoinInv'
<1> USE DEF NotifyOne, exitVars, lists
<1>1. CASE UNCHANGED loc
  BY <1>1, SameLists
<1>2. ASSUME NEW w \in Waiters, loc' = [loc EXCEPT ![w] = Notified(loc[w])]
      PROVE  LocInv' /\ JoinInv'
  <2>1. loc' \in [Worker -> Loc] /\ loc'[w] \in IdleLoc /\ w \in idle_workers_
    BY <1>2, LocTypes DEF TypeOK, Waiters, LocInv, LocAt
  <2>2. \A v \in Worker \ {w} : loc'[v] = loc[v]
    BY <1>2 DEF TypeOK
  <2>3. /\ {w} \in SUBSET idle_workers_ /\ \A v \in {w} : loc'[v] \in IdleLoc
        /\ shutdownJoining # {} => shutdown' = "join"
        /\ all_workers_dead_' => /\ shutting_down_' /\ idle_workers_' = {}
                                 /\ running_workers_' = {}
    BY <2>1 DEF JoinInv
  <2> QED BY <2>1, <2>2, <2>3, IdleMove, Zenon
<1> QED BY <1>1, <1>2

\* What a worker without a task does: it dies, or it is idle somewhere.
LEMMA NoTasksCases ==
    ASSUME NEW w \in Worker, NEW idle, NEW running,
           NoTasks(w, idle, running) \/ DieOrSleep(w, idle, running)
    PROVE  \/ Die(w, idle, running)
           \/ \E l \in IdleLoc : ReleaseAt(w, l, idle, running)
BY Zenon DEF NoTasks, OnEnterIdleLocked, DieOrSleep, IdleLoc, Waiting, IdleReturned

\* The two together, for a worker that has no task or has just finished one.
LEMMA NoTasksKeepsLists ==
    ASSUME TypeOK, LocInv, JoinInv, NEW w \in Worker, PoolMonitorFree,
           loc[w] \in IdleLoc \cup {"run"},
           \/ Die(w, idle_workers_ \cup {w}, running_workers_ \ {w})
           \/ \E l \in IdleLoc :
                ReleaseAt(w, l, idle_workers_ \cup {w}, running_workers_ \ {w}),
           job' \in [Worker -> SUBSET Task], job'[w] = {},
           \A v \in Worker \ {w} : job'[v] = job[v],
           ~is_blocked_[w],
           UNCHANGED <<is_blocked_, shutdown, shutdownJoining, shutting_down_>>
    PROVE  LocInv' /\ JoinInv'
<1>1. CASE Die(w, idle_workers_ \cup {w}, running_workers_ \ {w})
  BY <1>1, DieKeepsLists
<1>2. ASSUME NEW l \in IdleLoc,
             ReleaseAt(w, l, idle_workers_ \cup {w}, running_workers_ \ {w})
      PROVE  LocInv' /\ JoinInv'
  BY <1>2, ReleaseKeepsLists, LocTypes
<1> QED BY <1>1, <1>2

\* An idle worker is in its list and in no other one.
LEMMA IdleLists ==
    ASSUME TypeOK, LocInv, NEW w \in Worker, loc[w] \in IdleLoc
    PROVE  /\ idle_workers_ \cup {w} = idle_workers_
           /\ running_workers_ \ {w} = running_workers_
           /\ job[w] = {} /\ ~is_blocked_[w]
BY LocTypes DEF LocInv, LocAt, TypeOK

\* The locations and the lists stay in agreement in every step.
LEMMA RunImplLists ==
    ASSUME TypeOK, LocInv, JoinInv, NEW t \in Task, RunImpl(t)
    PROVE  LocInv' /\ JoinInv'
<1> USE DEF RunImpl, exitVars, sizeVars, lists
<1>0. ASSUME UNCHANGED loc, UNCHANGED lists PROVE LocInv' /\ JoinInv'
  BY <1>0, SameLists
<1>1. CASE shutting_down_ BY <1>1, <1>0
<1>2. CASE ~shutting_down_ /\ ScheduleTaskLocked(t)
  <2>1. CASE NotifyOne BY <2>1, NotifyKeepsLists
  <2>2. ASSUME NEW w \in Worker, NewIdleWorker(w) PROVE LocInv' /\ JoinInv'
    BY <1>2, <2>2, NewWorkerKeepsLists DEF JoinInv, TypeOK
  <2> QED BY <1>0, <1>2, <2>1, <2>2 DEF ScheduleTaskLocked
<1> QED BY <1>1, <1>2

LEMMA BlockLists ==
    ASSUME TypeOK, LocInv, JoinInv, NEW w \in Worker,
           MarkCurrentWorkerAsBlocked(w) \/ MarkCurrentWorkerAsUnBlocked(w)
    PROVE  LocInv' /\ JoinInv'
<1>1. CASE UNCHANGED <<loc, lists>>
  <2>1. \A d \in Worker : LocAt(d)'
    BY <1>1 DEF MarkCurrentWorkerAsBlocked, MarkCurrentWorkerAsUnBlocked,
         exitVars, taskVars, lists, LocInv, LocAt, TypeOK
  <2>2. JoinInv'
    BY <1>1 DEF MarkCurrentWorkerAsBlocked, MarkCurrentWorkerAsUnBlocked,
         exitVars, taskVars, lists, JoinInv, JoinAt
  <2> QED BY <2>1, <2>2 DEF LocInv
<1>2. ASSUME NEW n \in Worker, NewIdleWorker(n), MarkCurrentWorkerAsBlocked(w)
      PROVE  LocInv' /\ JoinInv'
  <2>1. ~all_workers_dead_
    BY <1>2 DEF MarkCurrentWorkerAsBlocked, LocInv, LocAt, JoinInv
  <2>2. /\ is_blocked_' \in [Worker -> BOOLEAN]
        /\ \A v \in Worker : loc[v] # "run" => is_blocked_'[v] = is_blocked_[v]
    BY <1>2, Zenon DEF MarkCurrentWorkerAsBlocked, TypeOK
  <2> QED BY <1>2, <2>1, <2>2, NewWorkerKeepsLists, Zenon
            DEF MarkCurrentWorkerAsBlocked, taskVars
<1> QED BY <1>1, <1>2 DEF MarkCurrentWorkerAsBlocked, MarkCurrentWorkerAsUnBlocked

LEMMA IdleStepLists ==
    ASSUME TypeOK, LocInv, JoinInv, NEW w \in Worker, StartThread(w) \/ WaitEnds(w)
    PROVE  LocInv' /\ JoinInv'
<1> USE DEF lists, exitVars, taskVars, sizeVars
<1>1. loc[w] \in IdleLoc /\ \E l \in IdleLoc : loc' = [loc EXCEPT ![w] = l]
  <2>1. CASE StartThread(w) BY <2>1, Zenon DEF StartThread, IdleLoc
  <2>2. CASE WaitEnds(w) BY <2>2, LocTypes, Zenon DEF WaitEnds
  <2> QED BY <2>1, <2>2
<1>2. /\ loc' \in [Worker -> Loc] /\ {w} \in SUBSET idle_workers_
      /\ \A v \in {w} : loc'[v] \in IdleLoc
      /\ \A v \in Worker \ {w} : loc'[v] = loc[v]
  BY <1>1, LocTypes DEF TypeOK, LocInv, LocAt
<1>3. UNCHANGED <<lists, exitVars, taskVars, sizeVars, shutting_down_>>
  BY DEF StartThread, WaitEnds
<1>4. /\ shutdownJoining # {} => shutdown' = "join"
      /\ all_workers_dead_' => /\ shutting_down_' /\ idle_workers_' = {}
                               /\ running_workers_' = {}
  BY <1>3 DEF JoinInv
<1> QED BY <1>2, <1>3, <1>4, IdleMove, Zenon

LEMMA WorkerLoopLists ==
    ASSUME TypeOK, LocInv, JoinInv, NEW w \in Worker, WorkerLoop(w)
    PROVE  LocInv' /\ JoinInv'
<1> USE DEF WorkerLoop, sizeVars
<1>1. loc[w] \in IdleLoc BY DEF IdleLoc
<1>2. CASE TakeTask(w, idle_workers_ \ {w}, running_workers_ \cup {w}) /\ tasks_ # <<>>
  <2>1. /\ job' \in [Worker -> SUBSET Task]
        /\ \A v \in Worker \ {w} : job'[v] = job[v]
    BY <1>2 DEF TakeTask, TypeOK
  <2> QED BY <1>1, <1>2, <2>1, IdleLists, ReleaseKeepsLists, Zenon DEF TakeTask
<1>3. CASE NoTasks(w, idle_workers_, running_workers_) /\ UNCHANGED <<job, tasks_>>
  <2>1. \/ Die(w, idle_workers_, running_workers_)
        \/ \E l \in IdleLoc : ReleaseAt(w, l, idle_workers_, running_workers_)
    BY <1>3, NoTasksCases
  <2>2. \/ Die(w, idle_workers_ \cup {w}, running_workers_ \ {w})
        \/ \E l \in IdleLoc :
             ReleaseAt(w, l, idle_workers_ \cup {w}, running_workers_ \ {w})
    BY <1>1, <2>1, IdleLists, Zenon
  <2> QED BY <1>1, <1>3, <2>2, IdleLists, NoTasksKeepsLists, Zenon DEF TypeOK
<1> QED BY <1>2, <1>3

LEMMA TaskReturnsLists ==
    ASSUME TypeOK, LocInv, JoinInv, NEW w \in Worker, TaskReturns(w)
    PROVE  LocInv' /\ JoinInv'
<1> USE DEF TaskReturns, sizeVars
<1>1. /\ idle_workers_ = idle_workers_ \ {w}
      /\ running_workers_ = running_workers_ \cup {w}
  BY LocTypes DEF LocInv, LocAt, TypeOK
<1>2. CASE TakeTask(w, idle_workers_, running_workers_) /\ tasks_ # <<>>
  <2>1. /\ job' \in [Worker -> SUBSET Task]
        /\ \A v \in Worker \ {w} : job'[v] = job[v]
    BY <1>2 DEF TakeTask, TypeOK
  <2> QED BY <1>1, <1>2, <2>1, ReleaseKeepsLists, Zenon DEF TakeTask
<1>3. CASE /\ NoTasks(w, idle_workers_ \cup {w}, running_workers_ \ {w})
           /\ job' = [job EXCEPT ![w] = {}]
  <2>1. /\ job' \in [Worker -> SUBSET Task] /\ job'[w] = {}
        /\ \A v \in Worker \ {w} : job'[v] = job[v]
    BY <1>3 DEF TypeOK
  <2>2. \/ Die(w, idle_workers_ \cup {w}, running_workers_ \ {w})
        \/ \E l \in IdleLoc :
             ReleaseAt(w, l, idle_workers_ \cup {w}, running_workers_ \ {w})
    BY <1>3, NoTasksCases, Zenon
  <2> QED BY <2>1, <2>2, NoTasksKeepsLists, Zenon
<1> QED BY <1>2, <1>3

LEMMA WaitLists ==
    ASSUME TypeOK, LocInv, JoinInv, NEW w \in Worker,
           IdleHookReturns(w) \/ WaitReturns(w)
    PROVE  LocInv' /\ JoinInv'
<1>1. /\ loc[w] \in IdleLoc /\ PoolMonitorFree
      /\ UNCHANGED <<taskVars, shutdown, shutdownJoining, sizeVars, shutting_down_>>
  BY DEF IdleHookReturns, WaitReturns, IdleLoc
<1>2. \/ Die(w, idle_workers_, running_workers_)
      \/ \E l \in IdleLoc : ReleaseAt(w, l, idle_workers_, running_workers_)
  <2>1. {"notify_idle", "loop", "asleep"} \subseteq IdleLoc
    BY DEF IdleLoc, Waiting, IdleReturned
  <2>2. CASE IdleHookReturns(w) BY <2>1, <2>2, NoTasksCases, Zenon DEF IdleHookReturns
  <2>3. CASE WaitReturns(w) BY <2>1, <2>3, Zenon DEF WaitReturns
  <2> QED BY <2>2, <2>3
<1>3. \/ Die(w, idle_workers_ \cup {w}, running_workers_ \ {w})
      \/ \E l \in IdleLoc :
           ReleaseAt(w, l, idle_workers_ \cup {w}, running_workers_ \ {w})
  BY <1>1, <1>2, IdleLists
<1> QED BY <1>1, <1>3, IdleLists, NoTasksKeepsLists, Zenon DEF TypeOK, taskVars, sizeVars

LEMMA NotifyExitLists ==
    ASSUME TypeOK, LocInv, JoinInv, NEW w \in Worker, NotifyExit(w)
    PROVE  LocInv' /\ JoinInv'
<1> USE DEF NotifyExit, lists, taskVars, sizeVars
<1>1. ASSUME NEW v \in Worker PROVE LocAt(v)'
  BY WorkerAssumption, LocTypes DEF LocInv, LocAt, TypeOK, DeadLoc
<1>2. ASSUME NEW d \in Worker PROVE JoinAt(d)'
  <2>1. loc'[d] \in DeadLoc <=> loc[d] \in DeadLoc BY DEF TypeOK, DeadLoc
  <2> QED BY <2>1 DEF JoinInv, JoinAt
<1> QED BY <1>1, <1>2 DEF LocInv, JoinInv

LEMMA JoinDeadWorkerLists ==
    ASSUME TypeOK, LocInv, JoinInv, NEW w \in Worker, JoinDeadWorker(w)
    PROVE  LocInv' /\ JoinInv'
<1> USE DEF JoinDeadWorker, exitVars, taskVars, sizeVars
<1>1. PICK d \in joining[w] : /\ loc[d] = "exited"
                              /\ loc' = [loc EXCEPT ![d] = "free"]
                              /\ joining' = [joining EXCEPT ![w] = @ \ {d}]
  BY Zenon
<1>2. d \in Worker BY DEF TypeOK
<1>3. ASSUME NEW v \in Worker PROVE LocAt(v)'
  BY <1>1, <1>2, LocTypes DEF LocInv, LocAt, TypeOK, DeadLoc
<1>4. ASSUME NEW v \in Worker PROVE JoinAt(v)'
  <2>1. loc'[v] \in DeadLoc <=> v # d /\ loc[v] \in DeadLoc
    BY <1>1, <1>2 DEF TypeOK, DeadLoc
  <2>2. \A x \in Worker : v \in joining'[x] <=> v \in joining[x] /\ ~(x = w /\ v = d)
    BY <1>1 DEF TypeOK
  <2>3. JoinAt(v) /\ JoinAt(d) BY <1>2 DEF JoinInv
  <2> QED BY <1>1, <2>1, <2>2, <2>3 DEF JoinAt
<1> QED BY <1>3, <1>4 DEF LocInv, JoinInv

LEMMA ExitThreadLists ==
    ASSUME TypeOK, LocInv, JoinInv, NEW w \in Worker, ExitThread(w)
    PROVE  LocInv' /\ JoinInv'
<1> USE DEF ExitThread, lists, exitVars, taskVars, sizeVars
<1>1. ASSUME NEW v \in Worker PROVE LocAt(v)'
  BY LocTypes DEF LocInv, LocAt, TypeOK, DeadLoc
<1>2. ASSUME NEW d \in Worker PROVE JoinAt(d)'
  <2>1. loc'[d] \in DeadLoc <=> loc[d] \in DeadLoc BY DEF TypeOK, DeadLoc
  <2> QED BY <2>1 DEF JoinInv, JoinAt
<1> QED BY <1>1, <1>2 DEF LocInv, JoinInv

LEMMA ShutdownLists ==
    ASSUME TypeOK, LocInv, JoinInv, Shutdown
    PROVE  LocInv' /\ JoinInv'
<1> USE DEF Shutdown, lists, taskVars, sizeVars
<1>1. Waiters \in SUBSET idle_workers_
  BY LocTypes DEF Waiters, LocInv, LocAt
<1>2. /\ loc' \in [Worker -> Loc]
      /\ \A w \in Waiters : loc'[w] \in IdleLoc
      /\ \A w \in Worker \ Waiters : loc'[w] = loc[w]
  <2>1. CASE UNCHANGED loc BY <2>1, LocTypes DEF TypeOK, Waiters
  <2>2. CASE loc' = [w \in Worker |->
                       IF w \in Waiters THEN Notified(loc[w]) ELSE loc[w]]
    <3>1. \A w \in Waiters : Notified(loc[w]) \in IdleLoc
      BY LocTypes DEF Waiters
    <3> QED BY <2>2, <3>1, LocTypes DEF TypeOK, Waiters
  <2> QED BY <2>1, <2>2
<1>3. shutdownJoining = {} BY DEF JoinInv
<1>4. all_workers_dead_' => /\ shutting_down_' /\ idle_workers_' = {}
                            /\ running_workers_' = {}
  BY Zenon DEF JoinInv
<1> QED BY <1>1, <1>2, <1>3, <1>4, IdleMove

LEMMA ShutdownStepLists ==
    ASSUME TypeOK, LocInv, JoinInv, ShutdownStep \/ ShutdownSpuriousWakeup
    PROVE  LocInv' /\ JoinInv'
<1> USE DEF lists, taskVars, sizeVars
<1>1. CASE ShutdownCheck \/ ShutdownWait \/ ShutdownSpuriousWakeup
  <2>1. /\ UNCHANGED <<loc, lists, all_workers_dead_, holder, shutdownJoining,
                       taskVars, sizeVars, shutting_down_>>
        /\ shutdown # "join"
    BY <1>1 DEF ShutdownCheck, ShutdownWait, ShutdownSpuriousWakeup
  <2> QED BY <2>1 DEF LocInv, LocAt, JoinInv, JoinAt
<1>2. CASE ShutdownObtain
  <2> USE <1>2 DEF ShutdownObtain
  <2>1. \A w \in Worker : LocAt(w)' BY DEF LocInv, LocAt
  <2>2. ASSUME NEW d \in Worker PROVE JoinAt(d)'
    <3>1. JoinAt(d) /\ shutdownJoining = {} BY DEF JoinInv
    <3> QED BY <3>1 DEF JoinAt
  <2> QED BY <2>1, <2>2 DEF LocInv, JoinInv
<1>3. ASSUME ShutdownJoin, NEW d \in shutdownJoining, loc[d] = "exited",
             loc' = [loc EXCEPT ![d] = "free"],
             shutdownJoining' = shutdownJoining \ {d}, UNCHANGED shutdown
      PROVE  LocInv' /\ JoinInv'
  <2> USE <1>3 DEF ShutdownJoin
  <2>0. d \in Worker BY DEF TypeOK
  <2>1. ASSUME NEW v \in Worker PROVE LocAt(v)'
    BY <2>0, LocTypes DEF LocInv, LocAt, TypeOK, DeadLoc
  <2>2. ASSUME NEW v \in Worker PROVE JoinAt(v)'
    <3>1. loc'[v] \in DeadLoc <=> v # d /\ loc[v] \in DeadLoc
      BY <2>0 DEF TypeOK, DeadLoc
    <3>2. JoinAt(v) BY DEF JoinInv
    <3> QED BY <3>1, <3>2 DEF JoinAt
  <2> QED BY <2>1, <2>2 DEF LocInv, JoinInv
<1>4. ASSUME ShutdownJoin, shutdownJoining = {}, UNCHANGED <<loc, shutdownJoining>>
      PROVE  LocInv' /\ JoinInv'
  BY <1>4 DEF ShutdownJoin, LocInv, LocAt, JoinInv, JoinAt
<1> QED BY <1>1, <1>2, <1>3, <1>4 DEF ShutdownStep, ShutdownJoin

\* Where each worker is agrees with the lists, in every step.
LEMMA ListsInductive ==
    ASSUME TypeOK, LocInv, JoinInv, [Next]_vars
    PROVE  LocInv' /\ JoinInv'
<1>1. ASSUME NEW t \in Task, RunImpl(t) PROVE LocInv' /\ JoinInv'
  BY <1>1, RunImplLists
<1>2. ASSUME NEW w \in Worker, WorkerStep(w) PROVE LocInv' /\ JoinInv'
  BY <1>2, IdleStepLists, WorkerLoopLists, TaskReturnsLists, WaitLists,
     NotifyExitLists, JoinDeadWorkerLists, ExitThreadLists DEF WorkerStep
<1>3. ASSUME NEW w \in Worker,
             \/ MarkCurrentWorkerAsBlocked(w)
             \/ MarkCurrentWorkerAsUnBlocked(w)
             \/ WaitEnds(w)
      PROVE  LocInv' /\ JoinInv'
  BY <1>3, BlockLists, IdleStepLists
<1>4. CASE Shutdown BY <1>4, ShutdownLists
<1>5. CASE ShutdownStep \/ ShutdownSpuriousWakeup BY <1>5, ShutdownStepLists
<1>6. CASE UNCHANGED vars
  BY <1>6, SameLists DEF vars, taskVars, sizeVars
<1> QED BY <1>1, <1>2, <1>3, <1>4, <1>5, <1>6 DEF Next

-----------------------------------------------------------------------------
(* Types.                                                                  *)

LEMMA NewWorkerTypes ==
    ASSUME TypeOK, NEW w \in Worker, NewIdleWorker(w)
    PROVE  /\ loc' \in [Worker -> Loc] /\ idle_workers_' \in SUBSET Worker
           /\ running_workers_' \in SUBSET Worker
           /\ dead_workers_' \in SUBSET Worker
           /\ joining' \in [Worker -> SUBSET Worker]
BY DEF NewIdleWorker, TypeOK, Loc, IdleLoc

LEMMA NotifyTypes ==
    ASSUME TypeOK, NotifyOne
    PROVE  /\ loc' \in [Worker -> Loc] /\ idle_workers_' \in SUBSET Worker
           /\ running_workers_' \in SUBSET Worker
           /\ dead_workers_' \in SUBSET Worker
           /\ joining' \in [Worker -> SUBSET Worker]
<1>1. \A w \in Waiters : Notified(loc[w]) \in Loc BY LocTypes DEF Waiters
<1> QED BY <1>1 DEF NotifyOne, lists, TypeOK, Waiters

LEMMA ReleaseTypes ==
    ASSUME TypeOK, NEW w \in Worker, NEW l \in Loc,
           NEW idle \in SUBSET Worker, NEW running \in SUBSET Worker,
           ReleaseAt(w, l, idle, running)
    PROVE  /\ loc' \in [Worker -> Loc] /\ idle_workers_' \in SUBSET Worker
           /\ running_workers_' \in SUBSET Worker
           /\ dead_workers_' \in SUBSET Worker
           /\ joining' \in [Worker -> SUBSET Worker]
           /\ all_workers_dead_' \in BOOLEAN
           /\ holder' \in Worker \cup {NoWorker}
BY DEF ReleaseAt, TypeOK

LEMMA DieTypes ==
    ASSUME TypeOK, NEW w \in Worker,
           NEW idle \in SUBSET Worker, NEW running \in SUBSET Worker,
           Die(w, idle, running)
    PROVE  /\ loc' \in [Worker -> Loc] /\ idle_workers_' \in SUBSET Worker
           /\ running_workers_' \in SUBSET Worker
           /\ dead_workers_' \in SUBSET Worker
           /\ joining' \in [Worker -> SUBSET Worker]
           /\ all_workers_dead_' \in BOOLEAN
           /\ holder' \in Worker \cup {NoWorker}
BY DEF Die, IsLast, ToBeJoinedLater, TypeOK, Loc, DeadLoc

LEMMA HeadTail ==
    ASSUME NEW s \in Seq(Task), s # <<>>
    PROVE  /\ Head(s) \in Task /\ Tail(s) \in Seq(Task)
           /\ Len(Tail(s)) = Len(s) - 1 /\ Len(s) \in Nat /\ Len(s) > 0
           /\ Head(s) = s[1] /\ 1 \in DOMAIN s
           /\ \A i \in DOMAIN Tail(s) : i + 1 \in DOMAIN s /\ Tail(s)[i] = s[i + 1]
           /\ \A i \in DOMAIN s : i # 1 => /\ i - 1 \in DOMAIN Tail(s)
                                           /\ s[i] = Tail(s)[i - 1]
OBVIOUS

LEMMA WorkerTypes ==
    ASSUME TypeOK, LocInv, NEW w \in Worker, WorkerStep(w) PROVE TypeOK'
<1>1. ASSUME NEW l \in {"loop", "asleep", "notify_idle", "idle_wait", "run",
                        "join", "exited", "free"}
      PROVE  l \in Loc
  BY DEF Loc, IdleLoc, DeadLoc, Waiting, IdleReturned
<1>2. CASE StartThread(w)
  BY <1>1, <1>2 DEF StartThread, TypeOK, lists, exitVars, taskVars, sizeVars
<1>3. CASE WorkerLoop(w)
  <2>1. UNCHANGED <<done, offered, accepted, shutdown, shutdownJoining,
                    sizeVars, shutting_down_>>
    BY <1>3 DEF WorkerLoop
  <2>2. CASE /\ tasks_ # <<>>
             /\ TakeTask(w, idle_workers_ \ {w}, running_workers_ \cup {w})
    <3>1. job' \in [Worker -> SUBSET Task] /\ tasks_' \in Seq(Task)
      BY <2>2, HeadTail DEF TakeTask, TypeOK
    <3>2. /\ idle_workers_ \ {w} \in SUBSET Worker
          /\ running_workers_ \cup {w} \in SUBSET Worker
      BY DEF TypeOK
    <3> QED BY <1>1, <2>1, <2>2, <3>1, <3>2, ReleaseTypes, Zenon DEF TakeTask, TypeOK, sizeVars
  <2>3. CASE /\ NoTasks(w, idle_workers_, running_workers_)
             /\ UNCHANGED <<job, tasks_>>
    <3>1. \/ Die(w, idle_workers_, running_workers_)
          \/ \E l \in Loc : ReleaseAt(w, l, idle_workers_, running_workers_)
      BY <2>3, NoTasksCases, LocTypes
    <3> QED BY <2>1, <2>3, <3>1, ReleaseTypes, DieTypes, Zenon DEF TypeOK, sizeVars
  <2> QED BY <1>3, <2>2, <2>3 DEF WorkerLoop
<1>4. CASE TaskReturns(w)
  <2>1. /\ UNCHANGED <<offered, accepted, shutdown, shutdownJoining,
                       sizeVars, shutting_down_>>
        /\ done' \in SUBSET Task
    BY <1>4 DEF TaskReturns, TypeOK
  <2>2. CASE /\ tasks_ # <<>>
             /\ TakeTask(w, idle_workers_, running_workers_)
    <3>1. job' \in [Worker -> SUBSET Task] /\ tasks_' \in Seq(Task)
      BY <2>2, HeadTail DEF TakeTask, TypeOK
    <3> QED BY <1>1, <2>1, <2>2, <3>1, ReleaseTypes, Zenon DEF TakeTask, TypeOK, sizeVars
  <2>3. CASE /\ NoTasks(w, idle_workers_ \cup {w}, running_workers_ \ {w})
             /\ job' = [job EXCEPT ![w] = {}] /\ UNCHANGED tasks_
    <3>1. job' \in [Worker -> SUBSET Task] BY <2>3 DEF TypeOK
    <3>2. /\ idle_workers_ \cup {w} \in SUBSET Worker
          /\ running_workers_ \ {w} \in SUBSET Worker
      BY DEF TypeOK
    <3>3. \/ Die(w, idle_workers_ \cup {w}, running_workers_ \ {w})
          \/ \E l \in Loc :
               ReleaseAt(w, l, idle_workers_ \cup {w}, running_workers_ \ {w})
      BY <2>3, NoTasksCases, LocTypes
    <3> QED BY <2>1, <2>3, <3>1, <3>2, <3>3, ReleaseTypes, DieTypes, Zenon
            DEF TypeOK, sizeVars
  <2> QED BY <1>4, <2>2, <2>3, Zenon DEF TaskReturns
<1>5. CASE IdleHookReturns(w) \/ WaitReturns(w)
  <2>1. UNCHANGED <<taskVars, shutdown, shutdownJoining, sizeVars, shutting_down_>>
    BY <1>5 DEF IdleHookReturns, WaitReturns
  <2>2. \/ Die(w, idle_workers_, running_workers_)
        \/ \E l \in Loc : ReleaseAt(w, l, idle_workers_, running_workers_)
    <3>1. CASE IdleHookReturns(w)
      BY <1>1, <3>1, NoTasksCases, LocTypes DEF IdleHookReturns
    <3>2. CASE WaitReturns(w) BY <1>1, <3>2 DEF WaitReturns
    <3> QED BY <1>5, <3>1, <3>2
  <2> QED BY <2>1, <2>2, ReleaseTypes, DieTypes, Zenon DEF TypeOK, taskVars, sizeVars
<1>6. CASE NotifyExit(w) \/ ExitThread(w)
  BY <1>1, <1>6 DEF NotifyExit, ExitThread, TypeOK, ShutdownLoc, lists, exitVars,
                    taskVars, sizeVars
<1>7. CASE JoinDeadWorker(w)
  BY <1>1, <1>7 DEF JoinDeadWorker, TypeOK, lists, exitVars, taskVars, sizeVars
<1> QED BY <1>2, <1>3, <1>4, <1>5, <1>6, <1>7 DEF WorkerStep

LEMMA TypesInductive ==
    ASSUME TypeOK, LocInv, SizeInv, [Next]_vars PROVE TypeOK'
<1> USE DEF lists, exitVars, taskVars, sizeVars
<1>1. ASSUME NEW t \in Task, RunImpl(t) PROVE TypeOK'
  <2>1. CASE UNCHANGED <<loc, lists, tasks_, accepted>>
    BY <1>1, <2>1 DEF RunImpl, TypeOK
  <2>2. CASE ScheduleTaskLocked(t) /\ accepted' = accepted \cup {t}
    <3>1. tasks_' \in Seq(Task) /\ accepted' \in SUBSET Task
      BY <2>2, AppendProperties DEF ScheduleTaskLocked, TypeOK
    <3>2. \/ NotifyOne \/ UNCHANGED <<loc, lists>>
          \/ \E w \in Worker : NewIdleWorker(w)
      BY <2>2 DEF ScheduleTaskLocked
    <3> QED BY <1>1, <3>1, <3>2, NotifyTypes, NewWorkerTypes DEF RunImpl, TypeOK
  <2> QED BY <1>1, <2>1, <2>2 DEF RunImpl
<1>2. ASSUME NEW w \in Worker, MarkCurrentWorkerAsBlocked(w) PROVE TypeOK'
  <2>1. is_blocked_' \in [Worker -> BOOLEAN] /\ max_pool_size_' \in Nat
    BY <1>2 DEF MarkCurrentWorkerAsBlocked, TypeOK
  <2>2. UNCHANGED <<loc, lists>> \/ \E n \in Worker : NewIdleWorker(n)
    BY <1>2 DEF MarkCurrentWorkerAsBlocked
  <2> QED BY <1>2, <2>1, <2>2, NewWorkerTypes DEF MarkCurrentWorkerAsBlocked, TypeOK
<1>3. ASSUME NEW w \in Worker, MarkCurrentWorkerAsUnBlocked(w) PROVE TypeOK'
  BY <1>3 DEF MarkCurrentWorkerAsUnBlocked, Shrunk, TypeOK
<1>4. ASSUME NEW w \in Worker, WaitEnds(w) PROVE TypeOK'
  BY <1>4, LocTypes DEF WaitEnds, TypeOK
<1>5. CASE Shutdown
  <2>1. \A w \in Waiters : Notified(loc[w]) \in Loc BY LocTypes DEF Waiters
  <2> QED BY <1>5, <2>1, Zenon DEF Shutdown, TypeOK, ShutdownLoc
<1>6. CASE ShutdownStep \/ ShutdownSpuriousWakeup
  BY <1>6, LocTypes DEF ShutdownStep, ShutdownSpuriousWakeup, ShutdownCheck,
       ShutdownWait, ShutdownObtain, ShutdownJoin, TypeOK, ShutdownLoc
<1>7. CASE UNCHANGED vars BY <1>7 DEF vars, TypeOK
<1> QED BY <1>1, <1>2, <1>3, <1>4, <1>5, <1>6, <1>7, WorkerTypes DEF Next

-----------------------------------------------------------------------------
(* Tasks.                                                                  *)

\* What TakeTask does to the queue: the first task leaves it, for good.
LEMMA QueueTail ==
    ASSUME TypeOK, tasks_ # <<>>, tasks_' = Tail(tasks_),
           \A i, j \in DOMAIN tasks_ : tasks_[i] = tasks_[j] => i = j
    PROVE  /\ \A i, j \in DOMAIN tasks_' : tasks_'[i] = tasks_'[j] => i = j
           /\ Queued = Queued' \cup {Head(tasks_)}
           /\ Head(tasks_) \notin Queued'
<1> DEFINE s == tasks_
           r == Tail(tasks_)
<1>1. /\ s \in Seq(Task) /\ r \in Seq(Task)
      /\ Head(s) = s[1] /\ 1 \in DOMAIN s /\ DOMAIN s \subseteq Nat /\ 0 \notin DOMAIN r
      /\ DOMAIN r \subseteq Nat
      /\ \A i \in DOMAIN r : i + 1 \in DOMAIN s /\ r[i] = s[i + 1]
      /\ \A i \in DOMAIN s : i # 1 => i - 1 \in DOMAIN r /\ s[i] = r[i - 1]
  BY HeadTail DEF TypeOK
<1>2. Queued = {s[i] : i \in DOMAIN s} /\ Queued' = {r[i] : i \in DOMAIN r}
  BY Zenon DEF Queued
<1>3. \A i, j \in DOMAIN s : s[i] = s[j] => i = j OBVIOUS
<1>4. tasks_' = r OBVIOUS
<1> HIDE DEF s, r
<1>5. \A i, j \in DOMAIN r : r[i] = r[j] => i = j BY <1>1, <1>3
<1>6. {s[i] : i \in DOMAIN s} = {r[i] : i \in DOMAIN r} \cup {s[1]}
  <2>1. \A i \in DOMAIN s : s[i] \in {r[k] : k \in DOMAIN r} \cup {s[1]}
    <3> TAKE i \in DOMAIN s
    <3>1. CASE i = 1 BY <3>1
    <3>2. CASE i # 1 BY <1>1, <3>2
    <3> QED BY <3>1, <3>2
  <2>2. \A i \in DOMAIN r : r[i] \in {s[k] : k \in DOMAIN s} BY <1>1
  <2> QED BY <1>1, <2>1, <2>2
<1>7. s[1] \notin {r[i] : i \in DOMAIN r} BY <1>1, <1>3
<1>8. s[1] = Head(tasks_) BY <1>1 DEF s
<1>9. Queued = Queued' \cup {Head(tasks_)} /\ Head(tasks_) \notin Queued'
  BY <1>2, <1>6, <1>7, <1>8, Zenon
<1> QED BY <1>4, <1>5, <1>9

\* What RunImpl does to it.
LEMMA QueueAppend ==
    ASSUME TypeOK, NEW t \in Task, tasks_' = Append(tasks_, t), t \notin Queued,
           \A i, j \in DOMAIN tasks_ : tasks_[i] = tasks_[j] => i = j
    PROVE  /\ \A i, j \in DOMAIN tasks_' : tasks_'[i] = tasks_'[j] => i = j
           /\ Queued' = Queued \cup {t}
<1> DEFINE s == tasks_
           r == Append(tasks_, t)
<1>1. /\ Len(s) \in Nat /\ DOMAIN s = 1 .. Len(s) /\ DOMAIN r = 1 .. Len(s) + 1
      /\ r[Len(s) + 1] = t /\ \A i \in 1 .. Len(s) : r[i] = s[i]
  BY AppendProperties DEF TypeOK
<1>2. Queued = {s[i] : i \in DOMAIN s} /\ Queued' = {r[i] : i \in DOMAIN r}
  BY Zenon DEF Queued
<1>3. \A i, j \in DOMAIN s : s[i] = s[j] => i = j OBVIOUS
<1>4. tasks_' = r OBVIOUS
<1> HIDE DEF s, r
<1>5. \A i \in DOMAIN r : i \in DOMAIN s \/ i = Len(s) + 1 BY <1>1
<1>6. \A i \in DOMAIN s : s[i] # t BY <1>2
<1>7. \A i, j \in DOMAIN r : r[i] = r[j] => i = j BY <1>1, <1>3, <1>5, <1>6
<1>8. {r[i] : i \in DOMAIN r} = {s[i] : i \in DOMAIN s} \cup {t} BY <1>1, <1>5
<1> QED BY <1>2, <1>4, <1>7, <1>8

LEMMA SameTasks ==
    ASSUME TaskInv, TypeOK', UNCHANGED taskVars PROVE TaskInv'
BY DEF TaskInv, EachTaskRunsOnce, Queued, taskVars

LEMMA RunImplTasks ==
    ASSUME TypeOK, TaskInv, TypeOK', NEW t \in Task, RunImpl(t) PROVE TaskInv'
<1>1. CASE UNCHANGED <<tasks_, accepted>>
  BY <1>1 DEF RunImpl, TaskInv, EachTaskRunsOnce, Queued
<1>2. CASE ScheduleTaskLocked(t) /\ accepted' = accepted \cup {t}
  <2>1. t \notin accepted BY DEF RunImpl, TaskInv
  <2>2. /\ t \notin Queued /\ t \notin done
        /\ \A w \in Worker : t \notin job[w]
    BY <2>1 DEF TaskInv, EachTaskRunsOnce
  <2>3. /\ \A i, j \in DOMAIN tasks_' : tasks_'[i] = tasks_'[j] => i = j
        /\ Queued' = Queued \cup {t}
    BY <1>2, <2>2, QueueAppend DEF ScheduleTaskLocked, TaskInv, EachTaskRunsOnce
  <2>4. UNCHANGED <<job, done>> /\ offered' = offered \cup {t} BY DEF RunImpl
  <2>5. /\ Queued' \cap done' = {}
        /\ \A w \in Worker : job'[w] \cap (Queued' \cup done') = {}
        /\ accepted' = Queued' \cup done' \cup UNION {job'[w] : w \in Worker}
        /\ accepted' \subseteq offered'
    BY <1>2, <2>2, <2>3, <2>4 DEF TaskInv, EachTaskRunsOnce
  <2>6. \A v, w \in Worker : v # w => job'[v] \cap job'[w] = {}
    BY <2>4 DEF TaskInv, EachTaskRunsOnce
  <2> QED BY <2>3, <2>5, <2>6 DEF TaskInv, EachTaskRunsOnce
<1> QED BY <1>1, <1>2 DEF RunImpl

\* A worker takes the first task; the one it has just run, if any, is done.
LEMMA TakeTaskTasks ==
    ASSUME TypeOK, TaskInv, TypeOK', NEW w \in Worker, NEW idle, NEW running,
           tasks_ # <<>>, TakeTask(w, idle, running),
           done' = done \cup job[w], UNCHANGED <<offered, accepted>>
    PROVE  TaskInv'
<1> DEFINE h == Head(tasks_)
<1>1. /\ \A i, j \in DOMAIN tasks_' : tasks_'[i] = tasks_'[j] => i = j
      /\ Queued = Queued' \cup {h} /\ h \notin Queued'
  BY QueueTail DEF TakeTask, TaskInv, EachTaskRunsOnce
<1>2. job'[w] = {h} /\ \A v \in Worker \ {w} : job'[v] = job[v]
  BY DEF TakeTask, TypeOK
<1> HIDE DEF h
<1>3. h \notin done /\ \A v \in Worker : h \notin job[v]
  BY <1>1, Zenon DEF TaskInv, EachTaskRunsOnce
<1>4. \A u, v \in Worker : u # v => job'[u] \cap job'[v] = {}
  BY <1>2, <1>3 DEF TaskInv, EachTaskRunsOnce
<1>5. /\ \A v \in Worker : job'[v] \cap (Queued' \cup done') = {}
      /\ Queued' \cap done' = {}
  BY <1>1, <1>2, <1>3 DEF TaskInv, EachTaskRunsOnce
<1>6. ASSUME NEW t PROVE t \in accepted' <=>
        t \in Queued' \cup done' \cup UNION {job'[v] : v \in Worker}
  BY <1>1, <1>2 DEF TaskInv, EachTaskRunsOnce
<1> QED BY <1>1, <1>4, <1>5, <1>6, Zenon DEF TaskInv, EachTaskRunsOnce

LEMMA WorkerTasks ==
    ASSUME TypeOK, LocInv, TaskInv, TypeOK', NEW w \in Worker, WorkerStep(w)
    PROVE  TaskInv'
<1>1. CASE WorkerLoop(w)
  <2>1. CASE tasks_ # <<>>
    <3>1. done' = done \cup job[w]
      BY <1>1 DEF WorkerLoop, LocInv, LocAt
    <3> QED BY <1>1, <2>1, <3>1, TakeTaskTasks, Zenon DEF WorkerLoop
  <2>2. CASE tasks_ = <<>>
    BY <1>1, <2>2, SameTasks DEF WorkerLoop, taskVars
  <2> QED BY <2>1, <2>2
<1>2. CASE TaskReturns(w)
  <2>1. CASE tasks_ # <<>>
    BY <1>2, <2>1, TakeTaskTasks DEF TaskReturns
  <2>2. CASE tasks_ = <<>>
    <3>1. /\ job'[w] = {} /\ \A v \in Worker \ {w} : job'[v] = job[v]
          /\ done' = done \cup job[w] /\ UNCHANGED <<tasks_, offered, accepted>>
      BY <1>2, <2>2 DEF TaskReturns, TypeOK
    <3>2. Queued' = Queued BY <3>1 DEF Queued
    <3>3. \A u, v \in Worker : u # v => job'[u] \cap job'[v] = {}
      BY <3>1, Zenon DEF TaskInv, EachTaskRunsOnce
    <3>4. /\ \A v \in Worker : job'[v] \cap (Queued' \cup done') = {}
          /\ Queued' \cap done' = {}
      BY <3>1, <3>2, Zenon DEF TaskInv, EachTaskRunsOnce
    <3>5. ASSUME NEW t PROVE t \in accepted' <=>
            t \in Queued' \cup done' \cup UNION {job'[v] : v \in Worker}
      BY <3>1, <3>2 DEF TaskInv, EachTaskRunsOnce
    <3> QED BY <3>1, <3>3, <3>4, <3>5 DEF TaskInv, EachTaskRunsOnce
  <2> QED BY <2>1, <2>2
<1>3. CASE UNCHANGED taskVars BY <1>3, SameTasks
<1> QED BY <1>1, <1>2, <1>3, Zenon DEF WorkerStep, StartThread, IdleHookReturns, WaitReturns,
                                NotifyExit, JoinDeadWorker, ExitThread

LEMMA TasksInductive ==
    ASSUME TypeOK, LocInv, TaskInv, TypeOK', [Next]_vars PROVE TaskInv'
<1>1. ASSUME NEW t \in Task, RunImpl(t) PROVE TaskInv' BY <1>1, RunImplTasks
<1>2. ASSUME NEW w \in Worker, WorkerStep(w) PROVE TaskInv' BY <1>2, WorkerTasks
<1>3. CASE UNCHANGED taskVars BY <1>3, SameTasks
<1> QED BY <1>1, <1>2, <1>3, Zenon DEF Next, vars, MarkCurrentWorkerAsBlocked,
      MarkCurrentWorkerAsUnBlocked, WaitEnds, Shutdown, ShutdownStep, ShutdownCheck,
      ShutdownWait, ShutdownObtain, ShutdownJoin, ShutdownSpuriousWakeup

-----------------------------------------------------------------------------
(* The size of the pool.                                                   *)

LEMMA FiniteWorkers ==
    ASSUME NEW S \in SUBSET Worker
    PROVE  IsFiniteSet(S) /\ Cardinality(S) \in Nat
BY WorkerAssumption, FS_Subset, FS_CardinalityType

LEMMA SizeInductive ==
    ASSUME TypeOK, SizeInv, [Next]_vars PROVE SizeInv'
<1> USE DEF SizeInv
<1>0. IsFiniteSet(Blocked) /\ Cardinality(Blocked) \in Nat /\ max_pool_size_ \in Nat
  BY FiniteWorkers DEF Blocked, TypeOK
<1>1. ASSUME NEW w \in Worker, MarkCurrentWorkerAsBlocked(w) PROVE SizeInv'
  <2>1. Blocked' = Blocked \cup {w} /\ w \notin Blocked
    BY <1>1 DEF MarkCurrentWorkerAsBlocked, Blocked, TypeOK
  <2>2. Cardinality(Blocked') = Cardinality(Blocked) + 1
    BY <1>0, <2>1, FS_AddElement
  <2> QED BY <1>0, <1>1, <2>2 DEF MarkCurrentWorkerAsBlocked
<1>2. ASSUME NEW w \in Worker, MarkCurrentWorkerAsUnBlocked(w) PROVE SizeInv'
  <2>1. Blocked' = Blocked \ {w} /\ w \in Blocked
    BY <1>2 DEF MarkCurrentWorkerAsUnBlocked, Blocked, TypeOK
  <2>2. Cardinality(Blocked') = Cardinality(Blocked) - 1
    BY <1>0, <2>1, FS_RemoveElement, Zenon
  <2> QED BY <1>0, <1>2, <2>2 DEF MarkCurrentWorkerAsUnBlocked, Shrunk
<1>3. CASE UNCHANGED sizeVars
  BY <1>3 DEF sizeVars, Blocked
<1> QED BY <1>1, <1>2, <1>3, Zenon DEF Next, vars, RunImpl, WorkerStep, StartThread,
      WorkerLoop, TaskReturns, IdleHookReturns, WaitReturns, NotifyExit,
      JoinDeadWorker, ExitThread, WaitEnds, Shutdown, ShutdownStep, ShutdownCheck,
      ShutdownWait, ShutdownObtain, ShutdownJoin, ShutdownSpuriousWakeup

-----------------------------------------------------------------------------
(* Wakeups.                                                                *)

\* The facts about Awake that the cases below use.
LEMMA AwakeFacts ==
    ASSUME TypeOK, LocInv
    PROVE  /\ IsFiniteSet(Awake) /\ Cardinality(Awake) \in Nat
           /\ Awake \subseteq idle_workers_ /\ Awake \subseteq Worker
           /\ Waiters = idle_workers_ \ Awake
           /\ Cardinality(Awake) = 0 <=> Awake = {}
           /\ pending_tasks_ \in Nat /\ (pending_tasks_ = 0 <=> tasks_ = <<>>)
           /\ max_pool_size_ \in Nat
<1>1. Awake \in SUBSET Worker BY DEF Awake, TypeOK
<1>2. Waiters = idle_workers_ \ Awake
  BY LocTypes DEF Awake, Waiters, LocInv, LocAt, TypeOK
<1>3. IsFiniteSet(Awake) /\ Cardinality(Awake) \in Nat BY <1>1, FiniteWorkers
<1>4. Cardinality(Awake) = 0 <=> Awake = {} BY <1>3, FS_EmptySet
<1>5. Len(tasks_) \in Nat /\ (Len(tasks_) = 0 <=> tasks_ = <<>>)
  BY EmptySeq, LenProperties DEF TypeOK
<1>6. Awake \subseteq idle_workers_ BY DEF Awake
<1> QED BY <1>1, <1>2, <1>3, <1>4, <1>5, <1>6 DEF TypeOK, pending_tasks_

\* Without a task in the queue there is nothing to wake anybody for.
LEMMA NoTasksNoWakeup ==
    ASSUME TypeOK', LocInv', tasks_' = <<>> PROVE NoLostWakeup'
<1>1. Awake' \in SUBSET Worker BY DEF Awake, TypeOK
<1>2. Cardinality(Awake') \in Nat BY <1>1, FiniteWorkers
<1>3. pending_tasks_' = 0 BY DEF pending_tasks_
<1> QED BY <1>2, <1>3 DEF NoLostWakeup

\* A step that wakes idle workers, and changes nothing else.
LEMMA MoreAwake ==
    ASSUME TypeOK, LocInv, NoLostWakeup, TypeOK', LocInv',
           Awake \subseteq Awake', UNCHANGED <<tasks_, idle_workers_, running_workers_,
           sizeVars>>
    PROVE  NoLostWakeup'
<1>1. Awake' \in SUBSET idle_workers_ /\ Awake' \in SUBSET Worker
  BY DEF Awake, TypeOK
<1>2. /\ Cardinality(Awake') \in Nat /\ Cardinality(Awake) <= Cardinality(Awake')
  BY <1>1, FiniteWorkers, FS_Subset
<1>3. pending_tasks_' = pending_tasks_ BY DEF pending_tasks_
<1>4. Awake = idle_workers_ => Awake' = idle_workers_' BY <1>1
<1>5. Awake # {} => Awake' # {} OBVIOUS
<1>6. Cardinality(Awake) >= pending_tasks_ => Cardinality(Awake') >= pending_tasks_'
  BY <1>2, <1>3, AwakeFacts
<1> QED BY <1>4, <1>5, <1>6 DEF NoLostWakeup, sizeVars

\* NotifyOne, for a task that has just been added.
LEMMA NotifyWakes ==
    ASSUME TypeOK, LocInv, NoLostWakeup, TypeOK', LocInv', NotifyOne,
           idle_workers_ # {}, pending_tasks_' = pending_tasks_ + 1,
           EnoughIdle \/ max_pool_size_ # 0, UNCHANGED max_pool_size_
    PROVE  NoLostWakeup'
<1>0. UNCHANGED <<idle_workers_, running_workers_>> BY DEF NotifyOne, lists
<1>1. CASE Waiters = {} /\ UNCHANGED loc
  <2>1. Awake = idle_workers_ /\ Awake' = Awake
    BY <1>0, <1>1, AwakeFacts DEF Awake
  <2>2. EnoughIdle => Cardinality(Awake') >= pending_tasks_'
    BY <2>1 DEF EnoughIdle, count_idle_
  <2> QED BY <1>0, <2>1, <2>2 DEF NoLostWakeup
<1>2. ASSUME NEW w \in Waiters, loc' = [loc EXCEPT ![w] = Notified(loc[w])]
      PROVE  NoLostWakeup'
  <2>1. loc[w] \in Waiting /\ w \in idle_workers_ /\ w \notin Awake /\ w \in Worker
    BY AwakeFacts DEF Waiters
  <2>2. Awake' = Awake \cup {w}
    BY <1>0, <1>2, <2>1, LocTypes, Zenon DEF Awake, TypeOK
  <2>3. Cardinality(Awake') = Cardinality(Awake) + 1
    BY <2>1, <2>2, AwakeFacts, FS_AddElement, Zenon
  <2>4. Cardinality(Awake) >= pending_tasks_ BY <2>1 DEF NoLostWakeup
  <2>5. Cardinality(Awake') >= pending_tasks_'
    BY <2>3, <2>4, AwakeFacts
  <2> QED BY <2>2, <2>5 DEF NoLostWakeup
<1> QED BY <1>1, <1>2 DEF NotifyOne

\* A new worker is awake.
LEMMA NewWorkerWakes ==
    ASSUME TypeOK, LocInv, NoLostWakeup, TypeOK', LocInv',
           NEW w \in Worker, NewIdleWorker(w),
           pending_tasks_' \in {pending_tasks_, pending_tasks_ + 1},
           max_pool_size_' = 0 => max_pool_size_ = 0
    PROVE  NoLostWakeup'
<1>1. w \notin idle_workers_ /\ w \notin Awake
  BY LocTypes DEF NewIdleWorker, LocInv, LocAt, Awake
<1>2. idle_workers_' = idle_workers_ \cup {w} /\ Awake' = Awake \cup {w}
  BY <1>1 DEF NewIdleWorker, Awake, TypeOK, Waiting
<1>3. Cardinality(Awake') = Cardinality(Awake) + 1
  BY <1>1, <1>2, AwakeFacts, FS_AddElement, Zenon
<1>4. Cardinality(Awake) >= pending_tasks_ => Cardinality(Awake') >= pending_tasks_'
  BY <1>3, AwakeFacts
<1> QED BY <1>2, <1>4 DEF NoLostWakeup

\* A full pool runs a task that is not blocked.
LEMMA FullPoolRuns ==
    ASSUME TypeOK, LocInv, SizeInv, PoolIsFull, idle_workers_ = {}
    PROVE  \E w \in running_workers_ : ~is_blocked_[w]
<1> SUFFICES ASSUME \A w \in running_workers_ : is_blocked_[w] PROVE FALSE
  OBVIOUS
<1>1. running_workers_ \subseteq Blocked BY DEF Blocked, TypeOK
<1>2. /\ IsFiniteSet(Blocked) /\ Cardinality(Blocked) \in Nat
      /\ Cardinality(running_workers_) \in Nat
  BY FiniteWorkers DEF Blocked, TypeOK
<1>3. Cardinality(running_workers_) <= Cardinality(Blocked)
  BY <1>1, <1>2, FS_Subset
<1>4. count_idle_ = 0 BY FS_EmptySet DEF count_idle_
<1> QED BY <1>2, <1>3, <1>4 DEF PoolIsFull, SizeInv, count_running_, TypeOK

LEMMA RunImplWakeup ==
    ASSUME TypeOK, LocInv, SizeInv, NoLostWakeup, TypeOK', LocInv',
           NEW t \in Task, RunImpl(t)
    PROVE  NoLostWakeup'
<1>0. UNCHANGED sizeVars BY DEF RunImpl
<1>1. CASE UNCHANGED <<loc, lists, tasks_>>
  <2>1. Awake' = Awake BY <1>1 DEF Awake, lists
  <2> QED BY <1>0, <1>1, <2>1, MoreAwake DEF lists
<1>2. CASE ScheduleTaskLocked(t)
  <2>1. /\ pending_tasks_' = pending_tasks_ + 1
        /\ UNCHANGED max_pool_size_ /\ UNCHANGED is_blocked_
    BY <1>0, <1>2, AppendProperties, Zenon DEF ScheduleTaskLocked, pending_tasks_, TypeOK, sizeVars
  <2>2. CASE EnoughIdle /\ NotifyOne
    <3>1. idle_workers_ # {}
      <4>1. Cardinality({}) = 0 /\ pending_tasks_ \in Nat BY FS_EmptySet, AwakeFacts
      <4> QED BY <2>2, <4>1 DEF EnoughIdle, count_idle_
    <3> QED BY <2>1, <2>2, <3>1, NotifyWakes
  <2>3. CASE PoolIsFull /\ idle_workers_ # {} /\ NotifyOne
    BY <2>1, <2>3, NotifyWakes DEF PoolIsFull, TypeOK
  <2>4. CASE PoolIsFull /\ idle_workers_ = {} /\ UNCHANGED <<loc, lists>>
    <3>1. Awake' = idle_workers_' BY <2>4 DEF Awake, lists
    <3>2. \E w \in running_workers_' : ~is_blocked_'[w]
      BY <2>1, <2>4, FullPoolRuns DEF lists
    <3>3. max_pool_size_' # 0 BY <2>1, <2>4 DEF PoolIsFull, TypeOK
    <3> QED BY <3>1, <3>2, <3>3 DEF NoLostWakeup
  <2>5. ASSUME NEW w \in Worker, NewIdleWorker(w) PROVE NoLostWakeup'
    BY <2>1, <2>5, NewWorkerWakes
  <2> QED BY <1>2, <2>2, <2>3, <2>4, <2>5 DEF ScheduleTaskLocked
<1> QED BY <1>1, <1>2 DEF RunImpl

LEMMA BlockWakeup ==
    ASSUME TypeOK, LocInv, SizeInv, NoLostWakeup, TypeOK', LocInv',
           NEW w \in Worker, MarkCurrentWorkerAsBlocked(w)
    PROVE  NoLostWakeup'
<1>1. /\ UNCHANGED <<tasks_>> /\ pending_tasks_' = pending_tasks_
      /\ max_pool_size_' = 0 => max_pool_size_ = 0
  BY DEF MarkCurrentWorkerAsBlocked, taskVars, pending_tasks_, TypeOK
<1>2. CASE NeedsWorker
  <2>1. PICK n \in Worker : NewIdleWorker(n)
    BY <1>2 DEF MarkCurrentWorkerAsBlocked
  <2> QED BY <1>1, <2>1, NewWorkerWakes
<1>3. CASE ~NeedsWorker
  <2>1. UNCHANGED <<idle_workers_, running_workers_>> /\ Awake' = Awake
    BY <1>3 DEF MarkCurrentWorkerAsBlocked, lists, Awake
  <2>2. tasks_ # <<>> => Awake # {}
    BY <1>3, AwakeFacts DEF NeedsWorker, NoLostWakeup
  <2> QED BY <1>1, <2>1, <2>2 DEF NoLostWakeup
<1> QED BY <1>2, <1>3

LEMMA UnBlockWakeup ==
    ASSUME TypeOK, LocInv, SizeInv, NoLostWakeup, TypeOK', LocInv',
           NEW w \in Worker, MarkCurrentWorkerAsUnBlocked(w)
    PROVE  NoLostWakeup'
<1>1. /\ UNCHANGED <<tasks_, idle_workers_, running_workers_>>
      /\ pending_tasks_' = pending_tasks_ /\ Awake' = Awake
      /\ \A v \in Worker : ~is_blocked_[v] => ~is_blocked_'[v]
  BY Zenon DEF MarkCurrentWorkerAsUnBlocked, taskVars, lists, pending_tasks_, Awake, TypeOK
<1>2. max_pool_size_' = 0 => max_pool_size_ = 0
  <2>1. w \in Blocked BY DEF MarkCurrentWorkerAsUnBlocked, Blocked
  <2>2. Cardinality(Blocked) \in Nat /\ Cardinality(Blocked) # 0
    BY <2>1, FiniteWorkers, FS_EmptySet DEF Blocked
  <2> QED BY <2>2 DEF MarkCurrentWorkerAsUnBlocked, Shrunk, SizeInv, TypeOK
<1>3. \A v \in running_workers_ : v \in Worker BY DEF TypeOK
<1> QED BY <1>1, <1>2, <1>3 DEF NoLostWakeup

\* A worker that takes a task leaves the idle list, and a task the queue.
LEMMA TakeTaskWakeup ==
    ASSUME TypeOK, LocInv, NoLostWakeup, TypeOK', LocInv', NEW w \in Worker,
           NEW idle, NEW running, tasks_ # <<>>, TakeTask(w, idle, running),
           w \in running, ~is_blocked_[w], UNCHANGED sizeVars,
           \/ w \in Awake /\ idle = idle_workers_ \ {w}
           \/ loc[w] = "run" /\ idle = idle_workers_
    PROVE  NoLostWakeup'
<1>1. /\ loc' = [loc EXCEPT ![w] = "run"] /\ idle_workers_' = idle
      /\ running_workers_' = running /\ tasks_' = Tail(tasks_)
  BY DEF TakeTask, ReleaseAt
<1>2. pending_tasks_' = pending_tasks_ - 1 /\ pending_tasks_ \in Nat
  BY <1>1, HeadTail, Zenon DEF pending_tasks_, TypeOK
<1>3. \E v \in running_workers_' : ~is_blocked_'[v] BY <1>1 DEF sizeVars
<1>4. CASE w \in Awake /\ idle = idle_workers_ \ {w}
  <2>1. Awake' = Awake \ {w} BY <1>1, <1>4, Zenon DEF Awake, TypeOK
  <2>2. Cardinality(Awake') = Cardinality(Awake) - 1
    BY <1>4, <2>1, AwakeFacts, FS_RemoveElement, Zenon
  <2>3. Cardinality(Awake) >= pending_tasks_ => Cardinality(Awake') >= pending_tasks_'
    BY <1>2, <2>2, AwakeFacts
  <2>4. Awake = idle_workers_ => Awake' = idle_workers_' BY <1>1, <1>4, <2>1
  <2> QED BY <1>3, <2>3, <2>4, Zenon DEF NoLostWakeup, sizeVars
<1>5. CASE loc[w] = "run" /\ idle = idle_workers_
  <2>1. Awake' = Awake
    BY <1>1, <1>5, LocTypes, Zenon DEF Awake, TypeOK, LocInv, LocAt
  <2>2. Cardinality(Awake) >= pending_tasks_ => Cardinality(Awake') >= pending_tasks_'
    BY <1>2, <2>1, AwakeFacts
  <2> QED BY <1>1, <1>3, <1>5, <2>1, <2>2 DEF NoLostWakeup, sizeVars
<1> QED BY <1>4, <1>5

LEMMA WorkerWakeup ==
    ASSUME TypeOK, LocInv, NoLostWakeup, TypeOK', LocInv', NEW w \in Worker, WorkerStep(w)
    PROVE  NoLostWakeup'
<1>0. UNCHANGED sizeVars
  BY Zenon DEF WorkerStep, StartThread, WorkerLoop, TaskReturns, IdleHookReturns, WaitReturns,
         NotifyExit, JoinDeadWorker, ExitThread
<1>1. CASE tasks_' = <<>> BY <1>1, NoTasksNoWakeup
<1>2. CASE WorkerLoop(w) /\ tasks_ # <<>>
  <2>1. w \in Awake /\ ~is_blocked_[w]
    BY <1>2, IdleLists, Zenon DEF WorkerLoop, Awake, LocInv, LocAt, IdleLoc, Waiting
  <2> QED BY <1>0, <1>2, <2>1, TakeTaskWakeup, Zenon DEF WorkerLoop
<1>3. CASE TaskReturns(w) /\ tasks_ # <<>>
  BY <1>0, <1>3, TakeTaskWakeup, Zenon DEF TaskReturns, LocInv, LocAt
<1>4. ASSUME UNCHANGED <<tasks_, idle_workers_, running_workers_>>,
             NEW v \in Worker, NEW l \in Loc \ Waiting,
             loc' = [loc EXCEPT ![v] = l]
      PROVE  NoLostWakeup'
  <2>1. Awake \subseteq Awake' BY <1>4 DEF Awake, TypeOK
  <2> QED BY <1>0, <1>4, <2>1, MoreAwake
<1>5. ASSUME NEW l \in {"loop", "join", "exited", "free"} PROVE l \in Loc \ Waiting
  BY DEF Loc, IdleLoc, DeadLoc, Waiting
<1>6. CASE (IdleHookReturns(w) \/ WaitReturns(w)) /\ tasks_ # <<>>
  BY <1>4, <1>5, <1>6, Zenon DEF IdleHookReturns, WaitReturns, ReleaseAt, taskVars
<1>7. CASE StartThread(w) \/ NotifyExit(w) \/ ExitThread(w)
  BY <1>4, <1>5, <1>7, Zenon DEF StartThread, NotifyExit, ExitThread, lists, taskVars
<1>8. CASE JoinDeadWorker(w)
  BY <1>4, <1>5, <1>8, Zenon DEF JoinDeadWorker, taskVars, TypeOK
<1>9. CASE (WorkerLoop(w) \/ TaskReturns(w) \/ IdleHookReturns(w) \/ WaitReturns(w))
           /\ tasks_ = <<>>
  <2>1. tasks_' = <<>>
    BY <1>9, Zenon DEF WorkerLoop, TaskReturns, IdleHookReturns, WaitReturns, taskVars
  <2> QED BY <1>1, <2>1
<1> QED BY <1>2, <1>3, <1>6, <1>7, <1>8, <1>9 DEF WorkerStep

LEMMA WakeupInductive ==
    ASSUME TypeOK, LocInv, SizeInv, NoLostWakeup, TypeOK', LocInv', [Next]_vars
    PROVE  NoLostWakeup'
<1> USE DEF lists, taskVars
<1>1. ASSUME NEW w \in Worker, WaitEnds(w) PROVE NoLostWakeup'
  <2>1. Awake \subseteq Awake' BY <1>1, LocTypes, Zenon DEF WaitEnds, Awake, TypeOK
  <2> QED BY <1>1, <2>1, MoreAwake DEF WaitEnds
<1>2. CASE Shutdown
  <2>1. Awake \subseteq Awake'
    BY <1>2, LocTypes, Zenon DEF Shutdown, Awake, TypeOK, Waiters
  <2> QED BY <1>2, <2>1, MoreAwake DEF Shutdown
<1>3. CASE ShutdownStep \/ ShutdownSpuriousWakeup \/ UNCHANGED vars
  <2>1. UNCHANGED <<tasks_, idle_workers_, running_workers_, sizeVars>>
    BY <1>3 DEF ShutdownStep, ShutdownSpuriousWakeup, ShutdownCheck, ShutdownWait,
                ShutdownObtain, ShutdownJoin, vars
  <2>2. \A v \in Worker : loc'[v] = loc[v] \/ loc'[v] = "free"
    BY <1>3, Zenon DEF ShutdownStep, ShutdownSpuriousWakeup, ShutdownCheck, ShutdownWait,
                ShutdownObtain, ShutdownJoin, vars, TypeOK
  <2>3. Awake \subseteq Awake' BY <2>1, <2>2 DEF Awake, TypeOK, Waiting
  <2> QED BY <2>1, <2>3, MoreAwake
<1> QED BY <1>1, <1>2, <1>3, RunImplWakeup, BlockWakeup, UnBlockWakeup, WorkerWakeup
        DEF Next

-----------------------------------------------------------------------------
(* The theorems.                                                           *)

LEMMA InvInit == Init => IInv
<1> SUFFICES ASSUME Init PROVE IInv OBVIOUS
<1> USE DEF Init
<1>1. TypeOK
  <2>1. max_pool_size_ \in Nat BY SizeAssumption
  <2>2. loc \in [Worker -> Loc] /\ shutdown \in ShutdownLoc
    BY DEF Loc, ShutdownLoc
  <2>3. tasks_ \in Seq(Task) OBVIOUS
  <2>4. /\ job \in [Worker -> SUBSET Task] /\ is_blocked_ \in [Worker -> BOOLEAN]
        /\ joining \in [Worker -> SUBSET Worker]
    OBVIOUS
  <2> QED BY <2>1, <2>2, <2>3, <2>4, Zenon DEF TypeOK
<1>2. LocInv BY WorkerAssumption, LocTypes DEF LocInv, LocAt
<1>3. JoinInv BY LocTypes, Zenon DEF JoinInv, JoinAt
<1>4. SizeInv
  <2>1. Blocked = {} BY DEF Blocked
  <2> QED BY <2>1, FS_EmptySet DEF SizeInv
<1>5. TaskInv
  <2>1. DOMAIN tasks_ = {} BY DEF TypeOK
  <2> QED BY <1>1, <2>1 DEF TaskInv, EachTaskRunsOnce, Queued
<1>6. NoLostWakeup
  <2>1. Awake = {} /\ pending_tasks_ = 0 BY DEF Awake, pending_tasks_
  <2> QED BY <2>1, FS_EmptySet DEF NoLostWakeup
<1> QED BY <1>2, <1>3, <1>4, <1>5, <1>6 DEF IInv

LEMMA InvNext == IInv /\ [Next]_vars => IInv'
<1> SUFFICES ASSUME IInv, [Next]_vars PROVE IInv' OBVIOUS
<1>1. TypeOK /\ LocInv /\ JoinInv /\ SizeInv /\ TaskInv /\ NoLostWakeup
  BY DEF IInv, TaskInv, EachTaskRunsOnce
<1>2. TypeOK' BY <1>1, TypesInductive
<1>3. LocInv' /\ JoinInv' BY <1>1, ListsInductive
<1>4. SizeInv' BY <1>1, SizeInductive
<1>5. TaskInv' BY <1>1, <1>2, TasksInductive
<1>6. NoLostWakeup' BY <1>1, <1>2, <1>3, WakeupInductive
<1> QED BY <1>3, <1>4, <1>5, <1>6 DEF IInv

LEMMA Invariance == Spec => []IInv
BY InvInit, InvNext, PTL DEF Spec

\* ScheduleTaskLocked, WorkerLoop: an accepted task is in tasks_, with one
\* worker, or done, and never at two of these places, for any number of
\* workers and tasks.
THEOREM TasksRunOnce == Spec => []EachTaskRunsOnce
<1>1. IInv => EachTaskRunsOnce BY DEF IInv, TaskInv
<1> QED BY <1>1, Invariance, PTL

\* ScheduleTaskLocked's choice between Notify, a new worker and neither never
\* leaves a task without a worker to come; nor does a task that blocks
\* (MarkCurrentWorkerAsBlocked) in a pool of bounded size.
THEOREM WakeupsAreNotLost == Spec => []NoLostWakeup
<1>1. IInv => NoLostWakeup BY DEF IInv
<1> QED BY <1>1, Invariance, PTL

\* IdleToDeadLocked, ObtainDeadWorkersLocked, JoinDeadWorkersLocked: each dead
\* worker is joined by exactly one thread, and all_workers_dead_ is set only
\* when no worker is idle or runs.
THEOREM DeadWorkersJoinedByOne == Spec => []JoinedByOne
<1>1. IInv => JoinedByOne
  <2> SUFFICES ASSUME IInv PROVE JoinedByOne OBVIOUS
  <2>1. all_workers_dead_ => idle_workers_ = {} /\ running_workers_ = {}
    BY DEF IInv, JoinInv
  <2>2. ASSUME NEW d \in Worker
        PROVE  LET joiners == {w \in Worker : d \in joining[w]} IN
               IF loc[d] \in DeadLoc
               THEN \/ /\ d \in dead_workers_ /\ joiners = {}
                       /\ d \notin shutdownJoining
                    \/ /\ d \notin dead_workers_
                       /\ \/ d \in shutdownJoining /\ joiners = {}
                          \/ /\ d \notin shutdownJoining
                             /\ \E w \in Worker : joiners = {w}
               ELSE d \notin dead_workers_ \cup shutdownJoining /\ joiners = {}
    <3>1. JoinAt(d) BY DEF IInv, JoinInv
    <3>2. ASSUME NEW w \in Worker, d \in joining[w]
          PROVE  {v \in Worker : d \in joining[v]} = {w}
      BY <3>1, <3>2 DEF JoinAt
    <3> QED BY <3>1, <3>2 DEF JoinAt
  <2> QED BY <2>1, <2>2 DEF JoinedByOne
<1> QED BY <1>1, Invariance, PTL
=============================================================================
