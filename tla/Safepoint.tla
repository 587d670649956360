------------------------------ MODULE Safepoint ------------------------------
(***************************************************************************)
(* The safepoint protocol of an isolate group: runtime/vm/heap/safepoint.*  *)
(* with the per-thread state word of runtime/vm/thread.h and the            *)
(* scheduling of threads into the group, runtime/vm/isolate.cc.             *)
(*                                                                          *)
(* A thread that wants to run a safepoint operation (a GC, or a deopt) asks *)
(* every other thread of the group to park, waits until they have, runs the *)
(* operation and resumes them.  There are two levels: a thread at a kGC     *)
(* safepoint may be scanned, a thread at a kGCAndDeopt safepoint may also   *)
(* have its frames deoptimized.                                             *)
(*                                                                          *)
(* Locks: critical sections of a thread_lock or of a parked_lock_ touch one *)
(* thread's word and one counter and are single actions.  threads_lock is   *)
(* held across the loops over the active list, whose steps interleave with  *)
(* the other threads' lock-free fast paths, so its holder is state.         *)
(***************************************************************************)
EXTENDS Naturals, FiniteSets

CONSTANTS
    Thread,     \* the OS threads that may enter the isolate group
    NoThread,   \* the null Thread*
    MaxOps      \* bound: SafepointOperationScopes opened in a behaviour

ASSUME ThreadAssumption == NoThread \notin Thread /\ IsFiniteSet(Thread)
ASSUME BoundAssumption == MaxOps \in Nat

\* enum SafepointLevel.
kGC == 0
kGCAndDeopt == 1
Level == {kGC, kGCAndDeopt}

VARIABLES
    pc,             \* where each thread is (see Loc)
    ret,            \* execution state a parked thread returns to
    level,          \* current_safepoint_level()
    at,             \* AtSafepoint / AtDeoptSafepoint bits of safepoint_state_
    req,            \* SafepointRequested / DeoptSafepointRequested bits
    blocked,        \* BlockedForSafepoint bit
    bypass,         \* BypassSafepoints bit
    active,         \* ThreadRegistry::active_list_
    owner,          \* LevelHandler::owner_
    count,          \* LevelHandler::operation_count_
    notParked,      \* LevelHandler::num_threads_not_parked_
    opLevel,        \* level_ of a thread's outermost SafepointOperationScope
    lock,           \* holder of threads_lock across steps
    todo,           \* rest of the active list in the holder's loop
    tlWait,         \* threads in Wait() on threads_lock
    tWait,          \* threads in Wait() on their own thread_lock
    nOps            \* operation scopes opened so far (at most MaxOps)

wordVars == <<at, req, blocked, bypass>>
handlerVars == <<owner, count, notParked>>
lockVars == <<lock, todo>>
waitVars == <<tlWait, tWait>>
vars == <<pc, ret, level, wordVars, active, handlerVars, opLevel,
          lockVars, waitVars, nOps>>

\* Execution states a thread is in between transitions: kThreadInVM,
\* kThreadInGenerated, kThreadInNative, kThreadInBlockedState.
ExecState == {"vm", "gen", "native", "blocked"}

Loc == ExecState \cup
    {"out",        \* not scheduled in the group
     "sched",      \* in ScheduleThreadLocked
     "enter",      \* in EnterSafepoint, after the failed fast update
     "exit",       \* in ExitSafepointUsingLock
     "block",      \* about to call BlockForSafepoint
     "st_wait",    \* SafepointThreads: the level is in progress
     "st_notify",  \* NotifyThreadsToGetToSafepointLevel
     "st_parked",  \* WaitUntilThreadsReachedSafepointLevel
     "st_lower",   \* AcquireLowerLevelSafepoints
     "op",         \* the operation runs
     "rt_notify"}  \* ResumeThreads: NotifyThreadsToContinue

\* Locations at which a thread may touch the heap or its frames.
Running == {"vm", "gen", "block", "enter"}

----------------------------------------------------------------------------
\* Thread::AtSafepointBits.
AtSafepointBits(l) == IF l = kGC THEN {kGC} ELSE {kGC, kGCAndDeopt}

\* Thread::IsAtSafepoint(level).
IsAtSafepoint(t, l) == AtSafepointBits(l) \subseteq at[t]

\* Thread::IsSafepointRequested: only levels the thread can participate in.
IsSafepointRequested(t) == \E l \in req[t] : l <= level[t]

\* LevelHandler::SafepointInProgress.
SafepointInProgress(l) == count[l] > 0 /\ owner[l] # NoThread

\* Mutant: only the GC level is looked at.
AnySafepointInProgressGCOnly == SafepointInProgress(kGC)

AnySafepointInProgress == \E l \in Level : SafepointInProgress(l)

\* Mutant: the thread that runs the operation is not left out.
ParticipantsWithSelf(t) == {u \in active : ~bypass[u]}

\* The threads a loop over the active list acts on.
Participants(t) == {u \in active : ~bypass[u] /\ u # t}

\* Mutant: checks in for levels the thread cannot participate in.
EnterSafepointLockedAllLevels(t) ==
    /\ at' = [at EXCEPT ![t] = @ \cup AtSafepointBits(level[t])]
    /\ notParked' = [l \in Level |->
                        IF l \in req[t] THEN notParked[l] - 1 ELSE notParked[l]]

\* Mutant: a thread checks in at every level, requested or not.
EnterSafepointLockedUnrequested(t) ==
    /\ at' = [at EXCEPT ![t] = @ \cup AtSafepointBits(level[t])]
    /\ notParked' = [l \in Level |->
                        IF l <= level[t] THEN notParked[l] - 1 ELSE notParked[l]]

\* SafepointHandler::EnterSafepointLocked and NotifyWeAreParked.
EnterSafepointLocked(t) ==
    /\ at' = [at EXCEPT ![t] = @ \cup AtSafepointBits(level[t])]
    /\ notParked' = [l \in Level |->
                        IF l \in req[t] /\ l <= level[t]
                        THEN notParked[l] - 1 ELSE notParked[l]]

\* LevelHandler::SetSafepointInProgress.
SetSafepointInProgress(t, l) ==
    /\ owner' = [owner EXCEPT ![l] = t]
    /\ count' = [count EXCEPT ![l] = 1]

----------------------------------------------------------------------------
\* A helper or a mutator asks to be scheduled into the group; a bypass
\* thread is a GC helper task.
ScheduleThread(t, b) ==
    /\ pc[t] = "out"
    /\ pc' = [pc EXCEPT ![t] = "sched"]
    /\ bypass' = [bypass EXCEPT ![t] = b]
    /\ UNCHANGED <<ret, level, at, req, blocked, active, handlerVars, opLevel,
                   lockVars, waitVars, nOps>>

\* IsolateGroup::ScheduleThreadLocked: wait for safepoint operations, then
\* take a Thread structure and clear its state word.
ScheduleThreadLocked(t) ==
    /\ pc[t] = "sched" /\ t \notin tlWait /\ lock = NoThread
    /\ \/ /\ ~bypass[t] /\ AnySafepointInProgress
          /\ tlWait' = tlWait \cup {t}
          /\ UNCHANGED <<pc, at, req, blocked, active>>
       \/ /\ bypass[t] \/ ~AnySafepointInProgress
          /\ active' = active \cup {t}
          /\ at' = [at EXCEPT ![t] = {}]
          /\ req' = [req EXCEPT ![t] = {}]
          /\ blocked' = [blocked EXCEPT ![t] = FALSE]
          /\ pc' = [pc EXCEPT ![t] = "vm"]
          /\ UNCHANGED tlWait
    /\ UNCHANGED <<ret, level, bypass, handlerVars, opLevel, lockVars, tWait,
                   nOps>>

\* IsolateGroup::UnscheduleThreadLocked: the thread reports itself parked,
\* its word is reset, and it leaves the active list.
UnscheduleThreadLocked(t) ==
    /\ pc[t] = "vm" /\ level[t] = kGCAndDeopt /\ lock = NoThread
    /\ notParked' = [l \in Level |->
                        IF ~bypass[t] /\ l \in req[t]
                        THEN notParked[l] - 1 ELSE notParked[l]]
    /\ at' = [at EXCEPT ![t] = Level]
    /\ req' = [req EXCEPT ![t] = {}]
    /\ blocked' = [blocked EXCEPT ![t] = FALSE]
    /\ bypass' = [bypass EXCEPT ![t] = FALSE]
    /\ active' = active \ {t}
    /\ pc' = [pc EXCEPT ![t] = "out"]
    /\ UNCHANGED <<ret, level, owner, count, opLevel, lockVars, waitVars, nOps>>

----------------------------------------------------------------------------
\* A runtime call: RuntimeCallDeoptScope sets the level the call can
\* participate in, then TransitionGeneratedToVM polls.
TransitionGeneratedToVM(t, l) ==
    /\ pc[t] = "gen"
    /\ level' = [level EXCEPT ![t] = l]
    /\ pc' = [pc EXCEPT ![t] = IF \E k \in req[t] : k <= l
                               THEN "block" ELSE "vm"]
    /\ UNCHANGED <<ret, wordVars, active, handlerVars, opLevel, lockVars,
                   waitVars, nOps>>

\* Entering generated code, or returning to it from a runtime call, whose
\* RuntimeCallDeoptScope then ends.  There is no poll on the way.
TransitionVMToGenerated(t) ==
    /\ pc[t] = "vm" /\ ~bypass[t]
    /\ level' = [level EXCEPT ![t] = kGCAndDeopt]
    /\ pc' = [pc EXCEPT ![t] = "gen"]
    /\ UNCHANGED <<ret, wordVars, active, handlerVars, opLevel, lockVars,
                   waitVars, nOps>>

\* Thread::CheckForSafepoint: the unlocked test before BlockForSafepoint.
CheckForSafepoint(t) ==
    /\ pc[t] = "vm" /\ ~bypass[t] /\ IsSafepointRequested(t)
    /\ pc' = [pc EXCEPT ![t] = "block"]
    /\ UNCHANGED <<ret, level, wordVars, active, handlerVars, opLevel,
                   lockVars, waitVars, nOps>>

\* What a compare-exchange of safepoint_state_ against the given at bits
\* finds: those bits and no other.
WordIs(t, bits) ==
    at[t] = bits /\ req[t] = {} /\ ~blocked[t] /\ ~bypass[t]

\* Transition to native code, or to a wait on a monitor, through
\* Thread::EnterSafepoint: the fast update, or the slow path.  The runtime
\* calls that cannot lazily deopt only allocate: they may wait for a monitor
\* but run no native code.
EnterSafepoint(t, s) ==
    /\ ~bypass[t]
    /\ s = "native" => level[t] = kGCAndDeopt
    /\ \/ pc[t] = "vm" /\ s \in {"native", "blocked"}
       \/ pc[t] = "gen" /\ s = "native"
    /\ \/ /\ WordIs(t, {})
          /\ at' = [at EXCEPT ![t] = AtSafepointBits(level[t])]
          /\ pc' = [pc EXCEPT ![t] = s]
          /\ UNCHANGED ret
       \/ /\ ~WordIs(t, {})
          /\ pc' = [pc EXCEPT ![t] = "enter"]
          /\ ret' = [ret EXCEPT ![t] = s]
          /\ UNCHANGED at
    /\ UNCHANGED <<level, req, blocked, bypass, active, handlerVars, opLevel,
                   lockVars, waitVars, nOps>>

\* SafepointHandler::EnterSafepointUsingLock.
EnterSafepointUsingLock(t) ==
    /\ pc[t] = "enter"
    /\ EnterSafepointLocked(t)
    /\ pc' = [pc EXCEPT ![t] = ret[t]]
    /\ UNCHANGED <<ret, level, req, blocked, bypass, active, owner, count,
                   opLevel, lockVars, waitVars, nOps>>

\* The end of such a transition, through Thread::ExitSafepoint: the fast
\* update, or the slow path.
ExitSafepoint(t, s) ==
    /\ \/ pc[t] = "native" /\ s \in {"vm", "gen"}
       \/ pc[t] = "blocked" /\ s = "vm"
    /\ \/ /\ WordIs(t, AtSafepointBits(level[t]))
          /\ at' = [at EXCEPT ![t] = {}]
          /\ pc' = [pc EXCEPT ![t] = s]
          /\ UNCHANGED ret
       \/ /\ ~WordIs(t, AtSafepointBits(level[t]))
          /\ pc' = [pc EXCEPT ![t] = "exit"]
          /\ ret' = [ret EXCEPT ![t] = s]
          /\ UNCHANGED at
    /\ UNCHANGED <<level, req, blocked, bypass, active, handlerVars, opLevel,
                   lockVars, waitVars, nOps>>

\* One turn of the loop of SafepointHandler::ExitSafepointLocked: sleep while
\* a safepoint is requested, otherwise leave it.
ExitSafepointLocked(t) ==
    /\ pc[t] = "exit" /\ t \notin tWait
    /\ \/ /\ IsSafepointRequested(t)
          /\ blocked' = [blocked EXCEPT ![t] = TRUE]
          /\ tWait' = tWait \cup {t}
          /\ UNCHANGED <<pc, at>>
       \/ /\ ~IsSafepointRequested(t)
          /\ blocked' = [blocked EXCEPT ![t] = FALSE]
          /\ at' = [at EXCEPT ![t] = @ \ AtSafepointBits(level[t])]
          /\ pc' = [pc EXCEPT ![t] = ret[t]]
          /\ UNCHANGED tWait
    /\ UNCHANGED <<ret, level, req, bypass, active, handlerVars, opLevel,
                   lockVars, tlWait, nOps>>

\* SafepointHandler::BlockForSafepoint: the request is tested again under the
\* lock; if it is still there the thread parks and sleeps.
BlockForSafepoint(t) ==
    /\ pc[t] = "block"
    /\ \/ /\ IsSafepointRequested(t)
          /\ EnterSafepointLocked(t)
          /\ blocked' = [blocked EXCEPT ![t] = TRUE]
          /\ tWait' = tWait \cup {t}
          /\ ret' = [ret EXCEPT ![t] = "vm"]
          /\ pc' = [pc EXCEPT ![t] = "exit"]
       \/ /\ ~IsSafepointRequested(t)
          /\ pc' = [pc EXCEPT ![t] = "vm"]
          /\ UNCHANGED <<ret, at, blocked, notParked, tWait>>
    /\ UNCHANGED <<level, req, bypass, active, owner, count, opLevel, lockVars,
                   tlWait, nOps>>

----------------------------------------------------------------------------
\* The wait loop of SafepointThreads on threads_lock: sleep while the level is
\* in progress, otherwise take it and start the loop over the active list.
ClaimOrWait(t, l) ==
    \/ /\ SafepointInProgress(l)
       /\ tlWait' = tlWait \cup {t}
       /\ pc' = [pc EXCEPT ![t] = "st_wait"]
       /\ UNCHANGED <<owner, count, lockVars>>
    \/ /\ ~SafepointInProgress(l)
       /\ SetSafepointInProgress(t, l)
       /\ lock' = t
       /\ todo' = Participants(t)
       /\ pc' = [pc EXCEPT ![t] = "st_notify"]
       /\ UNCHANGED tlWait

\* SafepointOperationScope's constructor: SafepointHandler::SafepointThreads
\* by a thread that owns no level.
SafepointThreads(t, l) ==
    /\ pc[t] = "vm" /\ ~bypass[t] /\ l <= level[t]
    /\ lock = NoThread /\ nOps < MaxOps
    /\ EnterSafepointLocked(t)
    /\ opLevel' = [opLevel EXCEPT ![t] = l]
    /\ nOps' = nOps + 1
    /\ ClaimOrWait(t, l)
    /\ UNCHANGED <<ret, level, req, blocked, bypass, active, tWait>>

SafepointThreadsWake(t) ==
    /\ pc[t] = "st_wait" /\ t \notin tlWait /\ lock = NoThread
    /\ ClaimOrWait(t, opLevel[t])
    /\ UNCHANGED <<ret, level, wordVars, active, notParked, opLevel, tWait,
                   nOps>>

\* LevelHandler::NotifyThreadsToGetToSafepointLevel, one thread of the list.
NotifyThreadToGetToSafepointLevel(t, u) ==
    LET l == opLevel[t] IN
    /\ pc[t] = "st_notify" /\ u \in todo
    /\ req' = [req EXCEPT ![u] = @ \cup {l}]
    /\ notParked' = [notParked EXCEPT
                        ![l] = IF IsAtSafepoint(u, l) THEN @ ELSE @ + 1]
    /\ todo' = todo \ {u}
    /\ UNCHANGED <<pc, ret, level, at, blocked, bypass, active, owner, count,
                   opLevel, lock, waitVars, nOps>>

\* The end of the list: threads_lock is released.
NotifyThreadsDone(t) ==
    /\ pc[t] = "st_notify" /\ todo = {}
    /\ lock' = NoThread
    /\ pc' = [pc EXCEPT ![t] = "st_parked"]
    /\ UNCHANGED <<ret, level, wordVars, active, handlerVars, opLevel, todo,
                   waitVars, nOps>>

\* LevelHandler::WaitUntilThreadsReachedSafepointLevel; the timed wait makes
\* the test recur, so the loop is its exit condition.
WaitUntilThreadsReachedSafepointLevel(t) ==
    /\ pc[t] = "st_parked" /\ notParked[opLevel[t]] = 0
    /\ pc' = [pc EXCEPT ![t] = "st_lower"]
    /\ UNCHANGED <<ret, level, wordVars, active, handlerVars, opLevel,
                   lockVars, waitVars, nOps>>

\* Mutant: the operation starts without taking the lower levels.
AcquireLowerLevelSafepointsSkipped(t) ==
    /\ pc[t] = "st_lower"
    /\ pc' = [pc EXCEPT ![t] = "op"]
    /\ UNCHANGED <<ret, level, wordVars, active, handlerVars, opLevel, lockVars,
                   waitVars, nOps>>

\* SafepointHandler::AcquireLowerLevelSafepoints; the operation starts.
AcquireLowerLevelSafepoints(t) ==
    /\ pc[t] = "st_lower" /\ t \notin tlWait /\ lock = NoThread
    /\ \/ /\ opLevel[t] = kGC
          /\ pc' = [pc EXCEPT ![t] = "op"]
          /\ UNCHANGED <<owner, count, tlWait>>
       \/ /\ opLevel[t] = kGCAndDeopt /\ SafepointInProgress(kGC)
          /\ tlWait' = tlWait \cup {t}
          /\ UNCHANGED <<pc, owner, count>>
       \/ /\ opLevel[t] = kGCAndDeopt /\ ~SafepointInProgress(kGC)
          /\ SetSafepointInProgress(t, kGC)
          /\ pc' = [pc EXCEPT ![t] = "op"]
          /\ UNCHANGED tlWait
    /\ UNCHANGED <<ret, level, wordVars, active, notParked, opLevel, lockVars,
                   tWait, nOps>>

\* A nested SafepointOperationScope of a thread that owns the level.
SafepointThreadsNested(t, l) ==
    /\ pc[t] = "op" /\ owner[l] = t /\ lock = NoThread /\ nOps < MaxOps
    /\ count' = [count EXCEPT ![l] = @ + 1]
    /\ nOps' = nOps + 1
    /\ UNCHANGED <<pc, ret, level, wordVars, active, owner, notParked, opLevel,
                   lockVars, waitVars>>

ResumeThreadsNested(t, l) ==
    /\ pc[t] = "op" /\ owner[l] = t /\ lock = NoThread /\ count[l] > 1
    /\ count' = [count EXCEPT ![l] = @ - 1]
    /\ UNCHANGED <<pc, ret, level, wordVars, active, owner, notParked, opLevel,
                   lockVars, waitVars, nOps>>

\* SafepointHandler::ResumeThreads for the outermost scope: the lower level is
\* released, then the loop of NotifyThreadsToContinue starts.
ResumeThreads(t) ==
    /\ pc[t] = "op" /\ lock = NoThread
    /\ \A l \in Level : owner[l] = t => count[l] = 1
    /\ owner' = [l \in Level |-> IF l < opLevel[t] THEN NoThread ELSE owner[l]]
    /\ count' = [l \in Level |-> IF l < opLevel[t] THEN 0 ELSE count[l]]
    /\ lock' = t
    /\ todo' = Participants(t)
    /\ pc' = [pc EXCEPT ![t] = "rt_notify"]
    /\ UNCHANGED <<ret, level, wordVars, active, notParked, opLevel, waitVars,
                   nOps>>

\* Mutant: the request is cleared but a sleeping thread is not woken.
NotifyThreadToContinueNoNotify(t, u) ==
    /\ pc[t] = "rt_notify" /\ u \in todo
    /\ req' = [req EXCEPT ![u] = {l \in @ : l > opLevel[t]}]
    /\ todo' = todo \ {u}
    /\ UNCHANGED <<pc, ret, level, at, blocked, bypass, active, handlerVars,
                   opLevel, lock, waitVars, nOps>>

\* LevelHandler::NotifyThreadsToContinue, one thread of the list.
NotifyThreadToContinue(t, u) ==
    /\ pc[t] = "rt_notify" /\ u \in todo
    /\ req' = [req EXCEPT ![u] = {l \in @ : l > opLevel[t]}]
    /\ tWait' = IF blocked[u] THEN tWait \ {u} ELSE tWait
    /\ todo' = todo \ {u}
    /\ UNCHANGED <<pc, ret, level, at, blocked, bypass, active, handlerVars,
                   opLevel, lock, tlWait, nOps>>

\* Mutant: the threads that wait for threads_lock are not notified.
ResumeThreadsDoneNoNotify(t) ==
    /\ pc[t] = "rt_notify" /\ todo = {}
    /\ owner' = [owner EXCEPT ![opLevel[t]] = NoThread]
    /\ count' = [count EXCEPT ![opLevel[t]] = 0]
    /\ lock' = NoThread
    /\ ret' = [ret EXCEPT ![t] = "vm"]
    /\ pc' = [pc EXCEPT ![t] = "exit"]
    /\ UNCHANGED <<level, wordVars, active, notParked, opLevel, todo, waitVars,
                   nOps>>

\* The end of the list: ResetSafepointInProgress, NotifyAll, unlock; the
\* thread goes on to ExitSafepointUsingLock.
ResumeThreadsDone(t) ==
    /\ pc[t] = "rt_notify" /\ todo = {}
    /\ owner' = [owner EXCEPT ![opLevel[t]] = NoThread]
    /\ count' = [count EXCEPT ![opLevel[t]] = 0]
    /\ lock' = NoThread
    /\ tlWait' = {}
    /\ ret' = [ret EXCEPT ![t] = "vm"]
    /\ pc' = [pc EXCEPT ![t] = "exit"]
    /\ UNCHANGED <<level, wordVars, active, notParked, opLevel, todo, tWait,
                   nOps>>

\* A condition variable may wake its waiter without a notification.
SpuriousWakeup(t) ==
    /\ \/ t \in tlWait /\ tlWait' = tlWait \ {t} /\ UNCHANGED tWait
       \/ t \in tWait /\ tWait' = tWait \ {t} /\ UNCHANGED tlWait
    /\ UNCHANGED <<pc, ret, level, wordVars, active, handlerVars, opLevel,
                   lockVars, nOps>>

----------------------------------------------------------------------------
Init ==
    /\ pc = [t \in Thread |-> "out"]
    /\ ret = [t \in Thread |-> "vm"]
    /\ level = [t \in Thread |-> kGCAndDeopt]
    /\ at = [t \in Thread |-> Level]
    /\ req = [t \in Thread |-> {}]
    /\ blocked = [t \in Thread |-> FALSE]
    /\ bypass = [t \in Thread |-> FALSE]
    /\ active = {}
    /\ owner = [l \in Level |-> NoThread]
    /\ count = [l \in Level |-> 0]
    /\ notParked = [l \in Level |-> 0]
    /\ opLevel = [t \in Thread |-> kGC]
    /\ lock = NoThread
    /\ todo = {}
    /\ tlWait = {}
    /\ tWait = {}
    /\ nOps = 0

\* Steps a thread takes on its own once it is inside the protocol.
Progress(t) ==
    \/ ScheduleThreadLocked(t)
    \/ CheckForSafepoint(t)
    \/ EnterSafepointUsingLock(t)
    \/ ExitSafepointLocked(t)
    \/ BlockForSafepoint(t)
    \/ SafepointThreadsWake(t)
    \/ \E u \in Thread : NotifyThreadToGetToSafepointLevel(t, u)
    \/ NotifyThreadsDone(t)
    \/ WaitUntilThreadsReachedSafepointLevel(t)
    \/ AcquireLowerLevelSafepoints(t)
    \/ ResumeThreads(t)
    \/ \E u \in Thread : NotifyThreadToContinue(t, u)
    \/ ResumeThreadsDone(t)

\* Steps that start something, or that the environment decides.
Choice(t) ==
    \/ \E b \in BOOLEAN : ScheduleThread(t, b)
    \/ UnscheduleThreadLocked(t)
    \/ \E l \in Level : TransitionGeneratedToVM(t, l)
    \/ TransitionVMToGenerated(t)
    \/ \E s \in ExecState : EnterSafepoint(t, s)
    \/ \E s \in ExecState : ExitSafepoint(t, s)
    \/ \E l \in Level : SafepointThreads(t, l)
    \/ \E l \in Level : SafepointThreadsNested(t, l)
    \/ \E l \in Level : ResumeThreadsNested(t, l)
    \/ SpuriousWakeup(t)

Next == \E t \in Thread : Progress(t) \/ Choice(t)

Spec == Init /\ [][Next]_vars

\* Generated code tests its interrupt limit at every function entry and loop
\* header, so it reaches a poll that supports deopt infinitely often
\* (Thread::HandleInterrupts).
Poll(t) == IsSafepointRequested(t) /\ TransitionGeneratedToVM(t, kGCAndDeopt)

\* A runtime call that cannot lazily deopt only allocates, and returns.
EndNoDeoptCall(t) == level[t] = kGC /\ TransitionVMToGenerated(t)

Fairness == \A t \in Thread :
    /\ WF_vars(Progress(t))
    /\ \A l \in Level : WF_vars(ResumeThreadsNested(t, l))
    /\ SF_vars(Poll(t))
    /\ SF_vars(EndNoDeoptCall(t))
    /\ WF_vars(pc[t] = "blocked" /\ ExitSafepoint(t, "vm"))

FairSpec == Spec /\ Fairness

----------------------------------------------------------------------------
(* Every variable has its type; num_threads_not_parked_ is never negative, *)
(* which NotifyWeAreParked asserts before it decrements it.                *)
TypeOK ==
    /\ pc \in [Thread -> Loc]
    /\ ret \in [Thread -> ExecState]
    /\ level \in [Thread -> Level]
    /\ at \in [Thread -> SUBSET Level]
    /\ req \in [Thread -> SUBSET Level]
    /\ blocked \in [Thread -> BOOLEAN]
    /\ bypass \in [Thread -> BOOLEAN]
    /\ active \in SUBSET Thread
    /\ owner \in [Level -> Thread \cup {NoThread}]
    /\ count \in [Level -> Nat]
    /\ notParked \in [Level -> Nat]
    /\ opLevel \in [Thread -> Level]
    /\ lock \in Thread \cup {NoThread}
    /\ todo \in SUBSET Thread
    /\ tlWait \in SUBSET Thread
    /\ tWait \in SUBSET Thread
    /\ nOps \in Nat

\* While an operation runs, every other thread of the group that does not
\* bypass safepoints is parked at the operation's level and is not executing
\* Dart or VM code (what GcSafepointOperationScope and
\* DeoptSafepointOperationScope promise).
OperationExcludesMutators ==
    \A t \in Thread : pc[t] = "op" =>
        \A u \in Participants(t) :
            IsAtSafepoint(u, opLevel[t]) /\ pc[u] \notin Running

\* Two operations never run at once, even at different levels: a deopt
\* operation takes the GC level too (AcquireLowerLevelSafepoints), although a
\* GC may run while a deopt operation is still waiting for threads to park.
OneOperationAtATime ==
    \A t, u \in Thread : pc[t] = "op" /\ pc[u] = "op" => t = u

\* num_threads_not_parked_ is exactly the number of threads that have been
\* asked to park at the level and have not: the check-in of a thread is
\* neither lost nor counted twice, across fast paths, slow paths, threads that
\* leave the group and requests that arrive in between.
NotParked(l) == {u \in active : l \in req[u] /\ ~IsAtSafepoint(u, l)}
NotParkedIsExact == \A l \in Level : notParked[l] = Cardinality(NotParked(l))

\* A request bit is set only while its level is in progress, and never on the
\* thread that made it: a resumed thread is not left asking for a safepoint
\* nobody wants (the assertion at the end of ExitSafepointUsingLock).
RequestsHaveAnOwner ==
    \A t \in Thread : \A l \in req[t] :
        owner[l] \notin {NoThread, t} /\ opLevel[owner[l]] = l

\* What a safepoint operation promises to who runs one: nobody else executes
\* Dart or VM code, and no other operation runs.
OperationsAreExclusive == OperationExcludesMutators /\ OneOperationAtATime

\* How it keeps the promise: of the threads asked to park, by nobody but the
\* operation in progress, those that have not checked in are counted, and no
\* counter drops below zero (TypeOK).
CheckInsAreExact == TypeOK /\ NotParkedIsExact /\ RequestsHaveAnOwner

\* A thread that called SafepointThreads gets to run its operation, whatever
\* other operations, at either level, are waiting or running.
OperationsRun ==
    \A t \in Thread :
        pc[t] \in {"st_wait", "st_notify", "st_parked", "st_lower"}
            ~> pc[t] = "op"

\* A thread parked for an operation is woken and leaves the safepoint; a
\* thread that waits to be scheduled is scheduled (no lost notification).
ParkedThreadsResume ==
    \A t \in Thread : /\ pc[t] = "exit" ~> pc[t] \in Running
                      /\ pc[t] = "sched" ~> pc[t] = "vm"

----------------------------------------------------------------------------
\* The strengthening that makes the safety invariants inductive.

\* Where a thread is determines its at bits, its level and its activity.
LocAt(t) ==
    /\ at[t] = IF pc[t] \in Running THEN {} ELSE AtSafepointBits(level[t])
    /\ t \in active <=> pc[t] \notin {"out", "sched"}
    /\ pc[t] \in {"out", "sched", "gen", "native"} => level[t] = kGCAndDeopt
    /\ pc[t] \in {"out", "sched"} => req[t] = {}
    /\ bypass[t] => pc[t] \in {"sched", "vm"} /\ req[t] = {}
    /\ pc[t] = "enter" => /\ ret[t] \in {"native", "blocked"}
                          /\ ret[t] = "native" => level[t] = kGCAndDeopt
    /\ pc[t] = "exit" => /\ ret[t] \in {"vm", "gen"}
                         /\ ret[t] = "gen" => level[t] = kGCAndDeopt

LocInv == \A t \in Thread : LocAt(t)

\* Who owns a level, and who holds threads_lock, is determined by locations.
Owns(t, l) ==
    \/ /\ opLevel[t] = l
       /\ pc[t] \in {"st_notify", "st_parked", "st_lower", "op", "rt_notify"}
    \/ l = kGC /\ opLevel[t] = kGCAndDeopt /\ pc[t] = "op"

OwnerInv ==
    /\ \A t \in Thread, l \in Level : owner[l] = t <=> Owns(t, l)
    /\ \A l \in Level : owner[l] = NoThread <=> count[l] = 0
    /\ \A t \in Thread : lock = t <=> pc[t] \in {"st_notify", "rt_notify"}
    /\ \A t \in Thread :
         /\ pc[t] \in {"st_notify", "rt_notify"} => todo \subseteq Participants(t)
         /\ pc[t] = "rt_notify" /\ opLevel[t] = kGCAndDeopt
              => owner[kGC] = NoThread

\* Which threads have been asked to park.
RequestInv ==
    \A t, u \in Thread :
        /\ pc[t] \in {"st_parked", "st_lower", "op"} /\ u \in Participants(t)
             => opLevel[t] \in req[u]
        /\ pc[t] = "st_notify" /\ u \in Participants(t)
             => (opLevel[t] \in req[u] <=> u \notin todo)
        /\ pc[t] = "rt_notify" /\ opLevel[t] \in req[u] => u \in todo

\* Once its wait is over, an operation has no thread left to wait for.
ParkedInv ==
    \A t \in Thread :
        pc[t] \in {"st_lower", "op", "rt_notify"} => NotParked(opLevel[t]) = {}

\* The inductive invariant: what SafepointHandler relies on between steps.
IInv ==
    /\ TypeOK
    /\ LocInv
    /\ OwnerInv
    /\ RequestsHaveAnOwner
    /\ RequestInv
    /\ NotParkedIsExact
    /\ ParkedInv
====
