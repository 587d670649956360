-------------------------- MODULE SafepointRwLock --------------------------
(***************************************************************************)
(* SafepointRwLock of runtime/vm/lockers.{h,cc}, once for every lock of    *)
(* Lock: a reader-writer lock its writer may enter again, for threads that *)
(* must not block outside a safepoint.  A thread that cannot have the lock *)
(* at once enters a safepoint (TransitionVMToBlocked), waits on monitor_,  *)
(* and with the lock in its hands leaves the safepoint, which may have to  *)
(* wait for an operation to end.  A thread without a Thread just waits.    *)
(***************************************************************************)
EXTENDS Integers, FiniteSets

CONSTANTS Thread, Lock

Nobody == "nobody"
Nothing == [lock |-> "none", kind |-> "nothing"]
Acquired == [lock |-> "none", kind |-> "acquired"]

VARIABLES
  state_,         \* per lock: > 0 readers, < 0 entries of the writer
  writer_id_,
  readers_ids_,   \* per lock: how often each thread is in readers_ids_
  want,           \* the lock and mode a thread in TransitionVMToBlocked waits
                  \* for, or Acquired: it has it and leaves the safepoint
  sleeping        \* the threads in Wait on the monitor_ of that lock

lockVars == <<state_, writer_id_, readers_ids_, want, sleeping>>

Request == [lock : Lock, kind : {"read", "write"}]

LockInit ==
  /\ state_ = [l \in Lock |-> 0]
  /\ writer_id_ = [l \in Lock |-> Nobody]
  /\ readers_ids_ = [l \in Lock |-> [t \in Thread |-> 0]]
  /\ want = [t \in Thread |-> Nothing]
  /\ sleeping = {}

Blocked(t) == want[t] # Nothing

IsCurrentThreadWriter(t, l) == writer_id_[l] = t

(* Mutant: readers give way to a writer that waits.                        *)
FreeUnlessWriterWaits(r) ==
  IF r.kind = "read"
  THEN state_[r.lock] >= 0 /\ [r EXCEPT !.kind = "write"] \notin {want[u] : u \in Thread}
  ELSE state_[r.lock] = 0

(* The lock is free for a reader, or for a writer, that is not in it yet.  *)
FreeFor(r) ==
  IF r.kind = "read" THEN state_[r.lock] >= 0 ELSE state_[r.lock] = 0

CanAcquire(t, r) == IsCurrentThreadWriter(t, r.lock) \/ FreeFor(r)

(* What TryEnterRead and TryEnterWrite do once they need not wait; a read  *)
(* of the writer takes nothing.                                            *)
Acquire(t, r) ==
  LET l == r.lock
  IN  /\ state_' = [state_ EXCEPT ![l] =
           IF r.kind = "write" THEN @ - 1
           ELSE IF IsCurrentThreadWriter(t, l) THEN @ ELSE @ + 1]
      /\ writer_id_' = IF r.kind = "write" THEN [writer_id_ EXCEPT ![l] = t] ELSE writer_id_
      /\ readers_ids_' = IF r.kind = "read" /\ ~IsCurrentThreadWriter(t, l)
                         THEN [readers_ids_ EXCEPT ![l][t] = @ + 1]
                         ELSE readers_ids_

(* The first attempt, with can_block false.                                *)
TryEnter(t, r) ==
  /\ ~Blocked(t) /\ CanAcquire(t, r)
  /\ Acquire(t, r)
  /\ UNCHANGED <<want, sleeping>>

(* It has failed: the thread goes to block.                                *)
Block(t, r) ==
  /\ ~Blocked(t) /\ ~CanAcquire(t, r)
  /\ want' = [want EXCEPT ![t] = r]
  /\ UNCHANGED <<state_, writer_id_, readers_ids_, sleeping>>

(* The second attempt, with can_block true: the lock, or (again) Wait.     *)
EnterBlocked(t) ==
  /\ want[t] \notin {Nothing, Acquired} /\ t \notin sleeping
  /\ IF FreeFor(want[t])
     THEN /\ Acquire(t, want[t])
          /\ want' = [want EXCEPT ![t] = Acquired]
          /\ UNCHANGED sleeping
     ELSE /\ sleeping' = sleeping \cup {t}
          /\ UNCHANGED <<state_, writer_id_, readers_ids_, want>>

(* The end of the transition.                                              *)
Unblock(t) ==
  /\ want[t] = Acquired
  /\ want' = [want EXCEPT ![t] = Nothing]
  /\ UNCHANGED <<state_, writer_id_, readers_ids_, sleeping>>

SleepersOf(l) == {t \in sleeping : want[t].lock = l}

(* Mutant: a thread that leaves as the last reader wakes nobody.           *)
WriterNotifies(l, s) == IF s = 0 /\ state_[l] < 0 THEN sleeping \ SleepersOf(l) ELSE sleeping

(* Who still sleeps after a leave that makes state_ s: NotifyAll once the  *)
(* lock is free.                                                           *)
StillSleeping(l, s) == IF s = 0 THEN sleeping \ SleepersOf(l) ELSE sleeping

LeaveRead(t, l) ==
  /\ state_' = [state_ EXCEPT ![l] = @ - 1]
  /\ readers_ids_' = [readers_ids_ EXCEPT ![l][t] = @ - 1]
  /\ sleeping' = StillSleeping(l, state_[l] - 1)
  /\ UNCHANGED <<writer_id_, want>>

(* Mutant: the writer's inner scope gives the lock away.                   *)
NeverNested(l, s) == Nobody

(* The writer after a leave that makes state_ s.                           *)
WriterAfter(l, s) == IF s < 0 THEN writer_id_[l] ELSE Nobody

LeaveWrite(t, l) ==
  /\ state_' = [state_ EXCEPT ![l] = @ + 1]
  /\ writer_id_' = [writer_id_ EXCEPT ![l] = WriterAfter(l, state_[l] + 1)]
  /\ sleeping' = StillSleeping(l, state_[l] + 1)
  /\ UNCHANGED <<readers_ids_, want>>
=============================================================================
