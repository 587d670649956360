---------------------------- MODULE WorkSharing ----------------------------
(***************************************************************************)
(* How the workers of a parallel collection share work and stop together:  *)
(* the blocks of runtime/vm/heap/pointer_block.{h,cc} and the barrier of   *)
(* runtime/vm/thread_barrier.h.  ParallelMark and ParallelScavenge extend  *)
(* this module with what the workers do.                                   *)
(*                                                                         *)
(* A block is the set of the objects in it: which object of a block, and   *)
(* which block of a stack, comes first is left open.  full_ and partial_   *)
(* are one set of non-empty blocks, `stack'; the cache of empty blocks has *)
(* no effect.  A section of code under one monitor is one step.            *)
(***************************************************************************)
EXTENDS Integers, FiniteSets

CONSTANTS NumTasks,   \* FLAG_marker_tasks or FLAG_scavenger_tasks
          BlockSize   \* kMarkingStackBlockSize, kPromotionStackBlockSize

ASSUME TasksAssumption == NumTasks \in Nat \ {0}
ASSUME BlockAssumption == BlockSize \in Nat \ {0}

Worker == 1..NumTasks
Main == NumTasks            \* the last worker is the main thread
Helper == Worker \ {Main}   \* the others are tasks of the thread pool

VARIABLES
  pc,             \* where each worker is
  barrier,        \* the fields of the ThreadBarrier
  arrived,        \* the generation_ in which a worker waits in Sync, or -1
  num_busy,
  stack,          \* the BlockStack: its non-empty blocks
  asleep,         \* the workers in ml.Wait() of BlockStack::WaitForWork
  local_input_,
  local_output_

blockVars == <<stack, local_input_, local_output_>>
shareVars == <<barrier, arrived, num_busy, asleep, blockVars>>

ShareInit ==
  /\ barrier = [ref_count |-> NumTasks, participating |-> 1,
                remaining |-> 1, generation |-> 0]
  /\ arrived = [w \in Worker |-> -1]
  /\ num_busy = 0
  /\ asleep = {}

Goto(w, l) == pc' = [pc EXCEPT ![w] = l]

-----------------------------------------------------------------------------
(* ThreadBarrier.                                                          *)

MayEnter == barrier.generation = 0

TryEnter(w, in, out) ==
  \/ /\ MayEnter
     /\ barrier' = [barrier EXCEPT !.remaining = @ + 1, !.participating = @ + 1]
     /\ Goto(w, in)
  \/ /\ ~MayEnter
     /\ Goto(w, out)
     /\ UNCHANGED barrier

(* NotifyAll comes with the new generation_, so that the wait ends when    *)
(* generation_ is not the one in which it began.                           *)
Sync(w, next) ==
  \/ /\ arrived[w] = -1
     /\ barrier.remaining = 1
     /\ barrier' = [barrier EXCEPT !.generation = @ + 1,
                                   !.remaining = barrier.participating]
     /\ Goto(w, next)
     /\ UNCHANGED arrived
  \/ /\ arrived[w] = -1
     /\ barrier.remaining # 1
     /\ barrier' = [barrier EXCEPT !.remaining = @ - 1]
     /\ arrived' = [arrived EXCEPT ![w] = barrier.generation]
     /\ UNCHANGED pc
  \/ /\ arrived[w] \notin {-1, barrier.generation}
     /\ arrived' = [arrived EXCEPT ![w] = -1]
     /\ Goto(w, next)
     /\ UNCHANGED barrier

(* The last reference deletes the barrier.                                 *)
Release(w, next) ==
  /\ barrier' = [barrier EXCEPT !.ref_count = @ - 1]
  /\ Goto(w, next)

-----------------------------------------------------------------------------
(* BlockStack and BlockWorkList.                                           *)

(* if (was_empty) ml.Notify(): one sleeper wakes up, if there is one.      *)
NotifyIf(was_empty) ==
  IF was_empty /\ asleep # {}
  THEN \E s \in asleep : asleep' = asleep \ {s}
  ELSE UNCHANGED asleep

(* Mutant: Pop does not look at the shared stack.                          *)
LocalWork(w) == local_input_[w] # {} \/ local_output_[w] # {}

(* BlockWorkList::IsEmpty, and Pop does not return nullptr.                *)
HasWork(w) == local_input_[w] # {} \/ local_output_[w] # {} \/ stack # {}

(* BlockWorkList::Pop, when there is work.                                 *)
Pop(w, o) ==
  \/ /\ o \in local_input_[w]
     /\ local_input_' = [local_input_ EXCEPT ![w] = @ \ {o}]
     /\ UNCHANGED <<local_output_, stack>>
  \/ /\ local_input_[w] = {}
     /\ o \in local_output_[w]
     /\ local_input_' = [local_input_ EXCEPT ![w] = local_output_[w] \ {o}]
     /\ local_output_' = [local_output_ EXCEPT ![w] = {}]
     /\ UNCHANGED stack
  \/ /\ local_input_[w] = {} /\ local_output_[w] = {}
     /\ \E b \in stack :
          /\ o \in b
          /\ local_input_' = [local_input_ EXCEPT ![w] = b \ {o}]
          /\ stack' = stack \ {b}
     /\ UNCHANGED local_output_

IsFull(b) == Cardinality(b) = BlockSize

Push(w, o) ==
  /\ IF IsFull(local_output_[w])
     THEN /\ stack' = stack \cup {local_output_[w]}
          /\ local_output_' = [local_output_ EXCEPT ![w] = {o}]
          /\ NotifyIf(stack = {})
     ELSE /\ local_output_' = [local_output_ EXCEPT ![w] = @ \cup {o}]
          /\ UNCHANGED <<stack, asleep>>
  /\ UNCHANGED local_input_

(* Mutant: an empty block is pushed like any other.                        *)
AnyBlock(b) == {b}

(* PushBlockImpl keeps an empty block out of full_ and partial_.           *)
NonEmpty(b) == {b} \ {{}}

(* The loop of WaitForWork: take a block, or wait on the monitor.          *)
TakeBlockOrWait(w, busy, found) ==
  \/ \E b \in stack :
       /\ num_busy' = busy + 1
       /\ stack' = (stack \ {b}) \cup NonEmpty(local_input_[w])
       /\ local_input_' = [local_input_ EXCEPT ![w] = b]
       /\ NotifyIf(local_input_[w] # {} /\ stack = {b})
       /\ Goto(w, found)
  \/ /\ stack = {}
     /\ num_busy' = busy
     /\ asleep' = asleep \cup {w}
     /\ Goto(w, "waiting")
     /\ UNCHANGED <<stack, local_input_>>

(* Mutant: the last worker does not wake the others.                       *)
SleepersStay == asleep

SleepersWoken == {}

WaitForWork(w, found, none) ==
  /\ \/ /\ num_busy = 1
        /\ num_busy' = 0
        /\ asleep' = SleepersWoken
        /\ Goto(w, none)
        /\ UNCHANGED <<stack, local_input_>>
     \/ /\ num_busy # 1
        /\ TakeBlockOrWait(w, num_busy - 1, found)
  /\ UNCHANGED local_output_

(* Back from ml.Wait().                                                    *)
WaitForWorkWake(w, found, none) ==
  /\ w \notin asleep
  /\ \/ /\ num_busy = 0
        /\ Goto(w, none)
        /\ UNCHANGED <<num_busy, asleep, stack, local_input_>>
     \/ /\ num_busy # 0
        /\ TakeBlockOrWait(w, num_busy, found)
  /\ UNCHANGED local_output_

SpuriousWakeup ==
  /\ \E s \in asleep : asleep' = asleep \ {s}
  /\ UNCHANGED <<pc, barrier, arrived, num_busy, blockVars>>
=============================================================================
