---------------------------- MODULE MutatorSlots ----------------------------
(***************************************************************************)
(* IncreaseMutatorCount and DecreaseMutatorCount of runtime/vm/isolate.cc: *)
(* at most max_active_mutators_ threads are in an isolate group as         *)
(* mutators, the others wait on active_mutators_monitor_.                  *)
(***************************************************************************)
EXTENDS Integers, FiniteSets

CONSTANTS Mutator,
          MaxActiveMutators     \* max_active_mutators_

ASSUME SlotsAssumption == MaxActiveMutators \in Nat \ {0}

VARIABLES
  active_mutators_, waiting_mutators_,
  queued          \* "no", or a waiting mutator: "asleep" or "woken"

slotVars == <<active_mutators_, waiting_mutators_, queued>>

SlotsInit(active) ==
  /\ active_mutators_ = active
  /\ waiting_mutators_ = 0
  /\ queued = [m \in Mutator |-> "no"]

Full == active_mutators_ = MaxActiveMutators

(* One turn of the loop: m goes to Wait (again), or has a slot.            *)
(* waiting_mutators_ is decremented after Wait and incremented before the  *)
(* next.                                                                   *)
Queue(m) ==
  /\ queued[m] # "asleep" /\ Full
  /\ queued' = [queued EXCEPT ![m] = "asleep"]
  /\ waiting_mutators_' = IF queued[m] = "no" THEN waiting_mutators_ + 1 ELSE waiting_mutators_
  /\ UNCHANGED active_mutators_

TakeSlot(m) ==
  /\ queued[m] # "asleep" /\ ~Full
  /\ active_mutators_' = active_mutators_ + 1
  /\ waiting_mutators_' = IF queued[m] = "no" THEN waiting_mutators_ ELSE waiting_mutators_ - 1
  /\ queued' = [queued EXCEPT ![m] = "no"]

(* Mutant: a thread that waits alone is not notified.                      *)
NotifySeveral == waiting_mutators_ > 1

MustNotify == waiting_mutators_ > 0

(* DecreaseMutatorCount: Notify wakes one of the threads asleep, if any.   *)
ReleaseSlot ==
  /\ active_mutators_' = active_mutators_ - 1
  /\ IF MustNotify /\ \E m \in Mutator : queued[m] = "asleep"
     THEN \E m \in Mutator : queued[m] = "asleep" /\ queued' = [queued EXCEPT ![m] = "woken"]
     ELSE UNCHANGED queued
  /\ UNCHANGED waiting_mutators_

SpuriousWakeup(m) ==
  /\ queued[m] = "asleep"
  /\ queued' = [queued EXCEPT ![m] = "woken"]
  /\ UNCHANGED <<active_mutators_, waiting_mutators_>>
=============================================================================
