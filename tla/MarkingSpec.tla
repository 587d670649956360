---------------------------- MODULE MarkingSpec ----------------------------
(***************************************************************************)
(* What marking promises: when it is done the marked objects are exactly   *)
(* the live ones, and before that no other object was ever marked.  A weak *)
(* property holds its value only while its key is live, a weak reference   *)
(* and a finalizer entry do not hold what they refer to.                   *)
(*                                                                         *)
(* A heap is a record:                                                     *)
(*   kind      of an object: "plain", "property" (WeakProperty),           *)
(*             "reference" (WeakReference), "entry" (FinalizerEntry) or    *)
(*             "code" (Instructions)                                       *)
(*   ptr       what an object holds; for a property its value              *)
(*   key       of a property its key, of a reference its target, of an     *)
(*             entry its value                                             *)
(*   roots     the root slices: what each holds                            *)
(*   marked    the objects marked by concurrent marking, before            *)
(*   gray      those of them on the marking stack                          *)
(*   deferred  the objects on the deferred marking stack                   *)
(*   delayed   the weak objects delayed by each visitor, last the ones on  *)
(*             global_list_                                                *)
(***************************************************************************)
EXTENDS Integers, Sequences

CONSTANT Obj

VARIABLES live, marked, done

Weak(heap, o) == heap.kind[o] \in {"property", "reference", "entry"}

(* Every pointer in an object, the weak one too.                           *)
AllPtrs(heap, o) == heap.ptr[o] \cup IF Weak(heap, o) THEN {heap.key[o]} ELSE {}

(* S holds what its objects hold.  A deferred object holds all it points   *)
(* to, the stand-in for a write barrier that was eliminated.               *)
Closed(heap, S) ==
  \A o \in S :
    /\ (heap.kind[o] = "property" => heap.key[o] \in S) => heap.ptr[o] \subseteq S
    /\ o \in heap.deferred => AllPtrs(heap, o) \subseteq S

Roots(heap) == UNION {heap.roots[s] : s \in DOMAIN heap.roots}

Delayed(heap) == UNION {heap.delayed[w] : w \in DOMAIN heap.delayed}

(* The types of a heap.  Instructions hold no pointer (they have a null    *)
(* visitor in raw_object.cc) and are nobody's key, target or value.        *)
HeapTypes(heap) ==
  /\ heap.kind \in [Obj -> {"plain", "property", "reference", "entry", "code"}]
  /\ heap.ptr \in [Obj -> SUBSET Obj]
  /\ \A o \in Obj : heap.kind[o] = "code" => heap.ptr[o] = {}
  /\ \A o \in Obj : Weak(heap, o) =>
       heap.key[o] \in Obj /\ heap.kind[heap.key[o]] # "code"
  /\ heap.roots \in Seq(SUBSET Obj)
  /\ heap.marked \subseteq Obj /\ heap.deferred \subseteq Obj
  /\ heap.gray \subseteq heap.marked

(* How concurrent marking leaves the heap.  It has processed a marked      *)
(* object that is on no marking stack: what that object holds is marked,   *)
(* or it is deferred because of an eliminated write barrier, or it is a    *)
(* weak object that was delayed.  An object in new space, marked from the  *)
(* start, holds what the root slices of its page hold.  A weak object is   *)
(* delayed once, when it is processed.                                     *)
WellFormed(heap) ==
  LET found == heap.marked \cup heap.deferred \cup Roots(heap) IN
  /\ HeapTypes(heap)
  /\ \A o \in heap.marked \ (heap.gray \cup heap.deferred) :
       /\ \/ heap.ptr[o] \subseteq found
          \/ heap.kind[o] = "property" /\ o \in Delayed(heap)
       /\ Weak(heap, o) => heap.key[o] \in found \/ o \in Delayed(heap)
  /\ \A v, w \in DOMAIN heap.delayed :
       /\ heap.delayed[w] \subseteq {o \in heap.marked \ heap.gray : Weak(heap, o)}
       /\ v # w => heap.delayed[v] \cap heap.delayed[w] = {}

(* The least closed set that holds the roots and what is known live.       *)
Live(heap) ==
  {o \in Obj : \A S \in SUBSET Obj :
      (heap.marked \cup heap.deferred \cup Roots(heap) \subseteq S /\ Closed(heap, S))
        => o \in S}

vars == <<live, marked, done>>

Init ==
  /\ live \subseteq Obj
  /\ marked \subseteq live
  /\ done = FALSE

Mark ==
  /\ ~done
  /\ \E o \in live \ marked : marked' = marked \cup {o}
  /\ UNCHANGED <<live, done>>

Finish ==
  /\ ~done
  /\ marked = live
  /\ done' = TRUE
  /\ UNCHANGED <<live, marked>>

Safety == Init /\ [][Mark \/ Finish]_vars

Spec == Safety /\ WF_vars(Mark \/ Finish)
=============================================================================
