------------------------ MODULE ParallelMarkProofs ------------------------
(***************************************************************************)
(* Proofs that parallel marking marks what is live and nothing else, for   *)
(* every heap, every number of workers and every size of a block.  The     *)
(* invariant has two parts.  TraceInv speaks of the objects alone: what is *)
(* found is live, and what a marked object holds is found, unless the      *)
(* object is still to be processed.  PlaceInv says where in the code a     *)
(* worker can have work left, so that when the workers have agreed to stop *)
(* nothing is left to process and what was found is closed.                *)
(***************************************************************************)
EXTENDS ParallelMarkSteps, FiniteSetTheorems

-----------------------------------------------------------------------------
(* The invariant about the places in the code.                             *)

(* What the main thread has seen to.                                       *)
MainHasDone ==
  /\ Now(Main) # "launch" => global_list_ = {}
  /\ Now(Main) \notin {"launch", "start", "roots"} =>
       \A s \in DOMAIN heap.roots : s <= root_slices_started_
  /\ Now(Main) \notin {"launch", "start", "roots", "deferred"} => deferred = {}

(* Between ProcessPendingWeakProperties and the decision to stop.          *)
Judging == {"pending", "announce", "announced", "decide", "decided"}

(* Somebody will mark on, or the keys that were not marked still are not.  *)
Judged ==
  \/ \E v \in Worker : Now(v) \in Judging /\ more_to_mark[v]
  \/ \A w \in Worker : Now(w) \in Judging =>
       \A o \in delayed_[w] : Is(o, "property") => Dead(o)

(* The workers have agreed to stop.                                        *)
Stopping == Now(Main) \in Deferring \cup Mourning \cup Ended

Complete ==
  Stopping =>
    /\ \A o \in live : o \in marked \/ Held(o) \/ \E w \in Worker : o \in acquire[w]
    /\ \A w \in Worker : \A o \in delayed_[w] : Is(o, "property") => heap.key[o] \notin live

Cleared ==
  /\ cleared # {} => Now(Main) \in Mourning \cup Ended
  /\ \A o \in cleared : o \in marked /\ Weak(o) /\ heap.key[o] \notin live
  /\ DOMAIN slots = DOMAIN WeakSlots
  /\ \A s \in DOMAIN WeakSlots :
       slots[s] = IF s <= weak_slices_started_ THEN WeakSlots[s] \cap live ELSE WeakSlots[s]
  /\ Now(Main) \in {"end"} \cup Ended => \A s \in DOMAIN slots : s <= weak_slices_started_

PlaceInv ==
  /\ \A w \in Worker : Leftover(w)
  /\ MainHasDone
  /\ stack # {} => \E w \in Worker : WillCheck(w)
  /\ Judged /\ Complete /\ Cleared

IInv == BarrierInv /\ TraceInv /\ PlaceInv


Early == Working \cup Checking \cup Pending \cup Deciding

\* All are in the section that one of them is in.
LEMMA NowSection ==
    ASSUME BarrierInv, NEW w \in Worker, NEW S \in Sections \ {Ended}, Now(w) \in S
    PROVE  Now(Main) \in S /\ \A v \in Worker : Now(v) \in S \cup Outside
<1>1. PICK T \in Sections :
        Now(Main) \in T /\ \A v \in Worker : Now(v) \in T \cup Outside
  BY Zenon DEF BarrierInv, Together
<1>2. Now(w) \in S \cap T BY <1>1, SectionFacts
<1>3. S = T BY <1>2, SectionFacts
<1> QED BY <1>1, <1>3, Zenon

\* Before the decision to stop, nobody is in the code after it.
LEMMA EarlyFacts ==
    /\ Early \cap (Deferring \cup Mourning \cup Ended \cup Outside) = {}
    /\ {Working, Checking, Pending, Deciding} \subseteq Sections \ {Ended}
    /\ Judging \subseteq Pending \cup Deciding
    /\ (Working \cup Outside) \cap Judging = {}
<1>1. "stopped" \in Working /\ "check" \in Checking /\ "pending" \in Pending
      /\ "decide" \in Deciding /\ "stopped" \notin Ended /\ "check" \notin Ended
      /\ "pending" \notin Ended /\ "decide" \notin Ended
  BY Zenon DEF Working, Checking, Pending, Deciding, Ended
<1> QED BY <1>1, Zenon DEF Early, Working, Checking, Pending, Deciding, Deferring, Mourning, Ended,
           Outside, Sections, Judging

\* The data of a worker is the same, and where it is.
Kept(v) ==
  /\ more_to_mark'[v] = more_to_mark[v]
  /\ scan'[v] = scan[v] /\ acquire'[v] = acquire[v] /\ pending'[v] = pending[v]
  /\ local_input_'[v] = local_input_[v] /\ local_output_'[v] = local_output_[v]
  /\ local_deferred'[v] = local_deferred[v] /\ delayed_'[v] = delayed_[v]

Untouched(v) == Now(v)' = Now(v) /\ Kept(v)

LEMMA LeftoverSame ==
    ASSUME PlaceInv, NEW v \in Worker, Untouched(v), UNCHANGED heap, marked \subseteq marked'
    PROVE  Leftover(v)' /\ (WillCheck(v)' <=> WillCheck(v))
<1> USE Zenon
<1>1. Leftover(v) BY DEF PlaceInv
<1>2. WillCheck(v)' <=> WillCheck(v) BY DEF Untouched, Kept, WillCheck
<1>3. \A o : (Is(o, "code")' <=> Is(o, "code")) /\ (Is(o, "entry")' <=> Is(o, "entry"))
  BY DEF Is
<1> QED BY <1>1, <1>2, <1>3 DEF Untouched, Kept, Leftover

-----------------------------------------------------------------------------
(* After the decision to stop.                                             *)

\* Once the deferred objects are marked all that is live is.
LEMMA MarkedIsLive ==
    ASSUME BarrierInv, TraceInv, PlaceInv, Now(Main) \in Mourning \cup Ended
    PROVE  marked = live
<1> USE Zenon
<1>1. marked \subseteq live BY DEF TraceInv, DataTypes, Sound, Known
<1>2. \A w \in Worker : Now(w) \in Mourning \cup Ended \cup {"queued", "gone"}
  <2>1. CASE Now(Main) \in Ended BY <2>1, AllEnded
  <2>2. CASE Now(Main) \in Mourning
    <3>1. Mourning \in Sections \ {Ended}
      <4>1. "mourn" \in Mourning /\ "mourn" \notin Ended BY DEF Mourning, Ended
      <4> QED BY <4>1 DEF Sections
    <3>2. \A w \in Worker : Now(w) \in Mourning \cup Outside
      BY <2>2, <3>1, NowSection, MainIsWorker
    <3>3. \A w \in Worker : Now(w) # "none" BY <2>2, NotNone DEF Mourning
    <3> QED BY <3>2, <3>3 DEF Outside, Ended
  <2> QED BY <2>1, <2>2
<1>3. \A w \in Worker : local_deferred[w] = {} /\ acquire[w] = {}
  <2>1. {"deferred", "deferred2"} \cap (Mourning \cup Ended \cup {"queued", "gone"}) = {}
    BY DEF Mourning, Ended
  <2> QED BY <1>2, <2>1 DEF PlaceInv, Leftover
<1>4. deferred = {}
  <2>1. Now(Main) \notin {"launch", "start", "roots", "deferred"} BY DEF Mourning, Ended
  <2> QED BY <2>1 DEF PlaceInv, MainHasDone
<1>5. live \subseteq marked
  BY <1>3, <1>4 DEF PlaceInv, Complete, Stopping, Held
<1> QED BY <1>1, <1>5

\* No worker goes to the marking stack any more, and no key is judged.
LEMMA NoneChecks ==
    ASSUME NEW w \in Worker, Now(w) \in Deferring \cup Mourning \cup Ended \cup Outside
    PROVE  ~WillCheck(w) /\ Now(w) \notin Judging
BY Zenon DEF WillCheck, Judging, Deferring, Mourning, Ended, Outside

\* Steps that change neither the data nor where the workers are.
LEMMA PlaceUnchanged ==
    ASSUME PlaceInv, \A v \in Worker : Untouched(v),
           UNCHANGED <<heap, live, marked, deferred, global_list_, root_slices_started_,
                       stack, weak_slices_started_, slots, cleared>>
    PROVE  PlaceInv'
<1> USE Zenon
<1>1. \A v \in Worker : Leftover(v)' /\ (WillCheck(v)' <=> WillCheck(v)) BY LeftoverSame
<1>2. Now(Main)' = Now(Main) BY MainIsWorker DEF Untouched
<1>3. \A o : /\ Is(o, "property")' <=> Is(o, "property")
             /\ Dead(o)' <=> Dead(o)
             /\ Weak(o)' <=> Weak(o)
  BY DEF Is, Dead, IsMarked, Weak, M!Weak
<1>4. MainHasDone' BY <1>2 DEF PlaceInv, MainHasDone
<1>5. Judged' BY <1>3 DEF PlaceInv, Judged, Untouched, Kept
<1>6. Complete'
  <2>1. \A o : Held(o)' <=> Held(o) BY DEF Held, Untouched, Kept
  <2>2. Stopping' <=> Stopping BY <1>2 DEF Stopping
  <2> QED BY <1>3, <2>1, <2>2 DEF PlaceInv, Complete, Untouched, Kept
<1>7. Cleared' BY <1>2, <1>3 DEF PlaceInv, Cleared
<1> QED BY <1>1, <1>4, <1>5, <1>6, <1>7, SMT DEF PlaceInv


LEMMA PlaceSteps ==
    ASSUME BarrierInv, TraceInv, PlaceInv, BarrierInv', [Next]_vars,
           \A w \in Worker :
             (/\ pc[w] \in BarrierLoc /\ Sync(w, After(w))
              /\ UNCHANGED <<num_busy, asleep, blockVars, heapVars, workVars, sliceVars>>)
             => PlaceInv'
    PROVE  PlaceInv'
\* A step of one worker before the decision to stop.
<1> USE Zenon
<1>EarlyStep.
      ASSUME TraceInv, PlaceInv, NEW w \in Worker,
             UNCHANGED <<heap, live, cleared, slots, weak_slices_started_>>,
             marked \subseteq marked',
             \A v \in Worker \ {w} : Untouched(v),
             Now(Main) \in Early, Now(Main)' \in Early,
             Leftover(w)', MainHasDone', stack' # {} => \E v \in Worker : WillCheck(v)',
             Judged'
      PROVE  PlaceInv'
  <2> USE <1>EarlyStep
  <2>1. \A v \in Worker : Leftover(v)' BY LeftoverSame
  <2>2. Complete' BY EarlyFacts DEF Complete, Stopping
  <2>3. cleared' = {} BY EarlyFacts DEF PlaceInv, Cleared
  <2>4. Now(Main)' \notin {"end"} \cup Ended BY EarlyFacts DEF Mourning
  <2>5. Cleared' BY <2>3, <2>4 DEF PlaceInv, Cleared
  <2> QED BY <2>1, <2>2, <2>5 DEF PlaceInv
\* The main thread is not on its way to the marking stack, or stays where it is.
<1>MainSame.
      ASSUME PlaceInv, UNCHANGED heap, global_list_' \subseteq global_list_,
             deferred' \subseteq deferred, root_slices_started_ \in Nat,
             root_slices_started_' \in Nat, root_slices_started_' >= root_slices_started_,
             heap \in Heaps,
             Now(Main) \in {"launch", "start", "roots", "deferred"} => Now(Main)' = Now(Main)
      PROVE  MainHasDone'
  <2> USE <1>MainSame
  <2>1. \A s \in DOMAIN heap.roots : s \in Nat BY HeapFacts, SMT
  <2>2. ASSUME \A s \in DOMAIN heap.roots : s <= root_slices_started_
        PROVE  \A s \in DOMAIN heap'.roots : s <= root_slices_started_'
    BY <2>1, <2>2, SMT
  <2> QED BY <2>2 DEF PlaceInv, MainHasDone
\* While the workers mark nobody judges the weak properties.
<1>NoneJudging.
      ASSUME BarrierInv, NEW w \in Worker, Now(w) \in Working, Now(w)' \in Working \cup Outside,
             \A v \in Worker \ {w} : Now(v)' = Now(v)
      PROVE  Judged'
  <2> USE <1>NoneJudging
  <2>1. \A v \in Worker : Now(v) \in Working \cup Outside BY NowSection, EarlyFacts
  <2>2. \A v \in Worker : Now(v)' \notin Judging BY <2>1, EarlyFacts
  <2> QED BY <2>2 DEF Judged
<1>MarkObjectPlace.
      ASSUME BarrierInv, TraceInv, PlaceInv, BarrierInv', NEW w \in Worker, MarkObject(w)
      PROVE  PlaceInv'
  <2> USE <1>MarkObjectPlace
  <2> USE DEF heapVars, sliceVars
  <2>0. /\ scan \in [Worker -> SUBSET Obj] /\ local_deferred \in [Worker -> SUBSET Obj]
        /\ local_output_ \in [Worker -> SUBSET Obj] /\ heap \in Heaps
        /\ more_to_mark \in [Worker -> BOOLEAN] /\ root_slices_started_ \in Nat
    BY DEF TraceInv, DataTypes, BarrierInv, SyncTypes
  <2>1. PICK o \in scan[w] :
          /\ scan' = [scan EXCEPT ![w] = @ \ {o}]
          /\ \/ /\ IsMarked(o)
                /\ UNCHANGED <<marked, local_deferred, blockVars, asleep>>
             \/ /\ ~IsMarked(o)
                /\ Is(o, "code")
                /\ local_deferred' = [local_deferred EXCEPT ![w] = @ \cup {o}]
                /\ UNCHANGED <<marked, blockVars, asleep>>
             \/ /\ ~IsMarked(o)
                /\ ~Is(o, "code")
                /\ marked' = marked \cup {o}
                /\ Push(w, o)
                /\ UNCHANGED local_deferred
    BY DEF MarkObject
  <2>2. UNCHANGED <<heap, live, deferred, delayed_, global_list_, acquire, pending, slots,
                    root_slices_started_, weak_slices_started_, cleared, more_to_mark,
                    pc, barrier, arrived, num_busy, debug>>
    BY DEF MarkObject
  <2>3. \A v \in Worker : Now(v)' = Now(v) BY <2>2 DEF Now, Released, After
  <2>4. Now(w) \in {"roots", "deferred", "drain", "first_weak", "weak", "pending"}
    BY <2>1 DEF PlaceInv, Leftover
  <2>5. \A v \in Worker : scan'[v] = IF v = w THEN scan[v] \ {o} ELSE scan[v] BY <2>0, <2>1
  <2>6. o \notin marked => WillCheck(w)
    <3>1. o \notin marked => more_to_mark[w] \/ Now(w) \notin {"first_weak", "pending"}
      BY <2>1 DEF PlaceInv, Leftover
    <3> QED BY <2>4, <3>1 DEF WillCheck
  <2>7. /\ marked \subseteq marked' /\ marked' \subseteq marked \cup {o}
        /\ \A v \in Worker \ {w} : /\ local_deferred'[v] = local_deferred[v]
                                   /\ local_output_'[v] = local_output_[v]
                                   /\ local_input_'[v] = local_input_[v]
        /\ local_deferred'[w] \subseteq local_deferred[w] \cup {x \in {o} : Is(x, "code")}
        /\ o \in marked => /\ UNCHANGED blockVars /\ marked' = marked
                           /\ local_deferred' = local_deferred
        /\ UNCHANGED blockVars \/ o \notin marked
    BY <2>0, <2>1 DEF IsMarked, Push, blockVars
  <2>8. WillCheck(w)' <=> WillCheck(w) BY <2>2, <2>3 DEF WillCheck
  <2>9. Leftover(w)'
    <3>1. Leftover(w) BY DEF PlaceInv
    <3>2. scan'[w] \subseteq scan[w] BY <2>5
    <3>3. local_input_'[w] \cup local_output_'[w] # {} => WillCheck(w)'
      BY <2>6, <2>7, <2>8, <3>1 DEF Leftover, blockVars
    <3>4. /\ Now(w) \notin {"queued", "gone", "marked"} \cup Mourning \cup Ended
          /\ Now(w) \notin {"queued", "gone", "weak_roots", "end"} \cup Ended
          /\ Now(w) \notin {"none", "launch"}
      BY <2>4 DEF Mourning, Ended
    <3>5. \A x \in local_deferred'[w] : Is(x, "code")'
      BY <2>2, <2>7, <3>1, <3>4 DEF Leftover, Is
    <3> QED BY <2>2, <2>3, <2>7, <3>1, <3>2, <3>3, <3>4, <3>5 DEF Leftover
  <2>10. \A v \in Worker \ {w} : Untouched(v)
    BY <2>2, <2>3, <2>5, <2>7 DEF Untouched, Kept
  <2>11. /\ Now(w) \in Working \/ Now(w) \in Pending
         /\ Now(Main) \in Early /\ Now(Main)' \in Early
    <3>1. Now(w) \in Working \/ Now(w) \in Pending BY <2>4 DEF Working, Pending
    <3>2. Now(Main) \in Early BY <3>1, NowSection, EarlyFacts DEF Early
    <3> QED BY <2>3, <3>1, <3>2, MainIsWorker
  <2>12. MainHasDone' BY <2>0, <2>2, <2>3, <1>MainSame, MainIsWorker, SMT
  <2>13. stack' # {} => \E v \in Worker : WillCheck(v)'
    <3>1. CASE UNCHANGED blockVars
      BY <2>2, <2>3, <3>1 DEF PlaceInv, WillCheck, blockVars
    <3>2. CASE o \notin marked BY <2>6, <2>8, <3>2
    <3> QED BY <2>7, <3>1, <3>2
  <2>14. Judged'
    <3>1. CASE Now(w) \in Working BY <2>3, <3>1, <1>NoneJudging
    <3>2. CASE Now(w) \in Pending /\ o \in marked
      <4>1. \A x : Dead(x)' <=> Dead(x) BY <2>2, <2>7, <3>2 DEF Dead, IsMarked
      <4>2. \A x : Is(x, "property")' <=> Is(x, "property") BY <2>2 DEF Is
      <4> QED BY <2>2, <2>3, <4>1, <4>2 DEF PlaceInv, Judged
    <3>3. CASE Now(w) \in Pending /\ o \notin marked
      <4>1. Now(w) = "pending" /\ more_to_mark[w]
        BY <2>4, <2>6, <3>3 DEF Pending, WillCheck
      <4> QED BY <2>2, <2>3, <4>1 DEF Judged, Judging
    <3> QED BY <2>11, <3>1, <3>2, <3>3
  <2> QED BY <2>2, <2>7, <2>9, <2>10, <2>11, <2>12, <2>13, <2>14, <1>EarlyStep
\* A step of a worker that marks, or of a helper that begins to.
<1>WorkingStep.
      ASSUME BarrierInv, TraceInv, PlaceInv, NEW w \in Worker, NEW x \in Working,
             pc[w] \in Working \ BarrierLoc \/ (pc[w] = "queued" /\ barrier.generation = 0),
             pc' = [pc EXCEPT ![w] = x], UNCHANGED <<arrived, debug>>,
             barrier'.generation = barrier.generation,
             \A v \in Worker \ {w} : Kept(v),
             UNCHANGED <<heap, live, cleared, slots, weak_slices_started_>>,
             marked \subseteq marked',
             w = Main /\ pc[w] \in {"launch", "start", "roots", "deferred"} /\ x # pc[w]
               => MainHasDone',
             w # Main => pc[w] # "launch",
             global_list_' \subseteq global_list_, deferred' \subseteq deferred,
             root_slices_started_' \in Nat, root_slices_started_' >= root_slices_started_,
             Now(w)' = x /\ Now(w) = pc[w] => Leftover(w)',
             Now(w)' = x /\ Now(w) = pc[w] =>
               WillCheck(w)' \/ stack' = {} \/ (~WillCheck(w) /\ stack # {})
      PROVE  PlaceInv'
  <2> USE <1>WorkingStep
  <2>0. /\ x \in Loc /\ pc[w] \notin BarrierLoc /\ "queued" \notin BarrierLoc
        /\ heap \in Heaps /\ root_slices_started_ \in Nat
    BY SectionFacts DEF Sections, BarrierLoc, TraceInv, DataTypes
  <2>1. /\ arrived[w] = -1 /\ Now(w) = pc[w] /\ Now(w)' = x
        /\ \A v \in Worker \ {w} : Now(v)' = Now(v) /\ pc'[v] = pc[v]
    BY <2>0, StepNow DEF Kept
  <2>2. \A v \in Worker \ {w} : Untouched(v) BY <2>1 DEF Untouched
  <2>3. Now(Main) \in Working /\ Now(Main)' \in Working
        /\ \A v \in Worker : Now(v) \in Working \cup Outside
    <3>1. CASE pc[w] \in Working
      BY <2>1, <3>1, NowSection, EarlyFacts, MainIsWorker, SMT
    <3>2. CASE pc[w] = "queued" /\ barrier.generation = 0
      <4>1. Now(Main) \in Working BY <3>2 DEF BarrierInv, CountInv
      <4>2. w # Main BY <3>2 DEF BarrierInv, ArrivedAt
      <4> QED BY <2>1, <4>1, <4>2, NowSection, EarlyFacts, MainIsWorker
    <3> QED BY <3>1, <3>2
  <2>4. Judged'
    <3>1. \A v \in Worker : Now(v)' \notin Judging BY <2>1, <2>3, EarlyFacts
    <3> QED BY <3>1 DEF Judged
  <2>5. MainHasDone'
    <3>1. CASE w = Main /\ pc[w] \in {"launch", "start", "roots", "deferred"} /\ x # pc[w]
      BY <3>1
    <3>2. CASE ~(w = Main /\ pc[w] \in {"launch", "start", "roots", "deferred"} /\ x # pc[w])
      BY <2>0, <2>1, <3>2, <1>MainSame, MainIsWorker
    <3> QED BY <3>1, <3>2
  <2>6. stack' # {} => \E v \in Worker : WillCheck(v)'
    <3>1. CASE WillCheck(w)' \/ stack' = {} BY <3>1
    <3>2. CASE ~WillCheck(w) /\ stack # {}
      <4>1. PICK v \in Worker : WillCheck(v) BY <3>2 DEF PlaceInv
      <4>2. v # w BY <3>2, <4>1
      <4> QED BY <2>2, <4>1, <4>2, LeftoverSame
    <3> QED BY <2>1, <3>1, <3>2
  <2> QED BY <2>1, <2>2, <2>3, <2>4, <2>5, <2>6, <1>EarlyStep DEF Early
\* What a worker that has no part yet has left.
<1>LaunchPlace.
      ASSUME BarrierInv, TraceInv, PlaceInv, NEW w \in Worker, Launch(w)
      PROVE  PlaceInv'
  <2> USE <1>LaunchPlace
  <2> USE DEF shareVars, heapVars, sliceVars, Goto
  <2>0. /\ delayed_ \in [Worker -> SUBSET Obj] /\ local_deferred \in [Worker -> SUBSET Obj]
        /\ pc \in [Worker -> Loc] /\ ArrivedAt(w)
    BY DEF TraceInv, DataTypes, BarrierInv, SyncTypes
  <2>1. /\ UNCHANGED <<heap, live, marked, scan, acquire, pending, root_slices_started_,
                       weak_slices_started_, cleared, slots, more_to_mark, arrived, debug,
                       barrier, stack, local_input_, local_output_>>
        /\ local_deferred' = [local_deferred EXCEPT ![w] = {}]
        /\ pc[Main] = "launch"
    BY DEF Launch, FlushDeferred, blockVars
  <2>2. /\ local_deferred'[w] = {}
        /\ \A v \in Worker \ {w} : local_deferred'[v] = local_deferred[v]
                                   /\ delayed_'[v] = delayed_[v]
    BY <2>0, <2>1 DEF Launch
  <2> DEFINE x == IF w = Main THEN "start" ELSE "queued"
  <2>3. /\ pc' = [pc EXCEPT ![w] = x]
        /\ pc[w] = IF w = Main THEN "launch" ELSE "none"
        /\ w = Main => global_list_' = {}
        /\ w # Main => delayed_'[w] = {}
    BY <2>0 DEF Launch, ArrivedAt, FlushedList
  <2>4. x \in Loc /\ pc[w] \notin BarrierLoc
    BY <2>3 DEF Loc, Sections, Working, Outside, BarrierLoc
  <2>5. /\ Now(w) = pc[w] /\ Now(w)' = x
        /\ \A v \in Worker \ {w} : Now(v)' = Now(v)
    BY <2>1, <2>3, <2>4, StepNow
  <2>6. \A v \in Worker \ {w} : Untouched(v)
    BY <2>1, <2>2, <2>5 DEF Untouched, Kept
  <2>7. Now(Main) = "launch" /\ Now(Main)' = IF w = Main THEN "start" ELSE "launch"
    BY <2>1, <2>3, <2>5, NowIsPc, MainIsWorker DEF BarrierLoc
  <2>8. Now(Main) \in Early /\ Now(Main)' \in Early BY <2>7 DEF Early, Working
  <2>9. Leftover(w)'
    <3>1. Leftover(w) BY DEF PlaceInv
    <3>2. WillCheck(w)' <=> WillCheck(w) BY <2>3, <2>5 DEF WillCheck
    <3>3. /\ scan'[w] = {} /\ acquire'[w] = {} /\ pending'[w] = {}
          /\ local_input_'[w] \cup local_output_'[w] # {} => WillCheck(w)'
      BY <2>1, <2>3, <2>5, <3>1, <3>2 DEF Leftover
    <3>4. x \notin {"weak_roots", "end"} \cup Ended /\ (x = "queued" => w # Main)
      BY DEF Ended
    <3> QED BY <2>2, <2>3, <2>5, <3>3, <3>4 DEF Leftover
  <2>10. MainHasDone' BY <2>1, <2>3, <2>7 DEF MainHasDone
  <2>11. WillCheck(Main)' BY <2>7 DEF WillCheck
  <2>12. Judged'
    <3>1. \A v \in Worker : Now(v) \in Working \cup Outside
      BY <2>7, NowSection, EarlyFacts, MainIsWorker, SMT DEF Working
    <3>2. x \in Working \cup Outside BY DEF Working, Outside
    <3>3. \A v \in Worker : Now(v)' \notin Judging BY <2>5, <3>1, <3>2, EarlyFacts
    <3> QED BY <3>3 DEF Judged
  <2> QED BY <2>1, <2>6, <2>8, <2>9, <2>10, <2>11, <2>12, <1>EarlyStep, MainIsWorker, SMT
<1>StartPlace.
      ASSUME BarrierInv, TraceInv, PlaceInv, NEW w \in Worker,
             \/ Start(w)
             \/ Enter(w) /\ barrier.generation = 0
      PROVE  PlaceInv'
  <2> USE <1>StartPlace
  <2> USE DEF shareVars, heapVars, sliceVars, workVars, Goto, blockVars
  <2> DEFINE x == IF pc[w] = "start" THEN "roots" ELSE "start"
  <2>1. /\ UNCHANGED <<heap, live, marked, scan, acquire, pending, root_slices_started_,
                       weak_slices_started_, cleared, slots, more_to_mark, arrived, debug,
                       stack, local_input_, local_output_, local_deferred, delayed_,
                       global_list_, deferred>>
        /\ pc' = [pc EXCEPT ![w] = x]
        /\ pc[w] = "start" \/ (pc[w] = "queued" /\ barrier.generation = 0)
        /\ barrier'.generation = barrier.generation
    BY DEF Start, Enter, TryEnter, MayEnter, BarrierInv, SyncTypes
  <2>2. x \in Working /\ (pc[w] = "start" => pc[w] \in Working \ BarrierLoc)
    BY DEF Working, BarrierLoc
  <2>3. \A v \in Worker \ {w} : Kept(v) BY <2>1 DEF Kept
  <2>4. ASSUME Now(w)' = x, Now(w) = pc[w] PROVE Leftover(w)' /\ WillCheck(w)'
    <3>1. Leftover(w) BY DEF PlaceInv
    <3>2. WillCheck(w)' BY <2>4 DEF WillCheck
    <3>3. \A o : Is(o, "code")' <=> Is(o, "code") BY <2>1 DEF Is
    <3>4. x \notin {"queued", "gone", "marked", "weak_roots", "end"} \cup Mourning \cup Ended
          /\ pc[w] \notin {"none", "launch"}
      BY <2>1 DEF Mourning, Ended
    <3> QED BY <2>1, <2>4, <3>1, <3>2, <3>3, <3>4 DEF Leftover
  <2>5. w = Main /\ pc[w] \in {"launch", "start", "roots", "deferred"} => MainHasDone'
    <3>1. SUFFICES ASSUME w = Main, pc[w] = "start" PROVE MainHasDone'
      BY <2>1
    <3>2. Now(Main) = "start" BY <3>1, NowIsPc DEF BarrierLoc
    <3>3. Now(Main)' = "roots"
      <4>1. "roots" \in Loc /\ pc[w] \notin BarrierLoc
        BY <3>1 DEF Loc, Sections, Working, BarrierLoc
      <4> QED BY <2>1, <3>1, <4>1, StepNow
    <3> QED BY <2>1, <3>2, <3>3 DEF PlaceInv, MainHasDone
  <2>6. root_slices_started_ \in Nat BY DEF TraceInv, DataTypes
  <2>7. w # Main => pc[w] # "launch" BY <2>1
  <2>8. /\ global_list_' \subseteq global_list_ /\ deferred' \subseteq deferred
        /\ marked \subseteq marked'
        /\ root_slices_started_' \in Nat /\ root_slices_started_' >= root_slices_started_
    BY <2>1, <2>6, SMT
  <2> HIDE DEF x
  <2> QED BY <2>1, <2>2, <2>3, <2>4, <2>5, <2>7, <2>8, <1>WorkingStep
<1>IterateRootsPlace.
      ASSUME BarrierInv, TraceInv, PlaceInv, NEW w \in Worker, IterateRoots(w)
      PROVE  PlaceInv'
  <2> USE <1>IterateRootsPlace
  <2> USE DEF shareVars, heapVars, blockVars, Goto
  <2>0. /\ scan \in [Worker -> SUBSET Obj] /\ heap \in Heaps /\ root_slices_started_ \in Nat
        /\ pc \in [Worker -> Loc]
    BY DEF TraceInv, DataTypes, BarrierInv, SyncTypes
  <2> DEFINE n == root_slices_started_
             x == IF n + 1 \in DOMAIN heap.roots THEN "roots" ELSE "deferred"
  <2>1. /\ scan[w] = {} /\ pc[w] = "roots" /\ root_slices_started_' = n + 1
        /\ UNCHANGED <<heap, live, marked, deferred, local_deferred, delayed_, global_list_,
                       acquire, pending, weak_slices_started_, cleared, slots, stack,
                       local_input_, local_output_, barrier, arrived, debug, more_to_mark>>
        /\ pc' = [pc EXCEPT ![w] = x]
        /\ \A v \in Worker \ {w} : scan'[v] = scan[v]
        /\ x = "deferred" => scan'[w] = {}
    <3>1. UNCHANGED pc => pc' = [pc EXCEPT ![w] = pc[w]] BY <2>0
    <3> QED BY <2>0, <3>1 DEF IterateRoots, At, Visit
  <2>2. x \in Working /\ pc[w] \in Working \ BarrierLoc /\ x \in {"roots", "deferred"}
    BY <2>1 DEF Working, BarrierLoc
  <2>3. \A v \in Worker \ {w} : Kept(v) BY <2>1 DEF Kept
  <2>4. w = Main /\ x # pc[w] => MainHasDone'
    <3>1. SUFFICES ASSUME w = Main, x = "deferred" PROVE MainHasDone'
      BY <2>1, <2>2
    <3>2. Now(Main) = "roots" /\ Now(Main)' = "deferred"
      <4>1. "deferred" \in Loc /\ pc[w] \notin BarrierLoc
        BY <2>1 DEF Loc, Sections, Working, BarrierLoc
      <4> QED BY <2>1, <3>1, <4>1, StepNow
    <3>3. \A s \in DOMAIN heap.roots : s <= root_slices_started_'
      <4>1. Len(heap.roots) \in Nat /\ DOMAIN heap.roots = 1..Len(heap.roots)
        BY <2>0, HeapFacts
      <4>2. n + 1 \notin DOMAIN heap.roots BY <3>1
      <4> QED BY <2>0, <2>1, <4>1, <4>2, SMT
    <3> QED BY <2>1, <3>2, <3>3 DEF PlaceInv, MainHasDone
  <2>5. ASSUME Now(w)' = x, Now(w) = pc[w] PROVE Leftover(w)' /\ WillCheck(w)'
    <3>1. Leftover(w) BY DEF PlaceInv
    <3>2. WillCheck(w)' BY <2>2, <2>5 DEF WillCheck
    <3>3. \A o : Is(o, "code")' <=> Is(o, "code") BY <2>1 DEF Is
    <3>4. x \notin {"queued", "gone", "marked", "weak_roots", "end"} \cup Mourning \cup Ended
      BY <2>2 DEF Mourning, Ended
    <3>5. acquire'[w] = {} /\ pending'[w] = {} BY <2>1, <2>5, <3>1 DEF Leftover
    <3>6. \A o \in local_deferred'[w] : Is(o, "code")'
      BY <2>1, <2>5, <3>1, <3>3 DEF Leftover
    <3> QED BY <2>1, <2>2, <2>5, <3>2, <3>4, <3>5, <3>6 DEF Leftover
  <2>6. /\ global_list_' \subseteq global_list_ /\ deferred' \subseteq deferred
        /\ marked \subseteq marked'
        /\ root_slices_started_' \in Nat /\ root_slices_started_' >= root_slices_started_
        /\ barrier'.generation = barrier.generation /\ pc[w] # "launch"
    BY <2>0, <2>1, SMT
  <2> HIDE DEF x, n
  <2> QED BY <2>1, <2>2, <2>3, <2>4, <2>5, <2>6, <1>WorkingStep
<1>DeferredPlace.
      ASSUME BarrierInv, TraceInv, PlaceInv, NEW w \in Worker,
             ProcessDeferredMarking(w, "deferred", "first")
      PROVE  PlaceInv'
  <2> USE <1>DeferredPlace
  <2> USE DEF shareVars, heapVars, blockVars, sliceVars, Goto
  <2>0. /\ scan \in [Worker -> SUBSET Obj] /\ heap \in Heaps /\ root_slices_started_ \in Nat
        /\ pc \in [Worker -> Loc] /\ local_deferred \in [Worker -> SUBSET Obj]
        /\ acquire \in [Worker -> SUBSET Obj]
    BY DEF TraceInv, DataTypes, BarrierInv, SyncTypes
  <2>1. /\ scan[w] = {} /\ pc[w] = "deferred"
        /\ UNCHANGED <<heap, live, delayed_, global_list_, root_slices_started_, slots,
                       pending, weak_slices_started_, cleared, stack, local_input_,
                       local_output_, barrier, arrived, debug, more_to_mark>>
        /\ marked \subseteq marked' /\ deferred' \subseteq deferred
    BY DEF ProcessDeferredMarking, Rescans, At
  <2>2. /\ \A v \in Worker \ {w} : /\ scan'[v] = scan[v] /\ acquire'[v] = acquire[v]
                                   /\ local_deferred'[v] = local_deferred[v]
        /\ local_deferred'[w] \subseteq local_deferred[w]
        /\ \/ pc' = [pc EXCEPT ![w] = "deferred"]
           \/ /\ pc' = [pc EXCEPT ![w] = "first"]
              /\ scan'[w] = {} /\ acquire'[w] = {} /\ deferred' = {}
    <3>1. UNCHANGED pc => pc' = [pc EXCEPT ![w] = "deferred"] BY <2>0, <2>1
    <3> QED BY <2>0, <2>1, <3>1, SMT DEF ProcessDeferredMarking, Rescans, Visit
  <2>3. \A v \in Worker \ {w} : Kept(v) BY <2>1, <2>2 DEF Kept
  <2>4. ASSUME NEW x \in {"deferred", "first"}, pc' = [pc EXCEPT ![w] = x],
               x = "first" => scan'[w] = {} /\ acquire'[w] = {} /\ deferred' = {}
        PROVE  PlaceInv'
    <3>1. x \in Working /\ pc[w] \in Working \ BarrierLoc BY <2>1 DEF Working, BarrierLoc
    <3>2. w = Main /\ x # pc[w] => MainHasDone'
      <4>1. SUFFICES ASSUME w = Main, x = "first" PROVE MainHasDone'
        BY <2>1
      <4>2. Now(Main) = "deferred" /\ Now(Main)' = "first"
        <5>1. "first" \in Loc /\ pc[w] \notin BarrierLoc
          BY <2>1 DEF Loc, Sections, Working, BarrierLoc
        <5> QED BY <2>1, <2>4, <4>1, <5>1, StepNow
      <4> QED BY <2>1, <2>4, <4>1, <4>2 DEF PlaceInv, MainHasDone
    <3>3. ASSUME Now(w)' = x, Now(w) = pc[w] PROVE Leftover(w)' /\ WillCheck(w)'
      <4>1. Leftover(w) BY DEF PlaceInv
      <4>2. WillCheck(w)' BY <3>3 DEF WillCheck
      <4>3. \A o : Is(o, "code")' <=> Is(o, "code") BY <2>1 DEF Is
      <4>4. x \notin {"queued", "gone", "marked", "weak_roots", "end"} \cup Mourning \cup Ended
        BY DEF Mourning, Ended
      <4>5. pending'[w] = {} BY <2>1, <3>3, <4>1 DEF Leftover
      <4>6. \A o \in local_deferred'[w] : Is(o, "code")'
        BY <2>1, <2>2, <3>3, <4>1, <4>3 DEF Leftover
      <4> QED BY <2>1, <2>4, <3>3, <4>2, <4>4, <4>5, <4>6 DEF Leftover
    <3>4. /\ global_list_' \subseteq global_list_
          /\ root_slices_started_' \in Nat /\ root_slices_started_' >= root_slices_started_
          /\ barrier'.generation = barrier.generation /\ pc[w] # "launch"
      BY <2>0, <2>1, SMT
    <3> QED BY <2>1, <2>3, <2>4, <3>1, <3>2, <3>3, <3>4, <1>WorkingStep
  <2> QED BY <2>2, <2>4
<1>MarkingStackPlace.
      ASSUME BarrierInv, TraceInv, PlaceInv, NEW w \in Worker, ProcessMarkingStack(w)
      PROVE  PlaceInv'
  <2> USE <1>MarkingStackPlace
  <2> USE DEF heapVars, sliceVars, Goto
  <2>0. /\ scan \in [Worker -> SUBSET Obj] /\ heap \in Heaps /\ root_slices_started_ \in Nat
        /\ pc \in [Worker -> Loc] /\ delayed_ \in [Worker -> SUBSET Obj]
        /\ pending \in [Worker -> SUBSET Obj] /\ local_input_ \in [Worker -> SUBSET Obj]
        /\ local_output_ \in [Worker -> SUBSET Obj] /\ more_to_mark \in [Worker -> BOOLEAN]
    BY DEF TraceInv, DataTypes, BarrierInv, SyncTypes
  <2>1. /\ scan[w] = {} /\ pc[w] \in {"first", "drain", "again"}
        /\ UNCHANGED <<heap, live, marked, deferred, local_deferred, global_list_, slots,
                       acquire, root_slices_started_, weak_slices_started_, cleared, barrier,
                       arrived, debug>>
    BY DEF ProcessMarkingStack, At
  <2>2. pc[w] \in Working \ BarrierLoc BY <2>1 DEF Working, BarrierLoc
  <2>3. Leftover(w) /\ Now(w) = pc[w] BY <2>2, NowIsPc DEF PlaceInv
  <2>4. /\ acquire[w] = {} /\ pending[w] = {} /\ \A o \in local_deferred[w] : Is(o, "code")
    BY <2>1, <2>3 DEF Leftover
  <2>5. ASSUME NEW x \in {"drain", "first_weak", "weak", "idle"},
               pc' = [pc EXCEPT ![w] = x],
               \A v \in Worker \ {w} : Kept(v),
               x # "drain" => scan'[w] = {} /\ stack' = {}
                              /\ local_input_'[w] \cup local_output_'[w] = {},
               pending'[w] # {} => x \in {"first_weak", "weak"}
        PROVE  PlaceInv'
    <3>1. x \in Working BY DEF Working
    <3>2. ASSUME Now(w)' = x PROVE Leftover(w)' /\ (WillCheck(w)' \/ stack' = {})
      <4>1. x = "drain" => WillCheck(w)' BY <3>2 DEF WillCheck
      <4>2. \A o \in local_deferred'[w] : Is(o, "code")' BY <2>1, <2>4 DEF Is
      <4>3. x \notin {"queued", "gone", "marked", "weak_roots", "end"} \cup Mourning \cup Ended
        BY DEF Mourning, Ended
      <4> QED BY <2>1, <2>4, <2>5, <3>2, <4>1, <4>2, <4>3 DEF Leftover
    <3>3. /\ global_list_' \subseteq global_list_ /\ deferred' \subseteq deferred
          /\ root_slices_started_' \in Nat /\ root_slices_started_' >= root_slices_started_
          /\ barrier'.generation = barrier.generation /\ pc[w] # "launch"
          /\ marked \subseteq marked'
          /\ pc[w] \notin {"launch", "start", "roots", "deferred"}
      BY <2>0, <2>1, SMT
    <3> QED BY <2>1, <2>2, <2>5, <3>1, <3>2, <3>3, <1>WorkingStep
  <2>6. ASSUME NEW o \in Obj, Pop(w, o), Visit(w, ProcessedPtrs(o)),
               delayed_' = [delayed_ EXCEPT ![w] = @ \cup {y \in {o} : Delays(y)}],
               pc' = [pc EXCEPT ![w] = "drain"], UNCHANGED <<pending, more_to_mark>>
        PROVE  PlaceInv'
    <3>1. \A v \in Worker \ {w} : local_input_'[v] = local_input_[v]
                                  /\ local_output_'[v] = local_output_[v]
      BY <2>0, <2>6 DEF Pop
    <3>2. \A v \in Worker \ {w} : scan'[v] = scan[v] /\ delayed_'[v] = delayed_[v]
      BY <2>0, <2>6, SMT DEF Visit
    <3>3. \A v \in Worker \ {w} : Kept(v) BY <2>1, <2>6, <3>1, <3>2 DEF Kept
    <3> QED BY <2>4, <2>5, <2>6, <3>3
  <2>7. CASE /\ ~HasWork(w) /\ pc' = [pc EXCEPT ![w] = "idle"]
             /\ UNCHANGED <<delayed_, pending, more_to_mark, blockVars, scan>>
    <3>1. \A v \in Worker \ {w} : Kept(v) BY <2>1, <2>7 DEF Kept, blockVars
    <3>2. stack' = {} /\ local_input_'[w] \cup local_output_'[w] = {} /\ scan'[w] = {}
      BY <2>1, <2>7 DEF HasWork, blockVars
    <3> QED BY <2>4, <2>5, <2>7, <3>1, <3>2
  <2>8. ASSUME ~HasWork(w), NEW x \in {"first_weak", "weak"}, pc' = [pc EXCEPT ![w] = x],
               BeginPending(w), UNCHANGED <<blockVars, scan>>
        PROVE  PlaceInv'
    <3>1. \A v \in Worker \ {w} : Kept(v)
      BY <2>0, <2>1, <2>8 DEF Kept, blockVars, BeginPending
    <3>2. stack' = {} /\ local_input_'[w] \cup local_output_'[w] = {} /\ scan'[w] = {}
      BY <2>1, <2>8 DEF HasWork, blockVars
    <3> QED BY <2>5, <2>8, <3>1, <3>2
  <2> QED BY <2>6, <2>7, <2>8 DEF ProcessMarkingStack
\* What a step of ProcessPendingWeakProperties does, wherever it is called.  When
\* it does not set more_to_mark, it visits what is marked already.
<1>PendingFacts.
      ASSUME BarrierInv, TraceInv, PlaceInv, NEW w \in Worker, NEW l \in Loc \ BarrierLoc,
             NEW m, NEW n, ProcessPendingWeakProperties(w, l, m, n)
      PROVE  /\ pc[w] = l /\ scan[w] = {}
             /\ UNCHANGED <<heap, live, marked, deferred, local_deferred, global_list_, acquire,
                            slots, root_slices_started_, weak_slices_started_, cleared,
                            barrier, arrived, debug, stack, local_input_, local_output_>>
             /\ \A v \in Worker \ {w} : Kept(v)
             /\ more_to_mark[w] => more_to_mark'[w]
             /\ \/ /\ pc' = [pc EXCEPT ![w] = l]
                   /\ ~more_to_mark'[w] => scan'[w] \subseteq marked
                   /\ \A o \in delayed_'[w] : o \in delayed_[w] \/ Dead(o)
                \/ /\ pc' = [pc EXCEPT ![w] = IF more_to_mark[w] THEN m ELSE n]
                   /\ scan'[w] = {} /\ pending'[w] = {}
                   /\ UNCHANGED <<delayed_, more_to_mark>>
  <2> USE <1>PendingFacts
  <2> USE DEF shareVars, heapVars, sliceVars, Goto, blockVars
  <2>0. /\ scan \in [Worker -> SUBSET Obj] /\ heap \in Heaps /\ pc \in [Worker -> Loc]
        /\ delayed_ \in [Worker -> SUBSET Obj] /\ pending \in [Worker -> SUBSET Obj]
        /\ more_to_mark \in [Worker -> BOOLEAN]
    BY DEF TraceInv, DataTypes, BarrierInv, SyncTypes
  <2>1. /\ pc[w] = l /\ scan[w] = {}
        /\ UNCHANGED <<heap, live, marked, deferred, local_deferred, global_list_, acquire,
                       slots, root_slices_started_, weak_slices_started_, cleared,
                       barrier, arrived, debug, stack, local_input_, local_output_>>
    BY DEF ProcessPendingWeakProperties, At
  <2>2. UNCHANGED pc => pc' = [pc EXCEPT ![w] = l] BY <2>0, <2>1
  <2>3. ASSUME NEW o \in pending[w], pending' = [pending EXCEPT ![w] = @ \ {o}],
               IsMarked(heap.key[o]),
               more_to_mark' = [more_to_mark EXCEPT ![w] = @ \/ MakesMore(o)],
               Visit(w, M!AllPtrs(heap, o)), UNCHANGED <<delayed_, pc>>
        PROVE  /\ \A v \in Worker \ {w} : Kept(v)
               /\ more_to_mark[w] => more_to_mark'[w]
               /\ ~more_to_mark'[w] => scan'[w] \subseteq marked
    <3>1. o \in Obj BY <2>0
    <3>2. scan'[w] = M!AllPtrs(heap, o) /\ \A v \in Worker \ {w} : scan'[v] = scan[v]
      <4>1. M!AllPtrs(heap, o) \subseteq Obj BY <2>0, <3>1, HeapFacts
      <4> QED BY <2>0, <2>3, <4>1 DEF Visit
    <3>3. more_to_mark'[w] = (more_to_mark[w] \/ MakesMore(o)) BY <2>0, <2>3
    <3>4. ~more_to_mark'[w] => M!AllPtrs(heap, o) \subseteq marked
      <4>1. ~MakesMore(o) => heap.ptr[o] \subseteq marked BY DEF MakesMore, IsMarked
      <4>2. \A p \in M!AllPtrs(heap, o) : p \in heap.ptr[o] \/ p = heap.key[o]
        BY <2>0, <3>1, HeapFacts
      <4> QED BY <2>3, <3>3, <4>1, <4>2 DEF IsMarked
    <3>5. \A v \in Worker \ {w} : pending'[v] = pending[v] /\ more_to_mark'[v] = more_to_mark[v]
      BY <2>0, <2>3
    <3> QED BY <2>1, <2>3, <3>2, <3>3, <3>4, <3>5 DEF Kept
  <2>4. ASSUME NEW o \in pending[w], pending' = [pending EXCEPT ![w] = @ \ {o}],
               ~IsMarked(heap.key[o]),
               delayed_' = [delayed_ EXCEPT ![w] = @ \cup {o}],
               UNCHANGED <<more_to_mark, scan, pc>>
        PROVE  /\ \A v \in Worker \ {w} : Kept(v)
               /\ \A p \in delayed_'[w] : p \in delayed_[w] \/ Dead(p)
    BY <2>0, <2>1, <2>4 DEF Kept, Dead
  <2>5. UNCHANGED <<delayed_, scan, pending, more_to_mark>> =>
          \A v \in Worker \ {w} : Kept(v)
    BY <2>1 DEF Kept
  <2> QED BY <2>1, <2>2, <2>3, <2>4, <2>5 DEF ProcessPendingWeakProperties
<1>WeakPlace.
      ASSUME BarrierInv, TraceInv, PlaceInv, NEW w \in Worker,
             \/ ProcessPendingWeakProperties(w, "first_weak", "again", "idle")
             \/ ProcessPendingWeakProperties(w, "weak", "again", "again")
      PROVE  PlaceInv'
  <2> USE <1>WeakPlace
  <2>0. heap \in Heaps /\ pc \in [Worker -> Loc] /\ root_slices_started_ \in Nat
        /\ more_to_mark \in [Worker -> BOOLEAN]
    BY DEF TraceInv, DataTypes, BarrierInv, SyncTypes
  <2>1. ASSUME NEW l \in {"first_weak", "weak"}, NEW n \in {"idle", "again"},
               l = "weak" => n = "again",
               ProcessPendingWeakProperties(w, l, "again", n)
        PROVE  PlaceInv'
    <3>1. /\ pc[w] = l /\ scan[w] = {}
          /\ UNCHANGED <<heap, live, marked, deferred, local_deferred, global_list_, acquire,
                         slots, root_slices_started_, weak_slices_started_, cleared,
                         barrier, arrived, debug, stack, local_input_, local_output_>>
          /\ \A v \in Worker \ {w} : Kept(v)
          /\ more_to_mark[w] => more_to_mark'[w]
          /\ \/ /\ pc' = [pc EXCEPT ![w] = l]
                /\ ~more_to_mark'[w] => scan'[w] \subseteq marked
                /\ \A o \in delayed_'[w] : o \in delayed_[w] \/ Dead(o)
             \/ /\ pc' = [pc EXCEPT ![w] = IF more_to_mark[w] THEN "again" ELSE n]
                /\ scan'[w] = {} /\ pending'[w] = {}
                /\ UNCHANGED <<delayed_, more_to_mark>>
      <4>1. l \in Loc \ BarrierLoc BY DEF Loc, Sections, Working, BarrierLoc
      <4> QED BY <2>1, <4>1, <1>PendingFacts
    <3>2. pc[w] \in Working \ BarrierLoc BY <3>1 DEF Working, BarrierLoc
    <3>3. Leftover(w) /\ Now(w) = pc[w] BY <3>2, NowIsPc DEF PlaceInv
    <3>4. /\ acquire[w] = {} /\ \A o \in local_deferred[w] : Is(o, "code")
          /\ local_input_[w] \cup local_output_[w] # {} => WillCheck(w)
      BY <3>1, <3>3 DEF Leftover
    <3>5. /\ global_list_' \subseteq global_list_ /\ deferred' \subseteq deferred
          /\ root_slices_started_' \in Nat /\ root_slices_started_' >= root_slices_started_
          /\ barrier'.generation = barrier.generation /\ pc[w] # "launch"
          /\ marked \subseteq marked'
          /\ pc[w] \notin {"launch", "start", "roots", "deferred"}
      BY <2>0, <3>1, SMT
    <3>6. ASSUME NEW x \in {"first_weak", "weak", "again", "idle"},
                 pc' = [pc EXCEPT ![w] = x], WillCheck(w) /\ Now(w)' = x => WillCheck(w)',
                 x \in {"first_weak", "weak"} \/ (scan'[w] = {} /\ pending'[w] = {}),
                 x = "first_weak" /\ ~more_to_mark'[w] => scan'[w] \subseteq marked
          PROVE  PlaceInv'
      <4>1. x \in Working BY DEF Working
      <4>2. ASSUME Now(w)' = x PROVE Leftover(w)'
        <5>1. \A o \in local_deferred'[w] : Is(o, "code")' BY <3>1, <3>4 DEF Is
        <5>2. x \notin {"queued", "gone", "marked", "weak_roots", "end"}
                        \cup Mourning \cup Ended
          BY DEF Mourning, Ended
        <5>3. local_input_'[w] \cup local_output_'[w] # {} => WillCheck(w)'
          BY <3>1, <3>4, <3>6, <4>2
        <5> QED BY <3>1, <3>4, <3>6, <4>2, <5>1, <5>2, <5>3 DEF Leftover
      <4> QED BY <3>1, <3>2, <3>3, <3>5, <3>6, <4>1, <4>2, <1>WorkingStep
    <3>7. CASE /\ pc' = [pc EXCEPT ![w] = l]
               /\ ~more_to_mark'[w] => scan'[w] \subseteq marked
      <4>1. WillCheck(w) /\ Now(w)' = l => WillCheck(w)' BY <3>1, <3>3 DEF WillCheck
      <4> QED BY <3>6, <3>7, <4>1
    <3>8. CASE /\ pc' = [pc EXCEPT ![w] = IF more_to_mark[w] THEN "again" ELSE n]
               /\ scan'[w] = {} /\ pending'[w] = {}
               /\ UNCHANGED <<delayed_, more_to_mark>>
      <4> DEFINE x == IF more_to_mark[w] THEN "again" ELSE n
      <4>1. x \in {"again", "idle"} BY <2>0
      <4>2. WillCheck(w) /\ Now(w)' = x => WillCheck(w)'
        BY <2>1, <3>1, <3>3 DEF WillCheck
      <4> HIDE DEF x
      <4>3. pc' = [pc EXCEPT ![w] = x] BY <3>8 DEF x
      <4> QED BY <3>6, <3>8, <4>1, <4>2, <4>3
    <3> QED BY <3>1, <3>7, <3>8
  <2> QED BY <2>1
<1>WaitPlace.
      ASSUME BarrierInv, TraceInv, PlaceInv, NEW w \in Worker, Idle(w) \/ Wake(w)
      PROVE  PlaceInv'
  <2> USE <1>WaitPlace
  <2> USE DEF heapVars, sliceVars, workVars, Goto
  <2>0. /\ pc \in [Worker -> Loc] /\ local_input_ \in [Worker -> SUBSET Obj]
        /\ root_slices_started_ \in Nat /\ stack \subseteq SUBSET Obj
    BY DEF TraceInv, DataTypes, BarrierInv, SyncTypes
  <2>1. /\ UNCHANGED <<heap, live, marked, deferred, local_deferred, delayed_, global_list_,
                       scan, acquire, pending, root_slices_started_, weak_slices_started_,
                       cleared, slots, more_to_mark, local_output_, barrier, arrived, debug>>
        /\ pc[w] \in {"idle", "waiting"}
    BY DEF Idle, Wake, WaitForWork, WaitForWorkWake
  <2>2. pc[w] \in Working \ BarrierLoc BY <2>1 DEF Working, BarrierLoc
  <2>3. Leftover(w) /\ Now(w) = pc[w] /\ ~WillCheck(w)
    BY <2>1, <2>2, NowIsPc DEF PlaceInv, WillCheck
  <2>4. /\ scan[w] = {} /\ acquire[w] = {} /\ pending[w] = {}
        /\ local_input_[w] = {} /\ local_output_[w] = {}
        /\ \A o \in local_deferred[w] : Is(o, "code")
    BY <2>1, <2>3 DEF Leftover
  <2>5. \/ /\ UNCHANGED <<stack, local_input_>>
           /\ \E x \in {"stopped", "waiting"} : pc' = [pc EXCEPT ![w] = x]
        \/ /\ stack # {} /\ pc' = [pc EXCEPT ![w] = "first"]
           /\ \A v \in Worker \ {w} : local_input_'[v] = local_input_[v]
    BY <2>0 DEF Idle, Wake, WaitForWork, WaitForWorkWake, TakeBlockOrWait
  <2>6. ASSUME NEW x \in {"stopped", "waiting", "first"}, pc' = [pc EXCEPT ![w] = x],
               \A v \in Worker \ {w} : local_input_'[v] = local_input_[v],
               x = "first" \/ (local_input_'[w] = {} /\ stack' = stack)
        PROVE  PlaceInv'
    <3>1. x \in Working BY DEF Working
    <3>2. \A v \in Worker \ {w} : Kept(v) BY <2>1, <2>6 DEF Kept
    <3>3. ASSUME Now(w)' = x
          PROVE  /\ Leftover(w)'
                 /\ WillCheck(w)' \/ stack' = {} \/ (~WillCheck(w) /\ stack # {})
      <4>1. \A o \in local_deferred'[w] : Is(o, "code")' BY <2>1, <2>4 DEF Is
      <4>2. x \notin {"queued", "gone", "marked", "weak_roots", "end"} \cup Mourning \cup Ended
        BY DEF Mourning, Ended
      <4>3. x = "first" => WillCheck(w)' BY <3>3 DEF WillCheck
      <4> QED BY <2>1, <2>3, <2>4, <2>6, <3>3, <4>1, <4>2, <4>3 DEF Leftover
    <3>4. /\ global_list_' \subseteq global_list_ /\ deferred' \subseteq deferred
          /\ root_slices_started_' \in Nat /\ root_slices_started_' >= root_slices_started_
          /\ barrier'.generation = barrier.generation /\ pc[w] # "launch"
          /\ marked \subseteq marked'
          /\ pc[w] \notin {"launch", "start", "roots", "deferred"}
      BY <2>0, <2>1, SMT
    <3> QED BY <2>1, <2>2, <2>6, <3>1, <3>2, <3>3, <3>4, <1>WorkingStep
  <2> QED BY <2>4, <2>5, <2>6
\* A step of a worker between the barrier where the marking stack was empty and
\* the decision to stop: what was judged dead stays so.
<1>JudgeStep.
      ASSUME BarrierInv, TraceInv, PlaceInv, NEW w \in Worker, NEW x,
             NEW S \in {Checking, Pending, Deciding}, pc[w] \in S \ BarrierLoc, x \in S,
             pc' = [pc EXCEPT ![w] = x], UNCHANGED <<arrived, debug, barrier>>,
             \A v \in Worker \ {w} : Kept(v),
             UNCHANGED <<heap, live, cleared, slots, weak_slices_started_, marked, deferred,
                         local_deferred, global_list_, acquire, root_slices_started_,
                         stack, local_input_, local_output_>>,
             Now(w) = pc[w] /\ Now(w)' = x /\ WillCheck(w) => WillCheck(w)',
             scan'[w] # {} => x = "pending", pending'[w] # {} => x = "pending",
             x = "pending" /\ ~more_to_mark'[w] => scan'[w] \subseteq marked,
             pc[w] \in Judging /\ more_to_mark[w] => x \in Judging /\ more_to_mark'[w],
             x \in Judging => \A o \in delayed_'[w] :
               Is(o, "property") => Dead(o) \/ (pc[w] \in Judging /\ o \in delayed_[w])
      PROVE  PlaceInv'
  <2> USE <1>JudgeStep
  <2>0. /\ x \in Loc /\ pc[w] \notin BarrierLoc /\ S \in Sections \ {Ended}
        /\ heap \in Heaps /\ root_slices_started_ \in Nat
        /\ x \in Early
    <3>1. S \in Sections \ {Ended} BY EarlyFacts
    <3>2. x \in Early BY DEF Early
    <3> QED BY <3>1, <3>2, SectionFacts DEF TraceInv, DataTypes
  <2>1. /\ Now(w) = pc[w] /\ Now(w)' = x
        /\ \A v \in Worker \ {w} : Now(v)' = Now(v)
    BY <2>0, StepNow DEF Kept
  <2>2. \A v \in Worker \ {w} : Untouched(v) BY <2>1 DEF Untouched
  <2>3. Now(Main) \in S /\ Now(Main)' \in S /\ S \subseteq Early
    <3>1. Now(Main) \in S BY <2>0, <2>1, NowSection
    <3> QED BY <2>1, <3>1, MainIsWorker DEF Early
  <2>4. Leftover(w)'
    <3>1. Leftover(w) BY DEF PlaceInv
    <3>2. /\ pc[w] \notin {"none", "launch", "deferred", "deferred2"}
          /\ x \notin {"queued", "gone", "marked", "weak_roots", "end", "first_weak"}
                      \cup Mourning \cup Ended
      BY DEF Checking, Pending, Deciding, Mourning, Ended
    <3>3. \A o \in local_deferred'[w] : Is(o, "code")' BY <2>1, <3>1, <3>2, ZenonT(30) DEF Leftover, Is
    <3>4. acquire'[w] = {} BY <2>1, <3>1, <3>2, ZenonT(30) DEF Leftover
    <3>5. local_input_'[w] \cup local_output_'[w] # {} => WillCheck(w)'
      BY <2>1, <3>1 DEF Leftover
    <3> QED BY <2>1, <3>2, <3>3, <3>4, <3>5, ZenonT(30) DEF Leftover
  <2>5. MainHasDone'
    <3>1. Now(Main) \notin {"launch", "start", "roots", "deferred"}
      BY <2>3 DEF Checking, Pending, Deciding
    <3>2. root_slices_started_' \in Nat /\ root_slices_started_' >= root_slices_started_
      BY <2>0, SameIsNoLess
    <3> QED BY <2>0, <3>1, <3>2, <1>MainSame
  <2>6. ASSUME stack' # {} PROVE \E v \in Worker : WillCheck(v)'
    <3>1. PICK v \in Worker : WillCheck(v) BY <2>6 DEF PlaceInv
    <3>2. CASE v = w BY <2>1, <3>1, <3>2
    <3>3. CASE v # w BY <2>2, <3>1, <3>3, LeftoverSame, ZenonT(30)
    <3> QED BY <3>2, <3>3
  <2>7. Judged'
    <3>1. \A o : (Is(o, "property")' <=> Is(o, "property")) /\ (Dead(o)' <=> Dead(o))
      BY DEF Is, Dead, IsMarked
    <3>2. CASE \E v \in Worker : Now(v) \in Judging /\ more_to_mark[v]
      <4>1. PICK v \in Worker : Now(v) \in Judging /\ more_to_mark[v] BY <3>2
      <4>2. Now(v)' \in Judging /\ more_to_mark'[v]
        <5>1. CASE v = w BY <2>1, <4>1, <5>1
        <5>2. CASE v # w BY <2>1, <4>1, <5>2 DEF Kept
        <5> QED BY <5>1, <5>2, ZenonT(30)
      <4> QED BY <4>2 DEF Judged
    <3>3. CASE \A v \in Worker : Now(v) \in Judging =>
                 \A o \in delayed_[v] : Is(o, "property") => Dead(o)
      <4>1. ASSUME NEW v \in Worker, Now(v)' \in Judging, NEW o \in delayed_'[v],
                   Is(o, "property")
            PROVE  Dead(o)
        <5>1. CASE v = w BY <2>1, <3>3, <4>1, <5>1
        <5>2. CASE v # w BY <2>1, <3>3, <4>1, <5>2, ZenonT(30) DEF Kept
        <5> QED BY <5>1, <5>2
      <4> QED BY <3>1, <4>1 DEF Judged
    <3> QED BY <3>2, <3>3 DEF PlaceInv, Judged
  <2> QED BY <2>2, <2>3, <2>4, <2>5, <2>6, <2>7, <1>EarlyStep
<1>JudgingPlace.
      ASSUME BarrierInv, TraceInv, PlaceInv, NEW w \in Worker,
             \/ Check(w)
             \/ StartPending(w)
             \/ ProcessPendingWeakProperties(w, "pending", "announce", "announced")
             \/ Announce(w)
             \/ Decide(w)
      PROVE  PlaceInv'
  <2> USE <1>JudgingPlace
  <2> USE DEF shareVars, heapVars, sliceVars, workVars, blockVars, Goto
  <2>0. /\ pc \in [Worker -> Loc] /\ more_to_mark \in [Worker -> BOOLEAN]
        /\ delayed_ \in [Worker -> SUBSET Obj] /\ pending \in [Worker -> SUBSET Obj]
        /\ scan \in [Worker -> SUBSET Obj]
        /\ Leftover(w)
    BY DEF BarrierInv, SyncTypes, TraceInv, DataTypes, PlaceInv
  <2>1. pc[w] \notin BarrierLoc => Now(w) = pc[w] BY NowIsPc
  <2>2. CASE Check(w)
    <3>1. /\ pc[w] = "check" /\ pc' = [pc EXCEPT ![w] = "checked"]
          /\ UNCHANGED <<arrived, debug, barrier, heap, live, cleared, slots, marked,
                         weak_slices_started_, deferred, local_deferred, global_list_,
                         acquire, root_slices_started_, stack, local_input_, local_output_,
                         scan, pending, delayed_, more_to_mark>>
      BY <2>2 DEF Check, CheckedSync
    <3>2. pc[w] \in Checking \ BarrierLoc /\ "checked" \in Checking /\ "checked" \notin Judging
          /\ pc[w] \notin Judging
      BY <3>1 DEF Checking, BarrierLoc, Judging
    <3>3. scan[w] = {} /\ pending[w] = {} /\ ~WillCheck(w)
      BY <2>0, <2>1, <3>1, <3>2 DEF Leftover, WillCheck
    <3>4. \A v \in Worker \ {w} : Kept(v) BY <3>1 DEF Kept
    <3> QED BY <3>1, <3>2, <3>3, <3>4, <1>JudgeStep, ZenonT(30)
  <2>3. CASE StartPending(w)
    <3>1. /\ pc[w] = "begin_pending" /\ pc' = [pc EXCEPT ![w] = "pending"]
          /\ UNCHANGED <<arrived, debug, barrier, heap, live, cleared, slots, marked,
                         weak_slices_started_, deferred, local_deferred, global_list_,
                         acquire, root_slices_started_, stack, local_input_, local_output_,
                         scan>>
          /\ \A v \in Worker \ {w} : /\ pending'[v] = pending[v] /\ delayed_'[v] = delayed_[v]
                                     /\ more_to_mark'[v] = more_to_mark[v]
          /\ \A o \in delayed_'[w] : ~Is(o, "property")
      BY <2>0, <2>3 DEF StartPending, BeginPending
    <3>2. pc[w] \in Pending \ BarrierLoc /\ "pending" \in Pending /\ pc[w] \notin Judging
      BY <3>1 DEF Pending, BarrierLoc, Judging
    <3>3. scan[w] = {} /\ ~WillCheck(w)
      BY <2>0, <2>1, <3>1, <3>2, ZenonT(30) DEF Leftover, WillCheck
    <3>4. \A v \in Worker \ {w} : Kept(v) BY <3>1 DEF Kept
    <3> QED BY <3>1, <3>2, <3>3, <3>4, <1>JudgeStep, ZenonT(30)
  <2>4. CASE ProcessPendingWeakProperties(w, "pending", "announce", "announced")
    <3>1. /\ pc[w] = "pending" /\ scan[w] = {}
          /\ UNCHANGED <<heap, live, marked, deferred, local_deferred, global_list_, acquire,
                         slots, root_slices_started_, weak_slices_started_, cleared,
                         barrier, arrived, debug, stack, local_input_, local_output_>>
          /\ \A v \in Worker \ {w} : Kept(v)
          /\ more_to_mark[w] => more_to_mark'[w]
          /\ \/ /\ pc' = [pc EXCEPT ![w] = "pending"]
                /\ ~more_to_mark'[w] => scan'[w] \subseteq marked
                /\ \A o \in delayed_'[w] : o \in delayed_[w] \/ Dead(o)
             \/ /\ pc' = [pc EXCEPT ![w] = IF more_to_mark[w] THEN "announce" ELSE "announced"]
                /\ scan'[w] = {} /\ pending'[w] = {}
                /\ UNCHANGED <<delayed_, more_to_mark>>
      <4>1. "pending" \in Loc \ BarrierLoc BY DEF Loc, Sections, Pending, BarrierLoc
      <4> QED BY <2>4, <4>1, <1>PendingFacts, ZenonT(30)
    <3>2. PICK x \in {"pending", "announce", "announced"} :
            /\ pc' = [pc EXCEPT ![w] = x]
            /\ \A o \in delayed_'[w] : o \in delayed_[w] \/ Dead(o)
            /\ x = "pending" /\ ~more_to_mark'[w] => scan'[w] \subseteq marked
            /\ scan'[w] # {} => x = "pending"
            /\ pending'[w] # {} => x = "pending"
      BY <3>1
    <3>3. pc[w] \in Pending \ BarrierLoc /\ x \in Pending /\ pc[w] \in Judging /\ x \in Judging
      BY <3>1 DEF Pending, BarrierLoc, Judging
    <3>4. ASSUME Now(w) = pc[w], Now(w)' = x, WillCheck(w) PROVE WillCheck(w)'
      BY <3>1, <3>4 DEF WillCheck
    <3> QED BY <3>1, <3>2, <3>3, <3>4, <1>JudgeStep, ZenonT(30)
  <2>5. CASE Announce(w)
    <3>1. /\ pc[w] = "announce" /\ pc' = [pc EXCEPT ![w] = "announced"]
          /\ UNCHANGED <<arrived, debug, barrier, heap, live, cleared, slots, marked,
                         weak_slices_started_, deferred, local_deferred, global_list_,
                         acquire, root_slices_started_, stack, local_input_, local_output_,
                         scan, pending, delayed_, more_to_mark>>
      BY <2>5 DEF Announce
    <3>2. pc[w] \in Pending \ BarrierLoc /\ "announced" \in Pending /\ "announced" \in Judging
          /\ pc[w] \in Judging
      BY <3>1 DEF Pending, BarrierLoc, Judging
    <3>3. scan[w] = {} /\ pending[w] = {}
      BY <2>0, <2>1, <3>1, <3>2, ZenonT(30) DEF Leftover
    <3>4. ASSUME Now(w) = pc[w], Now(w)' = "announced", WillCheck(w) PROVE WillCheck(w)'
      BY <3>1, <3>4 DEF WillCheck
    <3>5. \A v \in Worker \ {w} : Kept(v) BY <3>1 DEF Kept
    <3> QED BY <3>1, <3>2, <3>3, <3>4, <3>5, <1>JudgeStep, ZenonT(30)
  <2>6. CASE Decide(w)
    <3>1. /\ pc[w] = "decide" /\ pc' = [pc EXCEPT ![w] = "decided"]
          /\ UNCHANGED <<arrived, debug, barrier, heap, live, cleared, slots, marked,
                         weak_slices_started_, deferred, local_deferred, global_list_,
                         acquire, root_slices_started_, stack, local_input_, local_output_,
                         scan, pending, delayed_>>
          /\ more_to_mark[w] => more_to_mark'[w]
          /\ \A v \in Worker \ {w} : more_to_mark'[v] = more_to_mark[v]
      BY <2>0, <2>6 DEF Decide, AfterDecision
    <3>2. pc[w] \in Deciding \ BarrierLoc /\ "decided" \in Deciding /\ "decided" \in Judging
          /\ pc[w] \in Judging
      BY <3>1 DEF Deciding, BarrierLoc, Judging
    <3>3. scan[w] = {} /\ pending[w] = {}
      BY <2>0, <2>1, <3>1, <3>2, ZenonT(30) DEF Leftover
    <3>4. ASSUME Now(w) = pc[w], Now(w)' = "decided", WillCheck(w) PROVE WillCheck(w)'
      BY <3>1, <3>4 DEF WillCheck
    <3>5. \A v \in Worker \ {w} : Kept(v) BY <3>1 DEF Kept
    <3> QED BY <3>1, <3>2, <3>3, <3>4, <3>5, <1>JudgeStep, ZenonT(30)
  <2> QED BY <2>2, <2>3, <2>4, <2>5, <2>6
\* A step of a worker after the decision to stop and before the last barrier.
<1>LateStep.
      ASSUME BarrierInv, TraceInv, PlaceInv, NEW w \in Worker, NEW x,
             NEW S \in {Deferring, Mourning}, pc[w] \in S \ BarrierLoc, x \in S,
             pc' = [pc EXCEPT ![w] = x], UNCHANGED <<arrived, debug, barrier>>,
             \A v \in Worker \ {w} : Kept(v),
             UNCHANGED <<heap, live, deferred, global_list_, root_slices_started_, stack>>,
             marked \subseteq marked',
             scan'[w] = {}, pending'[w] = pending[w],
             local_input_'[w] = local_input_[w], local_output_'[w] = local_output_[w],
             acquire'[w] # {} => x = "deferred2",
             local_deferred'[w] \subseteq local_deferred[w],
             local_deferred'[w] # {} => x = "deferred2",
             delayed_'[w] \subseteq delayed_[w],
             x \in {"weak_roots", "end"} => \A o \in delayed_'[w] : Is(o, "entry"),
             \A o \in live : (o \in marked \/ Held(o) \/ \E v \in Worker : o \in acquire[v])',
             Now(w) = pc[w] /\ Now(w)' = x /\ Now(Main) \in S /\ Now(Main)' \in S => Cleared'
      PROVE  PlaceInv'
  <2> USE <1>LateStep
  <2>0. /\ x \in Loc /\ pc[w] \notin BarrierLoc /\ S \in Sections \ {Ended}
        /\ heap \in Heaps /\ root_slices_started_ \in Nat
        /\ S \subseteq Deferring \cup Mourning
    <3>1. "mourn" \in Mourning /\ "mourn" \notin Ended /\ "marked" \in Deferring
          /\ "marked" \notin Ended
      BY DEF Mourning, Ended, Deferring
    <3>2. S \in Sections \ {Ended} BY <3>1 DEF Sections
    <3> QED BY <3>2, SectionFacts DEF TraceInv, DataTypes
  <2>1. /\ Now(w) = pc[w] /\ Now(w)' = x
        /\ \A v \in Worker \ {w} : Now(v)' = Now(v)
    BY <2>0, StepNow DEF Kept
  <2>2. \A v \in Worker \ {w} : Untouched(v) BY <2>1 DEF Untouched
  <2>3. Now(Main) \in S /\ Now(Main)' \in S /\ \A v \in Worker : Now(v) \in S \cup Outside
    <3>1. Now(Main) \in S /\ \A v \in Worker : Now(v) \in S \cup Outside
      <4>1. Now(w) \in S BY <2>1
      <4>2. S \in Sections \ {Ended} BY <2>0
      <4> QED BY <4>1, <4>2, NowSection
    <3> QED BY <2>1, <3>1, MainIsWorker
  <2>4. Leftover(w)'
    <3>1. Leftover(w) /\ ~WillCheck(w) BY <2>0, <2>3, NoneChecks, ZenonT(30) DEF PlaceInv
    <3>2. /\ pc[w] \notin {"none", "launch", "first_weak", "weak", "pending"}
          /\ x \notin {"queued", "gone", "release", "finalize", "done", "first_weak", "pending"}
          /\ "deferred2" \notin {"queued", "gone", "marked"} \cup Mourning \cup Ended
      BY DEF Deferring, Mourning, Ended
    <3>3. \A o \in local_deferred'[w] : Is(o, "code")' BY <2>1, <3>1, <3>2 DEF Leftover, Is
    <3>4. pending'[w] = {} /\ local_input_'[w] \cup local_output_'[w] = {}
      BY <2>1, <3>1, <3>2 DEF Leftover
    <3>5. \A o : Is(o, "entry")' <=> Is(o, "entry") BY DEF Is
    <3> QED BY <2>1, <3>2, <3>3, <3>4, <3>5 DEF Leftover, Ended
  <2>5. MainHasDone'
    <3>1. Now(Main) \notin {"launch", "start", "roots", "deferred"}
      BY <2>3 DEF Deferring, Mourning
    <3>2. root_slices_started_' \in Nat /\ root_slices_started_' >= root_slices_started_
      BY <2>0, SameIsNoLess
    <3> QED BY <2>0, <3>1, <3>2, <1>MainSame
  <2>6. stack' = {}
    <3>1. \A v \in Worker : ~WillCheck(v) BY <2>0, <2>3, NoneChecks, ZenonT(30)
    <3> QED BY <3>1 DEF PlaceInv
  <2>7. Judged'
    <3>1. \A v \in Worker : Now(v)' \in S \cup Outside BY <2>1, <2>3
    <3>2. \A v \in Worker : Now(v)' \notin Judging
      <4>1. (S \cup Outside) \cap Judging = {} BY DEF Deferring, Mourning, Outside, Judging
      <4> QED BY <3>1, <4>1, ZenonT(30)
    <3> QED BY <3>2 DEF Judged
  <2>8. Complete'
    <3>1. \A v \in Worker : delayed_'[v] \subseteq delayed_[v] BY DEF Kept
    <3>2. Stopping BY <2>0, <2>3 DEF Stopping
    <3>3. \A v \in Worker : \A o \in delayed_'[v] : Is(o, "property")' => heap'.key[o] \notin live'
      BY <3>1, <3>2, ZenonT(30) DEF PlaceInv, Complete, Is
    <3> QED BY <3>3, ZenonT(30) DEF Complete
  <2>9. Cleared' BY <2>1, <2>3, ZenonT(30)
  <2>10. \A v \in Worker : Leftover(v)' BY <2>2, <2>4, LeftoverSame, ZenonT(30)
  <2> QED BY <2>5, <2>6, <2>7, <2>8, <2>9, <2>10, ZenonT(30) DEF PlaceInv
<1>LastDeferredPlace.
      ASSUME BarrierInv, TraceInv, PlaceInv, NEW w \in Worker,
             ProcessDeferredMarking(w, "deferred2", "marked")
      PROVE  PlaceInv'
  <2> USE <1>LastDeferredPlace
  <2> USE DEF shareVars, heapVars, blockVars, sliceVars, Goto
  <2>0. /\ scan \in [Worker -> SUBSET Obj] /\ heap \in Heaps
        /\ pc \in [Worker -> Loc] /\ local_deferred \in [Worker -> SUBSET Obj]
        /\ acquire \in [Worker -> SUBSET Obj]
    BY DEF TraceInv, DataTypes, BarrierInv, SyncTypes
  <2>1. /\ scan[w] = {} /\ pc[w] = "deferred2"
        /\ UNCHANGED <<heap, live, delayed_, global_list_, root_slices_started_, slots,
                       pending, weak_slices_started_, cleared, stack, local_input_,
                       local_output_, barrier, arrived, debug, more_to_mark>>
    BY DEF ProcessDeferredMarking, Rescans, At
  <2>2. Now(w) = "deferred2" /\ Leftover(w)
    BY <2>1, NowIsPc, ZenonT(30) DEF BarrierLoc, PlaceInv
  <2>3. \A o \in local_deferred[w] : Is(o, "code") BY <2>2 DEF Leftover
  <2>4. Deferring \in Sections \ {Ended}
    <3>1. "marked" \in Deferring /\ "marked" \notin Ended BY DEF Deferring, Ended
    <3> QED BY <3>1 DEF Sections
  <2>5. Now(Main) \in Deferring BY <2>2, <2>4, NowSection DEF Deferring
  <2>6. deferred = {} /\ cleared = {}
    <3>1. Now(Main) \notin {"launch", "start", "roots", "deferred"}
          /\ Now(Main) \notin Mourning \cup Ended
      BY <2>5 DEF Deferring, Mourning, Ended
    <3> QED BY <3>1 DEF PlaceInv, MainHasDone, Cleared
  <2>7. \A o \in live : o \in marked \/ Held(o) \/ \E v \in Worker : o \in acquire[v]
    BY <2>5 DEF PlaceInv, Complete, Stopping
  <2>8. ASSUME NEW x \in Deferring, pc' = [pc EXCEPT ![w] = x],
               \A v \in Worker \ {w} : /\ scan'[v] = scan[v] /\ acquire'[v] = acquire[v]
                                       /\ local_deferred'[v] = local_deferred[v],
               scan'[w] = {}, deferred' = deferred, marked \subseteq marked',
               local_deferred'[w] \subseteq local_deferred[w],
               x # "deferred2" => local_deferred'[w] = {} /\ acquire'[w] = {},
               local_deferred[w] \cup acquire[w]
                 \subseteq local_deferred'[w] \cup acquire'[w] \cup marked'
        PROVE  PlaceInv'
    <3>1. \A v \in Worker \ {w} : Kept(v) BY <2>1, <2>8 DEF Kept
    <3>2. pc[w] \in Deferring \ BarrierLoc BY <2>1 DEF Deferring, BarrierLoc
    <3>3. ASSUME NEW o \in live
          PROVE  (o \in marked \/ Held(o) \/ \E v \in Worker : o \in acquire[v])'
      <4>1. \A v \in Worker : o \in local_deferred[v] =>
              o \in local_deferred'[v] \/ o \in acquire'[v] \/ o \in marked'
        BY <2>8
      <4>2. \A v \in Worker : o \in acquire[v] =>
              o \in local_deferred'[v] \/ o \in acquire'[v] \/ o \in marked'
        BY <2>8
      <4> QED BY <2>6, <2>7, <2>8, <4>1, <4>2, ZenonT(30) DEF Held
    <3>4. x \notin {"weak_roots", "end"} BY DEF Deferring
    <3>5. ASSUME Now(Main)' \in Deferring PROVE Cleared'
      <4>1. Now(Main)' \notin {"end"} \cup Ended BY <3>5 DEF Deferring, Ended
      <4> QED BY <2>1, <2>6, <4>1, ZenonT(30) DEF PlaceInv, Cleared
    <3> QED BY <2>1, <2>8, <3>1, <3>2, <3>3, <3>4, <3>5, <1>LateStep, ZenonT(30)
  <2>9. "deferred2" \in Deferring /\ "marked" \in Deferring
        /\ (UNCHANGED pc => pc' = [pc EXCEPT ![w] = "deferred2"])
    BY <2>0, <2>1 DEF Deferring
  <2>10. CASE /\ acquire[w] # {} /\ marked' = marked \cup acquire[w]
              /\ acquire' = [acquire EXCEPT ![w] = {}]
              /\ UNCHANGED <<pc, scan, deferred, local_deferred>>
    <3>1. /\ \A v \in Worker \ {w} : acquire'[v] = acquire[v]
          /\ local_deferred[w] \cup acquire[w] \subseteq local_deferred'[w] \cup marked'
      BY <2>0, <2>10
    <3> QED BY <2>1, <2>8, <2>9, <2>10, <3>1, ZenonT(30)
  <2>11. ASSUME NEW o \in local_deferred[w],
                local_deferred' = [local_deferred EXCEPT ![w] = @ \ {o}], deferred' = deferred,
                Visit(w, DeferredPtrs(o)), acquire[w] = {},
                acquire' = [acquire EXCEPT ![w] = {o}], UNCHANGED <<pc, marked>>
         PROVE  PlaceInv'
    <3>1. DeferredPtrs(o) = {} BY <2>0, <2>3, <2>11, HeapFacts, ZenonT(30) DEF DeferredPtrs
    <3>2. /\ scan'[w] = {} /\ \A v \in Worker \ {w} : scan'[v] = scan[v]
      BY <2>0, <2>11, <3>1 DEF Visit
    <3>3. /\ local_deferred'[w] = local_deferred[w] \ {o} /\ acquire'[w] = {o}
          /\ \A v \in Worker \ {w} : acquire'[v] = acquire[v]
                                      /\ local_deferred'[v] = local_deferred[v]
      BY <2>0, <2>11
    <3> QED BY <2>8, <2>9, <2>11, <3>2, <3>3, ZenonT(30)
  <2>12. CASE /\ acquire[w] \cup local_deferred[w] \cup deferred = {}
              /\ pc' = [pc EXCEPT ![w] = "marked"]
              /\ UNCHANGED <<marked, scan, acquire, deferred, local_deferred>>
    BY <2>1, <2>8, <2>9, <2>12, ZenonT(30)
  <2> QED BY <2>6, <2>10, <2>11, <2>12, SMT DEF ProcessDeferredMarking, Rescans
<1>MournPlace.
      ASSUME BarrierInv, TraceInv, PlaceInv, NEW w \in Worker, Mourn(w)
      PROVE  PlaceInv'
  <2> USE <1>MournPlace
  <2> USE DEF shareVars, heapVars, blockVars, Goto
  <2> DEFINE mine == {o \in delayed_[w] : ~Is(o, "entry")}
  <2>0. pc \in [Worker -> Loc] /\ delayed_ \in [Worker -> SUBSET Obj]
    BY DEF TraceInv, DataTypes, BarrierInv, SyncTypes
  <2>1. /\ pc[w] = "mourn" /\ scan[w] = {} /\ pc' = [pc EXCEPT ![w] = "weak_roots"]
        /\ UNCHANGED <<heap, live, marked, deferred, local_deferred, global_list_, scan,
                       acquire, pending, root_slices_started_, slots, weak_slices_started_,
                       stack, local_input_, local_output_, barrier, arrived, debug,
                       more_to_mark>>
        /\ cleared' = cleared \cup {o \in mine : Is(o, "property") \/ Dead(o)}
        /\ delayed_' = [delayed_ EXCEPT ![w] = @ \ mine]
    BY DEF Mourn, At
  <2>2. /\ \A o \in delayed_'[w] : o \in delayed_[w] /\ Is(o, "entry")
        /\ \A v \in Worker \ {w} : delayed_'[v] = delayed_[v]
    BY <2>0, <2>1
  <2>3. pc[w] \in Mourning \ BarrierLoc /\ "weak_roots" \in Mourning
        /\ Mourning \in Sections \ {Ended}
    <3>1. "mourn" \in Mourning /\ "mourn" \notin Ended BY DEF Mourning, Ended
    <3> QED BY <2>1, <3>1 DEF Sections, Mourning, BarrierLoc
  <2>4. Now(w) = pc[w] /\ Leftover(w) BY <2>3, NowIsPc DEF PlaceInv
  <2>5. acquire[w] = {} /\ local_deferred[w] = {}
    BY <2>1, <2>3, <2>4, ZenonT(30) DEF Leftover
  <2>6. Now(Main) \in Mourning BY <2>3, <2>4, NowSection
  <2>7. marked = live BY <2>6, MarkedIsLive
  <2>8. \A o \in live : (o \in marked \/ Held(o) \/ \E v \in Worker : o \in acquire[v])'
    BY <2>1, <2>7
  <2>9. \A o \in cleared' : o \in marked /\ Weak(o) /\ heap.key[o] \notin live
    <3>1. SUFFICES ASSUME NEW o \in mine, Is(o, "property") \/ Dead(o)
                   PROVE  o \in marked /\ Weak(o) /\ heap.key[o] \notin live
      BY <2>1 DEF PlaceInv, Cleared
    <3>2. o \in Obj /\ Listed(o) BY <2>0 DEF Listed
    <3>3. o \in marked /\ Weak(o) BY <3>2 DEF TraceInv, ListedOnce
    <3>4. Is(o, "property") => heap.key[o] \notin live
      BY <2>6 DEF PlaceInv, Complete, Stopping
    <3> QED BY <2>7, <3>1, <3>3, <3>4, ZenonT(30) DEF Dead, IsMarked
  <2> HIDE DEF mine
  <2>10. ASSUME Now(w)' = "weak_roots", Now(Main)' \in Mourning PROVE Cleared'
    <3>1. \A o : Weak(o)' <=> Weak(o) BY <2>1 DEF Weak, M!Weak
    <3>2. \A o \in cleared' : o \in marked' /\ Weak(o)' /\ heap'.key[o] \notin live'
      BY <2>1, <2>9, <3>1
    <3>3. Now(Main)' \in {"end"} \cup Ended => Now(Main) \in {"end"} \cup Ended
      <4>1. CASE w = Main BY <2>10, <4>1 DEF Ended
      <4>2. CASE w # Main
        <5>1. "weak_roots" \in Loc /\ pc[w] \notin BarrierLoc
          BY <2>3 DEF Loc, Sections
        <5> QED BY <2>1, <4>2, <5>1, StepNow, MainIsWorker, ZenonT(30)
      <4> QED BY <4>1, <4>2
    <3> QED BY <2>1, <2>10, <3>2, <3>3, ZenonT(30) DEF PlaceInv, Cleared
  <2>11. \A v \in Worker \ {w} : Kept(v) BY <2>1, <2>2, ZenonT(30) DEF Kept
  <2> QED BY <2>1, <2>2, <2>3, <2>5, <2>8, <2>10, <2>11, <1>LateStep, ZenonT(30)
<1>WeakRootsPlace.
      ASSUME BarrierInv, TraceInv, PlaceInv, NEW w \in Worker, IterateWeakRoots(w)
      PROVE  PlaceInv'
  <2> USE <1>WeakRootsPlace
  <2> USE DEF shareVars, heapVars, workVars, blockVars, Goto
  <2> DEFINE n == weak_slices_started_
             x == IF n + 1 \in DOMAIN slots THEN "weak_roots" ELSE "end"
  <2>0. /\ pc \in [Worker -> Loc] /\ n \in Nat
        /\ Len(WeakSlots) \in Nat /\ DOMAIN WeakSlots = 1..Len(WeakSlots)
        /\ DOMAIN slots = DOMAIN WeakSlots
    BY SlotFacts DEF TraceInv, DataTypes, BarrierInv, SyncTypes, PlaceInv, Cleared
  <2>1. /\ pc[w] = "weak_roots" /\ scan[w] = {} /\ pc' = [pc EXCEPT ![w] = x]
        /\ UNCHANGED <<heap, live, marked, deferred, local_deferred, global_list_, scan,
                       acquire, pending, root_slices_started_, delayed_, cleared,
                       stack, local_input_, local_output_, barrier, arrived, debug,
                       more_to_mark>>
        /\ weak_slices_started_' = n + 1
        /\ slots' = IF n + 1 \in DOMAIN slots
                    THEN [slots EXCEPT ![n + 1] = @ \cap marked] ELSE slots
    BY <2>0 DEF IterateWeakRoots, At, LastSync
  <2>2. pc[w] \in Mourning \ BarrierLoc /\ x \in Mourning /\ Mourning \in Sections \ {Ended}
    <3>1. "mourn" \in Mourning /\ "mourn" \notin Ended BY DEF Mourning, Ended
    <3> QED BY <2>1, <3>1 DEF Sections, Mourning, BarrierLoc
  <2>3. Now(w) = pc[w] /\ Leftover(w) BY <2>2, NowIsPc DEF PlaceInv
  <2>4. /\ acquire[w] = {} /\ local_deferred[w] = {}
        /\ \A o \in delayed_[w] : Is(o, "entry")
    BY <2>1, <2>2, <2>3 DEF Leftover
  <2>5. Now(Main) \in Mourning BY <2>2, <2>3, NowSection
  <2>6. marked = live BY <2>5, MarkedIsLive
  <2>7. \A o \in live : (o \in marked \/ Held(o) \/ \E v \in Worker : o \in acquire[v])'
    BY <2>1, <2>6
  <2>8. x = "end" => \A s \in DOMAIN slots : s <= n BY <2>0, SMT
  <2>9. \A s \in DOMAIN WeakSlots :
          slots'[s] = IF s <= n + 1 THEN WeakSlots[s] \cap live ELSE WeakSlots[s]
    <3>1. SUFFICES ASSUME NEW s \in DOMAIN WeakSlots
                   PROVE  slots'[s] = IF s <= n + 1 THEN WeakSlots[s] \cap live
                                      ELSE WeakSlots[s]
      OBVIOUS
    <3>2. slots[s] = IF s <= n THEN WeakSlots[s] \cap live ELSE WeakSlots[s]
      BY DEF PlaceInv, Cleared
    <3>3. s \in Nat BY <2>0, SMT
    <3>4. CASE n + 1 \in DOMAIN slots
      <4>1. slots' = [slots EXCEPT ![n + 1] = @ \cap marked] BY <2>1, <3>4
      <4>2. CASE s = n + 1
        <5>1. slots'[s] = WeakSlots[s] \cap marked BY <2>0, <3>2, <4>1, <4>2, SMT
        <5> QED BY <2>0, <2>6, <4>2, <5>1, SMT
      <4>3. CASE s # n + 1
        <5>1. slots'[s] = slots[s] /\ (s <= n + 1 <=> s <= n) BY <2>0, <3>3, <4>1, <4>3, SMT
        <5> QED BY <3>2, <5>1
      <4> QED BY <4>2, <4>3
    <3>5. CASE n + 1 \notin DOMAIN slots
      <4>1. slots' = slots BY <2>1, <3>5
      <4>2. s <= n /\ s <= n + 1 BY <2>0, <3>3, <3>5, SMT
      <4> QED BY <3>2, <4>1, <4>2, SMT
    <3> QED BY <3>4, <3>5
  <2>10. DOMAIN slots' = DOMAIN WeakSlots BY <2>0, <2>1
  <2>11. /\ x \in Loc /\ pc[w] \notin BarrierLoc
    BY <2>2, SectionFacts
  <2> HIDE DEF n, x
  <2>12. ASSUME Now(w)' = x, Now(Main)' \in Mourning PROVE Cleared'
    <3>1. \A o : Weak(o)' <=> Weak(o) BY <2>1, SMT DEF Weak, M!Weak
    <3>2. \A o \in cleared' : o \in marked' /\ Weak(o)' /\ heap'.key[o] \notin live'
      BY <2>1, <3>1, ZenonT(30) DEF PlaceInv, Cleared
    <3>3. ASSUME Now(Main)' \in {"end"} \cup Ended
          PROVE  \A s \in DOMAIN slots : s <= n
      <4>1. CASE w = Main
        <5>1. x = "end" BY <2>2, <2>12, <3>3, <4>1, SMT DEF Mourning, Ended
        <5> QED BY <2>8, <5>1, SMT
      <4>2. CASE w # Main
        <5>1. Now(Main)' = Now(Main) BY <2>1, <2>11, <4>2, StepNow, MainIsWorker, ZenonT(30)
        <5> QED BY <3>3, <5>1, ZenonT(30) DEF PlaceInv, Cleared, n
      <4> QED BY <4>1, <4>2, SMT
    <3>4. (\A s \in DOMAIN slots : s <= n) => \A s \in DOMAIN slots' : s <= n + 1
      BY <2>0, <2>10, SMT
    <3> QED BY <2>1, <2>9, <2>10, <2>12, <3>2, <3>3, <3>4 DEF Cleared
  <2>13. \A v \in Worker \ {w} : Kept(v) BY <2>1 DEF Kept
  <2> QED BY <2>1, <2>2, <2>4, <2>7, <2>12, <2>13, <1>LateStep, ZenonT(30)
\* A helper that comes too late, and the steps after the last barrier.
<1>OutsidePlace.
      ASSUME BarrierInv, TraceInv, PlaceInv, NEW w \in Worker,
             \/ Enter(w) /\ barrier.generation # 0
             \/ Leave(w)
      PROVE  PlaceInv'
  <2> USE <1>OutsidePlace
  <2> USE DEF shareVars, heapVars, workVars, blockVars, sliceVars, Goto
  <2>0. pc \in [Worker -> Loc] /\ ArrivedAt(w) /\ Leftover(w)
    BY DEF BarrierInv, SyncTypes, PlaceInv
  <2>1. PICK x \in {"release", "gone", "finalize"} :
          /\ pc' = [pc EXCEPT ![w] = x]
          /\ pc[w] \in {"queued", "release"}
          /\ w = Main => pc[w] = "release" /\ x = "finalize"
    BY <2>0 DEF Enter, TryEnter, MayEnter, Leave, Release, ArrivedAt
  <2>2. /\ UNCHANGED <<heap, live, marked, deferred, local_deferred, global_list_, scan,
                       acquire, pending, root_slices_started_, delayed_, cleared,
                       stack, local_input_, local_output_, arrived, debug, slots,
                       weak_slices_started_, more_to_mark>>
        /\ barrier'.generation = barrier.generation
    <3>1. CASE Enter(w) /\ barrier.generation # 0 BY <3>1 DEF Enter, TryEnter, MayEnter
    <3>2. CASE Leave(w) BY <3>2 DEF Leave, Release, BarrierInv, SyncTypes
    <3> QED BY <3>1, <3>2
  <2>3. x \in Loc /\ pc[w] \notin BarrierLoc
    BY <2>1 DEF Loc, Sections, Ended, Outside, BarrierLoc
  <2>4. /\ Now(w) = pc[w] /\ Now(w)' = x /\ \A v \in Worker \ {w} : Now(v)' = Now(v)
    BY <2>1, <2>2, <2>3, StepNow, ZenonT(30)
  <2>5. \A v \in Worker \ {w} : Untouched(v) BY <2>2, <2>4 DEF Untouched, Kept
  <2>6. /\ \A v \in Worker \ {w} : Leftover(v)' /\ (WillCheck(v)' <=> WillCheck(v))
        /\ ~WillCheck(w) /\ ~WillCheck(w)' /\ Now(w) \notin Judging /\ Now(w)' \notin Judging
    BY <2>1, <2>2, <2>4, <2>5, LeftoverSame, ZenonT(30) DEF WillCheck, Judging
  <2>7. Leftover(w)'
    <3>1. \A o : (Is(o, "code")' <=> Is(o, "code")) /\ (Is(o, "entry")' <=> Is(o, "entry"))
      BY <2>2 DEF Is
    <3> QED BY <2>0, <2>1, <2>2, <2>4, <2>6, <3>1, ZenonT(30) DEF Leftover, Ended
  <2>8. Now(Main)' = Now(Main) \/ (Now(Main) \in Ended /\ Now(Main)' \in Ended)
    BY <2>1, <2>4, MainIsWorker DEF Ended
  <2>9. MainHasDone' BY <2>2, <2>8, ZenonT(30) DEF PlaceInv, MainHasDone, Ended
  <2>10. stack' # {} => \E v \in Worker : WillCheck(v)'
    BY <2>2, <2>6 DEF PlaceInv
  <2>11. \A o : /\ Is(o, "property")' <=> Is(o, "property")
                /\ Dead(o)' <=> Dead(o)
                /\ Weak(o)' <=> Weak(o)
    BY <2>2, ZenonT(30) DEF Is, Dead, IsMarked, Weak, M!Weak
  <2>12. Judged'
    <3>1. \A v \in Worker : Now(v)' \in Judging <=> Now(v) \in Judging BY <2>4, <2>6
    <3> QED BY <2>2, <2>11, <3>1, ZenonT(30) DEF PlaceInv, Judged
  <2>13. Complete'
    <3>1. \A o : Held(o)' <=> Held(o) BY <2>2 DEF Held
    <3>2. Stopping' <=> Stopping BY <2>8 DEF Stopping
    <3> QED BY <2>2, <2>11, <3>1, <3>2, ZenonT(30) DEF PlaceInv, Complete
  <2>14. Cleared' BY <2>2, <2>8, <2>11, ZenonT(30) DEF PlaceInv, Cleared
  <2> QED BY <2>6, <2>7, <2>9, <2>10, <2>12, <2>13, <2>14, SMT DEF PlaceInv
<1>FinalizePlace.
      ASSUME BarrierInv, TraceInv, PlaceInv, FinalizeMarking
      PROVE  PlaceInv'
  <2> USE <1>FinalizePlace
  <2> USE DEF shareVars, heapVars, blockVars, Goto
  <2> DEFINE entries == UNION {delayed_[w] : w \in Worker}
  <2>0. /\ pc \in [Worker -> Loc] /\ delayed_ \in [Worker -> SUBSET Obj] /\ heap \in Heaps
        /\ root_slices_started_ \in Nat
    BY DEF TraceInv, DataTypes, BarrierInv, SyncTypes
  <2>1. /\ pc[Main] = "finalize" /\ pc' = [pc EXCEPT ![Main] = "done"]
        /\ UNCHANGED <<heap, live, marked, deferred, local_deferred, global_list_, scan,
                       acquire, pending, root_slices_started_, slots, weak_slices_started_,
                       stack, local_input_, local_output_, barrier, arrived, debug,
                       more_to_mark>>
        /\ cleared' = cleared \cup {o \in entries : Dead(o)}
        /\ \A v \in Worker : delayed_'[v] = {}
    BY DEF FinalizeMarking, None
  <2>2. "done" \in Loc /\ pc[Main] \notin BarrierLoc
    BY <2>1 DEF Loc, Sections, Ended, BarrierLoc
  <2>3. /\ Now(Main) = "finalize" /\ Now(Main)' = "done"
        /\ \A v \in Worker \ {Main} : Now(v)' = Now(v)
    BY <2>1, <2>2, StepNow, MainIsWorker, ZenonT(30)
  <2>4. marked = live BY <2>3, MarkedIsLive DEF Ended
  <2>5. \A v \in Worker : Now(v) \in Ended \cup {"queued", "gone"} BY <2>3, AllEnded DEF Ended
  <2>6. \A v \in Worker : Now(v)' \in Ended \cup {"queued", "gone"} BY <2>3, <2>5 DEF Ended
  <2>7. \A v \in Worker : ~WillCheck(v) /\ ~WillCheck(v)'
    BY <2>5, <2>6, ZenonT(30) DEF WillCheck, Ended
  <2>8. \A o \in entries : o \in marked /\ Weak(o)
    <3>1. \A o \in entries : o \in Obj /\ Listed(o) BY <2>0 DEF Listed
    <3> QED BY <3>1 DEF TraceInv, ListedOnce
  <2> HIDE DEF entries
  <2>9. \A v \in Worker : Leftover(v)'
    <3>1. SUFFICES ASSUME NEW v \in Worker PROVE Leftover(v)' OBVIOUS
    <3>2. Leftover(v) BY DEF PlaceInv
    <3>3. /\ scan[v] = {} /\ acquire[v] = {} /\ pending[v] = {} /\ local_deferred[v] = {}
          /\ local_input_[v] \cup local_output_[v] = {}
      BY <2>5, <2>7, <3>2, ZenonT(30) DEF Leftover, Ended
    <3> QED BY <2>1, <2>6, <3>3, ZenonT(30) DEF Leftover, Ended
  <2>10. MainHasDone' BY <2>1, <2>3 DEF PlaceInv, MainHasDone
  <2>11. stack' = {} BY <2>1, <2>7 DEF PlaceInv
  <2>12. Judged'
    <3>1. \A v \in Worker : Now(v)' \notin Judging BY <2>6 DEF Judging, Ended
    <3> QED BY <3>1 DEF Judged
  <2>13. Complete' BY <2>1, <2>4 DEF Complete
  <2>14. Cleared'
    <3>1. \A o \in cleared' : o \in marked /\ Weak(o) /\ heap.key[o] \notin live
      BY <2>1, <2>4, <2>8 DEF PlaceInv, Cleared, Dead, IsMarked
    <3>2. \A o : Weak(o)' <=> Weak(o) BY <2>1 DEF Weak, M!Weak
    <3>3. \A o \in cleared' : o \in marked' /\ Weak(o)' /\ heap'.key[o] \notin live'
      BY <2>1, <3>1, <3>2
    <3> QED BY <2>1, <2>3, <3>3 DEF PlaceInv, Cleared, Ended
  <2> QED BY <2>9, <2>10, <2>11, <2>12, <2>13, <2>14, SMT DEF PlaceInv
<1>1. ASSUME NEW w \in Worker, Launch(w) PROVE PlaceInv' BY <1>1, <1>LaunchPlace
<1>2. ASSUME NEW w \in Worker, Enter(w) PROVE PlaceInv' BY <1>2, <1>StartPlace, <1>OutsidePlace
<1>3. ASSUME NEW w \in Worker, WorkerStep(w) PROVE PlaceInv'
  <2>1. CASE Start(w) BY <2>1, <1>StartPlace
  <2>2. CASE MarkObject(w) BY <2>2, <1>MarkObjectPlace
  <2>3. CASE IterateRoots(w) BY <2>3, <1>IterateRootsPlace
  <2>4. CASE ProcessDeferredMarking(w, "deferred", "first") BY <2>4, <1>DeferredPlace
  <2>5. CASE ProcessMarkingStack(w) BY <2>5, <1>MarkingStackPlace
  <2>6. CASE \/ ProcessPendingWeakProperties(w, "first_weak", "again", "idle")
             \/ ProcessPendingWeakProperties(w, "weak", "again", "again")
    BY <2>6, <1>WeakPlace
  <2>7. CASE Idle(w) \/ Wake(w) BY <2>7, <1>WaitPlace
  <2>8. CASE \/ Check(w)
             \/ StartPending(w)
             \/ ProcessPendingWeakProperties(w, "pending", "announce", "announced")
             \/ Announce(w)
             \/ Decide(w)
    BY <2>8, <1>JudgingPlace
  <2>9. CASE ProcessDeferredMarking(w, "deferred2", "marked") BY <2>9, <1>LastDeferredPlace
  <2>10. CASE Mourn(w) BY <2>10, <1>MournPlace
  <2>11. CASE IterateWeakRoots(w) BY <2>11, <1>WeakRootsPlace
  <2>12. CASE Leave(w) BY <2>12, <1>OutsidePlace
  <2>13. CASE \/ SyncAt(w, "stopped", IF debug THEN "check" ELSE "begin_pending")
              \/ SyncAt(w, "checked", "begin_pending")
              \/ SyncAt(w, "announced", "decide")
              \/ SyncAt(w, "decided", IF more_to_mark[w] THEN "first" ELSE "deferred2")
              \/ SyncAt(w, "marked", "mourn")
              \/ SyncAt(w, "end", "release")
    <3>1. /\ pc[w] \in BarrierLoc /\ Sync(w, After(w))
          /\ UNCHANGED <<num_busy, asleep, blockVars, heapVars, workVars, sliceVars>>
      BY <2>13, SyncIsAfter
    <3> QED BY <3>1
  <2> QED BY <1>3, <2>1, <2>2, <2>3, <2>4, <2>5, <2>6, <2>7, <2>8, <2>9, <2>10, <2>11,
             <2>12, <2>13, ZenonT(30) DEF WorkerStep
<1>4. CASE FinalizeMarking BY <1>4, <1>FinalizePlace
<1>5. CASE Wakeup \/ UNCHANGED vars
  <2>1. UNCHANGED <<pc, barrier, arrived, blockVars, heapVars, workVars, sliceVars>>
    BY <1>5 DEF Wakeup, SpuriousWakeup, vars, shareVars
  <2>2. \A v \in Worker : Untouched(v)
    BY <2>1 DEF Untouched, Kept, Now, Released, After, blockVars, workVars, heapVars
  <2> QED BY <2>1, <2>2, PlaceUnchanged DEF blockVars, heapVars, workVars, sliceVars
<1> QED BY <1>1, <1>2, <1>3, <1>4, <1>5 DEF Next

LEMMA Counting == CardinalityFacts
<1> USE Zenon
<1>1. IsFiniteSet(Worker) /\ Cardinality(Worker) = NumTasks
  BY TasksAssumption, FS_Interval, SMT DEF Worker
<1>2. \A S : IsFiniteSet(S) => Cardinality(S) \in Nat BY FS_CardinalityType
<1>3. /\ Cardinality({}) = 0
      /\ \A S : IsFiniteSet(S) => (Cardinality(S) = 0 <=> S = {})
  BY FS_EmptySet
<1>4. /\ \A x : Cardinality({x}) = 1
      /\ \A S : IsFiniteSet(S) /\ Cardinality(S) = 1 => \E x : S = {x}
  BY FS_Singleton
<1>5. \A S, x : IsFiniteSet(S) /\ x \notin S => Cardinality(S \cup {x}) = Cardinality(S) + 1
  BY FS_AddElement
<1>6. \A S, x : IsFiniteSet(S) /\ x \in S => Cardinality(S \ {x}) = Cardinality(S) - 1
  BY FS_RemoveElement
<1>7. \A S : \A T \in SUBSET S :
        IsFiniteSet(S) => IsFiniteSet(T) /\ Cardinality(T) <= Cardinality(S)
  BY FS_Subset
<1> QED BY <1>1, <1>2, <1>3, <1>4, <1>5, <1>6, <1>7 DEF CardinalityFacts

\* The workers are always in the same section of RunEnteredIsolateGroup, the
\* ThreadBarrier counts those that take part, and num_busy those that are busy.
THEOREM WorkersKeepTogether == Spec => []BarrierInv
<1>1. Init => BarrierInv BY Counting, BarrierInit, Zenon
<1>2. BarrierInv /\ [Next]_vars => BarrierInv' BY Counting, BarrierNext, Zenon
<1> QED BY <1>1, <1>2, PTL DEF Spec

\* When the workers decide to stop, what they have found is closed: it holds all
\* that is live, and a property that is still delayed has a dead key.
LEMMA Completed ==
    ASSUME BarrierInv, TraceInv, PlaceInv, Main \in Part,
           \A v \in Part : Now(v) = "decided" /\ ~more_to_mark[v]
    PROVE  /\ \A o \in live : o \in marked \/ Held(o)
           /\ \A w \in Worker : \A o \in delayed_[w] :
                Is(o, "property") => heap.key[o] \notin live
<1> USE Zenon
<1>0. /\ heap \in Heaps /\ live = M!Live(heap) /\ delayed_ \in [Worker -> SUBSET Obj]
      /\ marked \subseteq Obj /\ local_deferred \in [Worker -> SUBSET Obj]
      /\ deferred \subseteq Obj /\ Now(Main) = "decided"
  BY DEF TraceInv, DataTypes
<1>1. ASSUME NEW v \in Worker
      PROVE  /\ Now(v) = "decided" \/ Now(v) \in Ended \cup {"queued", "gone"}
             /\ ~WillCheck(v)
  <2>1. Now(v) # "none" BY <1>0, NotNone
  <2>2. Now(v) = "decided" \/ Now(v) \in Ended \cup {"queued", "gone"}
    BY <2>1 DEF Part, Outside, Ended
  <2>3. Now(v) = "decided" => ~more_to_mark[v]
    <3>1. "decided" \notin Outside \cup Ended BY DEF Outside, Ended
    <3> QED BY <3>1 DEF Part
  <2> QED BY <2>2, <2>3 DEF WillCheck, Ended
<1>2. \A v \in Worker : /\ scan[v] = {} /\ acquire[v] = {} /\ pending[v] = {}
                        /\ local_input_[v] = {} /\ local_output_[v] = {}
                        /\ \A o \in local_deferred[v] : Is(o, "code")
  BY <1>1 DEF PlaceInv, Leftover, Ended
<1>3. /\ stack = {} /\ global_list_ = {} /\ deferred = {} /\ cleared = {}
      /\ \A s \in DOMAIN heap.roots : s <= root_slices_started_
  BY <1>0, <1>1, ZenonT(30) DEF PlaceInv, MainHasDone, Cleared, Mourning, Ended
<1>4. \A o : ~Gray(o) BY <1>2, <1>3 DEF Gray
<1>5. \A p : Known(p) <=> p \in marked \/ Held(p)
  <2>1. \A s \in DOMAIN heap.roots : s \in Nat /\ root_slices_started_ \in Nat
    BY <1>0, HeapFacts, SMT DEF TraceInv, DataTypes
  <2>2. \A s \in DOMAIN heap.roots : ~(s > root_slices_started_) BY <1>3, <2>1, SMT
  <2> QED BY <1>2, <2>2 DEF Known
<1>6. \A o : Held(o) => o \in Obj /\ Is(o, "code") BY <1>0, <1>2, <1>3 DEF Held
<1>7. ASSUME NEW w \in Worker, NEW o \in delayed_[w], Is(o, "property")
      PROVE  o \in Obj /\ ~Known(heap.key[o])
  <2>1. o \in Obj BY <1>0
  <2>2. Now(w) = "decided"
    <3>1. (\A x \in delayed_[w] : Is(x, "entry")) \/ Now(w) = "decided"
      BY <1>1 DEF PlaceInv, Leftover
    <3> QED BY <1>7, <3>1 DEF Is
  <2>3. \A v \in Worker : Now(v) \in Judging => ~more_to_mark[v]
    <3>1. \A v \in Worker : Now(v) \in Judging => Now(v) = "decided"
      BY <1>1 DEF Judging, Ended
    <3>2. "decided" \notin Outside \cup Ended BY DEF Outside, Ended
    <3> QED BY <3>1, <3>2 DEF Part
  <2>4. Dead(o) BY <1>7, <2>2, <2>3 DEF PlaceInv, Judged, Judging
  <2>5. ~Is(heap.key[o], "code") BY <1>0, <1>7, <2>1, HeapFacts
  <2> QED BY <1>5, <1>6, <2>1, <2>4, <2>5, ZenonT(30) DEF Dead, IsMarked
<1> DEFINE K == {p \in Obj : Known(p)}
<1>8. heap.marked \cup heap.deferred \cup M!Roots(heap) \subseteq K
  BY <1>0, HeapFacts DEF TraceInv, Traced
<1>9. ASSUME NEW o \in K, Is(o, "property") => heap.key[o] \in K
      PROVE  heap.ptr[o] \subseteq K
  <2>1. o \in Obj /\ heap.ptr[o] \subseteq Obj BY <1>0, HeapFacts
  <2>2. CASE Is(o, "code") BY <1>0, <2>1, <2>2, HeapFacts
  <2>3. CASE ~Is(o, "code")
    <3>1. o \in marked /\ ~Held(o) BY <1>5, <1>6, <2>3
    <3>2. Settled(o) BY <1>4, <3>1, ZenonT(30) DEF TraceInv, Traced
    <3>3. ~(Is(o, "property") /\ Listed(o))
      <4>1. SUFFICES ASSUME Is(o, "property"), Listed(o) PROVE FALSE OBVIOUS
      <4>2. PICK w \in Worker : o \in delayed_[w] BY <1>2, <1>3, <4>1 DEF Listed
      <4>3. ~Known(heap.key[o]) BY <1>7, <4>1, <4>2
      <4> QED BY <1>9, <4>1, <4>3
    <3>4. \A p \in heap.ptr[o] : Known(p) BY <1>3, <3>2, <3>3 DEF Settled
    <3> QED BY <2>1, <3>4
  <2> QED BY <2>2, <2>3
<1>10. ASSUME NEW o \in K, o \in heap.deferred
       PROVE  M!AllPtrs(heap, o) \subseteq K
  <2>1. o \in Obj /\ M!AllPtrs(heap, o) \subseteq Obj BY <1>0, HeapFacts
  <2>2. CASE Held(o)
    <3>1. M!AllPtrs(heap, o) = {} BY <1>0, <1>6, <2>1, <2>2, HeapFacts, ZenonT(30)
    <3> QED BY <3>1
  <2>3. CASE ~Held(o)
    <3>1. \A p \in M!AllPtrs(heap, o) : Known(p) BY <1>10, <2>3, ZenonT(30) DEF TraceInv, Traced
    <3> QED BY <2>1, <3>1
  <2> QED BY <2>2, <2>3
<1>11. M!Closed(heap, K) BY <1>9, <1>10 DEF M!Closed, Is
<1>12. K \in SUBSET Obj OBVIOUS
<1> HIDE DEF K
<1>13. live \subseteq K BY <1>0, <1>8, <1>11, <1>12, LiveFacts
<1>14. \A o \in live : Known(o) BY <1>13 DEF K
<1> QED BY <1>5, <1>7, <1>14

\* The barrier opens: all that take part move together.
LEMMA OpenPlace ==
    ASSUME BarrierInv, TraceInv, PlaceInv, NEW w \in Worker, pc[w] \in BarrierLoc,
           arrived[w] = -1, barrier.remaining = 1,
           UNCHANGED <<num_busy, asleep, blockVars, heapVars, workVars, sliceVars>>,
           \A v \in Part : Now(v)' = After(w),
           \A v \in Worker \ Part : Now(v)' = Now(v)
    PROVE  PlaceInv'
<1> USE Zenon
<1> USE DEF heapVars, workVars, blockVars, sliceVars
<1>1. /\ w \in Part /\ Main \in Part /\ \A v \in Part : Now(v) = pc[w]
      /\ \A v \in Part : pc[w] = "decided" => more_to_mark[v] = more_to_mark[w]
  BY Counting, LastArrives, MainTakesPart
<1>2. Now(Main) = pc[w] /\ Now(Main)' = After(w) BY <1>1
<1>3. \A v \in Worker : Kept(v) BY DEF Kept
<1>4. \A o : /\ Is(o, "property")' <=> Is(o, "property")
             /\ Is(o, "code")' <=> Is(o, "code")
             /\ Is(o, "entry")' <=> Is(o, "entry")
             /\ Dead(o)' <=> Dead(o)
             /\ Weak(o)' <=> Weak(o)
             /\ Held(o)' <=> Held(o)
  BY DEF Is, Dead, IsMarked, Weak, M!Weak, Held
<1>5. \A v \in Worker \ Part : Leftover(v)' /\ ~WillCheck(v)
                               /\ Now(v) \notin Judging /\ Now(v)' \notin Judging
  <2>1. SUFFICES ASSUME NEW v \in Worker \ Part
                 PROVE  Leftover(v)' /\ ~WillCheck(v)
                        /\ Now(v) \notin Judging /\ Now(v)' \notin Judging
    OBVIOUS
  <2>2. Untouched(v) BY <1>3 DEF Untouched
  <2>3. Now(v) \in Outside \cup Ended BY DEF Part
  <2> QED BY <2>2, <2>3, LeftoverSame, NoneChecks
<1>6. \A v \in Part : WillCheck(v) => WillCheck(v)'
  <2>1. SUFFICES ASSUME NEW v \in Part, WillCheck(v) PROVE WillCheck(v)' OBVIOUS
  <2>2. pc[w] \in {"announced", "decided"} /\ more_to_mark[v]
    BY <1>1, <2>1 DEF WillCheck, BarrierLoc
  <2>3. CASE pc[w] = "announced" BY <2>2, <2>3 DEF WillCheck, After
  <2>4. CASE pc[w] = "decided"
    <3>1. more_to_mark[w] BY <1>1, <2>2, <2>4
    <3> QED BY <2>4, <3>1 DEF WillCheck, After
  <2> QED BY <2>2, <2>3, <2>4
<1>7. \A v \in Part : Leftover(v)'
  <2>1. SUFFICES ASSUME NEW v \in Part PROVE Leftover(v)' OBVIOUS
  <2>2. v \in Worker /\ Leftover(v) /\ Now(v) = pc[w] BY <1>1, ZenonT(30) DEF Part, PlaceInv
  <2>3. scan'[v] = {} /\ acquire'[v] = {} /\ pending'[v] = {}
    BY <2>2, ZenonT(30) DEF Leftover, BarrierLoc
  <2>4. local_input_'[v] \cup local_output_'[v] # {} => WillCheck(v)'
    BY <1>6, <2>2 DEF Leftover
  <2>5. \A o \in local_deferred'[v] : Is(o, "code")' BY <1>4, <2>2 DEF Leftover, BarrierLoc
  <2>6. local_deferred'[v] # {} => After(w) \in {"check", "begin_pending", "decide", "first",
                                                 "deferred2"}
    BY <2>2 DEF Leftover, BarrierLoc, After, Mourning
  <2>7. After(w) \in {"queued", "gone", "weak_roots", "end"} \cup Ended =>
          \A o \in delayed_'[v] : Is(o, "entry")'
    BY <1>4, <2>2, ZenonT(30) DEF Leftover, BarrierLoc, After, Ended
  <2>8. {"check", "begin_pending", "decide", "first", "deferred2"}
          \cap ({"queued", "gone", "marked"} \cup Mourning \cup Ended) = {}
    BY DEF Mourning, Ended
  <2> QED BY <2>3, <2>4, <2>5, <2>6, <2>7, <2>8 DEF Leftover
<1>8. \A v \in Worker : Leftover(v)' BY <1>5, <1>7
<1>9. MainHasDone'
  <2>1. Now(Main) \notin {"launch", "start", "roots", "deferred"}
    BY <1>2 DEF BarrierLoc
  <2> QED BY <2>1 DEF PlaceInv, MainHasDone
<1>10. stack' # {} => \E v \in Worker : WillCheck(v)'
  BY <1>5, <1>6 DEF PlaceInv
<1>11. Judged'
  <2>1. CASE pc[w] = "announced"
    <3>1. \A v \in Worker : Now(v)' \in Judging <=> Now(v) \in Judging
      <4>1. After(w) \in Judging /\ pc[w] \in Judging BY <2>1 DEF After, Judging
      <4> QED BY <1>1, <1>5, <4>1
    <3> QED BY <1>4, <3>1, ZenonT(30) DEF PlaceInv, Judged
  <2>2. CASE pc[w] # "announced"
    <3>1. After(w) \notin Judging BY <2>2 DEF After, Judging
    <3>2. \A v \in Worker : Now(v)' \notin Judging BY <1>5, <3>1, ZenonT(30)
    <3> QED BY <3>2 DEF Judged
  <2> QED BY <2>1, <2>2
<1>12. Complete'
  <2>1. CASE pc[w] \in {"marked", "end"}
    <3>1. Stopping BY <1>2, <2>1, ZenonT(30) DEF Stopping, Deferring, Mourning
    <3> QED BY <1>4, <3>1, ZenonT(30) DEF PlaceInv, Complete
  <2>2. CASE pc[w] = "decided" /\ ~more_to_mark[w]
    <3>1. \A v \in Part : Now(v) = "decided" /\ ~more_to_mark[v] BY <1>1, <2>2
    <3>2. /\ \A o \in live : o \in marked \/ Held(o)
          /\ \A v \in Worker : \A o \in delayed_[v] :
               Is(o, "property") => heap.key[o] \notin live
      BY <1>1, <3>1, Completed
    <3> QED BY <1>4, <3>2, ZenonT(30) DEF Complete
  <2>3. CASE pc[w] \notin {"marked", "end"} /\ ~(pc[w] = "decided" /\ ~more_to_mark[w])
    <3>1. ~Stopping' BY <1>2, <2>3 DEF Stopping, After, BarrierLoc, Deferring, Mourning, Ended
    <3> QED BY <3>1 DEF Complete
  <2> QED BY <2>1, <2>2, <2>3
<1>13. Cleared'
  <2>1. cleared' # {} => Now(Main)' \in Mourning \cup Ended
    <3>1. cleared # {} => pc[w] = "end"
      BY <1>2, ZenonT(30) DEF PlaceInv, Cleared, Mourning, Ended, BarrierLoc
    <3> QED BY <1>2, <3>1, ZenonT(30) DEF After, Ended
  <2>2. Now(Main)' \in {"end"} \cup Ended => Now(Main) = "end"
    BY <1>2 DEF After, BarrierLoc, Ended
  <2> QED BY <1>4, <2>1, <2>2, ZenonT(30) DEF PlaceInv, Cleared
<1> QED BY <1>8, <1>9, <1>10, <1>11, <1>12, <1>13 DEF PlaceInv

LEMMA SyncPlace ==
    ASSUME BarrierInv, TraceInv, PlaceInv, NEW w \in Worker, pc[w] \in BarrierLoc,
           Sync(w, After(w)),
           UNCHANGED <<num_busy, asleep, blockVars, heapVars, workVars, sliceVars>>
    PROVE  PlaceInv'
<1> USE Zenon
<1> USE DEF Goto
<1>0. UNCHANGED <<debug, more_to_mark>> BY DEF heapVars, workVars
<1>1. CASE /\ arrived[w] = -1 /\ barrier.remaining = 1 /\ UNCHANGED arrived
           /\ barrier' = [barrier EXCEPT !.generation = @ + 1,
                                         !.remaining = barrier.participating]
           /\ pc' = [pc EXCEPT ![w] = After(w)]
  <2>1. /\ \A v \in Part : Now(v)' = After(w)
        /\ \A v \in Worker \ Part : Now(v)' = Now(v)
    BY <1>0, <1>1, Counting, SyncOpens, ZenonT(30)
  <2> QED BY <1>1, <2>1, OpenPlace
<1>2. CASE \/ /\ arrived[w] = -1
              /\ barrier.remaining # 1
              /\ barrier' = [barrier EXCEPT !.remaining = @ - 1]
              /\ arrived' = [arrived EXCEPT ![w] = barrier.generation]
              /\ UNCHANGED pc
           \/ /\ arrived[w] \notin {-1, barrier.generation}
              /\ arrived' = [arrived EXCEPT ![w] = -1]
              /\ pc' = [pc EXCEPT ![w] = After(w)]
              /\ UNCHANGED barrier
  <2>1. \A v \in Worker : Now(v)' = Now(v) BY <1>0, <1>2, Counting, SyncStays
  <2>2. \A v \in Worker : Untouched(v)
    BY <2>1, ZenonT(30) DEF Untouched, Kept, blockVars, workVars
  <2> QED BY <2>2, PlaceUnchanged DEF blockVars, heapVars, workVars, sliceVars
<1> QED BY <1>1, <1>2 DEF Sync

\* Every step keeps PlaceInv.
LEMMA PlaceNext ==
    ASSUME BarrierInv, TraceInv, PlaceInv, BarrierInv', [Next]_vars
    PROVE  PlaceInv'
<1>1. \A w \in Worker :
        (/\ pc[w] \in BarrierLoc /\ Sync(w, After(w))
         /\ UNCHANGED <<num_busy, asleep, blockVars, heapVars, workVars, sliceVars>>)
        => PlaceInv'
  BY SyncPlace, Zenon
<1> QED BY <1>1, PlaceSteps, Zenon

LEMMA PlaceInit == ASSUME Init PROVE PlaceInv
<1> USE DEF Init, ShareInit, None
<1>1. \A w \in Worker : Now(w) = IF w = Main THEN "launch" ELSE "none"
  BY Zenon DEF Now, Released
<1>2. \A w \in Worker : Leftover(w)
  <2>1. \A w \in Worker : /\ scan[w] = {} /\ acquire[w] = {} /\ pending[w] = {}
                          /\ local_input_[w] = {} /\ local_output_[w] = {}
    BY Zenon
  <2> QED BY <1>1, <2>1, ZenonT(30) DEF Leftover, Mourning, Ended
<1>3. MainHasDone BY <1>1, MainIsWorker, ZenonT(30) DEF MainHasDone
<1>4. WillCheck(Main) BY <1>1, MainIsWorker, ZenonT(30) DEF WillCheck
<1>5. Judged BY <1>1, ZenonT(30) DEF Judged, Judging
<1>6. Complete BY <1>1, MainIsWorker, ZenonT(30) DEF Complete, Stopping, Deferring, Mourning, Ended
<1>7. Cleared
  <2>1. \A s \in DOMAIN WeakSlots : ~(s <= 0) BY SlotFacts
  <2> QED BY <1>1, <2>1, MainIsWorker, ZenonT(30) DEF Cleared, Mourning, Ended
<1> QED BY <1>2, <1>3, <1>4, <1>5, <1>6, <1>7, MainIsWorker, ZenonT(30) DEF PlaceInv

\* Parallel marking loses no object, marks no dead one, and keeps its places.
THEOREM MarkingInvariant == Spec => []IInv
<1> USE Zenon
<1>1. Init => IInv BY Counting, BarrierInit, TraceInit, PlaceInit DEF IInv
<1>2. ~IsFull({})
  <2>1. Cardinality({}) = 0 BY FS_EmptySet
  <2> QED BY <2>1, BlockAssumption DEF IsFull
<1>3. IInv /\ [Next]_vars => IInv' BY <1>2, Counting, BarrierNext, TraceNext, PlaceNext DEF IInv, PlaceInv
<1> QED BY <1>1, <1>3, PTL DEF Spec

-----------------------------------------------------------------------------
(* What the invariant shows.                                               *)

\* num_busy counts the busy workers at every step, and the ASSERT of a DEBUG build
\* that it is 0 between the two barriers holds; all variables have their types.
THEOREM BusyCountIsExact == Spec => []NumBusyIsExact
<1> USE Zenon
<1>1. ASSUME IInv, debug \in Builds PROVE NumBusyIsExact
  <2>1. TypeOK
    <3>1. BarrierInv /\ TraceInv BY <1>1 DEF IInv
    <3>2. num_busy \in 0..NumTasks BY <3>1, Counting, BusyPositive
    <3>3. barrier.ref_count \in 0..NumTasks
      <4>1. Left \in SUBSET Worker BY DEF Left
      <4> QED BY <3>1, <4>1, Counting, FiniteWorkers, TasksAssumption, SMT DEF BarrierInv, CountInv
    <3>4. \A w \in Worker : arrived[w] \in -1..barrier.generation
      <4>1. barrier.generation \in Nat BY <3>1 DEF BarrierInv, SyncTypes
      <4> QED BY <3>1, <4>1, SMT DEF BarrierInv, ArrivedAt
    <3>5. \A w \in Worker :
            /\ local_input_[w] \subseteq Obj /\ local_output_[w] \subseteq Obj
            /\ local_deferred[w] \subseteq Obj /\ delayed_[w] \subseteq Obj
            /\ scan[w] \subseteq Obj /\ pending[w] \subseteq Obj
            /\ more_to_mark[w] \in BOOLEAN
      BY <3>1 DEF TraceInv, DataTypes, BarrierInv, SyncTypes
    <3>6. live \subseteq Obj BY <3>1, LiveFacts DEF TraceInv, DataTypes
    <3> QED BY <1>1, <3>1, <3>2, <3>3, <3>4, <3>5, <3>6, ZenonT(30)
            DEF TypeOK, TraceInv, DataTypes, BarrierInv, CountInv
  <2>2. num_busy = Cardinality({w \in Worker : Busy(w)})
    BY <1>1 DEF IInv, BarrierInv, BusyInv, BusyWorkers
  <2>3. ASSUME NEW w \in Worker, pc[w] = "check" PROVE num_busy = 0
    <3>1. BarrierInv BY <1>1 DEF IInv
    <3>2. pc[w] \in Checking /\ pc[w] \notin BarrierLoc BY <2>3 DEF Checking, BarrierLoc
    <3>3. \A v \in Worker : Now(v) \in Checking \cup Outside
      BY <3>1, <3>2, AllInSection, EarlyFacts
    <3>4. ASSUME NEW v \in Worker PROVE ~Busy(v)
      <4>1. pc[v] \notin BarrierLoc => pc[v] \in Checking \cup Outside
        BY <3>1, <3>3, NowIsPc
      <4>2. pc[v] \in {"announced", "decided"} => Now(v) \notin Checking \cup Outside
        BY DEF Now, After, Checking, Outside
      <4> QED BY <3>3, <4>1, <4>2 DEF Busy, BarrierLoc, Checking, Outside
    <3> QED BY <3>1, <3>4, Counting, BusyPositive
  <2> QED BY <2>1, <2>2, <2>3 DEF NumBusyIsExact
<1>2. Init => debug \in Builds BY DEF Init
<1>3. debug \in Builds /\ [Next]_vars => (debug \in Builds)'
  <2>1. ASSUME NEW w \in Worker, Launch(w) \/ Enter(w) \/ WorkerStep(w) PROVE debug' = debug
    BY <2>1, ZenonT(30) DEF heapVars, Launch, Enter, WorkerStep, Start, MarkObject, IterateRoots,
         ProcessDeferredMarking, Rescans, ProcessMarkingStack, ProcessPendingWeakProperties, Idle,
         Wake, SyncAt, Check, StartPending, Announce, Decide, Mourn, IterateWeakRoots, Leave
  <2> QED BY <2>1 DEF heapVars, Next, FinalizeMarking, Wakeup, vars
<1> QED BY <1>1, <1>2, <1>3, MarkingInvariant, PTL DEF Spec

\* When MarkObjects goes on after the last barrier no block is left anywhere, and
\* no helper uses num_busy or a visitor any more.
THEOREM StopsTogether == Spec => []WorkersStopTogether
<1>1. ASSUME IInv PROVE WorkersStopTogether
  <2> USE Zenon
  <2>0. BarrierInv /\ PlaceInv BY <1>1 DEF IInv
  <2>1. ASSUME pc[Main] \in {"finalize", "done"}
        PROVE  /\ Now(Main) = pc[Main]
               /\ \A w \in Worker : Now(w) \in Ended \cup {"queued", "gone"}
    <3>1. Now(Main) = pc[Main] BY <2>0, <2>1, NowIsPc, MainIsWorker DEF BarrierLoc
    <3> QED BY <2>0, <2>1, <3>1, AllEnded DEF Ended
  <2>2. ASSUME pc[Main] = "finalize"
        PROVE  /\ stack = {} /\ deferred = {} /\ global_list_ = {}
               /\ \A w \in Worker :
                    local_input_[w] \cup local_output_[w] \cup local_deferred[w] = {}
    <3>1. \A w \in Worker : Now(w) \in Ended \cup {"queued", "gone"} /\ ~WillCheck(w)
      BY <2>1, <2>2 DEF WillCheck, Ended
    <3>2. Now(Main) = "finalize" BY <2>1, <2>2
    <3> QED BY <2>0, <3>1, <3>2, ZenonT(30) DEF PlaceInv, Leftover, MainHasDone
  <2>3. ASSUME pc[Main] \in {"finalize", "done"}, NEW w \in Helper
        PROVE  pc[w] \in {"queued", "release", "gone"} \/ (pc[w] = "end" /\ arrived[w] # -1)
    <3>1. w \in Worker /\ w # Main BY DEF Helper
    <3>2. CASE Released(w)
      <4>1. pc[w] \in BarrierLoc /\ arrived[w] # -1
        BY <2>0, <3>1, <3>2 DEF Released, BarrierInv, ArrivedAt
      <4>2. After(w) \in Ended \cup {"queued", "gone"} BY <2>1, <2>3, <3>1, <3>2 DEF Now
      <4> QED BY <4>1, <4>2 DEF After, BarrierLoc, Ended
    <3>3. CASE ~Released(w)
      <4>1. pc[w] \in Ended \cup {"queued", "gone"} BY <2>1, <2>3, <3>1, <3>3 DEF Now
      <4> QED BY <2>0, <3>1, <4>1 DEF Ended, BarrierInv, ArrivedAt
    <3> QED BY <3>2, <3>3
  <2> QED BY <2>2, <2>3, ZenonT(30) DEF WorkersStopTogether
<1> QED BY <1>1, MarkingInvariant, PTL

\* A weak object is never on two delayed lists.
THEOREM WeakObjectsDelayedOnce == Spec => []DelayedOnce
<1>1. ASSUME IInv PROVE DelayedOnce
  <2> USE Zenon
  <2>1. SUFFICES ASSUME NEW o \in Obj
                 PROVE  Cardinality({w \in Worker : o \in delayed_[w] \cup pending[w]})
                          + Cardinality({global_list_} \cap {S \in SUBSET Obj : o \in S}) <= 1
    BY DEF DelayedOnce
  <2> DEFINE A == {w \in Worker : o \in delayed_[w] \cup pending[w]}
             B == {global_list_} \cap {S \in SUBSET Obj : o \in S}
  <2>2. ListedOnce BY <1>1 DEF IInv, TraceInv
  <2>3. \A v, w \in A : v = w BY <2>2 DEF ListedOnce
  <2>4. A = {} \/ \E w \in Worker : A = {w} BY <2>3
  <2>5. o \in global_list_ => A = {} BY <2>2 DEF ListedOnce
  <2>6. B = {} \/ (o \in global_list_ /\ B = {global_list_}) OBVIOUS
  <2>7. Cardinality({}) = 0 BY FS_EmptySet
  <2>8. Cardinality({global_list_}) = 1 /\ \A w \in Worker : Cardinality({w}) = 1
    BY FS_Singleton
  <2> HIDE DEF A, B
  <2>9. Cardinality(A) + Cardinality(B) <= 1
    <3>1. CASE B = {}
      <4>1. Cardinality(A) \in {0, 1} BY <2>4, <2>7, <2>8
      <4>2. Cardinality(B) = 0 BY <2>7, <3>1
      <4> QED BY <4>1, <4>2, SMT
    <3>2. CASE o \in global_list_ /\ B = {global_list_}
      <4>1. Cardinality(A) = 0 BY <2>5, <2>7, <3>2
      <4>2. Cardinality(B) = 1 BY <2>8, <3>2
      <4> QED BY <4>1, <4>2, SMT
    <3> QED BY <2>6, <3>1, <3>2
  <2> QED BY <2>9 DEF A, B
<1> QED BY <1>1, MarkingInvariant, PTL

\* The collection is over: nothing is marked or delayed any more.
LEMMA DoneStep ==
    ASSUME IInv, pc[Main] = "done", [Next]_vars
    PROVE  pc'[Main] = "done" /\ UNCHANGED <<live, marked, delayed_>>
<1> USE Zenon
<1> USE DEF heapVars, workVars, sliceVars, Goto
<1>0. BarrierInv /\ PlaceInv /\ pc \in [Worker -> Loc] BY DEF IInv, BarrierInv, SyncTypes
<1>1. Now(Main) = "done" BY <1>0, NowIsPc, MainIsWorker DEF BarrierLoc
<1>2. \A w \in Worker : Now(w) \in Ended \cup {"queued", "gone"}
  BY <1>0, <1>1, AllEnded DEF Ended
<1>3. ASSUME NEW w \in Worker, Launch(w) PROVE FALSE BY <1>3 DEF Launch
<1>4. ASSUME NEW w \in Worker, Enter(w)
      PROVE  pc'[Main] = "done" /\ UNCHANGED <<live, marked, delayed_>>
  <2>1. w # Main BY <1>4 DEF Enter
  <2> QED BY <1>0, <1>4, <2>1, MainIsWorker DEF Enter, TryEnter
<1>5. ASSUME NEW w \in Worker, WorkerStep(w)
      PROVE  pc'[Main] = "done" /\ UNCHANGED <<live, marked, delayed_>>
  <2>1. CASE \/ SyncAt(w, "stopped", IF debug THEN "check" ELSE "begin_pending")
             \/ SyncAt(w, "checked", "begin_pending")
             \/ SyncAt(w, "announced", "decide")
             \/ SyncAt(w, "decided", IF more_to_mark[w] THEN "first" ELSE "deferred2")
             \/ SyncAt(w, "marked", "mourn")
             \/ SyncAt(w, "end", "release")
    <3>1. pc[w] \in BarrierLoc /\ Sync(w, After(w)) /\ UNCHANGED <<live, marked, delayed_>>
      BY <2>1, SyncIsAfter, ZenonT(30)
    <3>2. w # Main BY <3>1 DEF BarrierLoc
    <3> QED BY <1>0, <3>1, <3>2, MainIsWorker DEF Sync
  <2>2. CASE Leave(w)
    <3>1. w # Main BY <2>2 DEF Leave
    <3> QED BY <1>0, <2>2, <3>1, MainIsWorker DEF Leave, Release
  <2>3. CASE MarkObject(w)
    <3>1. scan[w] # {} BY <2>3 DEF MarkObject
    <3>2. Now(w) \in {"roots", "deferred", "drain", "first_weak", "weak", "pending"}
      BY <1>0, <3>1 DEF PlaceInv, Leftover
    <3> QED BY <1>2, <3>2 DEF Ended
  <2>4. ASSUME pc[w] \in {"start", "roots", "deferred", "first", "drain", "again",
                          "first_weak", "weak", "idle", "waiting", "check",
                          "begin_pending", "pending", "announce", "decide", "deferred2",
                          "mourn", "weak_roots"}
        PROVE  FALSE
    <3>1. Now(w) = pc[w] BY <1>0, <2>4, NowIsPc DEF BarrierLoc
    <3> QED BY <1>2, <2>4, <3>1 DEF Ended
  <2> QED BY <1>5, <2>1, <2>2, <2>3, <2>4, ZenonT(30)
          DEF WorkerStep, Start, IterateRoots, ProcessDeferredMarking, Rescans, ProcessMarkingStack,
              ProcessPendingWeakProperties, Idle, Wake, Check, StartPending, Announce,
              Decide, Mourn, IterateWeakRoots, At
<1>6. CASE FinalizeMarking BY <1>6 DEF FinalizeMarking
<1>7. CASE Wakeup \/ UNCHANGED vars BY <1>7 DEF Wakeup, SpuriousWakeup, vars
<1> QED BY <1>3, <1>4, <1>5, <1>6, <1>7 DEF Next

\* Only FinalizeMarking ends the collection.
LEMMA FinishesOnce ==
    ASSUME IInv, pc[Main] # "done", [Next]_vars, ~FinalizeMarking
    PROVE  pc'[Main] # "done"
<1> USE Zenon
<1> USE DEF Goto
<1>0. pc \in [Worker -> Loc] BY DEF IInv, BarrierInv, SyncTypes
<1>1. ASSUME NEW w \in Worker, NEW l, l # "done", pc' = [pc EXCEPT ![w] = l]
      PROVE  pc'[Main] # "done"
  BY <1>0, <1>1, MainIsWorker
<1>2. ASSUME NEW w \in Worker, Launch(w) PROVE pc'[Main] # "done"
  <2>1. \/ pc' = [pc EXCEPT ![w] = "start"] \/ pc' = [pc EXCEPT ![w] = "queued"]
    BY <1>2 DEF Launch
  <2> QED BY <1>1, <2>1
<1>3. ASSUME NEW w \in Worker, Enter(w) PROVE pc'[Main] # "done"
  BY <1>1, <1>3 DEF Enter, TryEnter
<1>4. ASSUME NEW w \in Worker, WorkerStep(w) PROVE pc'[Main] # "done"
  <2>1. CASE \/ SyncAt(w, "stopped", IF debug THEN "check" ELSE "begin_pending")
             \/ SyncAt(w, "checked", "begin_pending")
             \/ SyncAt(w, "announced", "decide")
             \/ SyncAt(w, "decided", IF more_to_mark[w] THEN "first" ELSE "deferred2")
             \/ SyncAt(w, "marked", "mourn")
             \/ SyncAt(w, "end", "release")
    <3>1. pc[w] \in BarrierLoc /\ Sync(w, After(w)) BY <2>1, SyncIsAfter, ZenonT(30)
    <3>2. After(w) # "done" BY DEF After
    <3>3. UNCHANGED pc \/ pc' = [pc EXCEPT ![w] = After(w)] BY <3>1 DEF Sync
    <3> QED BY <1>1, <3>2, <3>3
  <2>2. CASE \/ Start(w) \/ MarkObject(w) \/ IterateRoots(w) \/ Check(w) \/ StartPending(w)
             \/ Announce(w) \/ Decide(w) \/ Mourn(w)
    BY <1>1, <2>2, ZenonT(30) DEF Start, MarkObject, IterateRoots, Check, CheckedSync, StartPending,
         Announce, Decide, AfterDecision, Mourn
  <2>3. CASE \/ ProcessDeferredMarking(w, "deferred", "first")
             \/ ProcessDeferredMarking(w, "deferred2", "marked")
    BY <1>1, <2>3 DEF ProcessDeferredMarking, Rescans
  <2>4. CASE ProcessMarkingStack(w)
    <3>1. \E l \in {"drain", "idle", "first_weak", "weak"} : pc' = [pc EXCEPT ![w] = l]
      BY <2>4 DEF ProcessMarkingStack
    <3> QED BY <1>1, <3>1
  <2>5. CASE \/ ProcessPendingWeakProperties(w, "first_weak", "again", "idle")
             \/ ProcessPendingWeakProperties(w, "weak", "again", "again")
             \/ ProcessPendingWeakProperties(w, "pending", "announce", "announced")
    <3>1. UNCHANGED pc \/ \E l \in {"again", "idle", "announce", "announced"} :
                            pc' = [pc EXCEPT ![w] = l]
      BY <2>5, ZenonT(30) DEF ProcessPendingWeakProperties
    <3> QED BY <1>1, <3>1
  <2>6. CASE Idle(w) \/ Wake(w)
    <3>1. \E l \in {"first", "stopped", "waiting"} : pc' = [pc EXCEPT ![w] = l]
      BY <2>6 DEF Idle, Wake, WaitForWork, WaitForWorkWake, TakeBlockOrWait
    <3> QED BY <1>1, <3>1
  <2>7. CASE IterateWeakRoots(w) BY <1>1, <2>7 DEF IterateWeakRoots, LastSync
  <2>8. CASE Leave(w)
    <3>1. \E l \in {"finalize", "gone"} : pc' = [pc EXCEPT ![w] = l]
      BY <2>8, ZenonT(30) DEF Leave, Release
    <3> QED BY <1>1, <3>1
  <2> QED BY <1>4, <2>1, <2>2, <2>3, <2>4, <2>5, <2>6, <2>7, <2>8, ZenonT(30) DEF WorkerStep
<1>5. CASE Wakeup \/ UNCHANGED vars BY <1>5 DEF Wakeup, SpuriousWakeup, vars
<1> QED BY <1>2, <1>3, <1>4, <1>5 DEF Next

\* A delayed property has a dead key when it is mourned (RELEASE_ASSERT in
\* MournWeakProperties); at the end the weak objects that were cleared are the live
\* ones whose key, target or value is dead, and the weak slots hold what is live.
THEOREM ClearsWeakObjects == Spec => []WeakObjectsCleared
<1> USE Zenon
<1> DEFINE Finalized == pc[Main] = "done" => \A w \in Worker : delayed_[w] = {}
<1>1. Init => Finalized BY MainIsWorker DEF Init
<1>2. ASSUME IInv, Finalized, [Next]_vars PROVE Finalized'
  <2>1. CASE pc[Main] = "done" BY <1>2, <2>1, DoneStep
  <2>2. CASE pc[Main] # "done" /\ FinalizeMarking BY <2>2 DEF FinalizeMarking, None
  <2>3. CASE pc[Main] # "done" /\ ~FinalizeMarking
    <3>1. pc'[Main] # "done" BY <1>2, <2>3, FinishesOnce
    <3> QED BY <3>1
  <2> QED BY <2>1, <2>2, <2>3
<1>3. ASSUME IInv, Finalized PROVE WeakObjectsCleared
  <2>0. BarrierInv /\ TraceInv /\ PlaceInv BY <1>3 DEF IInv
  <2>1. ASSUME NEW w \in Worker, pc[w] = "mourn", NEW o \in delayed_[w], Is(o, "property")
        PROVE  Dead(o)
    <3>1. Now(w) = "mourn" BY <2>0, <2>1, NowIsPc DEF BarrierLoc
    <3>2. Mourning \in Sections \ {Ended} /\ "mourn" \in Mourning
      <4>1. "mourn" \in Mourning /\ "mourn" \notin Ended BY DEF Mourning, Ended
      <4> QED BY <4>1 DEF Sections
    <3>3. Now(Main) \in Mourning BY <2>0, <3>1, <3>2, NowSection
    <3>4. heap.key[o] \notin live
      BY <2>0, <2>1, <3>3 DEF PlaceInv, Complete, Stopping
    <3>5. marked = live BY <2>0, <3>3, MarkedIsLive
    <3> QED BY <3>4, <3>5 DEF Dead, IsMarked
  <2>2. ASSUME pc[Main] = "done"
        PROVE  /\ cleared = {o \in live : M!Weak(heap, o) /\ heap.key[o] \notin live}
               /\ \A s \in DOMAIN slots : slots[s] = WeakSlots[s] \cap live
    <3>1. Now(Main) = "done" BY <2>0, <2>2, NowIsPc, MainIsWorker DEF BarrierLoc
    <3>2. marked = live BY <2>0, <3>1, MarkedIsLive DEF Ended
    <3>3. \A s \in DOMAIN slots : slots[s] = WeakSlots[s] \cap live
      BY <2>0, <3>1, ZenonT(30) DEF PlaceInv, Cleared, Ended
    <3>4. \A o \in cleared : o \in live /\ M!Weak(heap, o) /\ heap.key[o] \notin live
      BY <2>0, <3>2 DEF PlaceInv, Cleared, Weak
    <3>5. ASSUME NEW o \in live, M!Weak(heap, o), heap.key[o] \notin live
          PROVE  o \in cleared
      <4>1. \A w \in Worker : Now(w) \in Ended \cup {"queued", "gone"} /\ ~WillCheck(w)
        BY <2>0, <3>1, AllEnded DEF WillCheck, Ended
      <4>2. /\ stack = {} /\ deferred = {} /\ global_list_ = {}
            /\ \A w \in Worker : /\ local_input_[w] = {} /\ local_output_[w] = {}
                                 /\ local_deferred[w] = {} /\ pending[w] = {}
                                 /\ delayed_[w] = {}
        BY <1>3, <2>0, <2>2, <3>1, <4>1 DEF PlaceInv, Leftover, MainHasDone, Ended
      <4>3. ~Gray(o) /\ ~Held(o) /\ ~Listed(o) BY <4>2 DEF Gray, Held, Listed
      <4>4. o \in marked /\ Settled(o) BY <2>0, <3>2, <4>3, ZenonT(30) DEF TraceInv, Traced
      <4>5. Known(heap.key[o]) \/ o \in cleared BY <3>5, <4>3, <4>4 DEF Settled, Weak
      <4>6. heap.key[o] \in Obj
        <5>1. o \in Obj BY <2>0, LiveFacts, ZenonT(30) DEF TraceInv, DataTypes
        <5> QED BY <2>0, <3>5, <5>1, HeapFacts, ZenonT(30) DEF TraceInv, DataTypes, Weak
      <4> QED BY <2>0, <3>5, <4>5, <4>6 DEF TraceInv, Sound
    <3> QED BY <3>3, <3>4, <3>5
  <2> QED BY <2>1, <2>2 DEF WeakObjectsCleared
<1> HIDE DEF Finalized
<1> QED BY <1>1, <1>2, <1>3, MarkingInvariant, PTL DEF Spec

-----------------------------------------------------------------------------
(* Refinement.                                                             *)

\* An object is marked only when it is live and not marked yet, one at a time.
LEMMA MarksOne ==
    ASSUME IInv, [Next]_vars, ~FinalizeMarking
    PROVE  /\ UNCHANGED live
           /\ marked' = marked \/ \E o \in live \ marked : marked' = marked \cup {o}
<1> USE Zenon
<1> USE DEF heapVars, workVars, sliceVars
<1>0. /\ TraceInv /\ scan \in [Worker -> SUBSET Obj] /\ acquire \in [Worker -> SUBSET Obj]
      /\ \A p \in Obj : Known(p) => p \in live
  BY DEF IInv, TraceInv, DataTypes, Sound
<1>1. ASSUME NEW w \in Worker, MarkObject(w)
      PROVE  marked' = marked \/ \E o \in live \ marked : marked' = marked \cup {o}
  <2>1. PICK o \in scan[w] : marked' = marked \/ (~IsMarked(o) /\ marked' = marked \cup {o})
    BY <1>1 DEF MarkObject
  <2>2. o \in live BY <1>0, ZenonT(30) DEF Known
  <2> QED BY <2>1, <2>2, ZenonT(30) DEF IsMarked
<1>2. ASSUME NEW w \in Worker, acquire[w] # {}, marked' = marked \cup acquire[w]
      PROVE  marked' = marked \/ \E o \in live \ marked : marked' = marked \cup {o}
  <2>1. PICK o : o \in acquire[w] BY <1>2, ZenonT(30)
  <2>2. acquire[w] = {o} /\ o \in live BY <1>0, <2>1, ZenonT(30) DEF TraceInv, Traced, Known
  <2> QED BY <1>2, <2>2, ZenonT(30)
<1>3. ASSUME NEW w \in Worker, NEW l, NEW n, ProcessDeferredMarking(w, l, n)
      PROVE  marked' = marked \/ (acquire[w] # {} /\ marked' = marked \cup acquire[w])
  BY <1>3 DEF ProcessDeferredMarking, Rescans
<1>4. ASSUME NEW w \in Worker, Launch(w) \/ Enter(w) \/ WorkerStep(w)
      PROVE  /\ UNCHANGED live
             /\ \/ marked' = marked
                \/ MarkObject(w)
                \/ ProcessDeferredMarking(w, "deferred", "first")
                \/ ProcessDeferredMarking(w, "deferred2", "marked")
  <2>1. UNCHANGED live
    BY <1>4, ZenonT(30) DEF Launch, Enter, WorkerStep, Start, MarkObject, IterateRoots,
         ProcessDeferredMarking, Rescans, ProcessMarkingStack, ProcessPendingWeakProperties, Idle,
         Wake, SyncAt, Check, StartPending, Announce, Decide, Mourn, IterateWeakRoots, Leave
  <2>2. \/ marked' = marked
        \/ MarkObject(w)
        \/ ProcessDeferredMarking(w, "deferred", "first")
        \/ ProcessDeferredMarking(w, "deferred2", "marked")
    BY <1>4, ZenonT(30) DEF Launch, Enter, WorkerStep, Start, IterateRoots, ProcessMarkingStack,
         ProcessPendingWeakProperties, Idle, Wake, SyncAt, Check, StartPending, Announce,
         Decide, Mourn, IterateWeakRoots, Leave
  <2> QED BY <2>1, <2>2
<1>5. CASE Wakeup \/ UNCHANGED vars BY <1>5 DEF Wakeup, vars
<1> QED BY <1>1, <1>2, <1>3, <1>4, <1>5, ZenonT(30) DEF Next

\* Parallel marking implements the safety part of MarkingSpec: no dead object is
\* ever marked, and when MarkObjects is done every live object is marked.
THEOREM MarksWhatIsLive == Spec => M!Safety
<1>1. Init => M!Init
  <2> USE Zenon
  <2>1. SUFFICES ASSUME Init PROVE M!Init OBVIOUS
  <2>2. TraceInv BY <2>1, TraceInit
  <2>3. live \subseteq Obj BY <2>2, LiveFacts, ZenonT(30) DEF TraceInv, DataTypes
  <2>4. marked \subseteq live BY <2>2 DEF TraceInv, DataTypes, Sound, Known
  <2>5. pc[Main] # "done" BY <2>1, MainIsWorker DEF Init
  <2> QED BY <2>3, <2>4, <2>5 DEF M!Init
<1>2. ASSUME IInv, [Next]_vars PROVE [M!Mark \/ M!Finish]_(M!vars)
  <2> USE Zenon
  <2>1. CASE pc[Main] = "done"
    <3>1. pc'[Main] = "done" /\ UNCHANGED <<live, marked>> BY <1>2, <2>1, DoneStep
    <3> QED BY <2>1, <3>1 DEF M!vars
  <2>2. CASE pc[Main] # "done" /\ ~FinalizeMarking
    <3>1. pc'[Main] # "done" BY <1>2, <2>2, FinishesOnce
    <3>2. /\ UNCHANGED live
          /\ marked' = marked \/ \E o \in live \ marked : marked' = marked \cup {o}
      BY <1>2, <2>2, MarksOne
    <3>3. (pc'[Main] = "done") = (pc[Main] = "done") BY <2>2, <3>1
    <3>4. CASE marked' = marked BY <3>2, <3>3, <3>4 DEF M!vars
    <3>5. CASE \E o \in live \ marked : marked' = marked \cup {o}
      <4>1. M!Mark BY <2>2, <3>2, <3>3, <3>5 DEF M!Mark
      <4> QED BY <4>1
    <3> QED BY <3>2, <3>4, <3>5
  <2>3. CASE FinalizeMarking
    <3>0. BarrierInv /\ TraceInv /\ PlaceInv /\ pc \in [Worker -> Loc]
      BY <1>2 DEF IInv, BarrierInv, SyncTypes
    <3>1. /\ pc[Main] = "finalize" /\ pc'[Main] = "done" /\ UNCHANGED <<live, marked>>
      BY <2>3, <3>0, MainIsWorker DEF FinalizeMarking, Goto, heapVars
    <3>2. Now(Main) = "finalize" BY <3>0, <3>1, NowIsPc, MainIsWorker DEF BarrierLoc
    <3>3. marked = live BY <3>0, <3>2, MarkedIsLive DEF Ended
    <3>4. (pc'[Main] = "done") = TRUE BY <3>1
    <3>5. M!Finish BY <3>1, <3>3, <3>4 DEF M!Finish
    <3> QED BY <3>5
  <2> QED BY <2>1, <2>2, <2>3
<1> QED BY <1>1, <1>2, MarkingInvariant, PTL DEF Spec, M!Safety

=============================================================================
